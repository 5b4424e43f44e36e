---------------------------- MODULE OrderService ----------------------------
(***************************************************************************)
(* The whole life of orders: checkout, PayPal's webhook, refunds, and the  *)
(* admin's edits and deletes, all on the same rows.                        *)
(***************************************************************************)
EXTENDS PayPalCheckout, OrderRefund, OrderAdmin

serviceVars == <<storeVars, requestVars, adminRefundVars, adminVars>>

ServiceInit == StoreInit /\ RequestInit /\ RefundInit /\ AdminInit

ServiceNext ==
    \/ CheckoutNext /\ UNCHANGED <<adminRefundVars, adminVars>>
    \/ RefundNext /\ UNCHANGED <<requestVars, adminVars>>
    \/ AdminNext /\ UNCHANGED <<requestVars, adminRefundVars>>

ServiceSpec == ServiceInit /\ [][ServiceNext]_serviceVars

-----------------------------------------------------------------------------
(* Whatever requests, webhooks, edits and deletes interleave: a payment row *)
(* records a capture that PayPal completed for that very order.             *)
RecordedIsCaptured ==
    \A o \in Orders : \A p \in recorded[o] : paypal[p] = [order |-> o, state |-> "completed"]

(* "The browser never decides whether an order is paid": an order that      *)
(* counts as paid, or as paid and then refunded, had a completed capture,   *)
(* unless an admin said so.                                                 *)
PaidMeansCaptured ==
    \A o \in Orders : Exists(o) /\ order[o].payment \in {"paid"} \cup RefundStates =>
        \E p \in PayPalIds : paypal[p] = [order |-> o, state |-> "completed"]

(* "Refund states are written only by the PayPal refund endpoint so an      *)
(* admin edit cannot mark an order refunded without a provider result": no  *)
(* order is refunded, in full or in part, without a refund PayPal was asked *)
(* for.                                                                     *)
RefundStateHasRefund ==
    \A o \in Orders : Exists(o) /\ order[o].payment \in RefundStates =>
        \E r \in RefundIds : refunds[r] # NoRefund /\ refunds[r].order = o /\ settled[r] # "unasked"

(* A deleted order has no item rows left. *)
DeletedHasNoItems == \A o \in Orders : order[o] = Deleted => o \notin items
=============================================================================
