--------------------------- MODULE PayPalCheckout ---------------------------
(***************************************************************************)
(* From checkout to a paid order: CreateOrder (controllers/order.go), the  *)
(* PayPal create and capture endpoints and the webhook                     *)
(* (controllers/paypal_payment.go), with the customer and PayPal.          *)
(*                                                                         *)
(* Create and capture read the order, call PayPal and write, holding no    *)
(* lock in between, so any two requests interleave.  PayPal delivers the   *)
(* event of a completed capture until it is answered 200, and may deliver  *)
(* it again.  Each request id stands for one HTTP request.                 *)
(***************************************************************************)
EXTENDS PaymentStore

CONSTANTS
    Creates,        \* requests to /orders/:id/paypal/create
    Captures,       \* requests to /orders/:id/paypal/capture
    MaxDeliveries   \* bound on the deliveries of one webhook event

ASSUME DeliveriesAssumption == MaxDeliveries \in Nat \ {0}

VARIABLES
    checked,    \* orders whose request to CreateOrder has passed the stock check
    create,     \* per create request: phase, order, payment_id read, PayPal order made
    capture,    \* per capture request: phase, order, PayPal order
    delivered   \* per PayPal order: deliveries of its event answered 200

requestVars == <<checked, create, capture, delivered>>
checkoutVars == <<storeVars, requestVars>>

RequestTypeOK ==
    /\ checked \subseteq Orders
    /\ create \in [Creates -> [pc : {"idle", "read", "store", "done"}, order : Orders \cup {NoId},
                               seen : PayPalIds \cup {NoId}, new : PayPalIds \cup {NoId}]]
    /\ capture \in [Captures -> [pc : {"idle", "call", "finalize", "done"},
                                 order : Orders \cup {NoId}, id : PayPalIds \cup {NoId}]]
    /\ delivered \in [PayPalIds -> 0..MaxDeliveries]

RequestInit ==
    /\ checked = {}
    /\ create = [c \in Creates |-> [pc |-> "idle", order |-> NoId, seen |-> NoId, new |-> NoId]]
    /\ capture = [k \in Captures |-> [pc |-> "idle", order |-> NoId, id |-> NoId]]
    /\ delivered = [p \in PayPalIds |-> 0]

-----------------------------------------------------------------------------
(* Mutant: the stock is not looked at. *)
CheckNothing(o) ==
    /\ order[o] = Unplaced
    /\ o \notin checked
    /\ checked' = checked \cup {o}
    /\ UNCHANGED <<storeVars, create, capture, delivered>>

(* CreateOrder, first half: a plain read of the product, which reserves     *)
(* nothing and holds no lock.                                               *)
CheckStock(o) ==
    /\ order[o] = Unplaced
    /\ o \notin checked
    /\ stock >= Qty[o]
    /\ checked' = checked \cup {o}
    /\ UNCHANGED <<storeVars, create, capture, delivered>>

(* CreateOrder, second half: shipping and coupon are settled, and the order *)
(* and its items are inserted in one transaction, whatever the stock is by  *)
(* now.  A request that is refused or rolled back never takes this step.    *)
CreateOrder(o) ==
    /\ order[o] = Unplaced
    /\ o \in checked
    /\ order' = [order EXCEPT ![o] = [status |-> "pending", payment |-> "pending",
                                      paymentId |-> NoId, counted |-> {}, restored |-> FALSE]]
    /\ items' = items \cup {o}
    /\ UNCHANGED <<stock, recorded, latest, refunds, paypal, settled, historyVars, requestVars>>

-----------------------------------------------------------------------------
(* CreatePayPalOrder *)

CreateBegin(c, o) ==
    /\ create[c].pc = "idle"
    /\ Exists(o)
    /\ order[o].payment # "paid"
    /\ order[o].status # "cancelled"
    /\ create' = [create EXCEPT ![c] = [pc |-> "read", order |-> o,
                                        seen |-> order[o].paymentId, new |-> NoId]]
    /\ UNCHANGED <<storeVars, checked, capture, delivered>>

(* The stored PayPal order is still payable: answer with it. *)
CreateReuse(c) ==
    /\ create[c].pc = "read"
    /\ create[c].seen # NoId
    /\ paypal[create[c].seen].state \in {"created", "approved"}
    /\ create' = [create EXCEPT ![c].pc = "done"]
    /\ UNCHANGED <<storeVars, checked, capture, delivered>>

(* There is none, it is no longer payable, or the lookup failed. *)
CreateNew(c) ==
    /\ create[c].pc = "read"
    /\ \E p \in PayPalIds :
          /\ paypal[p].state = "unused"
          /\ paypal' = [paypal EXCEPT ![p] = [order |-> create[c].order, state |-> "created"]]
          /\ create' = [create EXCEPT ![c].pc = "store", ![c].new = p]
    /\ UNCHANGED <<order, items, stock, recorded, latest, refunds, settled, historyVars,
                   checked, capture, delivered>>

(* UPDATE orders SET payment_id: whatever the row holds by now. *)
CreateStore(c) ==
    /\ create[c].pc = "store"
    /\ order' = IF Exists(create[c].order)
                THEN [order EXCEPT ![create[c].order].paymentId = create[c].new]
                ELSE order
    /\ create' = [create EXCEPT ![c].pc = "done"]
    /\ UNCHANGED <<items, stock, recorded, latest, refunds, paypal, settled, historyVars,
                   checked, capture, delivered>>

(* PayPal or the database fails.  A PayPal order whose id was never stored  *)
(* is known to nobody: its id counts as unused again.                       *)
CreateFails(c) ==
    /\ create[c].pc \in {"read", "store"}
    /\ create' = [create EXCEPT ![c].pc = "done"]
    /\ paypal' = IF create[c].pc = "store"
                 THEN [paypal EXCEPT ![create[c].new] = [order |-> NoId, state |-> "unused"]]
                 ELSE paypal
    /\ UNCHANGED <<order, items, stock, recorded, latest, refunds, settled, historyVars,
                   checked, capture, delivered>>

(* The customer approves a PayPal order whose id a response brought back. *)
Approve(p) ==
    /\ paypal[p].state = "created"
    /\ \A c \in Creates : create[c].pc = "store" => create[c].new # p
    /\ paypal' = [paypal EXCEPT ![p].state = "approved"]
    /\ UNCHANGED <<order, items, stock, recorded, latest, refunds, settled, historyVars, requestVars>>

-----------------------------------------------------------------------------
(* CapturePayPalOrder *)

CaptureBegin(k, o, p) ==
    /\ capture[k].pc = "idle"
    /\ Exists(o)
    /\ order[o].payment # "paid"
    /\ order[o].paymentId = p
    /\ capture' = [capture EXCEPT ![k] = [pc |-> "call", order |-> o, id |-> p]]
    /\ UNCHANGED <<storeVars, checked, create, delivered>>

(* Mutant: a capture under review passes for a payment. *)
VerifiedIfPending(o, p, state) == state \in {"completed", "pending"} /\ paypal[p].order = o

(* verifyPayPalPayment: only a completed capture that names this order. *)
Verified(o, p, state) == state = "completed" /\ paypal[p].order = o

(* PayPal captures an approved order at once, after a review, or not at     *)
(* all; an order captured before answers with its capture as it is now.     *)
CaptureStates(p) ==
    IF paypal[p].state = "approved" THEN {"completed", "pending", "declined"}
    ELSE {paypal[p].state}

(* Mutant: the browser's capture request is believed, whatever PayPal says. *)
CaptureBelieved(k) ==
    /\ capture[k].pc = "call"
    /\ \E state \in CaptureStates(capture[k].id) :
          paypal' = [paypal EXCEPT ![capture[k].id].state = state]
    /\ capture' = [capture EXCEPT ![k].pc = "finalize"]
    /\ UNCHANGED <<order, items, stock, recorded, latest, refunds, settled, historyVars,
                   checked, create, delivered>>

CaptureCall(k) ==
    LET p == capture[k].id
    IN  /\ capture[k].pc = "call"
        /\ \E state \in CaptureStates(p) :
              /\ paypal' = [paypal EXCEPT ![p].state = state]
              /\ capture' = [capture EXCEPT ![k].pc =
                    IF Verified(capture[k].order, p, state) THEN "finalize" ELSE "done"]
        /\ UNCHANGED <<order, items, stock, recorded, latest, refunds, settled, historyVars,
                       checked, create, delivered>>

(* The answer is lost: a timeout, a closed browser, a crash. *)
CaptureLost(k) ==
    LET p == capture[k].id
    IN  /\ capture[k].pc = "call"
        /\ \E state \in CaptureStates(p) : paypal' = [paypal EXCEPT ![p].state = state]
        /\ capture' = [capture EXCEPT ![k].pc = "done"]
        /\ UNCHANGED <<order, items, stock, recorded, latest, refunds, settled, historyVars,
                       checked, create, delivered>>

CaptureFinalize(k) ==
    /\ capture[k].pc = "finalize"
    /\ finalizePaidOrder(capture[k].order, capture[k].id)
    /\ capture' = [capture EXCEPT ![k].pc = "done"]
    /\ UNCHANGED <<checked, create, delivered>>

(* The order is gone, the database fails or the process stops. *)
CaptureFails(k) ==
    /\ capture[k].pc = "finalize"
    /\ capture' = [capture EXCEPT ![k].pc = "done"]
    /\ UNCHANGED <<storeVars, checked, create, delivered>>

-----------------------------------------------------------------------------
(* PayPal finishes its review of a pending capture. *)
ReviewCapture(p) ==
    /\ paypal[p].state = "pending"
    /\ \E state \in {"completed", "declined"} : paypal' = [paypal EXCEPT ![p].state = state]
    /\ UNCHANGED <<order, items, stock, recorded, latest, refunds, settled, historyVars, requestVars>>

(* Mutant: the event is matched by payment_id, not by the order number. *)
WebhookByPaymentId(p) ==
    /\ delivered[p] < MaxDeliveries
    /\ paypal[p].state = "completed"
    /\ \E o \in Orders : /\ Exists(o)
                         /\ order[o].paymentId = p
                         /\ finalizePaidOrder(o, p)
    /\ delivered' = [delivered EXCEPT ![p] = @ + 1]
    /\ UNCHANGED <<checked, create, capture>>

(* PAYMENT.CAPTURE.COMPLETED reaches PayPalWebhook and is answered 200.  A  *)
(* delivery that fails changes nothing and is tried again.                  *)
Webhook(p) ==
    /\ delivered[p] < MaxDeliveries
    /\ Verified(paypal[p].order, p, paypal[p].state)
    /\ finalizePaidOrder(paypal[p].order, p)
    /\ delivered' = [delivered EXCEPT ![p] = @ + 1]
    /\ UNCHANGED <<checked, create, capture>>

-----------------------------------------------------------------------------
CheckoutNext ==
    \/ \E o \in Orders : CheckStock(o) \/ CreateOrder(o)
    \/ \E c \in Creates : \/ \E o \in Orders : CreateBegin(c, o)
                          \/ CreateReuse(c) \/ CreateNew(c) \/ CreateStore(c) \/ CreateFails(c)
    \/ \E p \in PayPalIds : Approve(p) \/ ReviewCapture(p) \/ Webhook(p)
    \/ \E k \in Captures : \/ \E o \in Orders, p \in PayPalIds : CaptureBegin(k, o, p)
                           \/ CaptureCall(k) \/ CaptureLost(k)
                           \/ CaptureFinalize(k) \/ CaptureFails(k)

CheckoutInit == StoreInit /\ RequestInit

CheckoutSpec == CheckoutInit /\ [][CheckoutNext]_checkoutVars

(* PayPal keeps delivering an event until the shop answers it with 200. *)
FairCheckoutSpec == CheckoutSpec /\ \A p \in PayPalIds : WF_checkoutVars(Webhook(p))

-----------------------------------------------------------------------------
CheckoutTypeOK == StoreTypeOK /\ RequestTypeOK

(* "marks the order paid exactly once ... a webhook racing a browser        *)
(* capture cannot double-pay": however captures and webhook deliveries      *)
(* interleave, an order is finalized, and its stock taken, at most once.    *)
FinalizedOnce == \A o \in Orders : finalized[o] <= 1

(* "The browser never decides whether an order is paid": a paid order has a *)
(* capture that PayPal completed for it and a transaction that records it.  *)
PaidOnlyIfCaptured ==
    \A o \in Orders : Exists(o) /\ order[o].payment = "paid" =>
        \E p \in recorded[o] : paypal[p] = [order |-> o, state |-> "completed"]

(* Stock that paid orders took and stock still offered add up to what there *)
(* was, unless an order was sold that the stock no longer covered.          *)
PaidFor == {o \in Orders : finalized[o] > 0}
StockConserved ==
    stock = IF UnitsOf(PaidFor) <= InitialStock THEN InitialStock - UnitsOf(PaidFor) ELSE 0

(* A completed capture ends with its order paid, even if the browser and    *)
(* the capture request are gone: the webhook makes up for them.             *)
CapturedIsPaid ==
    \A p \in PayPalIds : paypal[p].state = "completed"
        ~> (paypal[p].order # NoId /\ order[paypal[p].order].payment = "paid")

(* Checkout keeps the promise of OrderLedger: an order is placed only if    *)
(* the stock covered it when it was looked at, and is paid once, which      *)
(* takes its units or what other orders have left of them by then.          *)
Ledger == INSTANCE OrderLedger WITH
    covered <- checked,
    placed <- {o \in Orders : Exists(o)},
    paid <- {o \in Orders : Exists(o) /\ order[o].payment = "paid"}
ImplementsLedger == Ledger!Spec
=============================================================================
