----------------------------- MODULE OrderRefund -----------------------------
(***************************************************************************)
(* The admin's refund endpoints (controllers/refund.go) and PayPal's side  *)
(* of them.  RefundOrder commits a pending refunds row, then calls PayPal, *)
(* then records the answer: three steps between which anything may happen  *)
(* and at each of which the request may die.  SyncRefund reads a refund,   *)
(* asks PayPal and records the answer.                                     *)
(***************************************************************************)
EXTENDS PaymentStore

CONSTANTS
    RefundRequests,  \* requests to /orders/:id/refund
    Syncs,           \* requests to /orders/:id/refund/:refundID/sync
    Faults           \* what may go wrong between the shop, PayPal and the database

ASSUME FaultsAssumption == Faults \subseteq {"lost", "database", "crash"}

VARIABLES
    refunding,   \* per refund request: phase, refunds row, PayPal's answer
    syncing      \* per sync: phase, refunds row, PayPal's answer

adminRefundVars == <<refunding, syncing>>
refundVars == <<storeVars, adminRefundVars>>

Answers == {"pending", "completed", "failed", "cancelled"}

AdminRefundTypeOK ==
    /\ refunding \in [RefundRequests -> [pc : {"idle", "call", "apply", "reject", "done"},
                                         refund : RefundIds \cup {NoId},
                                         answer : Answers \cup {NoId}]]
    /\ syncing \in [Syncs -> [pc : {"idle", "call", "apply", "done"},
                              refund : RefundIds \cup {NoId}, answer : Answers \cup {NoId}]]

RefundInit ==
    /\ refunding = [q \in RefundRequests |-> [pc |-> "idle", refund |-> NoId, answer |-> NoId]]
    /\ syncing = [s \in Syncs |-> [pc |-> "idle", refund |-> NoId, answer |-> NoId]]

-----------------------------------------------------------------------------
(* PayPal: a capture is refunded up to what was captured. *)

Asked(r, state) == settled' = [settled EXCEPT ![r] = state]

Refundable(r) ==
    LET others == {x \in RefundIds : settled[x] \in {"pending", "completed"}
                                     /\ refunds[x].capture = refunds[r].capture}
    IN  AmountOf(others) + refunds[r].amount <= Total[paypal[refunds[r].capture].order]

SettleRefund(r) ==
    /\ settled[r] = "pending"
    /\ \E state \in {"completed", "failed", "cancelled"} : Asked(r, state)
    /\ UNCHANGED <<order, items, stock, recorded, latest, refunds, paypal, historyVars,
                   adminRefundVars>>

-----------------------------------------------------------------------------
(* RefundOrder *)

(* One transaction under the order's row lock; leaving the amount out means *)
(* all that remains.                                                        *)
MayRefundTwice(o, amount) ==   \* mutant: a pending refund does not block
    /\ Exists(o)
    /\ order[o].paymentId # NoId
    /\ order[o].payment \in {"paid", "partially_refunded"}
    /\ amount \in 1..Remaining(o)
    /\ latest[o] # NoId

MayRefund(o, amount) ==
    /\ Exists(o)
    /\ order[o].paymentId # NoId
    /\ order[o].payment \in {"paid", "partially_refunded"}
    /\ RefundsOf(o, "pending") = {}
    /\ amount \in 1..Remaining(o)
    /\ latest[o] # NoId

RefundBegin(q, o, r, amount) ==
    /\ refunding[q].pc = "idle"
    /\ refunds[r] = NoRefund
    /\ MayRefund(o, amount)
    /\ refunds' = [refunds EXCEPT ![r] = [order |-> o, capture |-> latest[o], amount |-> amount,
                                          status |-> "pending", known |-> FALSE]]
    /\ refunding' = [refunding EXCEPT ![q] = [pc |-> "call", refund |-> r, answer |-> NoId]]
    /\ UNCHANGED <<order, items, stock, recorded, latest, paypal, settled, historyVars, syncing>>

(* RefundCapture is answered with a refund, whatever its status. *)
RefundAccepted(q) ==
    /\ refunding[q].pc = "call"
    /\ Refundable(refunding[q].refund)
    /\ \E answer \in Answers :
          /\ Asked(refunding[q].refund, answer)
          /\ refunding' = [refunding EXCEPT ![q].pc = "apply", ![q].answer = answer]
    /\ UNCHANGED <<order, items, stock, recorded, latest, refunds, paypal, historyVars, syncing>>

(* RefundCapture returns an error and PayPal did nothing. *)
RefundRefused(q) ==
    /\ refunding[q].pc = "call"
    /\ refunding' = [refunding EXCEPT ![q].pc = "reject"]
    /\ UNCHANGED <<storeVars, syncing>>

(* RefundCapture returns an error although PayPal accepted the refund: a    *)
(* timeout, a cancelled request context, a body that cannot be read.        *)
RefundAnswerLost(q) ==
    /\ "lost" \in Faults
    /\ refunding[q].pc = "call"
    /\ Refundable(refunding[q].refund)
    /\ \E answer \in {"pending", "completed"} : Asked(refunding[q].refund, answer)
    /\ refunding' = [refunding EXCEPT ![q].pc = "reject"]
    /\ UNCHANGED <<order, items, stock, recorded, latest, refunds, paypal, historyVars, syncing>>

(* "PayPal rejected the refund" *)
RefundReject(q) ==
    /\ refunding[q].pc = "reject"
    /\ refunds' = [refunds EXCEPT ![refunding[q].refund].status = "failed"]
    /\ refunding' = [refunding EXCEPT ![q].pc = "done"]
    /\ UNCHANGED <<order, items, stock, recorded, latest, paypal, settled, historyVars, syncing>>

(* An answer other than pending or completed is only written to the row.    *)
RefundRecordStatus(q) ==
    /\ refunding[q].pc = "apply"
    /\ refunding[q].answer \in {"failed", "cancelled"}
    /\ refunds' = [refunds EXCEPT ![refunding[q].refund].status = refunding[q].answer,
                                  ![refunding[q].refund].known = TRUE]
    /\ refunding' = [refunding EXCEPT ![q].pc = "done"]
    /\ UNCHANGED <<order, items, stock, recorded, latest, paypal, settled, historyVars, syncing>>

RefundApply(q) ==
    /\ refunding[q].pc = "apply"
    /\ refunding[q].answer \in {"pending", "completed"}
    /\ applyPayPalRefundResult(refunding[q].refund, refunding[q].answer)
    /\ refunding' = [refunding EXCEPT ![q].pc = "done"]
    /\ UNCHANGED syncing

(* The last transaction fails, its order is gone, or the process stops: the *)
(* row stays pending.                                                       *)
RefundDies(q) ==
    /\ \/ refunding[q].pc = "apply" /\ ~Exists(refunds[refunding[q].refund].order)
       \/ "crash" \in Faults /\ refunding[q].pc \in {"call", "apply", "reject"}
       \/ "database" \in Faults /\ refunding[q].pc \in {"apply", "reject"}
    /\ refunding' = [refunding EXCEPT ![q].pc = "done"]
    /\ UNCHANGED <<storeVars, syncing>>

-----------------------------------------------------------------------------
(* SyncRefund *)

SyncBegin(s, r) ==
    /\ syncing[s].pc = "idle"
    /\ refunds[r] # NoRefund
    /\ refunds[r].status \notin {"completed", "failed"}
    /\ refunds[r].known
    /\ syncing' = [syncing EXCEPT ![s] = [pc |-> "call", refund |-> r, answer |-> NoId]]
    /\ UNCHANGED <<storeVars, refunding>>

SyncCall(s) ==
    /\ syncing[s].pc = "call"
    /\ syncing' = [syncing EXCEPT
          ![s].pc = "apply",
          ![s].answer = IF settled[syncing[s].refund] \in {"completed", "pending"}
                        THEN settled[syncing[s].refund] ELSE "failed"]
    /\ UNCHANGED <<storeVars, refunding>>

SyncApply(s) ==
    /\ syncing[s].pc = "apply"
    /\ applyPayPalRefundResult(syncing[s].refund, syncing[s].answer)
    /\ syncing' = [syncing EXCEPT ![s].pc = "done"]
    /\ UNCHANGED refunding

(* PayPal cannot be reached, the database fails or the process stops. *)
SyncFails(s) ==
    /\ syncing[s].pc \in {"call", "apply"}
    /\ syncing' = [syncing EXCEPT ![s].pc = "done"]
    /\ UNCHANGED <<storeVars, refunding>>

-----------------------------------------------------------------------------
RefundNext ==
    \/ \E q \in RefundRequests :
          \/ \E o \in Orders, r \in RefundIds : \E amount \in 1..Total[o] : RefundBegin(q, o, r, amount)
          \/ RefundAccepted(q) \/ RefundRefused(q) \/ RefundAnswerLost(q) \/ RefundReject(q)
          \/ RefundRecordStatus(q) \/ RefundApply(q) \/ RefundDies(q)
    \/ \E r \in RefundIds : SettleRefund(r)
    \/ \E s \in Syncs : \/ \E r \in RefundIds : SyncBegin(s, r)
                        \/ SyncCall(s) \/ SyncApply(s) \/ SyncFails(s)

(* Orders as finalizePaidOrder and later status changes leave them, each    *)
(* paid by a capture of its own.                                            *)
PaidInit ==
    /\ \E pay \in [Orders -> PayPalIds], status \in [Orders -> {"confirmed", "shipped"}] :
          /\ \A o, x \in Orders : pay[o] = pay[x] => o = x
          /\ order = [o \in Orders |-> [status |-> status[o], payment |-> "paid",
                                        paymentId |-> pay[o], counted |-> {}, restored |-> FALSE]]
          /\ recorded = [o \in Orders |-> {pay[o]}]
          /\ latest = pay
          /\ paypal = [p \in PayPalIds |->
                IF \E o \in Orders : pay[o] = p
                THEN [order |-> CHOOSE o \in Orders : pay[o] = p, state |-> "completed"]
                ELSE [order |-> NoId, state |-> "unused"]]
    /\ items = Orders
    /\ stock = InitialStock
    /\ refunds = [r \in RefundIds |-> NoRefund]
    /\ settled = [r \in RefundIds |-> "unasked"]
    /\ finalized = [o \in Orders |-> 1]
    /\ restocked = [o \in Orders |-> 0]
    /\ RefundInit

RefundSpec == PaidInit /\ [][RefundNext]_refundVars

-----------------------------------------------------------------------------
RefundTypeOK == StoreTypeOK /\ AdminRefundTypeOK

(* Refunds that are pending, completed or already counted never add up to   *)
(* more than the order's total (the remaining amount and the refusal of a   *)
(* second pending refund, both under the row lock).                         *)
RefundsWithinTotal ==
    \A o \in Orders : Exists(o) =>
        AmountOf(order[o].counted \cup RefundsOf(o, "pending") \cup RefundsOf(o, "completed"))
            <= Total[o]

(* The goods of an order go back into stock at most once, however often a   *)
(* full refund is applied.                                                  *)
RestockedOnce == \A o \in Orders : restocked[o] <= 1

(* An order is refund_pending only while one of its refunds is pending:     *)
(* otherwise no endpoint could move it on.                                  *)
RefundPendingHasRefund ==
    \A o \in Orders : Exists(o) /\ order[o].payment = "refund_pending" => RefundsOf(o, "pending") # {}

(* A refunded order's goods are sent or back in stock, and it is cancelled  *)
(* if they were not sent.                                                   *)
RefundedIsSettled ==
    \A o \in Orders : Exists(o) /\ order[o].payment = "refunded" =>
        \/ order[o].status \in {"shipped", "delivered"}
        \/ order[o].status = "cancelled" /\ restocked[o] = 1

(* "PayPal rejected the refund": a refund recorded as failed moved no money.*)
FailedMovedNoMoney ==
    \A r \in RefundIds : refunds[r] # NoRefund /\ refunds[r].status \in {"failed", "cancelled"}
        => settled[r] \notin {"pending", "completed"}
=============================================================================
