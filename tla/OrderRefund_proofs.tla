------------------------- MODULE OrderRefund_proofs -------------------------
(***************************************************************************)
(* RefundOrder and SyncRefund, for any orders, rows, requests and faults:  *)
(* goods go back once, a refund_pending order has a refund that can be     *)
(* synced, and, if no answer of PayPal's is lost, a refund recorded as     *)
(* failed moved no money.                                                  *)
(*                                                                         *)
(* The argument.  A row belongs to one request from its insert until that  *)
(* request has recorded PayPal's answer: meanwhile it is pending and its   *)
(* provider id is not stored, and since SyncRefund asks for rows with an   *)
(* id, no sync can touch it.  Hence the row that explains a refund_pending *)
(* order, one whose id is stored, is never turned into a failed one by     *)
(* RefundOrder, only by applyPayPalRefundResult, which sets the order too. *)
(***************************************************************************)
EXTENDS OrderRefund, PayPalCheckout_proofs

Busy(q) == refunding[q].pc \in {"call", "apply", "reject"}
Row(r) == refunds[r]

(* A request at work owns a row that is pending and has no id yet. *)
OwnerInv ==
    \A q \in RefundRequests : Busy(q) =>
        /\ refunding[q].refund \in RefundIds
        /\ refunds[refunding[q].refund] # NoRefund
        /\ refunds[refunding[q].refund].status = "pending"
        /\ ~refunds[refunding[q].refund].known
        /\ refunding[q].pc = "apply" => refunding[q].answer \in Answers

DistinctInv ==
    \A q, x \in RefundRequests :
        Busy(q) /\ Busy(x) /\ refunding[q].refund = refunding[x].refund => q = x

(* A sync works on a row that has its id. *)
SyncInv ==
    \A s \in Syncs : syncing[s].pc \in {"call", "apply"} =>
        /\ syncing[s].refund \in RefundIds
        /\ refunds[syncing[s].refund] # NoRefund
        /\ refunds[syncing[s].refund].known
        /\ syncing[s].pc = "apply" => syncing[s].answer \in {"pending", "completed", "failed"}

Explains(r, o) ==
    refunds[r] # NoRefund /\ refunds[r].order = o /\ refunds[r].status = "pending" /\ refunds[r].known

OrderOK(o) ==
    /\ order[o] \in OrderRows
    /\ restocked[o] = IF order[o].restored THEN 1 ELSE 0
    /\ order[o].payment = "refunded" =>
          \/ order[o].status \in {"shipped", "delivered"}
          \/ order[o].status = "cancelled" /\ order[o].restored

OrdersInv == \A o \in Orders : OrderOK(o)
ExplainedInv ==
    \A o \in Orders : order[o].payment = "refund_pending" => \E r \in RefundIds : Explains(r, o)

RequestsInv == OwnerInv /\ DistinctInv /\ SyncInv
RefundInv == RefundTypeOK /\ RequestsInv /\ OrdersInv /\ ExplainedInv

-----------------------------------------------------------------------------
(* Rows stay rows. *)

(* A row that is there is a row of the table.                               *)
LEMMA RowThere ==
    ASSUME StoreTypeOK, NEW r \in RefundIds
    PROVE  refunds[r] # NoRefund <=> refunds[r] \in RefundRows
  BY SentinelsAssumption DEF StoreTypeOK

(* Recording an answer keeps everything of a row but status and known.      *)
LEMMA RowRecorded ==
    ASSUME NEW row \in RefundRows, NEW answer \in Answers
    PROVE  LET new == [row EXCEPT !.status = answer, !.known = TRUE]
           IN  new \in RefundRows /\ new.order = row.order /\ new.amount = row.amount
               /\ new.status = answer /\ new.known
  BY DEF RefundRows, Answers

(* A rejection keeps everything of a row but its status.                    *)
LEMMA RowFailed ==
    ASSUME NEW row \in RefundRows
    PROVE  LET new == [row EXCEPT !.status = "failed"]
           IN  new \in RefundRows /\ new.order = row.order /\ new.amount = row.amount
               /\ new.status = "failed" /\ new.known = row.known
  BY DEF RefundRows

(* What a step that rewrites one row does to the table.                     *)
LEMMA TableUpdated ==
    ASSUME StoreTypeOK, NEW r \in RefundIds, NEW new \in RefundRows,
           refunds' = [refunds EXCEPT ![r] = new]
    PROVE  /\ refunds' \in [RefundIds -> RefundRows \cup {NoRefund}]
           /\ refunds'[r] = new /\ refunds'[r] # NoRefund
           /\ \A x \in RefundIds \ {r} : refunds'[x] = refunds[x]
  BY SentinelsAssumption DEF StoreTypeOK

-----------------------------------------------------------------------------
(* applyPayPalRefundResult *)

(* The payment state it computes is refund_pending for a pending refund only*)
LEMMA PaymentRange ==
    ASSUME NEW o \in Orders, NEW completed, NEW result \in Answers
    PROVE  /\ PaymentAfter(o, completed, result)
                \in {"refund_pending", "refunded", "partially_refunded", "paid"}
           /\ PaymentAfter(o, completed, result) = "refund_pending" => result = "pending"
  BY DEF PaymentAfter, Answers

(* It keeps the table of orders sound, and leaves the order refund_pending  *)
(* only if the refund it recorded is pending.                               *)
LEMMA ApplyStep ==
    ASSUME StoreTypeOK, OrdersInv, NEW r \in RefundIds, refunds[r] # NoRefund,
           NEW result \in Answers, applyPayPalRefundResult(r, result)
    PROVE  /\ StoreTypeOK' /\ OrdersInv'
           /\ refunds[r].order \in Orders
           /\ refunds'[r] # NoRefund /\ refunds'[r].order = refunds[r].order
           /\ refunds'[r].status = result /\ refunds'[r].known
           /\ refunds'[r].amount = refunds[r].amount
           /\ \A x \in RefundIds \ {r} : refunds'[x] = refunds[x]
           /\ \A x \in Orders \ {refunds[r].order} : order'[x] = order[x]
           /\ order'[refunds[r].order].payment = "refund_pending" => result = "pending"
           /\ order'[refunds[r].order].counted =
                 IF result = "completed" THEN RefundsOf(refunds[r].order, "completed") \cup {r}
                 ELSE order[refunds[r].order].counted
           /\ settled' = settled
<1> DEFINE o == refunds[r].order
           completed == IF result = "completed" THEN RefundsOf(o, "completed") \cup {r}
                        ELSE RefundsOf(o, "completed") \ {r}
           payment == PaymentAfter(o, completed, result)
           cancels == payment = "refunded" /\ order[o].status \notin {"shipped", "delivered"}
           restores == cancels /\ ~order[o].restored
           newRow == [refunds[r] EXCEPT !.status = result, !.known = TRUE]
           newOrder == [order[o] EXCEPT !.payment = payment,
                                        !.status = IF cancels THEN "cancelled" ELSE @,
                                        !.counted = IF result = "completed" THEN completed ELSE @,
                                        !.restored = @ \/ restores]
<1>1. refunds[r] \in RefundRows /\ o \in Orders
  BY RowThere DEF RefundRows
<1>2. newRow \in RefundRows /\ newRow.order = o /\ newRow.status = result /\ newRow.known
      /\ newRow.amount = refunds[r].amount
  BY <1>1, RowRecorded
<1>3. refunds' = [refunds EXCEPT ![r] = newRow]
  BY DEF applyPayPalRefundResult
<1>4. /\ refunds' \in [RefundIds -> RefundRows \cup {NoRefund}]
      /\ refunds'[r] = newRow /\ refunds'[r] # NoRefund
      /\ \A x \in RefundIds \ {r} : refunds'[x] = refunds[x]
  <2> HIDE DEF newRow
  <2> QED BY <1>2, <1>3, TableUpdated
<1>5. payment \in {"refund_pending", "refunded", "partially_refunded", "paid"}
      /\ (payment = "refund_pending" => result = "pending")
  BY <1>1, PaymentRange
<1>6. order[o] \in OrderRows /\ restocked[o] = (IF order[o].restored THEN 1 ELSE 0)
  BY <1>1 DEF OrdersInv, OrderOK
<1>7. completed \in SUBSET RefundIds
  BY DEF RefundsOf
<1>8. /\ newOrder \in OrderRows /\ newOrder.payment = payment
      /\ newOrder.status = IF cancels THEN "cancelled" ELSE order[o].status
      /\ newOrder.restored = (order[o].restored \/ restores)
      /\ newOrder.counted = IF result = "completed" THEN RefundsOf(o, "completed") \cup {r}
                            ELSE order[o].counted
  <2> DEFINE status == IF cancels THEN "cancelled" ELSE order[o].status
             counted == IF result = "completed" THEN completed ELSE order[o].counted
             restored == order[o].restored \/ restores
  <2>1. newOrder = [order[o] EXCEPT !.payment = payment, !.status = status,
                                    !.counted = counted, !.restored = restored]
    OBVIOUS
  <2>2. restored \in BOOLEAN
    OBVIOUS
  <2>3. status \in Statuses /\ counted \in SUBSET RefundIds
    BY <1>6, <1>7 DEF OrderRows, Statuses
  <2>4. payment \in PaymentStatuses
    BY <1>5 DEF PaymentStatuses, RefundStates
  <2> HIDE DEF newOrder, payment, status, counted, restored
  <2>5. /\ newOrder \in OrderRows /\ newOrder.payment = payment
        /\ newOrder.status = status /\ newOrder.restored = restored
        /\ newOrder.counted = counted
    BY <2>1, <2>2, <2>3, <2>4, <1>6 DEF OrderRows
  <2> QED BY <2>5 DEF status, restored, counted
<1>9. /\ order' = [order EXCEPT ![o] = newOrder]
      /\ stock' = IF restores /\ o \in items THEN stock + Qty[o] ELSE stock
      /\ restocked' = IF restores THEN [restocked EXCEPT ![o] = Again(@)] ELSE restocked
      /\ UNCHANGED <<items, recorded, latest, paypal, settled, finalized>>
  BY DEF applyPayPalRefundResult
<1>10. restores \in BOOLEAN /\ cancels \in BOOLEAN
       /\ (restores <=> cancels /\ ~order[o].restored)
       /\ (cancels <=> payment = "refunded" /\ order[o].status \notin {"shipped", "delivered"})
  OBVIOUS
<1>11. order[o].restored \in BOOLEAN
  BY <1>6 DEF OrderRows
<1> HIDE DEF newRow, newOrder, restores, cancels, payment, completed
<1>12. /\ order' \in [Orders -> OrderRows \cup {Unplaced, Deleted}]
       /\ order'[o] = newOrder
       /\ \A x \in Orders \ {o} : order'[x] = order[x]
  BY <1>1, <1>8, <1>9 DEF StoreTypeOK
<1>13. /\ restocked' \in [Orders -> 0..2]
       /\ restocked'[o] = IF newOrder.restored THEN 1 ELSE 0
       /\ \A x \in Orders \ {o} : restocked'[x] = restocked[x]
  <2>1. CASE restores
    <3>1. order[o].restored = FALSE /\ newOrder.restored = TRUE
      BY <2>1, <1>8, <1>10, <1>11
    <3>2. restocked' = [restocked EXCEPT ![o] = 1]
      <4>1. restocked[o] = 0
        BY <3>1, <1>6
      <4>2. restocked' = [restocked EXCEPT ![o] = Again(restocked[o])]
        BY <2>1, <1>9
      <4>3. Again(0) = 1
        BY DEF Again
      <4> QED BY <4>1, <4>2, <4>3
    <3> QED BY <3>1, <3>2, <1>1 DEF StoreTypeOK
  <2>2. CASE ~restores
    BY <2>2, <1>1, <1>6, <1>8, <1>9, <1>10, <1>11 DEF StoreTypeOK
  <2> QED BY <2>1, <2>2
<1>14. stock' \in Nat
  <2>1. Qty[o] \in Nat /\ stock \in Nat
    BY <1>1, AmountsAssumption DEF StoreTypeOK
  <2> QED BY <2>1, <1>9
<1>15. StoreTypeOK'
  BY <1>4, <1>9, <1>12, <1>13, <1>14 DEF StoreTypeOK
<1>16. ASSUME NEW x \in Orders, x = o PROVE OrderOK(x)'
  <2>1. newOrder.payment = "refunded" =>
           \/ newOrder.status \in {"shipped", "delivered"}
           \/ newOrder.status = "cancelled" /\ newOrder.restored
    BY <1>8, <1>10, <1>11
  <2>2. order'[x] = newOrder /\ restocked'[x] = IF newOrder.restored THEN 1 ELSE 0
    BY <1>12, <1>13, <1>16
  <2> QED BY <2>1, <2>2, <1>8 DEF OrderOK
<1>17. \A x \in Orders \ {o} : OrderOK(x)'
  BY <1>12, <1>13 DEF OrderOK, OrdersInv
<1>18. OrdersInv'
  BY <1>16, <1>17 DEF OrdersInv
<1> QED
  BY <1>1, <1>2, <1>4, <1>5, <1>8, <1>9, <1>12, <1>15, <1>18

-----------------------------------------------------------------------------
(* Requests move on. *)

RefundRecords == [pc : {"idle", "call", "apply", "reject", "done"},
                  refund : RefundIds \cup {NoId}, answer : Answers \cup {NoId}]
SyncRecords == [pc : {"idle", "call", "apply", "done"},
                refund : RefundIds \cup {NoId}, answer : Answers \cup {NoId}]

(* A refund request that ends keeps the row it names.                       *)
LEMMA RefundDone ==
    ASSUME AdminRefundTypeOK, NEW q \in RefundRequests, NEW pc \in {"reject", "done"},
           refunding' = [refunding EXCEPT ![q].pc = pc]
    PROVE  /\ refunding' \in [RefundRequests -> RefundRecords]
           /\ refunding'[q].pc = pc /\ refunding'[q].refund = refunding[q].refund
           /\ \A x \in RefundRequests \ {q} : refunding'[x] = refunding[x]
<1>1. refunding[q] \in RefundRecords /\ refunding \in [RefundRequests -> RefundRecords]
  BY DEF AdminRefundTypeOK, RefundRecords
<1> DEFINE new == [refunding[q] EXCEPT !.pc = pc]
<1>2. new \in RefundRecords /\ new.pc = pc /\ new.refund = refunding[q].refund
  BY <1>1 DEF RefundRecords
<1>3. refunding' = [refunding EXCEPT ![q] = new]
  OBVIOUS
<1> HIDE DEF new
<1> QED BY <1>1, <1>2, <1>3

(* So does one that PayPal answered.                                        *)
LEMMA RefundAnswered ==
    ASSUME AdminRefundTypeOK, NEW q \in RefundRequests, NEW answer \in Answers,
           refunding' = [refunding EXCEPT ![q].pc = "apply", ![q].answer = answer]
    PROVE  /\ refunding' \in [RefundRequests -> RefundRecords]
           /\ refunding'[q].pc = "apply" /\ refunding'[q].refund = refunding[q].refund
           /\ refunding'[q].answer = answer
           /\ \A x \in RefundRequests \ {q} : refunding'[x] = refunding[x]
<1>1. refunding[q] \in RefundRecords /\ refunding \in [RefundRequests -> RefundRecords]
  BY DEF AdminRefundTypeOK, RefundRecords
<1> DEFINE new == [refunding[q] EXCEPT !.pc = "apply", !.answer = answer]
<1>2. new \in RefundRecords /\ new.pc = "apply" /\ new.refund = refunding[q].refund
      /\ new.answer = answer
  BY <1>1 DEF RefundRecords
<1>3. refunding' = [refunding EXCEPT ![q] = new]
  OBVIOUS
<1> HIDE DEF new
<1> QED BY <1>1, <1>2, <1>3

(* A sync that ends.                                                        *)
LEMMA SyncDone ==
    ASSUME AdminRefundTypeOK, NEW s \in Syncs, syncing' = [syncing EXCEPT ![s].pc = "done"]
    PROVE  /\ syncing' \in [Syncs -> SyncRecords]
           /\ syncing'[s].pc = "done"
           /\ \A x \in Syncs \ {s} : syncing'[x] = syncing[x]
<1>1. syncing[s] \in SyncRecords /\ syncing \in [Syncs -> SyncRecords]
  BY DEF AdminRefundTypeOK, SyncRecords
<1> DEFINE new == [syncing[s] EXCEPT !.pc = "done"]
<1>2. new \in SyncRecords /\ new.pc = "done"
  BY <1>1 DEF SyncRecords
<1>3. syncing' = [syncing EXCEPT ![s] = new]
  OBVIOUS
<1> HIDE DEF new
<1> QED BY <1>1, <1>2, <1>3

(* A row may be rewritten when no request owns it afterwards and every sync *)
(* that works on it still finds its id.                                     *)
LEMMA RowRewritten ==
    ASSUME RequestsInv, NEW r \in RefundIds, refunds'[r] # NoRefund,
           \A x \in RefundIds \ {r} : refunds'[x] = refunds[x],
           \A q \in RefundRequests : Busy(q)' =>
              refunding'[q] = refunding[q] /\ refunding[q].refund # r,
           \A s \in Syncs : syncing'[s].pc \in {"call", "apply"} =>
              syncing'[s] = syncing[s] /\ (syncing[s].refund = r => refunds'[r].known)
    PROVE  RequestsInv'
<1>1. \A q \in RefundRequests : Busy(q)' => Busy(q)
  BY DEF Busy
<1>2. OwnerInv'
  BY <1>1 DEF RequestsInv, OwnerInv
<1>3. DistinctInv'
  BY <1>1 DEF RequestsInv, DistinctInv
<1>4. SyncInv'
  BY DEF RequestsInv, SyncInv
<1> QED BY <1>2, <1>3, <1>4 DEF RequestsInv

(* Steps that leave the table of refunds and the syncs alone.               *)
LEMMA OnlyRequestMoves ==
    ASSUME RequestsInv, UNCHANGED <<refunds, syncing>>, NEW q \in RefundRequests, Busy(q),
           refunding'[q].refund = refunding[q].refund,
           refunding'[q].pc = "apply" => refunding'[q].answer \in Answers /\ refunding[q].pc = "call",
           \A x \in RefundRequests \ {q} : refunding'[x] = refunding[x]
    PROVE  RequestsInv'
<1>1. \A x \in RefundRequests : Busy(x)' => Busy(x) /\ refunding'[x].refund = refunding[x].refund
  BY DEF Busy
<1>2. OwnerInv'
  <2> SUFFICES ASSUME NEW x \in RefundRequests, Busy(x)'
               PROVE  /\ refunding[x].refund \in RefundIds
                      /\ refunds[refunding[x].refund] # NoRefund
                      /\ refunds[refunding[x].refund].status = "pending"
                      /\ ~refunds[refunding[x].refund].known
                      /\ refunding'[x].pc = "apply" => refunding'[x].answer \in Answers
    BY <1>1 DEF OwnerInv
  <2>1. Busy(x)
    BY <1>1
  <2> QED BY <2>1 DEF RequestsInv, OwnerInv
<1>3. DistinctInv'
  BY <1>1 DEF RequestsInv, DistinctInv
<1>4. SyncInv'
  BY DEF RequestsInv, SyncInv
<1> QED BY <1>2, <1>3, <1>4 DEF RequestsInv

(* Steps that leave the orders and the refunds alone.                       *)
LEMMA BooksAlone ==
    ASSUME RefundInv, UNCHANGED <<order, items, stock, recorded, latest, refunds, paypal, historyVars>>,
           settled' \in [RefundIds -> {"unasked", "pending", "completed", "failed", "cancelled"}]
    PROVE  StoreTypeOK' /\ OrdersInv' /\ ExplainedInv'
<1>1. StoreTypeOK'
  BY DEF RefundInv, RefundTypeOK, StoreTypeOK, historyVars
<1>2. OrdersInv'
  BY DEF RefundInv, OrdersInv, OrderOK, historyVars
<1>3. ExplainedInv'
  BY DEF RefundInv, ExplainedInv, Explains
<1> QED BY <1>1, <1>2, <1>3

-----------------------------------------------------------------------------
(* The invariant, action by action. *)

(* A paid order has no refund and no request yet.                           *)
LEMMA RefundInvInit == PaidInit => RefundInv
<1> SUFFICES ASSUME PaidInit PROVE RefundInv
  OBVIOUS
<1>1. PICK pay \in [Orders -> PayPalIds], status \in [Orders -> {"confirmed", "shipped"}] :
          /\ order = [o \in Orders |-> [status |-> status[o], payment |-> "paid",
                                        paymentId |-> pay[o], counted |-> {}, restored |-> FALSE]]
          /\ recorded = [o \in Orders |-> {pay[o]}]
          /\ latest = pay
          /\ paypal = [p \in PayPalIds |->
                IF \E o \in Orders : pay[o] = p
                THEN [order |-> CHOOSE o \in Orders : pay[o] = p, state |-> "completed"]
                ELSE [order |-> NoId, state |-> "unused"]]
  BY DEF PaidInit
<1>2. \A o \in Orders : order[o] \in OrderRows
  BY <1>1 DEF OrderRows, Statuses, PaymentStatuses
<1>3. order \in [Orders -> OrderRows \cup {Unplaced, Deleted}]
  <2>1. order = [o \in Orders |-> order[o]]
    BY <1>1
  <2> QED BY <1>2, <2>1
<1>4. paypal \in [PayPalIds -> PayPalOrders]
  <2>1. \A p \in PayPalIds : (\E o \in Orders : pay[o] = p)
            => (CHOOSE o \in Orders : pay[o] = p) \in Orders
    OBVIOUS
  <2>2. \A p \in PayPalIds : paypal[p] \in PayPalOrders
    BY <1>1, <2>1 DEF PayPalOrders
  <2>3. paypal = [p \in PayPalIds |-> paypal[p]]
    BY <1>1
  <2> QED BY <2>2, <2>3
<1>5. /\ recorded \in [Orders -> SUBSET PayPalIds]
      /\ latest \in [Orders -> PayPalIds \cup {NoId}]
  BY <1>1
<1>6. StoreTypeOK
  BY <1>3, <1>4, <1>5, AmountsAssumption DEF PaidInit, StoreTypeOK
<1>7. AdminRefundTypeOK
  BY DEF PaidInit, RefundInit, AdminRefundTypeOK
<1>8. RequestsInv
  BY DEF PaidInit, RefundInit, RequestsInv, OwnerInv, DistinctInv, SyncInv, Busy
<1>9. OrdersInv /\ ExplainedInv
  BY <1>1, <1>2 DEF PaidInit, OrdersInv, OrderOK, ExplainedInv
<1> QED BY <1>6, <1>7, <1>8, <1>9 DEF RefundInv, RefundTypeOK

(* PayPal settles refunds without touching the books.                       *)
LEMMA SettleKeeps ==
    ASSUME RefundInv, NEW r \in RefundIds, SettleRefund(r)
    PROVE  RefundInv'
<1>1. UNCHANGED <<order, items, stock, recorded, latest, refunds, paypal, historyVars,
                  refunding, syncing>>
  BY DEF SettleRefund, adminRefundVars
<1>2. settled' \in [RefundIds -> {"unasked", "pending", "completed", "failed", "cancelled"}]
  BY DEF SettleRefund, Asked, RefundInv, RefundTypeOK, StoreTypeOK
<1>3. RequestsInv'
  BY <1>1 DEF RefundInv, RequestsInv, OwnerInv, DistinctInv, SyncInv, Busy
<1> QED
  BY <1>1, <1>2, <1>3, BooksAlone DEF RefundInv, RefundTypeOK, AdminRefundTypeOK

(* RefundBegin takes a row that is not in the table yet, so nobody owns it, *)
(* and no sync can see it.                                                  *)
LEMMA BeginKeeps ==
    ASSUME RefundInv, NEW q \in RefundRequests, NEW o \in Orders, NEW r \in RefundIds,
           NEW amount \in Nat, RefundBegin(q, o, r, amount)
    PROVE  RefundInv'
<1> DEFINE row == [order |-> o, capture |-> latest[o], amount |-> amount,
                   status |-> "pending", known |-> FALSE]
           new == [pc |-> "call", refund |-> r, answer |-> NoId]
<1>1. /\ refunds[r] = NoRefund
      /\ refunds' = [refunds EXCEPT ![r] = row]
      /\ refunding' = [refunding EXCEPT ![q] = new]
      /\ UNCHANGED <<order, items, stock, recorded, latest, paypal, settled, finalized, restocked,
                     syncing>>
  BY DEF RefundBegin, historyVars
<1>2. StoreTypeOK /\ AdminRefundTypeOK /\ RequestsInv /\ OrdersInv /\ ExplainedInv
  BY DEF RefundInv, RefundTypeOK
<1>3. latest[o] \in PayPalIds
  BY <1>2 DEF StoreTypeOK, RefundBegin, MayRefund
<1>4. row \in RefundRows /\ row.status = "pending" /\ ~row.known
  BY <1>3 DEF RefundRows
<1>5. new \in RefundRecords /\ new.pc = "call" /\ new.refund = r
  BY DEF RefundRecords
<1>6. refunding \in [RefundRequests -> RefundRecords]
  BY <1>2 DEF AdminRefundTypeOK, RefundRecords
<1> HIDE DEF row, new
<1>7. /\ refunds' \in [RefundIds -> RefundRows \cup {NoRefund}]
      /\ refunds'[r] = row /\ refunds'[r] # NoRefund
      /\ \A x \in RefundIds \ {r} : refunds'[x] = refunds[x]
  BY <1>1, <1>2, <1>4, TableUpdated
<1>8. /\ refunding' \in [RefundRequests -> RefundRecords]
      /\ refunding'[q] = new
      /\ \A x \in RefundRequests \ {q} : refunding'[x] = refunding[x]
  BY <1>1, <1>5, <1>6
<1>9. StoreTypeOK'
  BY <1>1, <1>2, <1>7 DEF StoreTypeOK
<1>10. AdminRefundTypeOK'
  BY <1>1, <1>2, <1>8 DEF AdminRefundTypeOK, RefundRecords
<1>11. \A x \in RefundRequests : Busy(x) => refunding[x].refund # r
  BY <1>1, <1>2 DEF RequestsInv, OwnerInv
<1>12. \A s \in Syncs : syncing[s].pc \in {"call", "apply"} => syncing[s].refund # r
  BY <1>1, <1>2 DEF RequestsInv, SyncInv
<1>13. \A x \in RefundRequests \ {q} : Busy(x)' <=> Busy(x)
  BY <1>8 DEF Busy
<1>14. OwnerInv'
  <2>1. ASSUME NEW x \in RefundRequests \ {q}, Busy(x)'
        PROVE  /\ refunding'[x].refund \in RefundIds
               /\ refunds'[refunding'[x].refund] # NoRefund
               /\ refunds'[refunding'[x].refund].status = "pending"
               /\ ~refunds'[refunding'[x].refund].known
               /\ refunding'[x].pc = "apply" => refunding'[x].answer \in Answers
    BY <1>2, <1>7, <1>8, <1>11, <1>13, <2>1 DEF RequestsInv, OwnerInv
  <2> QED BY <2>1, <1>4, <1>5, <1>7, <1>8 DEF OwnerInv
<1>15. DistinctInv'
  BY <1>2, <1>5, <1>8, <1>11, <1>13 DEF RequestsInv, DistinctInv
<1>16. SyncInv'
  BY <1>1, <1>2, <1>7, <1>12 DEF RequestsInv, SyncInv
<1>17. OrdersInv'
  BY <1>1, <1>2 DEF OrdersInv, OrderOK
<1>18. ExplainedInv'
  <2>1. \A x \in RefundIds, y \in Orders : Explains(x, y) => Explains(x, y)'
    BY <1>1, <1>7 DEF Explains
  <2> QED BY <1>1, <1>2, <2>1 DEF ExplainedInv
<1> QED
  BY <1>9, <1>10, <1>14, <1>15, <1>16, <1>17, <1>18 DEF RefundInv, RefundTypeOK, RequestsInv

(* PayPal's answer, an error, or an error although PayPal acted: the books  *)
(* are as they were and the request moves on.                               *)
LEMMA CallKeeps ==
    ASSUME RefundInv, NEW q \in RefundRequests,
           RefundAccepted(q) \/ RefundRefused(q) \/ RefundAnswerLost(q)
    PROVE  RefundInv'
<1>1. /\ UNCHANGED <<order, items, stock, recorded, latest, refunds, paypal, historyVars, syncing>>
      /\ refunding[q].pc = "call"
      /\ \/ \E answer \in Answers :
               refunding' = [refunding EXCEPT ![q].pc = "apply", ![q].answer = answer]
         \/ refunding' = [refunding EXCEPT ![q].pc = "reject"]
  BY DEF RefundAccepted, RefundRefused, RefundAnswerLost, storeVars
<1>2. Busy(q) /\ refunding[q].refund \in RefundIds
  BY <1>1 DEF Busy, RefundInv, RequestsInv, OwnerInv
<1>3. settled' \in [RefundIds -> {"unasked", "pending", "completed", "failed", "cancelled"}]
  BY <1>2 DEF RefundAccepted, RefundRefused, RefundAnswerLost, Asked, Answers, storeVars,
        RefundInv, RefundTypeOK, StoreTypeOK
<1>4. AdminRefundTypeOK /\ RequestsInv
  BY DEF RefundInv, RefundTypeOK
<1>5. /\ refunding' \in [RefundRequests -> RefundRecords]
      /\ refunding'[q].refund = refunding[q].refund
      /\ refunding'[q].pc = "apply" => refunding'[q].answer \in Answers
      /\ \A x \in RefundRequests \ {q} : refunding'[x] = refunding[x]
  <2>1. CASE \E answer \in Answers :
                refunding' = [refunding EXCEPT ![q].pc = "apply", ![q].answer = answer]
    BY <2>1, <1>4, RefundAnswered
  <2>2. CASE refunding' = [refunding EXCEPT ![q].pc = "reject"]
    BY <2>2, <1>4, RefundDone
  <2> QED BY <1>1, <2>1, <2>2
<1>6. RequestsInv'
  BY <1>1, <1>2, <1>4, <1>5, OnlyRequestMoves
<1>7. AdminRefundTypeOK'
  BY <1>1, <1>4, <1>5 DEF AdminRefundTypeOK, RefundRecords
<1> QED
  BY <1>1, <1>3, <1>6, <1>7, BooksAlone DEF RefundInv, RefundTypeOK

(* RefundDies leaves the row to its fate.                                   *)
LEMMA DiesKeeps ==
    ASSUME RefundInv, NEW q \in RefundRequests, RefundDies(q)
    PROVE  RefundInv'
<1>1. /\ UNCHANGED <<order, items, stock, recorded, latest, refunds, paypal, settled, historyVars,
                      syncing>>
      /\ refunding' = [refunding EXCEPT ![q].pc = "done"] /\ Busy(q)
  BY DEF RefundDies, storeVars, Busy
<1>2. AdminRefundTypeOK /\ RequestsInv
  BY DEF RefundInv, RefundTypeOK
<1>3. /\ refunding' \in [RefundRequests -> RefundRecords]
      /\ refunding'[q].pc = "done" /\ refunding'[q].refund = refunding[q].refund
      /\ \A x \in RefundRequests \ {q} : refunding'[x] = refunding[x]
  BY <1>1, <1>2, RefundDone
<1>4. RequestsInv'
  BY <1>1, <1>2, <1>3, OnlyRequestMoves
<1>5. AdminRefundTypeOK'
  BY <1>1, <1>2, <1>3 DEF AdminRefundTypeOK, RefundRecords
<1>6. settled' \in [RefundIds -> {"unasked", "pending", "completed", "failed", "cancelled"}]
  BY <1>1 DEF RefundInv, RefundTypeOK, StoreTypeOK
<1> QED
  BY <1>1, <1>4, <1>5, <1>6, BooksAlone DEF RefundInv, RefundTypeOK

(* RefundReject and RefundRecordStatus rewrite the row of their request,    *)
(* which explains nothing since its id is not stored.                       *)
LEMMA CloseKeeps ==
    ASSUME RefundInv, NEW q \in RefundRequests, RefundReject(q) \/ RefundRecordStatus(q)
    PROVE  RefundInv'
<1> DEFINE r == refunding[q].refund
<1>1. StoreTypeOK /\ AdminRefundTypeOK /\ RequestsInv /\ OrdersInv /\ ExplainedInv
  BY DEF RefundInv, RefundTypeOK
<1>2. /\ UNCHANGED <<order, items, stock, recorded, latest, paypal, settled, finalized, restocked,
                      syncing>>
      /\ refunding' = [refunding EXCEPT ![q].pc = "done"] /\ Busy(q)
  BY DEF RefundReject, RefundRecordStatus, Busy, historyVars
<1>3. r \in RefundIds /\ refunds[r] \in RefundRows /\ ~refunds[r].known
  <2>1. r \in RefundIds /\ refunds[r] # NoRefund /\ ~refunds[r].known
    BY <1>1, <1>2 DEF RequestsInv, OwnerInv
  <2> QED BY <2>1, <1>1, RowThere
<1> HIDE DEF r
<1>4. PICK new \in RefundRows : refunds' = [refunds EXCEPT ![r] = new]
  <2>1. CASE RefundReject(q)
    <3>1. refunds' = [refunds EXCEPT ![r] = [refunds[r] EXCEPT !.status = "failed"]]
      BY <2>1 DEF RefundReject, r
    <3>2. [refunds[r] EXCEPT !.status = "failed"] \in RefundRows
      BY <1>3, RowFailed
    <3> QED BY <3>1, <3>2
  <2>2. CASE RefundRecordStatus(q)
    <3>1. refunding[q].answer \in Answers
      BY <2>2 DEF RefundRecordStatus, Answers
    <3>2. refunds' = [refunds EXCEPT ![r] = [refunds[r] EXCEPT !.status = refunding[q].answer,
                                                               !.known = TRUE]]
      BY <2>2 DEF RefundRecordStatus, r
    <3>3. [refunds[r] EXCEPT !.status = refunding[q].answer, !.known = TRUE] \in RefundRows
      BY <1>3, <3>1, RowRecorded
    <3> QED BY <3>2, <3>3
  <2> QED BY <2>1, <2>2
<1>5. /\ refunds' \in [RefundIds -> RefundRows \cup {NoRefund}]
      /\ refunds'[r] # NoRefund
      /\ \A x \in RefundIds \ {r} : refunds'[x] = refunds[x]
  BY <1>1, <1>3, <1>4, TableUpdated
<1>6. /\ refunding' \in [RefundRequests -> RefundRecords]
      /\ refunding'[q].pc = "done"
      /\ \A x \in RefundRequests \ {q} : refunding'[x] = refunding[x]
  BY <1>1, <1>2, RefundDone
<1>7. StoreTypeOK'
  BY <1>1, <1>2, <1>5 DEF StoreTypeOK
<1>8. AdminRefundTypeOK'
  BY <1>1, <1>2, <1>6 DEF AdminRefundTypeOK, RefundRecords
<1>9. \A x \in RefundRequests : Busy(x)' => refunding'[x] = refunding[x] /\ refunding[x].refund # r
  <2> SUFFICES ASSUME NEW x \in RefundRequests, Busy(x)'
               PROVE  refunding'[x] = refunding[x] /\ refunding[x].refund # r
    OBVIOUS
  <2>1. x # q
    BY <1>6 DEF Busy
  <2>2. refunding'[x] = refunding[x] /\ Busy(x)
    BY <2>1, <1>6 DEF Busy
  <2> QED BY <2>1, <2>2, <1>1, <1>2 DEF RequestsInv, DistinctInv, r
<1>10. \A s \in Syncs : syncing[s].pc \in {"call", "apply"} => syncing[s].refund # r
  BY <1>1, <1>3 DEF RequestsInv, SyncInv
<1>11. RequestsInv'
  BY <1>1, <1>2, <1>3, <1>5, <1>9, <1>10, RowRewritten
<1>12. OrdersInv'
  BY <1>1, <1>2 DEF OrdersInv, OrderOK
<1>13. ExplainedInv'
  <2>1. \A x \in RefundIds, y \in Orders : Explains(x, y) => Explains(x, y)'
    BY <1>3, <1>5 DEF Explains
  <2> QED BY <1>1, <1>2, <2>1 DEF ExplainedInv
<1> QED BY <1>7, <1>8, <1>11, <1>12, <1>13 DEF RefundInv, RefundTypeOK

(* Recording an answer keeps every refund_pending order explained: the      *)
(* order it rewrites by the row it rewrites, the others by rows of theirs.  *)
LEMMA ApplyExplains ==
    ASSUME StoreTypeOK, OrdersInv, ExplainedInv, NEW r \in RefundIds, refunds[r] # NoRefund,
           NEW result \in Answers, applyPayPalRefundResult(r, result)
    PROVE  ExplainedInv'
<1>1. /\ refunds[r].order \in Orders
      /\ refunds'[r] # NoRefund /\ refunds'[r].order = refunds[r].order
      /\ refunds'[r].status = result /\ refunds'[r].known
      /\ \A x \in RefundIds \ {r} : refunds'[x] = refunds[x]
      /\ \A x \in Orders \ {refunds[r].order} : order'[x] = order[x]
      /\ order'[refunds[r].order].payment = "refund_pending" => result = "pending"
  BY ApplyStep
<1> SUFFICES ASSUME NEW o \in Orders, order'[o].payment = "refund_pending"
             PROVE  \E x \in RefundIds : Explains(x, o)'
  BY DEF ExplainedInv
<1>2. CASE o = refunds[r].order
  <2>1. Explains(r, o)'
    BY <1>1, <1>2 DEF Explains
  <2> QED BY <2>1
<1>3. CASE o # refunds[r].order
  <2>1. order[o].payment = "refund_pending"
    BY <1>1, <1>3
  <2>2. PICK x \in RefundIds : Explains(x, o)
    BY <2>1 DEF ExplainedInv
  <2>3. x # r
    BY <1>3, <2>2 DEF Explains
  <2>4. Explains(x, o)'
    BY <1>1, <2>2, <2>3 DEF Explains
  <2> QED BY <2>4
<1> QED BY <1>2, <1>3

(* RefundApply ends its request.                                            *)
LEMMA RefundApplyKeeps ==
    ASSUME RefundInv, NEW q \in RefundRequests, RefundApply(q)
    PROVE  RefundInv'
<1> DEFINE r == refunding[q].refund
           result == refunding[q].answer
<1>1. StoreTypeOK /\ AdminRefundTypeOK /\ RequestsInv /\ OrdersInv /\ ExplainedInv
  BY DEF RefundInv, RefundTypeOK
<1>2. /\ applyPayPalRefundResult(r, result) /\ result \in Answers
      /\ refunding' = [refunding EXCEPT ![q].pc = "done"] /\ Busy(q) /\ UNCHANGED syncing
  BY DEF RefundApply, Busy, Answers
<1>3. r \in RefundIds /\ refunds[r] # NoRefund /\ ~refunds[r].known
  BY <1>1, <1>2 DEF RequestsInv, OwnerInv
<1> HIDE DEF r, result
<1>4. /\ StoreTypeOK' /\ OrdersInv'
      /\ refunds'[r] # NoRefund /\ refunds'[r].known
      /\ \A x \in RefundIds \ {r} : refunds'[x] = refunds[x]
  BY <1>1, <1>2, <1>3, ApplyStep
<1>5. ExplainedInv'
  BY <1>1, <1>2, <1>3, ApplyExplains
<1>6. /\ refunding' \in [RefundRequests -> RefundRecords]
      /\ refunding'[q].pc = "done"
      /\ \A x \in RefundRequests \ {q} : refunding'[x] = refunding[x]
  BY <1>1, <1>2, RefundDone
<1>7. AdminRefundTypeOK'
  BY <1>1, <1>2, <1>6 DEF AdminRefundTypeOK, RefundRecords
<1>8. \A x \in RefundRequests : Busy(x)' => refunding'[x] = refunding[x] /\ refunding[x].refund # r
  <2> SUFFICES ASSUME NEW x \in RefundRequests, Busy(x)'
               PROVE  refunding'[x] = refunding[x] /\ refunding[x].refund # r
    OBVIOUS
  <2>1. x # q
    BY <1>6 DEF Busy
  <2>2. refunding'[x] = refunding[x] /\ Busy(x)
    BY <2>1, <1>6 DEF Busy
  <2> QED BY <2>1, <2>2, <1>1, <1>2 DEF RequestsInv, DistinctInv, r
<1>9. RequestsInv'
  BY <1>1, <1>2, <1>3, <1>4, <1>8, RowRewritten
<1> QED BY <1>4, <1>5, <1>7, <1>9 DEF RefundInv, RefundTypeOK

(* SyncApply rewrites a row with an id, which no refund request owns.       *)
LEMMA SyncApplyKeeps ==
    ASSUME RefundInv, NEW s \in Syncs, SyncApply(s)
    PROVE  RefundInv'
<1> DEFINE r == syncing[s].refund
           result == syncing[s].answer
<1>1. StoreTypeOK /\ AdminRefundTypeOK /\ RequestsInv /\ OrdersInv /\ ExplainedInv
  BY DEF RefundInv, RefundTypeOK
<1>2. /\ applyPayPalRefundResult(r, result) /\ syncing[s].pc = "apply"
      /\ syncing' = [syncing EXCEPT ![s].pc = "done"] /\ UNCHANGED refunding
  BY DEF SyncApply
<1>3. r \in RefundIds /\ refunds[r] # NoRefund /\ refunds[r].known /\ result \in Answers
  BY <1>1, <1>2 DEF RequestsInv, SyncInv, Answers
<1> HIDE DEF r, result
<1>4. /\ StoreTypeOK' /\ OrdersInv'
      /\ refunds'[r] # NoRefund /\ refunds'[r].known
      /\ \A x \in RefundIds \ {r} : refunds'[x] = refunds[x]
  BY <1>1, <1>2, <1>3, ApplyStep
<1>5. ExplainedInv'
  BY <1>1, <1>2, <1>3, ApplyExplains
<1>6. /\ syncing' \in [Syncs -> SyncRecords]
      /\ syncing'[s].pc = "done"
      /\ \A x \in Syncs \ {s} : syncing'[x] = syncing[x]
  BY <1>1, <1>2, SyncDone
<1>7. AdminRefundTypeOK'
  BY <1>1, <1>2, <1>6 DEF AdminRefundTypeOK, SyncRecords
<1>8. \A x \in RefundRequests : Busy(x)' => refunding'[x] = refunding[x] /\ refunding[x].refund # r
  BY <1>1, <1>2, <1>3 DEF Busy, RequestsInv, OwnerInv
<1>9. \A x \in Syncs : syncing'[x].pc \in {"call", "apply"} => syncing'[x] = syncing[x]
  BY <1>6
<1>10. RequestsInv'
  BY <1>1, <1>3, <1>4, <1>8, <1>9, RowRewritten
<1> QED BY <1>4, <1>5, <1>7, <1>10 DEF RefundInv, RefundTypeOK

(* The other steps of a sync read the row, ask PayPal, or give up.          *)
LEMMA SyncKeeps ==
    ASSUME RefundInv, NEW s \in Syncs,
           (\E r \in RefundIds : SyncBegin(s, r)) \/ SyncCall(s) \/ SyncFails(s)
    PROVE  RefundInv'
<1>1. StoreTypeOK /\ AdminRefundTypeOK /\ RequestsInv
  BY DEF RefundInv, RefundTypeOK
<1>2. UNCHANGED <<order, items, stock, recorded, latest, refunds, paypal, settled, historyVars,
                  refunding>>
  BY DEF SyncBegin, SyncCall, SyncFails, storeVars
<1>3. syncing \in [Syncs -> SyncRecords]
  BY <1>1 DEF AdminRefundTypeOK, SyncRecords
<1>4. PICK new \in SyncRecords :
          /\ syncing' = [syncing EXCEPT ![s] = new]
          /\ new.pc \in {"call", "apply"} =>
                /\ new.refund \in RefundIds
                /\ refunds[new.refund] # NoRefund /\ refunds[new.refund].known
                /\ new.pc = "apply" => new.answer \in {"pending", "completed", "failed"}
  <2>1. CASE \E r \in RefundIds : SyncBegin(s, r)
    <3>1. PICK r \in RefundIds : SyncBegin(s, r)
      BY <2>1
    <3> DEFINE new == [pc |-> "call", refund |-> r, answer |-> NoId]
    <3>2. new \in SyncRecords /\ new.pc = "call" /\ new.refund = r
      BY DEF SyncRecords
    <3>3. syncing' = [syncing EXCEPT ![s] = new] /\ refunds[r] # NoRefund /\ refunds[r].known
      BY <3>1 DEF SyncBegin
    <3> HIDE DEF new
    <3> QED BY <3>2, <3>3
  <2>2. CASE SyncCall(s)
    <3> DEFINE answer == IF settled[syncing[s].refund] \in {"completed", "pending"}
                         THEN settled[syncing[s].refund] ELSE "failed"
               new == [syncing[s] EXCEPT !.pc = "apply", !.answer = answer]
    <3>1. answer \in {"pending", "completed", "failed"}
      OBVIOUS
    <3>2. syncing' = [syncing EXCEPT ![s] = new] /\ syncing[s].pc = "call"
      BY <2>2 DEF SyncCall
    <3> HIDE DEF answer
    <3>3. new \in SyncRecords /\ new.pc = "apply" /\ new.refund = syncing[s].refund
          /\ new.answer = answer
      BY <1>3, <3>1 DEF SyncRecords, Answers
    <3> HIDE DEF new
    <3> QED BY <3>1, <3>2, <3>3, <1>1 DEF RequestsInv, SyncInv
  <2>3. CASE SyncFails(s)
    <3> DEFINE new == [syncing[s] EXCEPT !.pc = "done"]
    <3>1. syncing' = [syncing EXCEPT ![s] = new]
      BY <2>3 DEF SyncFails
    <3>2. new \in SyncRecords /\ new.pc = "done"
      BY <1>3 DEF SyncRecords
    <3> HIDE DEF new
    <3> QED BY <3>1, <3>2
  <2> QED BY <2>1, <2>2, <2>3
<1>5. /\ syncing' \in [Syncs -> SyncRecords] /\ syncing'[s] = new
      /\ \A x \in Syncs \ {s} : syncing'[x] = syncing[x]
  BY <1>3, <1>4
<1>6. SyncInv'
  BY <1>1, <1>2, <1>4, <1>5 DEF RequestsInv, SyncInv
<1>7. OwnerInv' /\ DistinctInv'
  BY <1>1, <1>2 DEF RequestsInv, OwnerInv, DistinctInv, Busy
<1>8. AdminRefundTypeOK'
  BY <1>1, <1>2, <1>5 DEF AdminRefundTypeOK, SyncRecords
<1>9. settled' \in [RefundIds -> {"unasked", "pending", "completed", "failed", "cancelled"}]
  BY <1>1, <1>2 DEF StoreTypeOK
<1> QED
  BY <1>2, <1>6, <1>7, <1>8, <1>9, BooksAlone DEF RefundInv, RefundTypeOK, RequestsInv

(* Every step of the refund endpoints keeps the invariant.                  *)
LEMMA RefundStep == RefundInv /\ [RefundNext]_refundVars => RefundInv'
<1> SUFFICES ASSUME RefundInv, [RefundNext]_refundVars PROVE RefundInv'
  OBVIOUS
<1>1. CASE UNCHANGED refundVars
  BY <1>1 DEF refundVars, adminRefundVars, storeVars, historyVars, RefundInv, RefundTypeOK,
        StoreTypeOK, AdminRefundTypeOK, RequestsInv, OwnerInv, DistinctInv, SyncInv, Busy,
        OrdersInv, OrderOK, ExplainedInv, Explains
<1>2. ASSUME NEW q \in RefundRequests, NEW o \in Orders, NEW r \in RefundIds,
             NEW amount \in 1..Total[o], RefundBegin(q, o, r, amount)
      PROVE  RefundInv'
  <2>1. amount \in Nat
    BY AmountsAssumption
  <2> QED BY <1>2, <2>1, BeginKeeps
<1>3. ASSUME NEW q \in RefundRequests,
             RefundAccepted(q) \/ RefundRefused(q) \/ RefundAnswerLost(q) \/ RefundReject(q)
                \/ RefundRecordStatus(q) \/ RefundApply(q) \/ RefundDies(q)
      PROVE  RefundInv'
  BY <1>3, CallKeeps, CloseKeeps, RefundApplyKeeps, DiesKeeps
<1>4. ASSUME NEW r \in RefundIds, SettleRefund(r) PROVE RefundInv'
  BY <1>4, SettleKeeps
<1>5. ASSUME NEW s \in Syncs,
             (\E r \in RefundIds : SyncBegin(s, r)) \/ SyncCall(s) \/ SyncApply(s) \/ SyncFails(s)
      PROVE  RefundInv'
  BY <1>5, SyncKeeps, SyncApplyKeeps
<1> QED BY <1>1, <1>2, <1>3, <1>4, <1>5 DEF RefundNext

(* RefundOrder, SyncRefund and PayPal keep the rows and the requests        *)
(* well-typed.                                                              *)
THEOREM RefundTyping == RefundSpec => []RefundTypeOK
<1>1. RefundInv => RefundTypeOK
  BY DEF RefundInv
<1> QED BY <1>1, RefundInvInit, RefundStep, PTL DEF RefundSpec

(* However many refunds and syncs race, and whatever fails: the goods of an *)
(* order go back into stock at most once, and a refunded order's goods are  *)
(* sent or are back.                                                        *)
THEOREM RefundedGoods == RefundSpec => [](RestockedOnce /\ RefundedIsSettled)
<1>1. RefundInv => RestockedOnce /\ RefundedIsSettled
  BY DEF RefundInv, OrdersInv, OrderOK, RestockedOnce, RefundedIsSettled
<1> QED BY <1>1, RefundInvInit, RefundStep, PTL DEF RefundSpec

(* An order is refund_pending only while a pending refund explains it, one  *)
(* moreover that SyncRefund can ask PayPal about.                           *)
THEOREM RefundPendingExplained == RefundSpec => [](RefundPendingHasRefund /\ ExplainedInv)
<1>1. RefundInv => RefundPendingHasRefund /\ ExplainedInv
  BY DEF RefundInv, ExplainedInv, Explains, RefundPendingHasRefund, RefundsOf
<1> QED BY <1>1, RefundInvInit, RefundStep, PTL DEF RefundSpec

-----------------------------------------------------------------------------
(* The books and PayPal, when no answer is lost. *)

Moved == {"pending", "completed"}

(* PayPal has not been asked before the call, nor by a request it refused;  *)
(* whoever is about to record a failure knows that no money moved.          *)
RowsAsked == \A r \in RefundIds : refunds[r] = NoRefund => settled[r] = "unasked"
RequestsAsked ==
    \A q \in RefundRequests : Busy(q) =>
        \/ settled[refunding[q].refund] = "unasked"
        \/ /\ refunding[q].pc = "apply"
           /\ refunding[q].answer \in {"failed", "cancelled"}
                 => settled[refunding[q].refund] \notin Moved
SyncsAsked ==
    \A s \in Syncs : syncing[s].pc = "apply" /\ syncing[s].answer = "failed"
        => settled[syncing[s].refund] \notin Moved
AskedInv == RowsAsked /\ RequestsAsked /\ SyncsAsked /\ FailedMovedNoMoney

(* PayPal settles pending refunds only.                                     *)
LEMMA SettleAsked ==
    ASSUME RefundInv, AskedInv, NEW r \in RefundIds, SettleRefund(r)
    PROVE  AskedInv'
<1>1. /\ UNCHANGED <<refunds, refunding, syncing>> /\ settled[r] = "pending"
      /\ \A x \in RefundIds \ {r} : settled'[x] = settled[x]
  BY DEF SettleRefund, Asked, adminRefundVars, RefundInv, RefundTypeOK, StoreTypeOK
<1>2. \A x \in RefundIds : /\ settled[x] = "unasked" => settled'[x] = "unasked"
                           /\ settled[x] \notin Moved => settled'[x] \notin Moved
  BY <1>1 DEF Moved
<1>3. \A q \in RefundRequests : Busy(q) => refunding[q].refund \in RefundIds
  BY DEF RefundInv, RequestsInv, OwnerInv
<1>4. \A s \in Syncs : syncing[s].pc = "apply" => syncing[s].refund \in RefundIds
  BY DEF RefundInv, RequestsInv, SyncInv
<1>5. FailedMovedNoMoney'
  BY <1>1, <1>2 DEF AskedInv, FailedMovedNoMoney, Moved
<1>6. RowsAsked'
  BY <1>1, <1>2 DEF AskedInv, RowsAsked
<1>7. RequestsAsked'
  <2> SUFFICES ASSUME NEW q \in RefundRequests, Busy(q)
               PROVE  \/ settled'[refunding[q].refund] = "unasked"
                      \/ /\ refunding[q].pc = "apply"
                         /\ refunding[q].answer \in {"failed", "cancelled"}
                               => settled'[refunding[q].refund] \notin Moved
    BY <1>1 DEF RequestsAsked, Busy
  <2>1. refunding[q].refund \in RefundIds
    BY <1>3
  <2>2. \/ settled[refunding[q].refund] = "unasked"
        \/ /\ refunding[q].pc = "apply"
           /\ refunding[q].answer \in {"failed", "cancelled"}
                 => settled[refunding[q].refund] \notin Moved
    BY DEF AskedInv, RequestsAsked
  <2> QED BY <2>1, <2>2, <1>2
<1>8. SyncsAsked'
  <2> SUFFICES ASSUME NEW s \in Syncs, syncing[s].pc = "apply", syncing[s].answer = "failed"
               PROVE  settled'[syncing[s].refund] \notin Moved
    BY <1>1 DEF SyncsAsked
  <2>1. syncing[s].refund \in RefundIds
    BY <1>4
  <2>2. settled[syncing[s].refund] \notin Moved
    BY DEF AskedInv, SyncsAsked
  <2> QED BY <2>1, <2>2, <1>2
<1> QED BY <1>5, <1>6, <1>7, <1>8 DEF AskedInv

(* PayPal is asked about the row of the calling request, which no other     *)
(* request owns and no sync has seen.                                       *)
LEMMA CallAsked ==
    ASSUME RefundInv, AskedInv, NEW q \in RefundRequests, "lost" \notin Faults,
           RefundAccepted(q) \/ RefundRefused(q) \/ RefundAnswerLost(q)
    PROVE  AskedInv'
<1> DEFINE r == refunding[q].refund
<1>1. /\ refunding[q].pc = "call" /\ UNCHANGED <<refunds, syncing>>
      /\ \/ \E answer \in Answers :
               /\ settled' = [settled EXCEPT ![r] = answer]
               /\ refunding' = [refunding EXCEPT ![q].pc = "apply", ![q].answer = answer]
         \/ settled' = settled /\ refunding' = [refunding EXCEPT ![q].pc = "reject"]
  BY DEF RefundAccepted, RefundRefused, RefundAnswerLost, storeVars, Asked
<1>2. AdminRefundTypeOK /\ RequestsInv /\ StoreTypeOK
  BY DEF RefundInv, RefundTypeOK
<1>3. r \in RefundIds /\ refunds[r] # NoRefund /\ refunds[r].status = "pending"
      /\ ~refunds[r].known
  BY <1>1, <1>2 DEF RequestsInv, OwnerInv, Busy
<1>4. \A x \in RefundRequests \ {q} : Busy(x) => refunding[x].refund # r
  BY <1>1, <1>2 DEF RequestsInv, DistinctInv, Busy
<1>5. \A s \in Syncs : syncing[s].pc = "apply" => syncing[s].refund # r
  BY <1>2, <1>3 DEF RequestsInv, SyncInv
<1> HIDE DEF r
<1>6. \A x \in RefundIds \ {r} : settled'[x] = settled[x]
  BY <1>1, <1>2 DEF StoreTypeOK
<1>7. /\ \A x \in RefundRequests \ {q} : refunding'[x] = refunding[x]
      /\ refunding'[q].refund = r
      /\ \/ refunding'[q].pc = "apply" /\ settled'[r] = refunding'[q].answer
         \/ refunding'[q].pc = "reject" /\ settled'[r] = settled[r]
  <2>1. CASE \E answer \in Answers :
               /\ settled' = [settled EXCEPT ![r] = answer]
               /\ refunding' = [refunding EXCEPT ![q].pc = "apply", ![q].answer = answer]
    <3>1. PICK answer \in Answers :
               /\ settled' = [settled EXCEPT ![r] = answer]
               /\ refunding' = [refunding EXCEPT ![q].pc = "apply", ![q].answer = answer]
      BY <2>1
    <3>2. settled'[r] = answer
      BY <3>1, <1>2, <1>3 DEF StoreTypeOK
    <3> QED BY <3>1, <3>2, <1>2, RefundAnswered DEF r
  <2>2. CASE settled' = settled /\ refunding' = [refunding EXCEPT ![q].pc = "reject"]
    BY <2>2, <1>2, RefundDone DEF r
  <2> QED BY <1>1, <2>1, <2>2
<1>8. settled[r] = "unasked"
  BY <1>1 DEF AskedInv, RequestsAsked, Busy, r
<1>9. RowsAsked'
  BY <1>1, <1>3, <1>6 DEF AskedInv, RowsAsked
<1>10. RequestsAsked'
  <2> SUFFICES ASSUME NEW x \in RefundRequests, Busy(x)'
               PROVE  \/ settled'[refunding'[x].refund] = "unasked"
                      \/ /\ refunding'[x].pc = "apply"
                         /\ refunding'[x].answer \in {"failed", "cancelled"}
                               => settled'[refunding'[x].refund] \notin Moved
    BY DEF RequestsAsked
  <2>1. CASE x = q
    BY <2>1, <1>7, <1>8 DEF Moved
  <2>2. CASE x # q
    <3>1. refunding'[x] = refunding[x] /\ Busy(x)
      BY <2>2, <1>7 DEF Busy
    <3>2. refunding[x].refund \in RefundIds \ {r}
      BY <2>2, <3>1, <1>2, <1>4 DEF RequestsInv, OwnerInv
    <3>3. settled'[refunding[x].refund] = settled[refunding[x].refund]
      BY <3>2, <1>6
    <3> QED BY <3>1, <3>3 DEF AskedInv, RequestsAsked
  <2> QED BY <2>1, <2>2
<1>11. SyncsAsked'
  <2> SUFFICES ASSUME NEW s \in Syncs, syncing'[s].pc = "apply", syncing'[s].answer = "failed"
               PROVE  settled'[syncing'[s].refund] \notin Moved
    BY DEF SyncsAsked
  <2>1. syncing'[s] = syncing[s] /\ syncing[s].refund \in RefundIds \ {r}
    BY <1>1, <1>2, <1>5 DEF RequestsInv, SyncInv
  <2>2. settled'[syncing[s].refund] = settled[syncing[s].refund]
    BY <2>1, <1>6
  <2> QED BY <2>1, <2>2 DEF AskedInv, SyncsAsked
<1>12. FailedMovedNoMoney'
  BY <1>1, <1>3, <1>6 DEF AskedInv, FailedMovedNoMoney
<1> QED BY <1>9, <1>10, <1>11, <1>12 DEF AskedInv

(* Steps that leave PayPal alone: a failure is recorded only where no money *)
(* moved.                                                                   *)
LEMMA BooksAsked ==
    ASSUME RefundInv, AskedInv, settled' = settled,
           \A r \in RefundIds : refunds'[r] = NoRefund => refunds[r] = NoRefund,
           \A r \in RefundIds : refunds'[r] # NoRefund /\ refunds'[r].status \in {"failed", "cancelled"}
              => \/ settled[r] \notin Moved
                 \/ refunds[r] # NoRefund /\ refunds[r].status \in {"failed", "cancelled"},
           \A q \in RefundRequests : Busy(q)' =>
              \/ refunding'[q] = refunding[q]
              \/ settled[refunding'[q].refund] = "unasked",
           \A s \in Syncs : syncing'[s].pc = "apply" /\ syncing'[s].answer = "failed" =>
              \/ syncing'[s] = syncing[s]
              \/ settled[syncing'[s].refund] \notin Moved
    PROVE  AskedInv'
<1>1. RowsAsked'
  BY DEF AskedInv, RowsAsked
<1>2. RequestsAsked'
  BY DEF AskedInv, RequestsAsked, Busy
<1>3. SyncsAsked'
  BY DEF AskedInv, SyncsAsked
<1>4. FailedMovedNoMoney'
  BY DEF AskedInv, FailedMovedNoMoney, Moved
<1> QED BY <1>1, <1>2, <1>3, <1>4 DEF AskedInv

(* What each action gives BooksAsked to record.                             *)
LEMMA RefundStepAsked ==
    ASSUME RefundInv, AskedInv, NEW q \in RefundRequests,
           RefundReject(q) \/ RefundRecordStatus(q) \/ RefundApply(q) \/ RefundDies(q)
    PROVE  AskedInv'
<1> DEFINE r == refunding[q].refund
<1>1. StoreTypeOK /\ AdminRefundTypeOK /\ RequestsInv /\ OrdersInv
  BY DEF RefundInv, RefundTypeOK
<1>2. /\ refunding' = [refunding EXCEPT ![q].pc = "done"] /\ Busy(q) /\ UNCHANGED syncing
  BY DEF RefundReject, RefundRecordStatus, RefundApply, RefundDies, Busy
<1>3. r \in RefundIds /\ refunds[r] # NoRefund
  BY <1>1, <1>2 DEF RequestsInv, OwnerInv
<1>4. refunding'[q].pc = "done" /\ \A x \in RefundRequests \ {q} : refunding'[x] = refunding[x]
  BY <1>1, <1>2, RefundDone
<1>5. \A x \in RefundRequests : Busy(x)' => refunding'[x] = refunding[x]
  BY <1>4 DEF Busy
<1>6. ASSUME RefundDies(q) PROVE UNCHANGED <<refunds, settled>>
  BY <1>6 DEF RefundDies, storeVars
<1>7. ASSUME RefundApply(q)
      PROVE  /\ settled' = settled /\ refunds'[r] # NoRefund
             /\ refunds'[r].status \in {"pending", "completed"}
             /\ \A x \in RefundIds \ {r} : refunds'[x] = refunds[x]
  <2>1. applyPayPalRefundResult(r, refunding[q].answer)
        /\ refunding[q].answer \in {"pending", "completed"} /\ refunding[q].answer \in Answers
    BY <1>7 DEF RefundApply, Answers
  <2> HIDE DEF r
  <2> QED BY <2>1, <1>1, <1>3, ApplyStep
<1>8. ASSUME RefundReject(q)
      PROVE  /\ settled' = settled /\ settled[r] \notin Moved
             /\ \A x \in RefundIds \ {r} : refunds'[x] = refunds[x]
  BY <1>3, <1>8 DEF RefundReject, AskedInv, RequestsAsked, Busy, Moved
<1>9. ASSUME RefundRecordStatus(q)
      PROVE  /\ settled' = settled /\ settled[r] \notin Moved
             /\ \A x \in RefundIds \ {r} : refunds'[x] = refunds[x]
  <2>1. settled[r] = "unasked" \/ settled[r] \notin Moved
    BY <1>2, <1>9 DEF RefundRecordStatus, AskedInv, RequestsAsked
  <2>2. settled' = settled /\ \A x \in RefundIds \ {r} : refunds'[x] = refunds[x]
    <3>1. refunds' = [refunds EXCEPT ![r] = [refunds[r] EXCEPT !.status = refunding[q].answer,
                                                               !.known = TRUE]]
      BY <1>9 DEF RefundRecordStatus
    <3> HIDE DEF r
    <3> QED BY <3>1, <1>1, <1>3, <1>9 DEF RefundRecordStatus, StoreTypeOK
  <2> QED BY <2>1, <2>2 DEF Moved
<1> HIDE DEF r
<1>10. settled' = settled
  BY <1>6, <1>7, <1>8, <1>9
<1>11. \A x \in RefundIds \ {r} : refunds'[x] = refunds[x]
  BY <1>6, <1>7, <1>8, <1>9
<1>12. refunds'[r] = refunds[r] \/ settled[r] \notin Moved
       \/ refunds'[r].status \in {"pending", "completed"}
  BY <1>6, <1>7, <1>8, <1>9
<1>13. \A x \in RefundIds : refunds'[x] # NoRefund /\ refunds'[x].status \in {"failed", "cancelled"}
              => \/ settled[x] \notin Moved
                 \/ refunds[x] # NoRefund /\ refunds[x].status \in {"failed", "cancelled"}
  BY <1>11, <1>12
<1>14. \A x \in RefundIds : refunds'[x] = NoRefund => refunds[x] = NoRefund
  <2>1. RefundInv'
    BY CloseKeeps, RefundApplyKeeps, DiesKeeps
  <2>2. refunds'[r] # NoRefund
    <3>1. CASE RefundDies(q)
      BY <3>1, <1>3, <1>6
    <3>2. CASE RefundApply(q)
      BY <3>2, <1>7
    <3>3. CASE RefundReject(q)
      <4>1. [refunds[r] EXCEPT !.status = "failed"] \in RefundRows
        BY <1>1, <1>3, RowThere, RowFailed
      <4>2. refunds' = [refunds EXCEPT ![r] = [refunds[r] EXCEPT !.status = "failed"]]
        BY <3>3 DEF RefundReject, r
      <4> QED BY <4>1, <4>2, <1>1, <1>3, TableUpdated
    <3>4. CASE RefundRecordStatus(q)
      <4>1. refunding[q].answer \in Answers
        BY <3>4 DEF RefundRecordStatus, Answers
      <4>2. [refunds[r] EXCEPT !.status = refunding[q].answer, !.known = TRUE] \in RefundRows
        BY <1>1, <1>3, <4>1, RowThere, RowRecorded
      <4>3. refunds' = [refunds EXCEPT ![r] = [refunds[r] EXCEPT
                            !.status = refunding[q].answer, !.known = TRUE]]
        BY <3>4 DEF RefundRecordStatus, r
      <4> QED BY <4>2, <4>3, <1>1, <1>3, TableUpdated
    <3> QED BY <3>1, <3>2, <3>3, <3>4
  <2> QED BY <2>2, <1>11
<1> QED BY <1>2, <1>5, <1>10, <1>13, <1>14, BooksAsked

(* A sync records a failure only if PayPal said so, or said nothing of it.  *)
LEMMA SyncStepAsked ==
    ASSUME RefundInv, AskedInv, NEW s \in Syncs,
           (\E r \in RefundIds : SyncBegin(s, r)) \/ SyncCall(s) \/ SyncApply(s) \/ SyncFails(s)
    PROVE  AskedInv'
<1>1. StoreTypeOK /\ AdminRefundTypeOK /\ RequestsInv /\ OrdersInv
  BY DEF RefundInv, RefundTypeOK
<1>2. UNCHANGED refunding /\ syncing \in [Syncs -> SyncRecords]
  BY <1>1 DEF SyncBegin, SyncCall, SyncApply, SyncFails, AdminRefundTypeOK, SyncRecords
<1>3. \A x \in Syncs \ {s} : syncing'[x] = syncing[x]
  BY <1>2 DEF SyncBegin, SyncCall, SyncApply, SyncFails
<1>4. ASSUME syncing'[s].pc = "apply", syncing'[s].answer = "failed"
      PROVE  settled[syncing'[s].refund] \notin Moved
  <2>1. SyncCall(s)
    BY <1>2, <1>4 DEF SyncBegin, SyncApply, SyncFails, SyncRecords
  <2> DEFINE answer == IF settled[syncing[s].refund] \in {"completed", "pending"}
                       THEN settled[syncing[s].refund] ELSE "failed"
             new == [syncing[s] EXCEPT !.pc = "apply", !.answer = answer]
  <2>2. syncing' = [syncing EXCEPT ![s] = new]
    BY <2>1 DEF SyncCall
  <2>3. syncing'[s].refund = syncing[s].refund /\ syncing'[s].answer = answer
    <3> HIDE DEF answer
    <3> QED BY <2>2, <1>2 DEF SyncRecords
  <2> QED BY <2>3, <1>4 DEF Moved
<1>5. ASSUME NEW x \in Syncs, syncing'[x].pc = "apply", syncing'[x].answer = "failed"
      PROVE  syncing'[x] = syncing[x] \/ settled[syncing'[x].refund] \notin Moved
  BY <1>3, <1>4, <1>5
<1>6. CASE ~SyncApply(s)
  <2>1. UNCHANGED <<refunds, settled>>
    BY <1>6 DEF SyncBegin, SyncCall, SyncFails, storeVars
  <2> QED BY <2>1, <1>2, <1>5, BooksAsked
<1>7. CASE SyncApply(s)
  <2> DEFINE r == syncing[s].refund
             result == syncing[s].answer
  <2>1. applyPayPalRefundResult(r, result) /\ syncing[s].pc = "apply"
    BY <1>7 DEF SyncApply
  <2>2. r \in RefundIds /\ refunds[r] # NoRefund /\ result \in {"pending", "completed", "failed"}
        /\ result \in Answers
    BY <1>1, <2>1 DEF RequestsInv, SyncInv, Answers
  <2>3. result = "failed" => settled[r] \notin Moved
    BY <2>1 DEF AskedInv, SyncsAsked
  <2> HIDE DEF r, result
  <2>4. /\ settled' = settled /\ refunds'[r] # NoRefund /\ refunds'[r].status = result
        /\ \A x \in RefundIds \ {r} : refunds'[x] = refunds[x]
    BY <1>1, <2>1, <2>2, ApplyStep
  <2>5. \A x \in RefundIds : refunds'[x] = NoRefund => refunds[x] = NoRefund
    BY <2>4
  <2>6. \A x \in RefundIds : refunds'[x] # NoRefund /\ refunds'[x].status \in {"failed", "cancelled"}
              => \/ settled[x] \notin Moved
                 \/ refunds[x] # NoRefund /\ refunds[x].status \in {"failed", "cancelled"}
    BY <2>2, <2>3, <2>4
  <2> QED BY <1>2, <1>5, <2>4, <2>5, <2>6, BooksAsked
<1> QED BY <1>6, <1>7

(* RefundBegin inserts a pending row that PayPal has not been asked about.  *)
LEMMA BeginAsked ==
    ASSUME RefundInv, AskedInv, NEW q \in RefundRequests, NEW o \in Orders, NEW r \in RefundIds,
           NEW amount \in Nat, RefundBegin(q, o, r, amount)
    PROVE  AskedInv'
<1> DEFINE row == [order |-> o, capture |-> latest[o], amount |-> amount,
                   status |-> "pending", known |-> FALSE]
           new == [pc |-> "call", refund |-> r, answer |-> NoId]
<1>1. /\ refunds[r] = NoRefund
      /\ refunds' = [refunds EXCEPT ![r] = row]
      /\ refunding' = [refunding EXCEPT ![q] = new]
      /\ UNCHANGED <<settled, syncing>>
  BY DEF RefundBegin
<1>2. StoreTypeOK /\ AdminRefundTypeOK
  BY DEF RefundInv, RefundTypeOK
<1>3. settled[r] = "unasked"
  BY <1>1 DEF AskedInv, RowsAsked
<1>4. row.status = "pending" /\ new.refund = r
  OBVIOUS
<1> HIDE DEF row, new
<1>5. refunds'[r] = row /\ \A x \in RefundIds \ {r} : refunds'[x] = refunds[x]
  BY <1>1, <1>2 DEF StoreTypeOK
<1>6. refunding'[q] = new /\ \A x \in RefundRequests \ {q} : refunding'[x] = refunding[x]
  BY <1>1, <1>2 DEF AdminRefundTypeOK
<1>7. \A x \in RefundIds : refunds'[x] # NoRefund /\ refunds'[x].status \in {"failed", "cancelled"}
              => \/ settled[x] \notin Moved
                 \/ refunds[x] # NoRefund /\ refunds[x].status \in {"failed", "cancelled"}
  BY <1>4, <1>5
<1>8. \A x \in RefundIds : refunds'[x] = NoRefund => refunds[x] = NoRefund
  BY <1>1, <1>5
<1>9. \A x \in RefundRequests : refunding'[x] = refunding[x]
                                  \/ settled[refunding'[x].refund] = "unasked"
  BY <1>3, <1>4, <1>6
<1> QED BY <1>1, <1>7, <1>8, <1>9, BooksAsked

(* A refund recorded as failed or cancelled moved no money, whatever the    *)
(* database and the processes do, provided that no answer of PayPal's is    *)
(* lost on the way.                                                         *)
THEOREM FailedMeansUnmoved ==
    ASSUME "lost" \notin Faults
    PROVE  RefundSpec => []FailedMovedNoMoney
<1>1. PaidInit => AskedInv
  <2> SUFFICES ASSUME PaidInit PROVE AskedInv
    OBVIOUS
  <2>1. RowsAsked /\ FailedMovedNoMoney
    BY DEF PaidInit, RowsAsked, FailedMovedNoMoney
  <2>2. RequestsAsked /\ SyncsAsked
    BY DEF PaidInit, RefundInit, RequestsAsked, SyncsAsked, Busy
  <2> QED BY <2>1, <2>2 DEF AskedInv
<1>2. RefundInv /\ AskedInv /\ [RefundNext]_refundVars => AskedInv'
  <2> SUFFICES ASSUME RefundInv, AskedInv, [RefundNext]_refundVars PROVE AskedInv'
    OBVIOUS
  <2>1. CASE UNCHANGED refundVars
    BY <2>1 DEF refundVars, adminRefundVars, storeVars, AskedInv, RowsAsked, RequestsAsked,
          SyncsAsked, Busy, FailedMovedNoMoney
  <2>2. ASSUME NEW q \in RefundRequests, NEW o \in Orders, NEW r \in RefundIds,
               NEW amount \in 1..Total[o], RefundBegin(q, o, r, amount)
        PROVE  AskedInv'
    <3>1. Total[o] \in Nat
      BY AmountsAssumption
    <3>2. amount \in Nat
      BY <3>1
    <3> QED BY <2>2, <3>2, BeginAsked
  <2>3. ASSUME NEW q \in RefundRequests,
               RefundAccepted(q) \/ RefundRefused(q) \/ RefundAnswerLost(q) \/ RefundReject(q)
                  \/ RefundRecordStatus(q) \/ RefundApply(q) \/ RefundDies(q)
        PROVE  AskedInv'
    BY <2>3, CallAsked, RefundStepAsked
  <2>4. ASSUME NEW r \in RefundIds, SettleRefund(r) PROVE AskedInv'
    BY <2>4, SettleAsked
  <2>5. ASSUME NEW s \in Syncs,
               (\E r \in RefundIds : SyncBegin(s, r)) \/ SyncCall(s) \/ SyncApply(s) \/ SyncFails(s)
        PROVE  AskedInv'
    BY <2>5, SyncStepAsked
  <2> QED BY <2>1, <2>2, <2>3, <2>4, <2>5 DEF RefundNext
<1>3. AskedInv => FailedMovedNoMoney
  BY DEF AskedInv
<1> QED BY <1>1, <1>2, <1>3, RefundInvInit, RefundStep, PTL DEF RefundSpec
-----------------------------------------------------------------------------
(* The books: what has been refunded and may still be.                      *)

Working(s) == syncing[s].pc \in {"call", "apply"}

(* No two syncs are under way for one refund.  The code does not see to it: *)
(* with two, the one that asked first may write its answer last, and turn a *)
(* failed refund back into a pending one beside its successor.              *)
OneSyncPerRefund ==
    \A s, t \in Syncs :
        Working(s) /\ Working(t) /\ syncing[s].refund = syncing[t].refund => s = t

(* The refunds that use up what an order may be refunded.                   *)
OpenRefunds(o) == RefundsOf(o, "pending") \cup RefundsOf(o, "completed")

(* The refunded amount of an order is that of its completed refunds; with a *)
(* refund still pending it stays within the total.                          *)
CountedInv == \A o \in Orders : order[o].counted = RefundsOf(o, "completed")
AmountInv ==
    \A o \in Orders : IsFiniteSet(OpenRefunds(o)) /\ AmountOf(OpenRefunds(o)) <= Total[o]

(* The row a sync works on is open or cancelled; whoever asks PayPal about  *)
(* a cancelled one is told that it failed.                                  *)
SyncedInv ==
    \A s \in Syncs : Working(s) =>
        /\ refunds[syncing[s].refund].status \in {"pending", "cancelled"}
        /\ syncing[s].pc = "apply" /\ refunds[syncing[s].refund].status = "cancelled"
              => syncing[s].answer = "failed"
CancelledRows ==
    \A r \in RefundIds :
        refunds[r] # NoRefund /\ refunds[r].status = "cancelled" => settled[r] = "cancelled"
CancelledAnswers ==
    \A q \in RefundRequests :
        refunding[q].pc = "apply" /\ refunding[q].answer = "cancelled"
            => settled[refunding[q].refund] = "cancelled"

BooksInv == CountedInv /\ AmountInv /\ SyncedInv /\ CancelledRows /\ CancelledAnswers

(* An open refund has an amount.                                            *)
LEMMA OpenRow ==
    ASSUME StoreTypeOK, NEW o \in Orders, NEW r \in OpenRefunds(o)
    PROVE  r \in RefundIds /\ refunds[r] \in RefundRows /\ refunds[r].amount \in Nat
<1>1. r \in RefundIds /\ refunds[r] # NoRefund
  BY DEF OpenRefunds, RefundsOf
<1>2. refunds[r] \in RefundRows
  BY <1>1, RowThere
<1> QED BY <1>1, <1>2 DEF RefundRows

(* The amounts stay within the total when no row is opened and open ones    *)
(* keep order and amount.                                                   *)
LEMMA AmountKept ==
    ASSUME StoreTypeOK, AmountInv,
           \A r \in RefundIds :
              refunds'[r] # NoRefund /\ refunds'[r].status \in {"pending", "completed"} =>
                 /\ refunds[r] # NoRefund /\ refunds[r].status \in {"pending", "completed"}
                 /\ refunds'[r].order = refunds[r].order
                 /\ refunds'[r].amount = refunds[r].amount
    PROVE  AmountInv'
<1> SUFFICES ASSUME NEW o \in Orders
             PROVE  IsFiniteSet(OpenRefunds(o)') /\ AmountOf(OpenRefunds(o))' <= Total[o]
  BY DEF AmountInv
<1> DEFINE S == OpenRefunds(o)
           T == OpenRefunds(o)'
           f == [r \in S |-> refunds[r].amount]
           g == [r \in T |-> refunds'[r].amount]
<1>1. T \in SUBSET S
  BY DEF OpenRefunds, RefundsOf
<1>2. IsFiniteSet(S) /\ SumOver(f, S) <= Total[o]
  BY DEF AmountInv, AmountOf
<1>3. \A r \in S : f[r] \in Nat
  BY OpenRow
<1>4. \A r \in T : g[r] = f[r]
  BY <1>1 DEF OpenRefunds, RefundsOf
<1>5. AmountOf(OpenRefunds(o))' = SumOver(g, T)
  BY DEF AmountOf, SumOver
<1> HIDE DEF S, T, f, g
<1>6. SumOver(g, T) = SumOver(f, T)
  BY <1>4, SumSame
<1>7. SumOver(f, T) <= SumOver(f, S)
  BY <1>1, <1>2, <1>3, SumMonotone
<1>8. IsFiniteSet(T)
  BY <1>1, <1>2, FS_Subset
<1>9. SumOver(f, S) \in Nat /\ SumOver(f, T) \in Nat /\ Total[o] \in Nat
  <2>1. \A r \in T : f[r] \in Nat
    BY <1>1, <1>3
  <2> QED BY <2>1, <1>2, <1>3, <1>8, SumType, AmountsAssumption
<1>10. SumOver(g, T) <= Total[o]
  BY <1>2, <1>6, <1>7, <1>9
<1> QED BY <1>5, <1>8, <1>10 DEF T

(* RefundBegin opens one row, for no more than what remains.                *)
LEMMA AmountAdded ==
    ASSUME StoreTypeOK, AmountInv, CountedInv, NEW o \in Orders, NEW r \in RefundIds,
           NEW amount \in Nat, refunds[r] = NoRefund,
           RefundsOf(o, "pending") = {}, amount <= Remaining(o),
           NEW row \in RefundRows, row.order = o, row.amount = amount, row.status = "pending",
           refunds' = [refunds EXCEPT ![r] = row]
    PROVE  AmountInv'
<1>1. refunds'[r] = row /\ refunds'[r] # NoRefund /\ \A x \in RefundIds \ {r} : refunds'[x] = refunds[x]
  BY TableUpdated
<1>2. ASSUME NEW x \in Orders \ {o}
      PROVE  IsFiniteSet(OpenRefunds(x)') /\ AmountOf(OpenRefunds(x))' <= Total[x]
  <2> DEFINE S == OpenRefunds(x)
             T == OpenRefunds(x)'
             f == [y \in S |-> refunds[y].amount]
             g == [y \in T |-> refunds'[y].amount]
  <2>1. T = S /\ r \notin S
    BY <1>1 DEF OpenRefunds, RefundsOf
  <2>2. \A y \in S : f[y] = g[y]
    BY <1>1, <2>1 DEF OpenRefunds, RefundsOf
  <2>3. AmountOf(OpenRefunds(x))' = SumOver(g, T) /\ AmountOf(OpenRefunds(x)) = SumOver(f, S)
    BY DEF AmountOf, SumOver
  <2>4. IsFiniteSet(S) /\ AmountOf(OpenRefunds(x)) <= Total[x]
    BY DEF AmountInv
  <2> HIDE DEF f, g
  <2>5. SumOver(f, S) = SumOver(g, S)
    <3> HIDE DEF S
    <3> QED BY <2>2, SumSame
  <2> QED BY <2>1, <2>3, <2>4, <2>5
<1>3. IsFiniteSet(OpenRefunds(o)') /\ AmountOf(OpenRefunds(o))' <= Total[o]
  <2> DEFINE S == OpenRefunds(o)
             T == OpenRefunds(o)'
             f == [y \in S |-> refunds[y].amount]
             g == [y \in T |-> refunds'[y].amount]
  <2>1. T = S \cup {r} /\ r \notin S
    BY <1>1 DEF OpenRefunds, RefundsOf
  <2>2. \A y \in S : f[y] = g[y] /\ g[y] \in Nat
    <3>1. \A y \in S : f[y] = g[y]
      BY <1>1, <2>1 DEF OpenRefunds, RefundsOf
    <3>2. \A y \in S : f[y] \in Nat
      BY OpenRow
    <3> QED BY <3>1, <3>2
  <2>3. g[r] = amount
    BY <1>1, <2>1
  <2>4. AmountOf(OpenRefunds(o))' = SumOver(g, T)
    BY DEF AmountOf, SumOver
  <2>5. IsFiniteSet(S)
    BY DEF AmountInv
  <2>6. order[o].counted = S
    BY DEF CountedInv, OpenRefunds
  <2>7. AmountOf(S) = SumOver(f, S)
    BY DEF AmountOf
  <2>8. amount <= Total[o] - AmountOf(S)
    BY <2>6 DEF Remaining
  <2>9. Total[o] \in Nat
    BY AmountsAssumption
  <2> HIDE DEF S, T, f, g
  <2>10. SumOver(f, S) = SumOver(g, S) /\ SumOver(g, S) \in Nat
    BY <2>2, <2>5, SumSame, SumType
  <2>11. SumOver(g, S \cup {r}) = SumOver(g, S) + amount
    BY <2>1, <2>2, <2>3, <2>5, SumAdd
  <2>12. SumOver(g, T) <= Total[o]
    BY <2>1, <2>7, <2>8, <2>9, <2>10, <2>11
  <2>13. IsFiniteSet(T)
    BY <2>1, <2>5, FS_AddElement
  <2> QED BY <2>4, <2>12, <2>13 DEF T
<1> QED BY <1>2, <1>3 DEF AmountInv

(* A row that is not completed gets an answer, and its order counts it when *)
(* it is completed now.                                                     *)
LEMMA RowMoved ==
    ASSUME StoreTypeOK, AmountInv, CountedInv, NEW r \in RefundIds,
           refunds[r] # NoRefund, refunds[r].status # "completed", refunds'[r] # NoRefund,
           refunds'[r].order = refunds[r].order, refunds'[r].amount = refunds[r].amount,
           refunds'[r].status \in {"pending", "completed"} => refunds[r].status = "pending",
           \A x \in RefundIds \ {r} : refunds'[x] = refunds[x],
           \A o \in Orders : order'[o].counted =
              IF o = refunds[r].order /\ refunds'[r].status = "completed"
              THEN RefundsOf(o, "completed") \cup {r} ELSE order[o].counted
    PROVE  AmountInv' /\ CountedInv'
<1>1. AmountInv'
  BY AmountKept
<1>2. ASSUME NEW o \in Orders PROVE order'[o].counted = RefundsOf(o, "completed")'
  <2>1. order[o].counted = RefundsOf(o, "completed")
    BY DEF CountedInv
  <2>2. r \notin RefundsOf(o, "completed")
    BY DEF RefundsOf
  <2>3. CASE o = refunds[r].order /\ refunds'[r].status = "completed"
    <3>1. RefundsOf(o, "completed")' = RefundsOf(o, "completed") \cup {r}
      BY <2>3 DEF RefundsOf
    <3> QED BY <2>3, <3>1
  <2>4. CASE ~(o = refunds[r].order /\ refunds'[r].status = "completed")
    <3>1. RefundsOf(o, "completed")' = RefundsOf(o, "completed")
      BY <2>2, <2>4 DEF RefundsOf
    <3> QED BY <2>1, <2>4, <3>1
  <2> QED BY <2>3, <2>4
<1> QED BY <1>1, <1>2 DEF CountedInv

(* Steps that leave the rows alone leave the amounts alone.                 *)
LEMMA AmountsAlone ==
    ASSUME BooksInv, UNCHANGED <<order, refunds>>
    PROVE  AmountInv' /\ CountedInv'
<1>1. \A o \in Orders : OpenRefunds(o)' = OpenRefunds(o)
                        /\ RefundsOf(o, "completed")' = RefundsOf(o, "completed")
  BY DEF OpenRefunds, RefundsOf
<1>2. \A o \in Orders : AmountOf(OpenRefunds(o))' = AmountOf(OpenRefunds(o))
  BY <1>1 DEF AmountOf
<1> QED BY <1>1, <1>2 DEF BooksInv, AmountInv, CountedInv

(* A row that no sync works on may change.                                  *)
LEMMA SyncsApart ==
    ASSUME RequestsInv, SyncedInv, NEW r \in RefundIds,
           \A x \in RefundIds \ {r} : refunds'[x] = refunds[x],
           \A s \in Syncs : Working(s)' => syncing'[s] = syncing[s] /\ syncing[s].refund # r
    PROVE  SyncedInv'
<1> SUFFICES ASSUME NEW s \in Syncs, Working(s)'
             PROVE  /\ refunds'[syncing'[s].refund].status \in {"pending", "cancelled"}
                    /\ syncing'[s].pc = "apply" /\ refunds'[syncing'[s].refund].status = "cancelled"
                          => syncing'[s].answer = "failed"
  BY DEF SyncedInv
<1>1. syncing'[s] = syncing[s] /\ syncing[s].refund # r /\ Working(s)
  BY DEF Working
<1>2. syncing[s].refund \in RefundIds
  BY <1>1 DEF RequestsInv, SyncInv, Working
<1>3. refunds'[syncing[s].refund] = refunds[syncing[s].refund]
  BY <1>1, <1>2
<1> QED BY <1>1, <1>3 DEF SyncedInv, Working

(* What PayPal cancelled it has settled: nothing takes it back.             *)
LEMMA CancelledKept ==
    ASSUME CancelledRows, CancelledAnswers, settled' = settled,
           \A r \in RefundIds : refunds'[r] # NoRefund /\ refunds'[r].status = "cancelled"
              => settled[r] = "cancelled" \/ refunds'[r] = refunds[r],
           \A q \in RefundRequests : refunding'[q].pc = "apply" => refunding'[q] = refunding[q]
    PROVE  CancelledRows' /\ CancelledAnswers'
  BY DEF CancelledRows, CancelledAnswers

(* PayPal settles only what is pending.                                     *)
LEMMA SettleBooks ==
    ASSUME RefundInv, BooksInv, NEW r \in RefundIds, SettleRefund(r)
    PROVE  BooksInv'
<1>1. /\ UNCHANGED <<order, refunds, refunding, syncing>> /\ settled[r] = "pending"
      /\ \A x \in RefundIds \ {r} : settled'[x] = settled[x]
  BY DEF SettleRefund, Asked, adminRefundVars, RefundInv, RefundTypeOK, StoreTypeOK
<1>2. \A x \in RefundIds : settled[x] = "cancelled" => settled'[x] = "cancelled"
  BY <1>1
<1>3. CancelledRows'
  BY <1>1, <1>2 DEF BooksInv, CancelledRows
<1>4. CancelledAnswers'
  <2>1. \A q \in RefundRequests : refunding[q].pc = "apply" => refunding[q].refund \in RefundIds
    BY DEF RefundInv, RequestsInv, OwnerInv, Busy
  <2> QED BY <1>1, <1>2, <2>1 DEF BooksInv, CancelledAnswers
<1>5. SyncedInv'
  BY <1>1 DEF BooksInv, SyncedInv, Working
<1> QED BY <1>1, <1>3, <1>4, <1>5, AmountsAlone DEF BooksInv

(* PayPal is asked about a pending row, owned by the request that calls.    *)
LEMMA CallBooks ==
    ASSUME RefundInv, BooksInv, NEW q \in RefundRequests,
           RefundAccepted(q) \/ RefundRefused(q) \/ RefundAnswerLost(q)
    PROVE  BooksInv'
<1> DEFINE r == refunding[q].refund
<1>1. /\ refunding[q].pc = "call" /\ UNCHANGED <<order, refunds, syncing>>
      /\ settled' = settled \/ \E answer \in Answers : settled' = [settled EXCEPT ![r] = answer]
      /\ \/ \E answer \in Answers :
               /\ settled' = [settled EXCEPT ![r] = answer]
               /\ refunding' = [refunding EXCEPT ![q].pc = "apply", ![q].answer = answer]
         \/ refunding' = [refunding EXCEPT ![q].pc = "reject"]
  BY DEF RefundAccepted, RefundRefused, RefundAnswerLost, storeVars, Asked, Answers
<1>2. AdminRefundTypeOK /\ RequestsInv /\ StoreTypeOK
  BY DEF RefundInv, RefundTypeOK
<1>3. r \in RefundIds /\ refunds[r] # NoRefund /\ refunds[r].status = "pending"
  BY <1>1, <1>2 DEF RequestsInv, OwnerInv, Busy
<1>4. \A x \in RefundRequests \ {q} : Busy(x) => refunding[x].refund \in RefundIds \ {r}
  BY <1>1, <1>2 DEF RequestsInv, DistinctInv, OwnerInv, Busy
<1> HIDE DEF r
<1>5. \A x \in RefundIds \ {r} : settled'[x] = settled[x]
  BY <1>1, <1>2 DEF StoreTypeOK
<1>6. /\ \A x \in RefundRequests \ {q} : refunding'[x] = refunding[x]
      /\ refunding'[q].pc = "apply" =>
            refunding'[q].refund = r /\ settled'[r] = refunding'[q].answer
  <2>1. ASSUME NEW answer \in Answers, settled' = [settled EXCEPT ![r] = answer],
               refunding' = [refunding EXCEPT ![q].pc = "apply", ![q].answer = answer]
        PROVE  /\ \A x \in RefundRequests \ {q} : refunding'[x] = refunding[x]
               /\ refunding'[q].refund = r /\ settled'[r] = refunding'[q].answer
    <3>1. settled'[r] = answer
      BY <2>1, <1>2, <1>3 DEF StoreTypeOK
    <3> QED BY <2>1, <3>1, <1>2, RefundAnswered DEF r
  <2>2. CASE refunding' = [refunding EXCEPT ![q].pc = "reject"]
    BY <2>2, <1>2, RefundDone
  <2> QED BY <1>1, <2>1, <2>2
<1>7. CancelledRows'
  BY <1>1, <1>3, <1>5 DEF BooksInv, CancelledRows
<1>8. CancelledAnswers'
  BY <1>4, <1>5, <1>6 DEF BooksInv, CancelledAnswers, Busy
<1>9. SyncedInv'
  BY <1>1 DEF BooksInv, SyncedInv, Working
<1> QED BY <1>1, <1>7, <1>8, <1>9, AmountsAlone DEF BooksInv

(* RefundBegin, under the order's row lock, sees every open refund.         *)
LEMMA BeginBooks ==
    ASSUME RefundInv, BooksInv, NEW q \in RefundRequests, NEW o \in Orders, NEW r \in RefundIds,
           NEW amount \in Nat, RefundBegin(q, o, r, amount)
    PROVE  BooksInv'
<1> DEFINE row == [order |-> o, capture |-> latest[o], amount |-> amount,
                   status |-> "pending", known |-> FALSE]
           new == [pc |-> "call", refund |-> r, answer |-> NoId]
<1>1. /\ refunds[r] = NoRefund
      /\ refunds' = [refunds EXCEPT ![r] = row]
      /\ refunding' = [refunding EXCEPT ![q] = new]
      /\ RefundsOf(o, "pending") = {} /\ amount \in 1..Remaining(o) /\ latest[o] # NoId
      /\ UNCHANGED <<order, settled, syncing>>
  BY DEF RefundBegin, MayRefund
<1>2. StoreTypeOK /\ AdminRefundTypeOK /\ RequestsInv
  BY DEF RefundInv, RefundTypeOK
<1>3. row \in RefundRows /\ row.order = o /\ row.amount = amount /\ row.status = "pending"
  BY <1>1, <1>2 DEF RefundRows, StoreTypeOK
<1>4. new.pc = "call"
  OBVIOUS
<1> HIDE DEF row, new
<1>5. amount <= Remaining(o)
  BY <1>1
<1>6. AmountInv'
  BY <1>1, <1>2, <1>3, <1>5, AmountAdded DEF BooksInv
<1>7. refunds'[r] = row /\ \A x \in RefundIds \ {r} : refunds'[x] = refunds[x]
  BY <1>1, <1>2, <1>3, TableUpdated
<1>8. CountedInv'
  <2>1. \A x \in Orders : RefundsOf(x, "completed")' = RefundsOf(x, "completed")
    BY <1>1, <1>3, <1>7 DEF RefundsOf
  <2> QED BY <1>1, <2>1 DEF BooksInv, CountedInv
<1>9. SyncedInv'
  <2>1. \A s \in Syncs : Working(s) => syncing[s].refund # r
    BY <1>1, <1>2 DEF RequestsInv, SyncInv, Working
  <2>2. \A s \in Syncs : Working(s)' => Working(s) /\ syncing'[s] = syncing[s]
    BY <1>1 DEF Working
  <2> QED BY <1>2, <1>7, <2>1, <2>2, SyncsApart DEF BooksInv
<1>10. \A x \in RefundRequests : refunding'[x].pc = "apply" => refunding'[x] = refunding[x]
  BY <1>1, <1>2, <1>4 DEF AdminRefundTypeOK
<1>11. \A x \in RefundIds : refunds'[x] # NoRefund /\ refunds'[x].status = "cancelled"
              => settled[x] = "cancelled" \/ refunds'[x] = refunds[x]
  BY <1>3, <1>7
<1> QED BY <1>1, <1>6, <1>8, <1>9, <1>10, <1>11, CancelledKept DEF BooksInv

(* RefundReject, RefundRecordStatus, RefundApply and RefundDies close a     *)
(* request: only its own row may change, and no sync works on that one.     *)
LEMMA CloseBooks ==
    ASSUME RefundInv, BooksInv, NEW q \in RefundRequests,
           RefundReject(q) \/ RefundRecordStatus(q) \/ RefundApply(q) \/ RefundDies(q)
    PROVE  BooksInv'
<1> DEFINE r == refunding[q].refund
<1>1. StoreTypeOK /\ AdminRefundTypeOK /\ RequestsInv /\ OrdersInv
  BY DEF RefundInv, RefundTypeOK
<1>2. /\ refunding' = [refunding EXCEPT ![q].pc = "done"] /\ Busy(q) /\ UNCHANGED syncing
  BY DEF RefundReject, RefundRecordStatus, RefundApply, RefundDies, Busy
<1>3. /\ r \in RefundIds /\ refunds[r] # NoRefund /\ refunds[r].status = "pending"
      /\ ~refunds[r].known /\ refunds[r] \in RefundRows
  <2>1. r \in RefundIds /\ refunds[r] # NoRefund /\ refunds[r].status = "pending" /\ ~refunds[r].known
    BY <1>1, <1>2 DEF RequestsInv, OwnerInv
  <2> QED BY <2>1, <1>1, RowThere
<1>4. /\ refunding'[q].pc = "done"
      /\ \A x \in RefundRequests \ {q} : refunding'[x] = refunding[x]
  BY <1>1, <1>2, RefundDone
<1>5. \A s \in Syncs : Working(s)' => syncing'[s] = syncing[s] /\ syncing[s].refund # r
  BY <1>1, <1>2, <1>3 DEF RequestsInv, SyncInv, Working
<1>6. \A x \in RefundRequests : refunding'[x].pc = "apply" => refunding'[x] = refunding[x]
  BY <1>4
<1>7. CASE RefundDies(q)
  <2>1. UNCHANGED <<order, refunds, settled>>
    BY <1>7 DEF RefundDies, storeVars
  <2>2. SyncedInv'
    BY <1>2, <2>1 DEF BooksInv, SyncedInv, Working
  <2>3. CancelledRows' /\ CancelledAnswers'
    BY <2>1, <1>6, CancelledKept DEF BooksInv
  <2> QED BY <2>1, <2>2, <2>3, AmountsAlone DEF BooksInv
<1>8. ASSUME NEW new \in RefundRows, refunds' = [refunds EXCEPT ![r] = new],
             new.order = refunds[r].order, new.amount = refunds[r].amount,
             new.status \in {"failed", "cancelled"},
             new.status = "cancelled" => settled[r] = "cancelled",
             UNCHANGED <<order, settled>>
      PROVE  BooksInv'
  <2>1. refunds'[r] = new /\ refunds'[r] # NoRefund
        /\ \A x \in RefundIds \ {r} : refunds'[x] = refunds[x]
    BY <1>1, <1>3, <1>8, TableUpdated
  <2> HIDE DEF r
  <2>2. AmountInv' /\ CountedInv'
    BY <1>1, <1>3, <1>8, <2>1, RowMoved DEF BooksInv
  <2>3. SyncedInv'
    BY <1>1, <1>3, <1>5, <2>1, SyncsApart DEF BooksInv
  <2>4. \A x \in RefundIds : refunds'[x] # NoRefund /\ refunds'[x].status = "cancelled"
              => settled[x] = "cancelled" \/ refunds'[x] = refunds[x]
    BY <1>8, <2>1
  <2>5. CancelledRows' /\ CancelledAnswers'
    BY <1>6, <1>8, <2>4, CancelledKept DEF BooksInv
  <2> QED BY <2>2, <2>3, <2>5 DEF BooksInv
<1>9. CASE RefundReject(q)
  <2> DEFINE new == [refunds[r] EXCEPT !.status = "failed"]
  <2>1. /\ new \in RefundRows /\ new.order = refunds[r].order /\ new.amount = refunds[r].amount
        /\ new.status = "failed"
    BY <1>3, RowFailed
  <2>2. refunds' = [refunds EXCEPT ![r] = new] /\ UNCHANGED <<order, settled>>
    BY <1>9 DEF RefundReject
  <2> HIDE DEF new, r
  <2> QED BY <2>1, <2>2, <1>8
<1>10. CASE RefundRecordStatus(q)
  <2> DEFINE answer == refunding[q].answer
             new == [refunds[r] EXCEPT !.status = answer, !.known = TRUE]
  <2>1. answer \in {"failed", "cancelled"} /\ answer \in Answers
        /\ (answer = "cancelled" => settled[r] = "cancelled")
    BY <1>10 DEF RefundRecordStatus, Answers, BooksInv, CancelledAnswers
  <2>2. /\ new \in RefundRows /\ new.order = refunds[r].order /\ new.amount = refunds[r].amount
        /\ new.status = answer
    BY <1>3, <2>1, RowRecorded
  <2>3. refunds' = [refunds EXCEPT ![r] = new] /\ UNCHANGED <<order, settled>>
    BY <1>10 DEF RefundRecordStatus
  <2> HIDE DEF new, answer, r
  <2> QED BY <2>1, <2>2, <2>3, <1>8
<1>11. CASE RefundApply(q)
  <2> DEFINE result == refunding[q].answer
  <2>1. applyPayPalRefundResult(r, result) /\ result \in {"pending", "completed"} /\ result \in Answers
    BY <1>11 DEF RefundApply, Answers
  <2> HIDE DEF result, r
  <2>2. /\ refunds'[r] # NoRefund /\ refunds'[r].order = refunds[r].order
        /\ refunds'[r].amount = refunds[r].amount /\ refunds'[r].status = result
        /\ refunds[r].order \in Orders
        /\ \A x \in RefundIds \ {r} : refunds'[x] = refunds[x]
        /\ \A x \in Orders \ {refunds[r].order} : order'[x] = order[x]
        /\ order'[refunds[r].order].counted =
              IF result = "completed" THEN RefundsOf(refunds[r].order, "completed") \cup {r}
              ELSE order[refunds[r].order].counted
        /\ settled' = settled
    BY <1>1, <1>3, <2>1, ApplyStep
  <2>3. \A x \in Orders : order'[x].counted =
              IF x = refunds[r].order /\ refunds'[r].status = "completed"
              THEN RefundsOf(x, "completed") \cup {r} ELSE order[x].counted
    BY <2>2
  <2>4. AmountInv' /\ CountedInv'
    BY <1>1, <1>3, <2>2, <2>3, RowMoved DEF BooksInv
  <2>5. SyncedInv'
    BY <1>1, <1>3, <1>5, <2>2, SyncsApart DEF BooksInv
  <2>6. \A x \in RefundIds : refunds'[x] # NoRefund /\ refunds'[x].status = "cancelled"
              => settled[x] = "cancelled" \/ refunds'[x] = refunds[x]
    BY <2>1, <2>2
  <2>7. CancelledRows' /\ CancelledAnswers'
    BY <1>6, <2>2, <2>6, CancelledKept DEF BooksInv
  <2> QED BY <2>4, <2>5, <2>7 DEF BooksInv
<1> QED BY <1>7, <1>9, <1>10, <1>11

(* A sync starts with a row that is not final, and hears of a cancelled one *)
(* that it failed.                                                          *)
LEMMA SyncBooks ==
    ASSUME RefundInv, BooksInv, NEW s \in Syncs,
           (\E r \in RefundIds : SyncBegin(s, r)) \/ SyncCall(s) \/ SyncFails(s)
    PROVE  BooksInv'
<1>1. StoreTypeOK /\ AdminRefundTypeOK /\ RequestsInv
  BY DEF RefundInv, RefundTypeOK
<1>2. UNCHANGED <<order, refunds, settled, refunding>>
  BY DEF SyncBegin, SyncCall, SyncFails, storeVars
<1>3. syncing \in [Syncs -> SyncRecords]
  BY <1>1 DEF AdminRefundTypeOK, SyncRecords
<1>4. \A x \in Syncs \ {s} : syncing'[x] = syncing[x]
  BY <1>3 DEF SyncBegin, SyncCall, SyncFails
<1>5. Working(s)' =>
        /\ refunds[syncing'[s].refund].status \in {"pending", "cancelled"}
        /\ syncing'[s].pc = "apply" /\ refunds[syncing'[s].refund].status = "cancelled"
              => syncing'[s].answer = "failed"
  <2>1. CASE \E r \in RefundIds : SyncBegin(s, r)
    <3>1. PICK r \in RefundIds : SyncBegin(s, r)
      BY <2>1
    <3>2. refunds[r] \in RefundRows /\ refunds[r].status \notin {"completed", "failed"}
      BY <3>1, <1>1, RowThere DEF SyncBegin
    <3>3. refunds[r].status \in {"pending", "cancelled"}
      BY <3>2 DEF RefundRows
    <3>4. syncing'[s].pc = "call" /\ syncing'[s].refund = r
      BY <3>1, <1>3 DEF SyncBegin
    <3> QED BY <3>3, <3>4
  <2>2. CASE SyncCall(s)
    <3> DEFINE answer == IF settled[syncing[s].refund] \in {"completed", "pending"}
                         THEN settled[syncing[s].refund] ELSE "failed"
               new == [syncing[s] EXCEPT !.pc = "apply", !.answer = answer]
    <3>1. syncing' = [syncing EXCEPT ![s] = new] /\ Working(s)
      BY <2>2 DEF SyncCall, Working
    <3>2. syncing'[s].refund = syncing[s].refund /\ syncing'[s].answer = answer
      <4> HIDE DEF answer
      <4> QED BY <3>1, <1>3 DEF SyncRecords
    <3>3. /\ syncing[s].refund \in RefundIds /\ refunds[syncing[s].refund] # NoRefund
          /\ refunds[syncing[s].refund].status \in {"pending", "cancelled"}
      BY <3>1, <1>1 DEF RequestsInv, SyncInv, Working, BooksInv, SyncedInv
    <3>4. refunds[syncing[s].refund].status = "cancelled" => answer = "failed"
      BY <3>3 DEF BooksInv, CancelledRows
    <3> HIDE DEF answer, new
    <3> QED BY <3>2, <3>3, <3>4
  <2>3. CASE SyncFails(s)
    BY <2>3, <1>3 DEF SyncFails, Working, SyncRecords
  <2> QED BY <2>1, <2>2, <2>3
<1>6. SyncedInv'
  <2>1. \A x \in Syncs \ {s} : Working(x)' => Working(x)
    BY <1>4 DEF Working
  <2>2. ASSUME NEW x \in Syncs \ {s}, Working(x)'
        PROVE  /\ refunds'[syncing'[x].refund].status \in {"pending", "cancelled"}
               /\ syncing'[x].pc = "apply" /\ refunds'[syncing'[x].refund].status = "cancelled"
                     => syncing'[x].answer = "failed"
    BY <1>2, <1>4, <2>1, <2>2 DEF BooksInv, SyncedInv
  <2> QED BY <1>2, <1>5, <2>2 DEF SyncedInv
<1>7. CancelledRows' /\ CancelledAnswers'
  BY <1>2, CancelledKept DEF BooksInv
<1> QED BY <1>2, <1>6, <1>7, AmountsAlone DEF BooksInv

(* A sync alone on its refund completes, keeps or fails an open one: nobody *)
(* else has settled it since it was read.                                   *)
LEMMA SyncApplyBooks ==
    ASSUME RefundInv, BooksInv, OneSyncPerRefund, NEW s \in Syncs, SyncApply(s)
    PROVE  BooksInv'
<1> DEFINE r == syncing[s].refund
           result == syncing[s].answer
<1>1. StoreTypeOK /\ AdminRefundTypeOK /\ RequestsInv /\ OrdersInv
  BY DEF RefundInv, RefundTypeOK
<1>2. /\ applyPayPalRefundResult(r, result) /\ syncing[s].pc = "apply" /\ Working(s)
      /\ syncing' = [syncing EXCEPT ![s].pc = "done"] /\ UNCHANGED refunding
  BY DEF SyncApply, Working
<1>3. /\ r \in RefundIds /\ refunds[r] # NoRefund /\ result \in {"pending", "completed", "failed"}
      /\ result \in Answers
  BY <1>1, <1>2 DEF RequestsInv, SyncInv, Answers
<1>4. /\ refunds[r].status \in {"pending", "cancelled"}
      /\ result \in {"pending", "completed"} => refunds[r].status = "pending"
  BY <1>2 DEF BooksInv, SyncedInv
<1>5. \A t \in Syncs \ {s} : Working(t) => syncing[t].refund # r
  BY <1>2 DEF OneSyncPerRefund
<1> HIDE DEF r, result
<1>6. /\ syncing'[s].pc = "done"
      /\ \A x \in Syncs \ {s} : syncing'[x] = syncing[x]
  BY <1>1, <1>2, SyncDone
<1>7. /\ refunds'[r] # NoRefund /\ refunds'[r].order = refunds[r].order
      /\ refunds'[r].amount = refunds[r].amount /\ refunds'[r].status = result
      /\ refunds[r].order \in Orders
      /\ \A x \in RefundIds \ {r} : refunds'[x] = refunds[x]
      /\ \A x \in Orders \ {refunds[r].order} : order'[x] = order[x]
      /\ order'[refunds[r].order].counted =
            IF result = "completed" THEN RefundsOf(refunds[r].order, "completed") \cup {r}
            ELSE order[refunds[r].order].counted
      /\ settled' = settled
  BY <1>1, <1>2, <1>3, ApplyStep
<1>8. \A x \in Orders : order'[x].counted =
            IF x = refunds[r].order /\ refunds'[r].status = "completed"
            THEN RefundsOf(x, "completed") \cup {r} ELSE order[x].counted
  BY <1>7
<1>9. AmountInv' /\ CountedInv'
  BY <1>1, <1>3, <1>4, <1>7, <1>8, RowMoved DEF BooksInv
<1>10. \A t \in Syncs : Working(t)' => syncing'[t] = syncing[t] /\ syncing[t].refund # r
  BY <1>5, <1>6 DEF Working
<1>11. SyncedInv'
  BY <1>1, <1>3, <1>7, <1>10, SyncsApart DEF BooksInv
<1>12. \A x \in RefundIds : refunds'[x] # NoRefund /\ refunds'[x].status = "cancelled"
              => settled[x] = "cancelled" \/ refunds'[x] = refunds[x]
  BY <1>3, <1>7
<1>13. CancelledRows' /\ CancelledAnswers'
  BY <1>2, <1>7, <1>12, CancelledKept DEF BooksInv
<1> QED BY <1>9, <1>11, <1>13 DEF BooksInv

(* Nothing has been refunded of an order that was just paid.                *)
LEMMA BooksInit == PaidInit => BooksInv
<1> SUFFICES ASSUME PaidInit PROVE BooksInv
  OBVIOUS
<1>1. \A o \in Orders : order[o].counted = {}
  BY DEF PaidInit
<1>2. \A o \in Orders : OpenRefunds(o) = {} /\ RefundsOf(o, "completed") = {}
  BY DEF PaidInit, OpenRefunds, RefundsOf
<1>3. AmountOf({}) = 0
  BY SumEmpty DEF AmountOf
<1>4. AmountInv
  <2>1. \A o \in Orders : Total[o] \in Nat
    BY AmountsAssumption
  <2>2. \A o \in Orders : 0 <= Total[o]
    BY <2>1
  <2> QED BY <1>2, <1>3, <2>2, FS_EmptySet DEF AmountInv
<1>5. CountedInv
  BY <1>1, <1>2 DEF CountedInv
<1>6. SyncedInv /\ CancelledRows /\ CancelledAnswers
  BY DEF PaidInit, RefundInit, SyncedInv, CancelledRows, CancelledAnswers, Working
<1> QED BY <1>4, <1>5, <1>6 DEF BooksInv

(* Every step keeps the books, while no two syncs of one refund overlap.    *)
LEMMA BooksStep ==
    ASSUME RefundInv, BooksInv, OneSyncPerRefund, [RefundNext]_refundVars
    PROVE  BooksInv'
<1>1. CASE UNCHANGED refundVars
  <2>1. UNCHANGED <<order, refunds, settled, refunding, syncing>>
    BY <1>1 DEF refundVars, adminRefundVars, storeVars
  <2>2. SyncedInv' /\ CancelledRows' /\ CancelledAnswers'
    BY <2>1 DEF BooksInv, SyncedInv, CancelledRows, CancelledAnswers, Working
  <2> QED BY <2>1, <2>2, AmountsAlone DEF BooksInv
<1>2. ASSUME NEW q \in RefundRequests, NEW o \in Orders, NEW r \in RefundIds,
             NEW amount \in 1..Total[o], RefundBegin(q, o, r, amount)
      PROVE  BooksInv'
  <2>1. Total[o] \in Nat
    BY AmountsAssumption
  <2>2. amount \in Nat
    BY <2>1
  <2> QED BY <1>2, <2>2, BeginBooks
<1>3. ASSUME NEW q \in RefundRequests,
             RefundAccepted(q) \/ RefundRefused(q) \/ RefundAnswerLost(q) \/ RefundReject(q)
                \/ RefundRecordStatus(q) \/ RefundApply(q) \/ RefundDies(q)
      PROVE  BooksInv'
  BY <1>3, CallBooks, CloseBooks
<1>4. ASSUME NEW r \in RefundIds, SettleRefund(r) PROVE BooksInv'
  BY <1>4, SettleBooks
<1>5. ASSUME NEW s \in Syncs,
             (\E r \in RefundIds : SyncBegin(s, r)) \/ SyncCall(s) \/ SyncApply(s) \/ SyncFails(s)
      PROVE  BooksInv'
  BY <1>5, SyncBooks, SyncApplyBooks
<1> QED BY <1>1, <1>2, <1>3, <1>4, <1>5 DEF RefundNext

(* As long as no two syncs of one refund overlap, the refunds of an order   *)
(* that are pending, completed or counted never add up to more than its     *)
(* total, and its refunded amount is that of its completed refunds, however *)
(* many admins refund at once and whatever PayPal and the database do.      *)
THEOREM RefundsAddUp ==
    RefundSpec /\ []OneSyncPerRefund => [](RefundsWithinTotal /\ CountedInv)
<1>1. BooksInv => RefundsWithinTotal /\ CountedInv
  <2> SUFFICES ASSUME BooksInv PROVE RefundsWithinTotal
    BY DEF BooksInv
  <2>1. \A o \in Orders :
           order[o].counted \cup RefundsOf(o, "pending") \cup RefundsOf(o, "completed")
              = OpenRefunds(o)
    BY DEF BooksInv, CountedInv, OpenRefunds
  <2> QED BY <2>1 DEF BooksInv, AmountInv, RefundsWithinTotal
<1>2. RefundInv /\ BooksInv /\ OneSyncPerRefund /\ [RefundNext]_refundVars => BooksInv'
  BY BooksStep
<1> QED BY <1>1, <1>2, BooksInit, RefundInvInit, RefundStep, PTL DEF RefundSpec
(* A refund that is completed or has failed is settled for good, and what   *)
(* an order counts as refunded never shrinks.                               *)
SettledRowsStay ==
    /\ \A r \in RefundIds : refunds[r] # NoRefund /\ refunds[r].status \in {"completed", "failed"}
          => refunds'[r] = refunds[r]
    /\ \A o \in Orders : order[o].counted \subseteq order'[o].counted

(* Only rows that are absent, pending or cancelled change: a request holds  *)
(* a pending one, a sync a pending or cancelled one.                        *)
LEMMA OpenRowsMove ==
    ASSUME RefundInv, BooksInv, [RefundNext]_refundVars, NEW r \in RefundIds,
           refunds[r] # NoRefund, refunds[r].status \in {"completed", "failed"}
    PROVE  refunds'[r] = refunds[r]
<1>1. StoreTypeOK /\ RequestsInv /\ OrdersInv
  BY DEF RefundInv, RefundTypeOK
<1>2. ASSUME NEW x \in RefundIds, x # r, NEW new, refunds' = [refunds EXCEPT ![x] = new]
      PROVE  refunds'[r] = refunds[r]
  BY <1>1, <1>2 DEF StoreTypeOK
<1>3. ASSUME NEW q \in RefundRequests, NEW o \in Orders, NEW x \in RefundIds,
             NEW amount \in 1..Total[o], RefundBegin(q, o, x, amount)
      PROVE  refunds'[r] = refunds[r]
  <2>1. x # r
    BY <1>3 DEF RefundBegin
  <2> QED BY <1>2, <1>3, <2>1 DEF RefundBegin
<1>4. ASSUME NEW q \in RefundRequests, Busy(q)
      PROVE  refunding[q].refund \in RefundIds /\ refunding[q].refund # r
             /\ refunds[refunding[q].refund] # NoRefund
  BY <1>1, <1>4 DEF RequestsInv, OwnerInv
<1>5. ASSUME NEW x \in RefundIds, NEW result \in Answers, refunds[x] # NoRefund, x # r,
             applyPayPalRefundResult(x, result)
      PROVE  refunds'[r] = refunds[r]
  <2>1. StoreTypeOK /\ OrdersInv
    BY <1>1
  <2>2. \A y \in RefundIds \ {x} : refunds'[y] = refunds[y]
    BY <1>5, <2>1, ApplyStep
  <2> QED BY <1>5, <2>2
<1>6. ASSUME NEW q \in RefundRequests,
             RefundAccepted(q) \/ RefundRefused(q) \/ RefundAnswerLost(q) \/ RefundReject(q)
                \/ RefundRecordStatus(q) \/ RefundApply(q) \/ RefundDies(q)
      PROVE  refunds'[r] = refunds[r]
  <2>1. CASE RefundAccepted(q) \/ RefundRefused(q) \/ RefundAnswerLost(q) \/ RefundDies(q)
    BY <2>1 DEF RefundAccepted, RefundRefused, RefundAnswerLost, RefundDies, storeVars
  <2>2. CASE RefundReject(q)
    <3>1. refunding[q].refund \in RefundIds /\ refunding[q].refund # r
      BY <1>4, <2>2 DEF RefundReject, Busy
    <3> QED BY <1>1, <3>1, <2>2 DEF RefundReject, StoreTypeOK
  <2>3. CASE RefundRecordStatus(q)
    <3>1. refunding[q].refund \in RefundIds /\ refunding[q].refund # r
      BY <1>4, <2>3 DEF RefundRecordStatus, Busy
    <3> QED BY <1>1, <3>1, <2>3 DEF RefundRecordStatus, StoreTypeOK
  <2>4. CASE RefundApply(q)
    <3>1. refunding[q].refund \in RefundIds /\ refunding[q].refund # r
          /\ refunds[refunding[q].refund] # NoRefund
      BY <1>4, <2>4 DEF RefundApply, Busy
    <3>2. refunding[q].answer \in Answers
          /\ applyPayPalRefundResult(refunding[q].refund, refunding[q].answer)
      BY <2>4 DEF RefundApply, Answers
    <3> QED BY <1>5, <3>1, <3>2
  <2> QED BY <1>6, <2>1, <2>2, <2>3, <2>4
<1>7. ASSUME NEW s \in Syncs, SyncApply(s) PROVE refunds'[r] = refunds[r]
  <2>1. Working(s) /\ syncing[s].pc = "apply"
    BY <1>7 DEF SyncApply, Working
  <2>2. /\ syncing[s].refund \in RefundIds /\ refunds[syncing[s].refund] # NoRefund
        /\ syncing[s].answer \in Answers
    BY <1>1, <2>1 DEF RequestsInv, SyncInv, Answers
  <2>3. syncing[s].refund # r
    BY <2>1 DEF BooksInv, SyncedInv
  <2> QED BY <1>5, <1>7, <2>2, <2>3 DEF SyncApply
<1>8. ASSUME NEW s \in Syncs, (\E x \in RefundIds : SyncBegin(s, x)) \/ SyncCall(s) \/ SyncFails(s)
      PROVE  refunds'[r] = refunds[r]
  BY <1>8 DEF SyncBegin, SyncCall, SyncFails, storeVars
<1>9. ASSUME NEW x \in RefundIds, SettleRefund(x) PROVE refunds'[r] = refunds[r]
  BY <1>9 DEF SettleRefund
<1>10. CASE UNCHANGED refundVars
  BY <1>10 DEF refundVars, storeVars
<1> QED BY <1>3, <1>6, <1>7, <1>8, <1>9, <1>10 DEF RefundNext

(* No request and no sync, whatever it read before, reopens a refund that   *)
(* is completed or has failed, or takes back what an order counts as        *)
(* refunded, as long as no two syncs of one refund overlap.                 *)
THEOREM SettledForGood ==
    RefundSpec /\ []OneSyncPerRefund => [][SettledRowsStay]_refundVars
<1>1. RefundInv /\ BooksInv /\ OneSyncPerRefund /\ [RefundNext]_refundVars => BooksInv'
  BY BooksStep
<1>2. RefundInv /\ BooksInv /\ BooksInv' /\ [RefundNext]_refundVars => [SettledRowsStay]_refundVars
  <2> SUFFICES ASSUME RefundInv, BooksInv, BooksInv', [RefundNext]_refundVars
               PROVE  SettledRowsStay
    OBVIOUS
  <2>1. \A r \in RefundIds : refunds[r] # NoRefund /\ refunds[r].status \in {"completed", "failed"}
           => refunds'[r] = refunds[r]
    BY OpenRowsMove
  <2>2. ASSUME NEW o \in Orders PROVE order[o].counted \subseteq order'[o].counted
    <3>1. order[o].counted = RefundsOf(o, "completed")
      BY DEF BooksInv, CountedInv
    <3>2. order'[o].counted = RefundsOf(o, "completed")'
      BY DEF BooksInv, CountedInv
    <3>3. RefundsOf(o, "completed") \subseteq RefundsOf(o, "completed")'
      BY <2>1 DEF RefundsOf
    <3> QED BY <3>1, <3>2, <3>3
  <2> QED BY <2>1, <2>2 DEF SettledRowsStay
<1> QED BY <1>1, <1>2, BooksInit, RefundInvInit, RefundStep, PTL DEF RefundSpec
=============================================================================
