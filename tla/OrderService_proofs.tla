------------------------ MODULE OrderService_proofs ------------------------
(***************************************************************************)
(* Checkout, refunds, edits and deletes together, for any orders, requests *)
(* and faults: a payment row records a capture of its order, an order that *)
(* counts as paid was captured, one that counts as refunded has a refund   *)
(* PayPal was asked for, and a deleted order has no items.                 *)
(*                                                                         *)
(* The argument.  A completed capture, a refunds row and PayPal's record   *)
(* of a refund are never taken back (Growth).  So it is enough to know     *)
(* where the payment state of a row may come from (Sources): the row       *)
(* itself, a capture, a refund, or the copy of the row that an edit read,  *)
(* which was backed by the same evidence when it was read and still is.    *)
(***************************************************************************)
EXTENDS OrderService, PayPalCheckout_proofs, OrderRefund_proofs

Captured(o) == \E p \in PayPalIds : CompletedFor(p, o)

HasRefund(o) ==
    \E r \in RefundIds : refunds[r] # NoRefund /\ refunds[r].order = o /\ settled[r] # "unasked"

PaidStates == {"paid"} \cup RefundStates

ServiceTypeOK == CheckoutTypeOK /\ AdminRefundTypeOK /\ AdminTypeOK

-----------------------------------------------------------------------------
(* The inductive invariant. *)

(* A refund request at work and a sync have a row; PayPal was asked about   *)
(* every refund whose answer is at hand or whose id is stored.              *)
RefundersInv ==
    /\ \A q \in RefundRequests : Busy(q) =>
          /\ refunding[q].refund \in RefundIds
          /\ refunds[refunding[q].refund] # NoRefund
          /\ refunding[q].pc = "apply" =>
                refunding[q].answer \in Answers /\ settled[refunding[q].refund] # "unasked"
    /\ SyncInv
    /\ \A r \in RefundIds : refunds[r] # NoRefund /\ refunds[r].known => settled[r] # "unasked"

(* An edit and a delete under way know their order; a delete that is past   *)
(* the items has removed them.                                              *)
Deleting(d) == deletion[d].pc \in {"restock", "items", "transactions", "row"}

AdminsInv ==
    /\ \A e \in Edits : edit[e].pc = "read" =>
          edit[e].order \in Orders /\ edit[e].row \in OrderRows /\ order[edit[e].order] # Unplaced
    /\ \A d \in Deletes : Deleting(d) =>
          /\ deletion[d].order \in Orders /\ order[deletion[d].order] # Unplaced
          /\ deletion[d].pc \in {"transactions", "row"} => deletion[d].order \notin items

(* What is refunded, in a row or in a copy an edit read, has its refund.    *)
RefundedInv ==
    /\ \A o \in Orders : order[o] \in OrderRows /\ order[o].payment \in RefundStates => HasRefund(o)
    /\ \A e \in Edits : edit[e].pc = "read" /\ edit[e].row.payment \in RefundStates =>
          HasRefund(edit[e].order)

(* What is paid, in a row or in a copy, and what has a refund was captured. *)
CapturedInv ==
    /\ \A o \in Orders : order[o] \in OrderRows /\ order[o].payment \in PaidStates => Captured(o)
    /\ \A e \in Edits : edit[e].pc = "read" /\ edit[e].row.payment \in PaidStates =>
          Captured(edit[e].order)
    /\ \A r \in RefundIds : refunds[r] # NoRefund => Captured(refunds[r].order)

RowsInv == RequestInv /\ AdminRefundTypeOK /\ AdminTypeOK /\ RefundersInv /\ AdminsInv
ServiceInv == RowsInv /\ RecordedInv /\ RefundedInv /\ DeletedHasNoItems

-----------------------------------------------------------------------------
(* What every step does. *)

(* Evidence is never taken back, and rows appear only where they may.       *)
Growth ==
    /\ \A p \in PayPalIds, o \in Orders : CompletedFor(p, o) => CompletedFor(p, o)'
    /\ \A o \in Orders : recorded'[o] \subseteq recorded[o] \cup {p \in PayPalIds : CompletedFor(p, o)}
    /\ \A r \in RefundIds : refunds[r] # NoRefund =>
          refunds'[r] # NoRefund /\ refunds'[r].order = refunds[r].order
    /\ \A r \in RefundIds : refunds[r] = NoRefund /\ refunds'[r] # NoRefund =>
          LET o == refunds'[r].order
          IN  o \in Orders /\ order[o] \in OrderRows /\ order[o].payment \in PaidStates
    /\ \A r \in RefundIds : settled[r] # "unasked" => settled'[r] # "unasked"

(* Where the payment state of a row comes from.                             *)
Sources ==
    \A o \in Orders : order'[o] \in OrderRows =>
        \/ order[o] \in OrderRows /\ order'[o].payment = order[o].payment
        \/ order'[o].payment = "pending"
        \/ order'[o].payment = "paid" /\ Captured(o)
        \/ order'[o].payment \in PaidStates /\ HasRefund(o)
        \/ \E e \in Edits : /\ edit[e].pc = "read" /\ edit[e].order = o
                            /\ order'[o].payment \in EditPayments \cup {edit[e].row.payment}

(* Where the copy of an edit comes from.                                    *)
Copies ==
    \A e \in Edits : edit'[e].pc = "read" =>
        \/ /\ edit[e].pc = "read"
           /\ edit'[e].order = edit[e].order /\ edit'[e].row = edit[e].row
        \/ LET o == edit'[e].order
           IN  o \in Orders /\ order[o] \in OrderRows /\ edit'[e].row = order[o]

(* No order leaves the table but by a delete that is past its items, and    *)
(* items appear only with their order.                                      *)
Deletions ==
    /\ \A o \in Orders : order[o] # Unplaced => order'[o] # Unplaced
    /\ \A o \in Orders : o \in items' => o \in items \/ (order[o] = Unplaced /\ order'[o] # Deleted)
    /\ \A o \in Orders : order'[o] = Deleted =>
          order[o] = Deleted \/ \E d \in Deletes : deletion[d].pc = "row" /\ deletion[d].order = o

Frames == Growth /\ Sources /\ Copies /\ Deletions

-----------------------------------------------------------------------------
(* What follows from the frames. *)

(* A refund PayPal was asked for stays one.                                 *)
LEMMA RefundKept ==
    ASSUME Growth, NEW o, HasRefund(o)
    PROVE  HasRefund(o)'
<1>1. PICK r \in RefundIds : refunds[r] # NoRefund /\ refunds[r].order = o /\ settled[r] # "unasked"
  BY DEF HasRefund
<1>2. refunds'[r] # NoRefund /\ refunds'[r].order = o /\ settled'[r] # "unasked"
  BY <1>1 DEF Growth
<1> QED BY <1>2 DEF HasRefund

(* A captured order stays captured.                                         *)
LEMMA CapturedKept ==
    ASSUME Growth, NEW o \in Orders, Captured(o)
    PROVE  Captured(o)'
<1>1. PICK p \in PayPalIds : CompletedFor(p, o)
  BY DEF Captured
<1>2. CompletedFor(p, o)'
  BY <1>1 DEF Growth
<1> QED BY <1>2 DEF Captured

(* A payment row goes on recording a capture of its order.                  *)
LEMMA RecordedStep ==
    ASSUME RecordedInv, RequestInv, Growth
    PROVE  RecordedInv'
<1> SUFFICES ASSUME NEW o \in Orders, NEW p \in recorded'[o]
             PROVE  CompletedFor(p, o)'
  BY DEF RecordedInv
<1>1. p \in recorded[o] \/ (p \in PayPalIds /\ CompletedFor(p, o))
  BY DEF Growth
<1>2. p \in PayPalIds /\ CompletedFor(p, o)
  BY <1>1 DEF RecordedInv, RequestInv, CheckoutTypeOK, StoreTypeOK
<1> QED BY <1>2 DEF Growth

(* A refund state goes on having its refund: an edit can write one only if  *)
(* its copy had it.                                                         *)
LEMMA RefundedStep ==
    ASSUME RefundedInv, Frames
    PROVE  RefundedInv'
<1>1. ASSUME NEW o \in Orders, order'[o] \in OrderRows, order'[o].payment \in RefundStates
      PROVE  HasRefund(o)
  <2>1. CASE order[o] \in OrderRows /\ order'[o].payment = order[o].payment
    BY <1>1, <2>1 DEF RefundedInv
  <2>2. CASE order'[o].payment = "pending" \/ order'[o].payment = "paid"
    BY <1>1, <2>2 DEF RefundStates
  <2>3. CASE \E e \in Edits : /\ edit[e].pc = "read" /\ edit[e].order = o
                              /\ order'[o].payment \in EditPayments \cup {edit[e].row.payment}
    <3>1. PICK e \in Edits : /\ edit[e].pc = "read" /\ edit[e].order = o
                             /\ order'[o].payment \in EditPayments \cup {edit[e].row.payment}
      BY <2>3
    <3>2. order'[o].payment = edit[e].row.payment
      BY <1>1, <3>1, EditPaymentsAssumption DEF RefundStates
    <3> QED BY <1>1, <3>1, <3>2 DEF RefundedInv
  <2> QED BY <1>1, <2>1, <2>2, <2>3 DEF Frames, Sources
<1>2. ASSUME NEW e \in Edits, edit'[e].pc = "read", edit'[e].row.payment \in RefundStates
      PROVE  HasRefund(edit'[e].order)
  BY <1>2 DEF Frames, Copies, RefundedInv
<1>3. \A o : HasRefund(o) => HasRefund(o)'
  BY RefundKept DEF Frames
<1> QED
  <2>1. ASSUME NEW e \in Edits, edit'[e].pc = "read", edit'[e].row.payment \in RefundStates
        PROVE  HasRefund(edit[e].order)'
    <3>1. PICK o : o = edit'[e].order
      OBVIOUS
    <3>2. HasRefund(o)'
      BY <1>2, <1>3, <2>1, <3>1
    <3> QED BY <3>1, <3>2 DEF HasRefund
  <2> QED BY <1>1, <1>3, <2>1 DEF RefundedInv

(* A paid state goes on having its capture, if no admin may write "paid".   *)
LEMMA CapturedStep ==
    ASSUME StoreTypeOK, CapturedInv, AdminsInv, Frames, "paid" \notin EditPayments
    PROVE  CapturedInv'
<1>1. \A o \in Orders : Captured(o) => Captured(o)'
  BY CapturedKept DEF Frames
<1>2. \A o \in Orders : HasRefund(o) => Captured(o)
  BY DEF HasRefund, CapturedInv
<1>3. ASSUME NEW o \in Orders, order'[o] \in OrderRows, order'[o].payment \in PaidStates
      PROVE  Captured(o)
  <2>1. CASE order[o] \in OrderRows /\ order'[o].payment = order[o].payment
    BY <1>3, <2>1 DEF CapturedInv
  <2>2. CASE order'[o].payment = "pending"
    BY <1>3, <2>2 DEF PaidStates, RefundStates
  <2>3. CASE \E e \in Edits : /\ edit[e].pc = "read" /\ edit[e].order = o
                              /\ order'[o].payment \in EditPayments \cup {edit[e].row.payment}
    <3>1. PICK e \in Edits : /\ edit[e].pc = "read" /\ edit[e].order = o
                             /\ order'[o].payment \in EditPayments \cup {edit[e].row.payment}
      BY <2>3
    <3>2. order'[o].payment = edit[e].row.payment
      BY <1>3, <3>1, EditPaymentsAssumption DEF PaidStates, RefundStates
    <3> QED BY <1>3, <3>1, <3>2 DEF CapturedInv
  <2> QED BY <1>2, <1>3, <2>1, <2>2, <2>3 DEF Frames, Sources
<1>4. ASSUME NEW e \in Edits, edit'[e].pc = "read", edit'[e].row.payment \in PaidStates
      PROVE  edit'[e].order \in Orders /\ Captured(edit'[e].order)
  BY <1>4 DEF Frames, Copies, CapturedInv, AdminsInv
<1>5. ASSUME NEW r \in RefundIds, refunds'[r] # NoRefund
      PROVE  Captured(refunds'[r].order) /\ refunds'[r].order \in Orders
  <2>1. CASE refunds[r] = NoRefund
    BY <1>5, <2>1 DEF Frames, Growth, CapturedInv
  <2>2. CASE refunds[r] # NoRefund
    <3>1. refunds[r].order \in Orders
      BY <2>2, RowThere DEF RefundRows
    <3> QED BY <2>2, <3>1 DEF Frames, Growth, CapturedInv
  <2> QED BY <2>1, <2>2
<1>6. ASSUME NEW e \in Edits, edit'[e].pc = "read", edit'[e].row.payment \in PaidStates
      PROVE  Captured(edit[e].order)'
  <2>1. PICK o \in Orders : o = edit'[e].order
    BY <1>4, <1>6
  <2>2. Captured(o)'
    BY <1>1, <1>4, <1>6, <2>1
  <2> QED BY <2>1, <2>2 DEF Captured, CompletedFor
<1>7. ASSUME NEW r \in RefundIds, refunds'[r] # NoRefund PROVE Captured(refunds[r].order)'
  <2>1. PICK o \in Orders : o = refunds'[r].order
    BY <1>5, <1>7
  <2>2. Captured(o)'
    BY <1>1, <1>5, <1>7, <2>1
  <2> QED BY <2>1, <2>2 DEF Captured, CompletedFor
<1> QED BY <1>1, <1>3, <1>6, <1>7 DEF CapturedInv

(* A deleted order goes on having no items.                                 *)
LEMMA DeletedStep ==
    ASSUME DeletedHasNoItems, AdminsInv, Deletions
    PROVE  DeletedHasNoItems'
<1> SUFFICES ASSUME NEW o \in Orders, order'[o] = Deleted, o \in items' PROVE FALSE
  BY DEF DeletedHasNoItems
<1>1. o \in items
  BY DEF Deletions
<1>2. PICK d \in Deletes : deletion[d].pc = "row" /\ deletion[d].order = o
  BY <1>1 DEF Deletions, DeletedHasNoItems
<1> QED BY <1>1, <1>2 DEF AdminsInv, Deleting

-----------------------------------------------------------------------------
(* Checkout. *)

(* No checkout step touches the refunds.                                    *)
LEMMA CheckoutKeepsRefunds ==
    ASSUME [CheckoutNext]_checkoutVars
    PROVE  UNCHANGED <<refunds, settled>>
<1>1. ASSUME NEW o \in Orders, CheckStock(o) \/ CreateOrder(o)
      PROVE  UNCHANGED <<refunds, settled>>
  BY <1>1 DEF CheckStock, CreateOrder, storeVars
<1>2. ASSUME NEW c \in Creates, \/ \E o \in Orders : CreateBegin(c, o)
                                \/ CreateReuse(c) \/ CreateNew(c) \/ CreateStore(c) \/ CreateFails(c)
      PROVE  UNCHANGED <<refunds, settled>>
  BY <1>2 DEF CreateBegin, CreateReuse, CreateNew, CreateStore, CreateFails, storeVars
<1>3. ASSUME NEW p \in PayPalIds, Approve(p) \/ ReviewCapture(p) \/ Webhook(p)
      PROVE  UNCHANGED <<refunds, settled>>
  BY <1>3 DEF Approve, ReviewCapture, Webhook, finalizePaidOrder
<1>4. ASSUME NEW k \in Captures, \/ \E o \in Orders, p \in PayPalIds : CaptureBegin(k, o, p)
                                 \/ CaptureCall(k) \/ CaptureLost(k)
                                 \/ CaptureFinalize(k) \/ CaptureFails(k)
      PROVE  UNCHANGED <<refunds, settled>>
  BY <1>4 DEF CaptureBegin, CaptureCall, CaptureLost, CaptureFinalize, CaptureFails,
        finalizePaidOrder, storeVars
<1>5. CASE UNCHANGED checkoutVars
  BY <1>5 DEF checkoutVars, storeVars
<1> QED BY <1>1, <1>2, <1>3, <1>4, <1>5 DEF CheckoutNext

(* What a checkout step may do to one order.                                *)
CheckoutEffect(o) ==
    \/ order'[o] = order[o]
    \/ /\ order[o] \in OrderRows /\ order'[o] \in OrderRows
       /\ order'[o].payment = order[o].payment \/ (order'[o].payment = "paid" /\ Captured(o))
    \/ order[o] = Unplaced /\ order'[o] \in OrderRows /\ order'[o].payment = "pending"

(* It leaves the row, pays it for a capture, stores an id or inserts it.    *)
LEMMA CheckoutOrders ==
    ASSUME RequestInv, [CheckoutNext]_checkoutVars
    PROVE  /\ \A o \in Orders : CheckoutEffect(o)
           /\ \A o \in Orders : recorded'[o] \subseteq
                 recorded[o] \cup {p \in PayPalIds : CompletedFor(p, o)}
           /\ \A o \in Orders : o \in items' =>
                 o \in items \/ (order[o] = Unplaced /\ order'[o] # Deleted)
<1> USE DEF CheckoutEffect
<1>1. StoreTypeOK
  BY DEF RequestInv, CheckoutTypeOK
<1>2. CASE Idles
  BY <1>2 DEF Idles
<1>3. CASE Finalizes
  <2>1. PICK o \in Orders, p \in PayPalIds : CompletedFor(p, o) /\ finalizePaidOrder(o, p)
    BY <1>3 DEF Finalizes
  <2>2. /\ order[o] \in OrderRows
        /\ order'[o] \in OrderRows /\ order'[o].payment = "paid"
        /\ \A x \in Orders \ {o} : order'[x] = order[x] /\ recorded'[x] = recorded[x]
        /\ recorded' = recorded \/ recorded'[o] = recorded[o] \cup {p}
    BY <1>1, <2>1, FinalizeStep
  <2>3. Captured(o)
    BY <2>1 DEF Captured
  <2>4. items' = items
    BY <2>1 DEF finalizePaidOrder
  <2>5. \A x \in Orders : recorded'[x] \subseteq
              recorded[x] \cup {q \in PayPalIds : CompletedFor(q, x)}
    BY <2>1, <2>2
  <2> QED BY <2>2, <2>3, <2>4, <2>5
<1>4. CASE Restores
  <2>1. PICK c \in Creates : CreateStore(c)
    BY <1>4 DEF Restores
  <2> DEFINE x == create[c].order
             p == create[c].new
  <2>2. x \in Orders /\ p \in PayPalIds
    BY <2>1 DEF CreateStore, RequestInv, CreateInv
  <2>3. /\ order' = IF Exists(x) THEN [order EXCEPT ![x].paymentId = p] ELSE order
        /\ UNCHANGED <<items, recorded>>
    BY <2>1 DEF CreateStore
  <2> HIDE DEF x, p
  <2>4. CASE ~Exists(x)
    BY <2>3, <2>4
  <2>5. CASE Exists(x)
    <3>1. order[x] \in OrderRows
      BY <1>1, <2>2, <2>5, ExistsIsRow
    <3>2. /\ [order[x] EXCEPT !.paymentId = p] \in OrderRows
          /\ [order[x] EXCEPT !.paymentId = p].payment = order[x].payment
      BY <2>2, <3>1, StoredRow
    <3>3. order' = [order EXCEPT ![x] = [order[x] EXCEPT !.paymentId = p]]
      BY <2>3, <2>5
    <3>4. /\ \A o \in Orders \ {x} : order'[o] = order[o]
          /\ order'[x] = [order[x] EXCEPT !.paymentId = p]
      BY <1>1, <2>2, <3>3 DEF StoreTypeOK
    <3> QED BY <2>3, <3>1, <3>2, <3>4
  <2> QED BY <2>4, <2>5
<1>5. CASE Places
  <2>1. PICK x \in Orders : CreateOrder(x)
    BY <1>5 DEF Places
  <2> DEFINE row == [status |-> "pending", payment |-> "pending", paymentId |-> NoId,
                     counted |-> {}, restored |-> FALSE]
  <2>2. /\ order[x] = Unplaced /\ order' = [order EXCEPT ![x] = row]
        /\ items' = items \cup {x} /\ recorded' = recorded
    BY <2>1 DEF CreateOrder
  <2>3. row \in OrderRows /\ row.payment = "pending"
    BY PlacedRow
  <2> HIDE DEF row
  <2>4. order'[x] = row /\ \A o \in Orders \ {x} : order'[o] = order[o]
    BY <1>1, <2>2 DEF StoreTypeOK
  <2>5. row # Deleted
    BY <2>3, SentinelsAssumption
  <2> QED BY <2>2, <2>3, <2>4, <2>5
<1> QED BY <1>2, <1>3, <1>4, <1>5, FourWays

(* So its frames hold.                                                      *)
LEMMA CheckoutFrames ==
    ASSUME RowsInv, [CheckoutNext]_checkoutVars, UNCHANGED adminVars
    PROVE  Frames
<1>1. RequestInv /\ UNCHANGED <<refunds, settled, edit>>
  BY CheckoutKeepsRefunds DEF RowsInv, adminVars
<1>2. /\ \A o \in Orders : CheckoutEffect(o)
      /\ \A o \in Orders : recorded'[o] \subseteq
            recorded[o] \cup {p \in PayPalIds : CompletedFor(p, o)}
      /\ \A o \in Orders : o \in items' =>
            o \in items \/ (order[o] = Unplaced /\ order'[o] # Deleted)
  BY <1>1, CheckoutOrders
<1>3. Growth
  <2>1. \A p \in PayPalIds, o \in Orders : CompletedFor(p, o) => CompletedFor(p, o)'
    BY <1>1, CompletedKept
  <2> QED BY <1>1, <1>2, <2>1 DEF Growth
<1>4. Sources
  BY <1>2 DEF Sources, CheckoutEffect
<1>5. Copies
  BY <1>1 DEF Copies
<1>6. Deletions
  BY <1>2, SentinelsAssumption DEF Deletions, CheckoutEffect
<1> QED BY <1>3, <1>4, <1>5, <1>6 DEF Frames

(* Checkout keeps the rows, the requests and what the admins know.          *)
LEMMA CheckoutRows ==
    ASSUME RowsInv, [CheckoutNext]_checkoutVars, UNCHANGED <<adminRefundVars, adminVars>>
    PROVE  RowsInv'
<1>1. RequestInv'
  BY RequestStep DEF RowsInv
<1>2. UNCHANGED <<refunds, settled, refunding, syncing, edit, deletion>>
  BY CheckoutKeepsRefunds DEF adminRefundVars, adminVars
<1>3. AdminRefundTypeOK' /\ AdminTypeOK' /\ RefundersInv'
  BY <1>2 DEF RowsInv, AdminRefundTypeOK, AdminTypeOK, RefundersInv, SyncInv, Busy
<1>4. Deletions
  BY CheckoutFrames DEF Frames, adminVars
<1>5. AdminsInv'
  BY <1>2, <1>4 DEF RowsInv, AdminsInv, Deleting, Deletions
<1> QED BY <1>1, <1>3, <1>5 DEF RowsInv

-----------------------------------------------------------------------------
(* Edits and deletes. *)

EditRecords == [pc : {"idle", "read", "done"}, order : Orders \cup {NoId},
                row : OrderRows \cup {Unplaced}]
DeletionRecords == [pc : {"idle", "restock", "items", "transactions", "row", "done"},
                    order : Orders \cup {NoId}]

(* Steps that leave PayPal and the requests of customers alone keep what is *)
(* known of them.                                                           *)
LEMMA RequestsAlone ==
    ASSUME RequestInv, StoreTypeOK', UNCHANGED <<paypal, requestVars>>
    PROVE  RequestInv'
  BY DEF RequestInv, CheckoutTypeOK, RequestTypeOK, CreateInv, OwnedInv, CaptureInv, CompletedFor,
     requestVars

(* Steps that leave the refunds and their requests alone.                   *)
LEMMA RefundersAlone ==
    ASSUME RefundersInv, AdminRefundTypeOK, UNCHANGED <<refunds, settled, adminRefundVars>>
    PROVE  RefundersInv' /\ AdminRefundTypeOK'
  BY DEF RefundersInv, AdminRefundTypeOK, SyncInv, Busy, adminRefundVars

(* EditRead copies the row of an order that is there.                       *)
LEMMA EditReadStep ==
    ASSUME RowsInv, NEW e \in Edits, NEW o \in Orders, EditRead(e, o)
    PROVE  /\ AdminTypeOK' /\ AdminsInv' /\ Copies
           /\ UNCHANGED storeVars
<1>1. StoreTypeOK /\ AdminTypeOK /\ AdminsInv
  BY DEF RowsInv, RequestInv, CheckoutTypeOK
<1>2. order[o] \in OrderRows
  BY <1>1, ExistsIsRow DEF EditRead
<1> DEFINE new == [pc |-> "read", order |-> o, row |-> order[o]]
<1>3. edit' = [edit EXCEPT ![e] = new] /\ UNCHANGED <<storeVars, deletion>>
  BY DEF EditRead
<1>4. new \in EditRecords /\ new.pc = "read" /\ new.order = o /\ new.row = order[o]
  BY <1>2 DEF EditRecords
<1> HIDE DEF new
<1>5. /\ edit' \in [Edits -> EditRecords] /\ edit'[e] = new
      /\ \A x \in Edits \ {e} : edit'[x] = edit[x]
  BY <1>1, <1>3, <1>4 DEF AdminTypeOK, EditRecords
<1>6. AdminTypeOK'
  BY <1>1, <1>3, <1>5 DEF AdminTypeOK, EditRecords
<1>7. UNCHANGED <<order, items>>
  BY <1>3 DEF storeVars
<1>8. order[o] # Unplaced
  BY <1>2, SentinelsAssumption
<1>9. AdminsInv'
  BY <1>1, <1>2, <1>3, <1>4, <1>5, <1>7, <1>8 DEF AdminsInv, Deleting
<1>10. Copies
  BY <1>2, <1>4, <1>5 DEF Copies
<1> QED BY <1>3, <1>6, <1>9, <1>10

(* EditSave writes the copy with a status and a payment state the admin may *)
(* give, or that were in the copy.                                          *)
LEMMA EditSaveStep ==
    ASSUME RowsInv, NEW e \in Edits, EditSave(e)
    PROVE  /\ StoreTypeOK' /\ AdminTypeOK' /\ AdminsInv'
           /\ Sources /\ Copies /\ Deletions
           /\ UNCHANGED <<items, recorded, refunds, paypal, settled>>
<1> DEFINE o == edit[e].order
<1>1. StoreTypeOK /\ AdminTypeOK /\ AdminsInv
  BY DEF RowsInv, RequestInv, CheckoutTypeOK
<1>2. edit[e].pc = "read" /\ o \in Orders /\ edit[e].row \in OrderRows /\ order[o] # Unplaced
  BY <1>1 DEF EditSave, AdminsInv
<1>3. PICK status \in EditStatuses \cup {edit[e].row.status},
           payment \in EditPayments \cup {edit[e].row.payment} :
         order' = [order EXCEPT ![o] = [edit[e].row EXCEPT !.status = status, !.payment = payment]]
  BY DEF EditSave
<1>4. /\ edit' = [edit EXCEPT ![e] = [edit[e] EXCEPT !.pc = "done"]]
      /\ UNCHANGED <<items, stock, recorded, latest, refunds, paypal, settled, finalized, restocked,
                     deletion>>
  BY DEF EditSave, historyVars
<1> DEFINE row == [edit[e].row EXCEPT !.status = status, !.payment = payment]
           new == [edit[e] EXCEPT !.pc = "done"]
<1>5. row \in OrderRows /\ row.payment = payment
  <2>1. edit[e].row.status \in Statuses /\ edit[e].row.payment \in PaymentStatuses
    BY <1>2 DEF OrderRows
  <2>2. status \in Statuses
    BY <2>1, EditsAssumption
  <2>3. payment \in PaymentStatuses
    BY <2>1, EditPaymentsAssumption DEF PaymentStatuses
  <2> QED BY <1>2, <2>2, <2>3 DEF OrderRows
<1>6. edit \in [Edits -> EditRecords] /\ new \in EditRecords /\ new.pc = "done"
  BY <1>1 DEF AdminTypeOK, EditRecords
<1>7. order' = [order EXCEPT ![o] = row] /\ edit' = [edit EXCEPT ![e] = new]
  BY <1>3, <1>4
<1> HIDE DEF row, new, o
<1>8. /\ order' \in [Orders -> OrderRows \cup {Unplaced, Deleted}]
      /\ order'[o] = row /\ \A x \in Orders \ {o} : order'[x] = order[x]
  BY <1>1, <1>2, <1>5, <1>7 DEF StoreTypeOK
<1>9. /\ edit' \in [Edits -> EditRecords] /\ edit'[e] = new
      /\ \A x \in Edits \ {e} : edit'[x] = edit[x]
  BY <1>6, <1>7
<1>10. StoreTypeOK'
  BY <1>1, <1>4, <1>8 DEF StoreTypeOK
<1>11. AdminTypeOK'
  BY <1>1, <1>4, <1>9 DEF AdminTypeOK, EditRecords
<1>12. row \notin {Unplaced, Deleted}
  BY <1>5, SentinelsAssumption
<1>13. Deletions
  BY <1>4, <1>8, <1>12 DEF Deletions
<1>14. AdminsInv'
  <2>1. ASSUME NEW x \in Edits, edit'[x].pc = "read"
        PROVE  x # e /\ edit'[x] = edit[x]
    BY <1>6, <1>9, <2>1
  <2>2. \A x \in Orders : order[x] # Unplaced => order'[x] # Unplaced
    BY <1>13 DEF Deletions
  <2> QED BY <1>1, <1>4, <2>1, <2>2 DEF AdminsInv, Deleting
<1>15. Sources
  BY <1>2, <1>3, <1>5, <1>8 DEF Sources, o
<1>16. Copies
  BY <1>6, <1>9 DEF Copies
<1> QED BY <1>4, <1>10, <1>11, <1>13, <1>14, <1>15, <1>16

(* DeleteRead decides on an order that is there.                            *)
LEMMA DeleteReadStep ==
    ASSUME RowsInv, NEW d \in Deletes, NEW o \in Orders, DeleteRead(d, o)
    PROVE  AdminTypeOK' /\ AdminsInv' /\ UNCHANGED <<storeVars, edit>>
<1>1. StoreTypeOK /\ AdminTypeOK /\ AdminsInv
  BY DEF RowsInv, RequestInv, CheckoutTypeOK
<1>2. order[o] # Unplaced
  BY DEF DeleteRead, Exists
<1>3. PICK pc \in {"restock", "items"} :
          deletion' = [deletion EXCEPT ![d] = [pc |-> pc, order |-> o]]
  BY DEF DeleteRead
<1>4. UNCHANGED <<storeVars, edit>>
  BY DEF DeleteRead
<1>5. /\ deletion' \in [Deletes -> DeletionRecords]
      /\ deletion'[d] = [pc |-> pc, order |-> o]
      /\ \A x \in Deletes \ {d} : deletion'[x] = deletion[x]
  BY <1>1, <1>3 DEF AdminTypeOK, DeletionRecords
<1>6. AdminTypeOK'
  BY <1>1, <1>4, <1>5 DEF AdminTypeOK, DeletionRecords
<1>7. UNCHANGED <<order, items>>
  BY <1>4 DEF storeVars
<1>8. AdminsInv'
  BY <1>1, <1>2, <1>4, <1>5, <1>7 DEF AdminsInv, Deleting
<1> QED BY <1>4, <1>6, <1>8

(* A delete that moves on keeps its order.                                  *)
LEMMA DeletionMoves ==
    ASSUME AdminTypeOK, NEW d \in Deletes, edit' = edit,
           NEW pc \in {"items", "transactions", "row", "done"},
           deletion' = [deletion EXCEPT ![d].pc = pc]
    PROVE  /\ AdminTypeOK'
           /\ deletion'[d].pc = pc /\ deletion'[d].order = deletion[d].order
           /\ \A x \in Deletes \ {d} : deletion'[x] = deletion[x]
<1> DEFINE new == [deletion[d] EXCEPT !.pc = pc]
<1>1. deletion \in [Deletes -> DeletionRecords] /\ deletion[d] \in DeletionRecords
  BY DEF AdminTypeOK, DeletionRecords
<1>2. new \in DeletionRecords /\ new.pc = pc /\ new.order = deletion[d].order
  BY <1>1 DEF DeletionRecords
<1>3. deletion' = [deletion EXCEPT ![d] = new]
  OBVIOUS
<1> HIDE DEF new
<1>4. /\ deletion' \in [Deletes -> DeletionRecords] /\ deletion'[d] = new
      /\ \A x \in Deletes \ {d} : deletion'[x] = deletion[x]
  BY <1>1, <1>2, <1>3
<1>5. AdminTypeOK'
  BY <1>4 DEF AdminTypeOK, DeletionRecords
<1> QED BY <1>2, <1>4, <1>5

(* What a statement of DeleteOrder, or its failure, does to the tables.     *)
DeletionStatement(d) ==
    DeleteRestock(d) \/ DeleteItems(d) \/ DeleteTransactions(d) \/ DeleteRow(d) \/ DeleteFails(d)

(* It takes away items, payment rows or the order, in that order.           *)
LEMMA DeletionTables ==
    ASSUME StoreTypeOK, AdminsInv, NEW d \in Deletes, DeletionStatement(d)
    PROVE  /\ StoreTypeOK'
           /\ items' \subseteq items /\ \A x \in Orders : recorded'[x] \subseteq recorded[x]
           /\ UNCHANGED <<refunds, paypal, settled, edit>>
           /\ \A x \in Orders : \/ order'[x] = order[x]
                                \/ /\ order'[x] = Deleted
                                   /\ deletion[d].pc = "row" /\ deletion[d].order = x
<1> DEFINE o == deletion[d].order
<1>1. Deleting(d) /\ o \in Orders
  BY DEF DeletionStatement, DeleteRestock, DeleteItems, DeleteTransactions, DeleteRow, DeleteFails,
     Deleting, AdminsInv
<1> HIDE DEF o
<1>2. CASE DeleteRestock(d)
  <2>1. /\ stock' = stock + Qty[o] /\ restocked' = [restocked EXCEPT ![o] = Again(restocked[o])]
        /\ UNCHANGED <<order, items, recorded, latest, refunds, paypal, settled, finalized, edit>>
    BY <1>2 DEF DeleteRestock, o
  <2>2. Qty[o] \in Nat /\ stock \in Nat
    BY <1>1, AmountsAssumption DEF StoreTypeOK
  <2>3. Again(restocked[o]) \in 0..2
    BY <1>1 DEF StoreTypeOK, Again
  <2>4. restocked' \in [Orders -> 0..2]
    BY <1>1, <2>1, <2>3 DEF StoreTypeOK
  <2>5. StoreTypeOK'
    BY <2>1, <2>2, <2>4 DEF StoreTypeOK
  <2> QED BY <2>1, <2>5
<1>3. CASE DeleteItems(d)
  BY <1>3 DEF DeleteItems, StoreTypeOK, historyVars
<1>4. CASE DeleteTransactions(d)
  <2>1. /\ recorded' = [recorded EXCEPT ![o] = {}] /\ latest' = [latest EXCEPT ![o] = NoId]
        /\ UNCHANGED <<order, items, stock, refunds, paypal, settled, finalized, restocked, edit>>
    BY <1>4 DEF DeleteTransactions, o, historyVars
  <2>2. /\ recorded' \in [Orders -> SUBSET PayPalIds]
        /\ \A x \in Orders : recorded'[x] \subseteq recorded[x]
    BY <1>1, <2>1 DEF StoreTypeOK
  <2>3. latest' \in [Orders -> PayPalIds \cup {NoId}]
    BY <1>1, <2>1 DEF StoreTypeOK
  <2> QED BY <2>1, <2>2, <2>3 DEF StoreTypeOK
<1>5. CASE DeleteRow(d)
  <2>1. /\ order' = [order EXCEPT ![o] = Deleted] /\ deletion[d].pc = "row"
        /\ UNCHANGED <<items, stock, recorded, latest, refunds, paypal, settled, finalized, restocked,
                       edit>>
    BY <1>5 DEF DeleteRow, o, historyVars
  <2>2. /\ order' \in [Orders -> OrderRows \cup {Unplaced, Deleted}]
        /\ order'[o] = Deleted /\ \A x \in Orders \ {o} : order'[x] = order[x]
    BY <1>1, <2>1 DEF StoreTypeOK
  <2> QED BY <2>1, <2>2 DEF StoreTypeOK, o
<1>6. CASE DeleteFails(d)
  BY <1>6 DEF DeleteFails, storeVars, historyVars, StoreTypeOK
<1> QED BY <1>2, <1>3, <1>4, <1>5, <1>6 DEF DeletionStatement

(* It keeps what the deletes know, and its frames hold.                     *)
LEMMA DeletionStep ==
    ASSUME RowsInv, NEW d \in Deletes, DeletionStatement(d)
    PROVE  /\ StoreTypeOK' /\ AdminTypeOK' /\ AdminsInv' /\ Frames
           /\ UNCHANGED <<refunds, paypal, settled>>
<1>1. StoreTypeOK /\ AdminTypeOK /\ AdminsInv
  BY DEF RowsInv, RequestInv, CheckoutTypeOK
<1>2. /\ StoreTypeOK'
      /\ items' \subseteq items /\ \A x \in Orders : recorded'[x] \subseteq recorded[x]
      /\ UNCHANGED <<refunds, paypal, settled, edit>>
      /\ \A x \in Orders : \/ order'[x] = order[x]
                           \/ /\ order'[x] = Deleted
                              /\ deletion[d].pc = "row" /\ deletion[d].order = x
  BY <1>1, DeletionTables
<1>3. PICK pc \in {"items", "transactions", "row", "done"} :
         /\ deletion' = [deletion EXCEPT ![d].pc = pc]
         /\ pc = "transactions" => items' = items \ {deletion[d].order}
         /\ pc = "row" => deletion[d].pc = "transactions"
         /\ Deleting(d)
  BY DEF DeletionStatement, DeleteRestock, DeleteItems, DeleteTransactions, DeleteRow, DeleteFails,
     Deleting
<1>4. /\ AdminTypeOK'
      /\ deletion'[d].pc = pc /\ deletion'[d].order = deletion[d].order
      /\ \A x \in Deletes \ {d} : deletion'[x] = deletion[x]
  BY <1>1, <1>2, <1>3, DeletionMoves
<1>5. \A x \in Orders : order[x] # Unplaced => order'[x] # Unplaced
  BY <1>2, SentinelsAssumption
<1>6. AdminsInv'
  <2>1. \A x \in Deletes : Deleting(x)' => Deleting(x) /\ deletion'[x].order = deletion[x].order
    BY <1>3, <1>4 DEF Deleting
  <2>2. deletion[d].order \in Orders
    BY <1>1, <1>3 DEF AdminsInv
  <2>3. pc \in {"transactions", "row"} => deletion[d].order \notin items'
    BY <1>1, <1>2, <1>3 DEF AdminsInv, Deleting
  <2>4. \A x \in Deletes : Deleting(x)' /\ deletion'[x].pc \in {"transactions", "row"}
            => deletion'[x].order \notin items'
    BY <1>1, <1>2, <1>4, <2>1, <2>3 DEF AdminsInv
  <2> QED BY <1>1, <1>2, <1>5, <2>1, <2>4 DEF AdminsInv
<1>7. Growth
  BY <1>2 DEF Growth, CompletedFor
<1>8. Sources
  BY <1>2, SentinelsAssumption DEF Sources
<1>9. Copies
  BY <1>2 DEF Copies
<1>10. Deletions
  BY <1>2, <1>5 DEF Deletions
<1> QED BY <1>2, <1>4, <1>6, <1>7, <1>8, <1>9, <1>10 DEF Frames

(* An admin's step keeps the rows and the requests, and its frames hold.    *)
LEMMA AdminRows ==
    ASSUME RowsInv, AdminNext, UNCHANGED <<requestVars, adminRefundVars>>
    PROVE  RowsInv' /\ Frames
<1>1. StoreTypeOK /\ RequestInv
  BY DEF RowsInv, RequestInv, CheckoutTypeOK
<1>2. /\ StoreTypeOK' /\ AdminTypeOK' /\ AdminsInv' /\ Frames
      /\ UNCHANGED <<refunds, paypal, settled>>
  <2>1. CASE UNCHANGED storeVars /\ AdminTypeOK' /\ AdminsInv' /\ Copies
    <3>1. UNCHANGED <<order, items, stock, recorded, latest, refunds, paypal, settled, finalized,
                      restocked>>
      BY <2>1 DEF storeVars, historyVars
    <3>2. StoreTypeOK'
      BY <1>1, <3>1 DEF StoreTypeOK
    <3>3. Growth /\ Sources /\ Deletions
      BY <3>1 DEF Growth, Sources, Deletions, CompletedFor
    <3> QED BY <2>1, <3>1, <3>2, <3>3 DEF Frames
  <2>2. ASSUME NEW e \in Edits, NEW o \in Orders, EditRead(e, o)
        PROVE  UNCHANGED storeVars /\ AdminTypeOK' /\ AdminsInv' /\ Copies
    BY <2>2, EditReadStep
  <2>3. ASSUME NEW e \in Edits, EditSave(e)
        PROVE  /\ StoreTypeOK' /\ AdminTypeOK' /\ AdminsInv' /\ Frames
               /\ UNCHANGED <<refunds, paypal, settled>>
    <3>1. /\ StoreTypeOK' /\ AdminTypeOK' /\ AdminsInv' /\ Sources /\ Copies /\ Deletions
          /\ UNCHANGED <<items, recorded, refunds, paypal, settled>>
      BY <2>3, EditSaveStep
    <3>2. Growth
      BY <3>1 DEF Growth, CompletedFor
    <3> QED BY <3>1, <3>2 DEF Frames
  <2>4. ASSUME NEW d \in Deletes, NEW o \in Orders, DeleteRead(d, o)
        PROVE  UNCHANGED storeVars /\ AdminTypeOK' /\ AdminsInv' /\ Copies
    <3>1. AdminTypeOK' /\ AdminsInv' /\ UNCHANGED <<storeVars, edit>>
      BY <2>4, DeleteReadStep
    <3> QED BY <3>1 DEF Copies
  <2>5. ASSUME NEW d \in Deletes, DeletionStatement(d)
        PROVE  /\ StoreTypeOK' /\ AdminTypeOK' /\ AdminsInv' /\ Frames
               /\ UNCHANGED <<refunds, paypal, settled>>
    BY <2>5, DeletionStep
  <2> QED BY <2>1, <2>2, <2>3, <2>4, <2>5 DEF AdminNext, DeletionStatement
<1>3. RequestInv'
  BY <1>1, <1>2, RequestsAlone
<1>4. RefundersInv' /\ AdminRefundTypeOK'
  BY <1>2, RefundersAlone DEF RowsInv
<1> QED BY <1>2, <1>3, <1>4 DEF RowsInv

-----------------------------------------------------------------------------
(* Refunds. *)

(* What the refund endpoints never touch. *)
Untouched == UNCHANGED <<items, recorded, paypal, requestVars, adminVars>>

(* applyPayPalRefundResult rewrites one refunds row and its order.          *)
LEMMA ApplyRows ==
    ASSUME StoreTypeOK, NEW r \in RefundIds, refunds[r] # NoRefund,
           NEW result \in Answers, applyPayPalRefundResult(r, result)
    PROVE  LET o == refunds[r].order
           IN  /\ StoreTypeOK'
               /\ o \in Orders /\ order[o] \in OrderRows /\ order'[o] \in OrderRows
               /\ order'[o].payment \in PaidStates
               /\ \A x \in Orders \ {o} : order'[x] = order[x]
               /\ refunds'[r] # NoRefund /\ refunds'[r].order = o /\ refunds'[r].known
               /\ refunds'[r].status = result
               /\ order'[o].counted = IF result = "completed" THEN RefundsOf(o, "completed") \cup {r}
                                      ELSE order[o].counted
               /\ \A x \in RefundIds \ {r} : refunds'[x] = refunds[x]
               /\ UNCHANGED <<items, recorded, paypal, settled>>
<1> DEFINE o == refunds[r].order
           completed == IF result = "completed" THEN RefundsOf(o, "completed") \cup {r}
                        ELSE RefundsOf(o, "completed") \ {r}
           payment == PaymentAfter(o, completed, result)
           cancels == payment = "refunded" /\ order[o].status \notin {"shipped", "delivered"}
           restores == cancels /\ ~order[o].restored
           status == IF cancels THEN "cancelled" ELSE order[o].status
           counted == IF result = "completed" THEN completed ELSE order[o].counted
           restored == order[o].restored \/ restores
           newRow == [refunds[r] EXCEPT !.status = result, !.known = TRUE]
           newOrder == [order[o] EXCEPT !.payment = payment, !.status = status,
                                        !.counted = counted, !.restored = restored]
<1>1. refunds[r] \in RefundRows /\ o \in Orders
  BY RowThere DEF RefundRows
<1>2. order[o] \in OrderRows
  BY <1>1, ExistsIsRow DEF applyPayPalRefundResult
<1>3. newRow \in RefundRows /\ newRow.order = o /\ newRow.known /\ newRow.status = result
  BY <1>1, RowRecorded
<1>4. /\ refunds' = [refunds EXCEPT ![r] = newRow] /\ order' = [order EXCEPT ![o] = newOrder]
      /\ stock' = IF restores /\ o \in items THEN stock + Qty[o] ELSE stock
      /\ restocked' = IF restores THEN [restocked EXCEPT ![o] = Again(@)] ELSE restocked
      /\ UNCHANGED <<items, recorded, latest, paypal, settled, finalized>>
  BY DEF applyPayPalRefundResult
<1>5. payment \in PaidStates
  BY <1>1, PaymentRange DEF PaidStates, RefundStates
<1>6. newOrder \in OrderRows /\ newOrder.payment = payment /\ newOrder.counted = counted
  <2>1. status \in Statuses
    BY <1>2 DEF OrderRows, Statuses
  <2>2. counted \in SUBSET RefundIds
    BY <1>2 DEF OrderRows, RefundsOf
  <2>3. restored \in BOOLEAN
    OBVIOUS
  <2>4. payment \in PaymentStatuses
    BY <1>5 DEF PaidStates, PaymentStatuses
  <2> HIDE DEF payment, status, counted, restored
  <2> QED BY <1>2, <2>1, <2>2, <2>3, <2>4 DEF OrderRows
<1>7. restocked' \in [Orders -> 0..2]
  <2>1. Again(restocked[o]) \in 0..2
    BY <1>1 DEF StoreTypeOK, Again
  <2> QED BY <1>1, <1>4, <2>1 DEF StoreTypeOK
<1>8. stock' \in Nat
  <2>1. Qty[o] \in Nat /\ stock \in Nat
    BY <1>1, AmountsAssumption DEF StoreTypeOK
  <2> QED BY <1>4, <2>1
<1> HIDE DEF newRow, newOrder, payment, restores, o
<1>9. /\ refunds' \in [RefundIds -> RefundRows \cup {NoRefund}]
      /\ refunds'[r] = newRow /\ refunds'[r] # NoRefund
      /\ \A x \in RefundIds \ {r} : refunds'[x] = refunds[x]
  BY <1>3, <1>4, TableUpdated
<1>10. /\ order' \in [Orders -> OrderRows \cup {Unplaced, Deleted}]
       /\ order'[o] = newOrder /\ \A x \in Orders \ {o} : order'[x] = order[x]
  BY <1>1, <1>4, <1>6 DEF StoreTypeOK
<1>11. StoreTypeOK'
  BY <1>4, <1>7, <1>8, <1>9, <1>10 DEF StoreTypeOK
<1> QED BY <1>1, <1>2, <1>3, <1>4, <1>5, <1>6, <1>9, <1>10, <1>11 DEF o

(* A step that leaves the orders alone, and of the refunds only adds one of *)
(* a paid order or rewrites one, has its frames.                            *)
LEMMA BooksFrames ==
    ASSUME Untouched, order' = order,
           \A r \in RefundIds : refunds[r] # NoRefund =>
              refunds'[r] # NoRefund /\ refunds'[r].order = refunds[r].order,
           \A r \in RefundIds : refunds[r] = NoRefund /\ refunds'[r] # NoRefund =>
              LET o == refunds'[r].order
              IN  o \in Orders /\ order[o] \in OrderRows /\ order[o].payment \in PaidStates,
           \A r \in RefundIds : settled[r] # "unasked" => settled'[r] # "unasked"
    PROVE  Frames
<1>1. Growth
  BY DEF Growth, Untouched, CompletedFor
<1>2. Sources /\ Deletions
  BY DEF Sources, Deletions, Untouched
<1>3. Copies
  BY DEF Copies, Untouched, adminVars
<1> QED BY <1>1, <1>2, <1>3 DEF Frames

(* Applying an answer to a refund PayPal was asked for has them too.        *)
LEMMA ApplyFrames ==
    ASSUME StoreTypeOK, UNCHANGED <<requestVars, adminVars>>, NEW r \in RefundIds,
           refunds[r] # NoRefund, settled[r] # "unasked",
           NEW result \in Answers, applyPayPalRefundResult(r, result)
    PROVE  Frames
<1> DEFINE o == refunds[r].order
<1>1. /\ o \in Orders /\ order[o] \in OrderRows /\ order'[o] \in OrderRows
      /\ order'[o].payment \in PaidStates
      /\ \A x \in Orders \ {o} : order'[x] = order[x]
      /\ refunds'[r] # NoRefund /\ refunds'[r].order = o
      /\ \A x \in RefundIds \ {r} : refunds'[x] = refunds[x]
      /\ UNCHANGED <<items, recorded, paypal, settled>>
  BY ApplyRows
<1>2. HasRefund(o)
  BY DEF HasRefund
<1> HIDE DEF o
<1>3. Growth
  <2>1. \A x \in RefundIds : refunds[x] # NoRefund =>
            refunds'[x] # NoRefund /\ refunds'[x].order = refunds[x].order
    BY <1>1 DEF o
  <2>2. \A x \in RefundIds : refunds[x] = NoRefund => refunds'[x] = NoRefund
    BY <1>1
  <2> QED BY <1>1, <2>1, <2>2 DEF Growth, CompletedFor
<1>4. Sources
  BY <1>1, <1>2 DEF Sources
<1>5. Copies
  BY DEF Copies, adminVars
<1>6. Deletions
  BY <1>1, SentinelsAssumption DEF Deletions
<1> QED BY <1>3, <1>4, <1>5, <1>6 DEF Frames

(* A refund row only gains an id, and PayPal is never un-asked: requests    *)
(* and syncs that stay as they are stay sound.                              *)
LEMMA RefundersStep ==
    ASSUME RefundersInv,
           \A r \in RefundIds : refunds[r] # NoRefund =>
              refunds'[r] # NoRefund /\ (refunds[r].known => refunds'[r].known),
           \A r \in RefundIds : settled[r] # "unasked" => settled'[r] # "unasked",
           \A r \in RefundIds : refunds'[r] # NoRefund /\ refunds'[r].known => settled'[r] # "unasked",
           \A q \in RefundRequests : Busy(q)' =>
              \/ refunding'[q] = refunding[q]
              \/ /\ refunding'[q].refund \in RefundIds /\ refunds'[refunding'[q].refund] # NoRefund
                 /\ refunding'[q].pc = "apply" => /\ refunding'[q].answer \in Answers
                                                  /\ settled'[refunding'[q].refund] # "unasked",
           \A s \in Syncs : syncing'[s].pc \in {"call", "apply"} =>
              \/ syncing'[s] = syncing[s]
              \/ /\ syncing'[s].refund \in RefundIds /\ refunds'[syncing'[s].refund] # NoRefund
                 /\ refunds'[syncing'[s].refund].known
                 /\ syncing'[s].pc = "apply" => syncing'[s].answer \in {"pending", "completed", "failed"}
    PROVE  RefundersInv'
<1>1. ASSUME NEW q \in RefundRequests, Busy(q)'
      PROVE  /\ refunding'[q].refund \in RefundIds
             /\ refunds'[refunding'[q].refund] # NoRefund
             /\ refunding'[q].pc = "apply" =>
                   refunding'[q].answer \in Answers /\ settled'[refunding'[q].refund] # "unasked"
  <2>1. CASE refunding'[q] = refunding[q]
    <3>1. Busy(q)
      BY <1>1, <2>1 DEF Busy
    <3> QED BY <2>1, <3>1 DEF RefundersInv
  <2> QED BY <1>1, <2>1
<1>2. SyncInv'
  <2> SUFFICES ASSUME NEW s \in Syncs, syncing'[s].pc \in {"call", "apply"}
               PROVE  /\ syncing'[s].refund \in RefundIds
                      /\ refunds'[syncing'[s].refund] # NoRefund
                      /\ refunds'[syncing'[s].refund].known
                      /\ syncing'[s].pc = "apply" =>
                            syncing'[s].answer \in {"pending", "completed", "failed"}
    BY DEF SyncInv
  <2>1. CASE syncing'[s] = syncing[s]
    BY <2>1 DEF RefundersInv, SyncInv
  <2> QED BY <2>1
<1> QED BY <1>1, <1>2 DEF RefundersInv

(* RefundBegin inserts a row for an order that is paid.                     *)
LEMMA BeginRows ==
    ASSUME RowsInv, UNCHANGED <<requestVars, adminVars>>,
           NEW q \in RefundRequests, NEW o \in Orders, NEW r \in RefundIds,
           NEW amount \in Nat, RefundBegin(q, o, r, amount)
    PROVE  StoreTypeOK' /\ AdminRefundTypeOK' /\ RefundersInv' /\ Frames
<1> DEFINE row == [order |-> o, capture |-> latest[o], amount |-> amount,
                   status |-> "pending", known |-> FALSE]
           new == [pc |-> "call", refund |-> r, answer |-> NoId]
<1>1. /\ refunds[r] = NoRefund
      /\ refunds' = [refunds EXCEPT ![r] = row]
      /\ refunding' = [refunding EXCEPT ![q] = new]
      /\ UNCHANGED <<order, items, stock, recorded, latest, paypal, settled, finalized, restocked,
                     syncing>>
  BY DEF RefundBegin, historyVars
<1>2. StoreTypeOK /\ AdminRefundTypeOK /\ RefundersInv
  BY DEF RowsInv, RequestInv, CheckoutTypeOK
<1>3. latest[o] \in PayPalIds
  BY <1>2 DEF StoreTypeOK, RefundBegin, MayRefund
<1>4. row \in RefundRows /\ row.order = o /\ ~row.known
  BY <1>3 DEF RefundRows
<1>5. new \in RefundRecords /\ new.pc = "call" /\ new.refund = r
  BY DEF RefundRecords
<1>6. order[o] \in OrderRows /\ order[o].payment \in PaidStates
  BY <1>2, ExistsIsRow DEF RefundBegin, MayRefund, PaidStates, RefundStates
<1> HIDE DEF row, new
<1>7. /\ refunds' \in [RefundIds -> RefundRows \cup {NoRefund}]
      /\ refunds'[r] = row /\ refunds'[r] # NoRefund
      /\ \A x \in RefundIds \ {r} : refunds'[x] = refunds[x]
  BY <1>1, <1>2, <1>4, TableUpdated
<1>8. /\ refunding' \in [RefundRequests -> RefundRecords] /\ refunding'[q] = new
      /\ \A x \in RefundRequests \ {q} : refunding'[x] = refunding[x]
  BY <1>1, <1>2, <1>5 DEF AdminRefundTypeOK, RefundRecords
<1>9. StoreTypeOK'
  BY <1>1, <1>2, <1>7 DEF StoreTypeOK
<1>10. AdminRefundTypeOK'
  BY <1>1, <1>2, <1>8 DEF AdminRefundTypeOK, RefundRecords
<1>11. Frames
  <2>1. Untouched /\ order' = order
    BY <1>1 DEF Untouched
  <2>2. \A x \in RefundIds : refunds[x] # NoRefund => refunds'[x] = refunds[x]
    BY <1>1, <1>7
  <2>3. \A x \in RefundIds : refunds[x] = NoRefund /\ refunds'[x] # NoRefund => refunds'[x].order = o
    BY <1>4, <1>7
  <2> QED BY <1>1, <1>6, <2>1, <2>2, <2>3, BooksFrames
<1>12. RefundersInv'
  <2>1. \A x \in RefundIds : refunds[x] # NoRefund => refunds'[x] = refunds[x]
    BY <1>1, <1>7
  <2>2. \A x \in RefundIds : refunds'[x] # NoRefund /\ refunds'[x].known => settled'[x] # "unasked"
    BY <1>1, <1>2, <1>4, <1>7 DEF RefundersInv
  <2> QED BY <1>1, <1>2, <1>5, <1>7, <1>8, <2>1, <2>2, RefundersStep
<1> QED BY <1>9, <1>10, <1>11, <1>12

(* PayPal is asked, answers, or settles what it was asked: the books stay.  *)
LEMMA CallRows ==
    ASSUME RowsInv, UNCHANGED <<requestVars, adminVars>>, NEW q \in RefundRequests,
           RefundAccepted(q) \/ RefundRefused(q) \/ RefundAnswerLost(q)
    PROVE  StoreTypeOK' /\ AdminRefundTypeOK' /\ RefundersInv' /\ Frames
<1> DEFINE r == refunding[q].refund
<1>1. StoreTypeOK /\ AdminRefundTypeOK /\ RefundersInv
  BY DEF RowsInv, RequestInv, CheckoutTypeOK
<1>2. /\ UNCHANGED <<order, items, stock, recorded, latest, refunds, paypal, finalized, restocked,
                     syncing>>
      /\ refunding[q].pc = "call"
  BY DEF RefundAccepted, RefundRefused, RefundAnswerLost, storeVars, historyVars
<1>3. r \in RefundIds /\ refunds[r] # NoRefund
  BY <1>1, <1>2 DEF RefundersInv, Busy
<1>4. \/ \E answer \in Answers : /\ settled' = [settled EXCEPT ![r] = answer]
                                 /\ refunding' = [refunding EXCEPT ![q].pc = "apply", ![q].answer = answer]
      \/ /\ settled' = settled \/ \E answer \in Answers : settled' = [settled EXCEPT ![r] = answer]
         /\ refunding' = [refunding EXCEPT ![q].pc = "reject"]
  BY DEF RefundAccepted, RefundRefused, RefundAnswerLost, storeVars, Asked, Answers
<1> HIDE DEF r
<1>5. /\ settled' \in [RefundIds -> {"unasked", "pending", "completed", "failed", "cancelled"}]
      /\ \A x \in RefundIds : settled[x] # "unasked" => settled'[x] # "unasked"
  <2>1. settled' = settled \/ \E answer \in Answers : settled' = [settled EXCEPT ![r] = answer]
    BY <1>4
  <2> QED BY <1>1, <1>3, <2>1 DEF StoreTypeOK, Answers
<1>6. /\ refunding' \in [RefundRequests -> RefundRecords] /\ refunding'[q].refund = r
      /\ refunding'[q].pc = "apply" => refunding'[q].answer \in Answers /\ settled'[r] # "unasked"
      /\ \A x \in RefundRequests \ {q} : refunding'[x] = refunding[x]
  <2>1. ASSUME NEW answer \in Answers, settled' = [settled EXCEPT ![r] = answer],
               refunding' = [refunding EXCEPT ![q].pc = "apply", ![q].answer = answer]
        PROVE  /\ refunding' \in [RefundRequests -> RefundRecords] /\ refunding'[q].refund = r
               /\ refunding'[q].pc = "apply" => refunding'[q].answer \in Answers /\ settled'[r] # "unasked"
               /\ \A x \in RefundRequests \ {q} : refunding'[x] = refunding[x]
    <3>1. settled'[r] # "unasked"
      BY <1>1, <1>3, <2>1 DEF StoreTypeOK, Answers
    <3> QED BY <1>1, <2>1, <3>1, RefundAnswered DEF r
  <2>2. CASE refunding' = [refunding EXCEPT ![q].pc = "reject"]
    BY <1>1, <2>2, RefundDone DEF r
  <2> QED BY <1>4, <2>1, <2>2
<1>7. StoreTypeOK'
  BY <1>1, <1>2, <1>5 DEF StoreTypeOK
<1>8. AdminRefundTypeOK'
  BY <1>1, <1>2, <1>6 DEF AdminRefundTypeOK, RefundRecords
<1>9. Frames
  BY <1>2, <1>5, BooksFrames DEF Untouched
<1>10. RefundersInv'
  BY <1>1, <1>2, <1>3, <1>5, <1>6, RefundersStep DEF RefundersInv
<1> QED BY <1>7, <1>8, <1>9, <1>10

(* A request that ends is busy no more, and the other ones go on.           *)
LEMMA RequestEnds ==
    ASSUME AdminRefundTypeOK, NEW q \in RefundRequests, syncing' = syncing,
           refunding' = [refunding EXCEPT ![q].pc = "done"]
    PROVE  AdminRefundTypeOK' /\ \A x \in RefundRequests : Busy(x)' => refunding'[x] = refunding[x]
<1>1. /\ refunding' \in [RefundRequests -> RefundRecords] /\ refunding'[q].pc = "done"
      /\ \A x \in RefundRequests \ {q} : refunding'[x] = refunding[x]
  BY RefundDone
<1> QED BY <1>1 DEF AdminRefundTypeOK, RefundRecords, Busy

(* RefundReject and RefundRecordStatus rewrite the status of their row, and *)
(* the latter stores its id.                                                *)
LEMMA CloseRows ==
    ASSUME RowsInv, UNCHANGED <<requestVars, adminVars>>, NEW q \in RefundRequests,
           RefundReject(q) \/ RefundRecordStatus(q)
    PROVE  StoreTypeOK' /\ AdminRefundTypeOK' /\ RefundersInv' /\ Frames
<1> DEFINE r == refunding[q].refund
<1>1. StoreTypeOK /\ AdminRefundTypeOK /\ RefundersInv
  BY DEF RowsInv, RequestInv, CheckoutTypeOK
<1>2. /\ UNCHANGED <<order, items, stock, recorded, latest, paypal, settled, finalized, restocked,
                     syncing>>
      /\ refunding' = [refunding EXCEPT ![q].pc = "done"] /\ Busy(q)
  BY DEF RefundReject, RefundRecordStatus, historyVars, Busy
<1>3. r \in RefundIds /\ refunds[r] \in RefundRows
  <2>1. r \in RefundIds /\ refunds[r] # NoRefund
    BY <1>1, <1>2 DEF RefundersInv
  <2> QED BY <1>1, <2>1, RowThere
<1>4. PICK new \in RefundRows :
         /\ refunds' = [refunds EXCEPT ![r] = new] /\ new.order = refunds[r].order
         /\ refunds[r].known => new.known
         /\ new.known => settled[r] # "unasked"
  <2>1. CASE RefundReject(q)
    <3>1. refunds' = [refunds EXCEPT ![r] = [refunds[r] EXCEPT !.status = "failed"]]
      BY <2>1 DEF RefundReject
    <3>2. refunds[r] # NoRefund /\ (refunds[r].known => settled[r] # "unasked")
      BY <1>1, <1>3, SentinelsAssumption DEF RefundersInv
    <3> HIDE DEF r
    <3> QED BY <1>3, <3>1, <3>2, RowFailed
  <2>2. CASE RefundRecordStatus(q)
    <3>1. refunds' = [refunds EXCEPT ![r] = [refunds[r] EXCEPT !.status = refunding[q].answer,
                                                               !.known = TRUE]]
      BY <2>2 DEF RefundRecordStatus
    <3>2. refunding[q].answer \in Answers /\ settled[r] # "unasked"
      BY <1>1, <1>2, <2>2 DEF RefundRecordStatus, RefundersInv
    <3> HIDE DEF r
    <3> QED BY <1>3, <3>1, <3>2, RowRecorded
  <2> QED BY <2>1, <2>2
<1> HIDE DEF r
<1>5. /\ refunds' \in [RefundIds -> RefundRows \cup {NoRefund}]
      /\ refunds'[r] = new /\ refunds'[r] # NoRefund
      /\ \A x \in RefundIds \ {r} : refunds'[x] = refunds[x]
  BY <1>1, <1>3, <1>4, TableUpdated
<1>6. refunds[r] # NoRefund
  BY <1>3, SentinelsAssumption
<1>7. StoreTypeOK'
  BY <1>1, <1>2, <1>5 DEF StoreTypeOK
<1>8. AdminRefundTypeOK' /\ \A x \in RefundRequests : Busy(x)' => refunding'[x] = refunding[x]
  BY <1>1, <1>2, RequestEnds
<1>9. \A x \in RefundIds : refunds[x] # NoRefund =>
          /\ refunds'[x] # NoRefund /\ refunds'[x].order = refunds[x].order
          /\ refunds[x].known => refunds'[x].known
  BY <1>4, <1>5
<1>10. \A x \in RefundIds : refunds[x] = NoRefund => refunds'[x] = NoRefund
  BY <1>5, <1>6
<1>11. Frames
  BY <1>2, <1>9, <1>10, BooksFrames DEF Untouched
<1>12. \A x \in RefundIds : refunds'[x] # NoRefund /\ refunds'[x].known => settled'[x] # "unasked"
  BY <1>1, <1>2, <1>4, <1>5 DEF RefundersInv
<1>13. RefundersInv'
  BY <1>1, <1>2, <1>8, <1>9, <1>12, RefundersStep
<1> QED BY <1>7, <1>8, <1>11, <1>13

(* Applying an answer keeps the rows of the requests that go on.            *)
LEMMA ApplyKeepsRefunders ==
    ASSUME StoreTypeOK, RefundersInv, NEW r \in RefundIds, refunds[r] # NoRefund,
           settled[r] # "unasked", NEW result \in Answers, applyPayPalRefundResult(r, result),
           \A q \in RefundRequests : Busy(q)' => refunding'[q] = refunding[q],
           \A s \in Syncs : syncing'[s].pc \in {"call", "apply"} => syncing'[s] = syncing[s]
    PROVE  RefundersInv'
<1>1. /\ refunds'[r] # NoRefund /\ refunds'[r].known
      /\ \A x \in RefundIds \ {r} : refunds'[x] = refunds[x]
      /\ settled' = settled
  BY ApplyRows
<1>2. \A x \in RefundIds : refunds[x] # NoRefund =>
          refunds'[x] # NoRefund /\ (refunds[x].known => refunds'[x].known)
  BY <1>1
<1>3. \A x \in RefundIds : refunds'[x] # NoRefund /\ refunds'[x].known => settled'[x] # "unasked"
  BY <1>1 DEF RefundersInv
<1> QED BY <1>1, <1>2, <1>3, RefundersStep

(* RefundApply                                                              *)
LEMMA RequestApplies ==
    ASSUME RowsInv, UNCHANGED <<requestVars, adminVars>>, NEW q \in RefundRequests, RefundApply(q)
    PROVE  StoreTypeOK' /\ AdminRefundTypeOK' /\ RefundersInv' /\ Frames
<1> DEFINE r == refunding[q].refund
           result == refunding[q].answer
<1>1. StoreTypeOK /\ AdminRefundTypeOK /\ RefundersInv
  BY DEF RowsInv, RequestInv, CheckoutTypeOK
<1>2. /\ refunding[q].pc = "apply" /\ applyPayPalRefundResult(r, result)
      /\ refunding' = [refunding EXCEPT ![q].pc = "done"] /\ syncing' = syncing
  BY DEF RefundApply
<1>3. r \in RefundIds /\ refunds[r] # NoRefund /\ result \in Answers /\ settled[r] # "unasked"
  BY <1>1, <1>2 DEF RefundersInv, Busy
<1> HIDE DEF r, result
<1>4. AdminRefundTypeOK' /\ \A x \in RefundRequests : Busy(x)' => refunding'[x] = refunding[x]
  BY <1>1, <1>2, RequestEnds
<1>5. StoreTypeOK'
  BY <1>1, <1>2, <1>3, ApplyRows
<1>6. Frames
  BY <1>1, <1>2, <1>3, ApplyFrames
<1>7. RefundersInv'
  BY <1>1, <1>2, <1>3, <1>4, ApplyKeepsRefunders
<1> QED BY <1>4, <1>5, <1>6, <1>7

(* A request that dies, a refund that settles.                              *)
LEMMA DiesRows ==
    ASSUME RowsInv, UNCHANGED <<requestVars, adminVars>>, NEW q \in RefundRequests, RefundDies(q)
    PROVE  StoreTypeOK' /\ AdminRefundTypeOK' /\ RefundersInv' /\ Frames
<1>1. StoreTypeOK /\ AdminRefundTypeOK /\ RefundersInv
  BY DEF RowsInv, RequestInv, CheckoutTypeOK
<1>2. /\ UNCHANGED <<order, items, stock, recorded, latest, refunds, paypal, settled, finalized,
                     restocked, syncing>>
      /\ refunding' = [refunding EXCEPT ![q].pc = "done"]
  BY DEF RefundDies, storeVars, historyVars
<1>3. AdminRefundTypeOK' /\ \A x \in RefundRequests : Busy(x)' => refunding'[x] = refunding[x]
  BY <1>1, <1>2, RequestEnds
<1>4. StoreTypeOK'
  BY <1>1, <1>2 DEF StoreTypeOK
<1>5. Frames
  BY <1>2, BooksFrames DEF Untouched
<1>6. RefundersInv'
  BY <1>1, <1>2, <1>3, RefundersStep DEF RefundersInv
<1> QED BY <1>3, <1>4, <1>5, <1>6

(* SettleRefund                                                             *)
LEMMA SettleRows ==
    ASSUME RowsInv, UNCHANGED <<requestVars, adminVars>>, NEW r \in RefundIds, SettleRefund(r)
    PROVE  StoreTypeOK' /\ AdminRefundTypeOK' /\ RefundersInv' /\ Frames
<1>1. StoreTypeOK /\ AdminRefundTypeOK /\ RefundersInv
  BY DEF RowsInv, RequestInv, CheckoutTypeOK
<1>2. UNCHANGED <<order, items, stock, recorded, latest, refunds, paypal, finalized, restocked,
                  refunding, syncing>>
  BY DEF SettleRefund, historyVars, adminRefundVars
<1>3. /\ settled' \in [RefundIds -> {"unasked", "pending", "completed", "failed", "cancelled"}]
      /\ \A x \in RefundIds : settled[x] # "unasked" => settled'[x] # "unasked"
  BY <1>1 DEF SettleRefund, Asked, StoreTypeOK
<1>4. StoreTypeOK' /\ AdminRefundTypeOK'
  BY <1>1, <1>2, <1>3 DEF StoreTypeOK, AdminRefundTypeOK
<1>5. Frames
  BY <1>2, <1>3, BooksFrames DEF Untouched
<1>6. RefundersInv'
  BY <1>1, <1>2, <1>3, RefundersStep DEF RefundersInv
<1> QED BY <1>4, <1>5, <1>6

(* Beginning, asking and giving up: a sync has a row whose id is stored.    *)
LEMMA SyncMoves ==
    ASSUME RowsInv, UNCHANGED <<requestVars, adminVars>>, NEW s \in Syncs,
           (\E r \in RefundIds : SyncBegin(s, r)) \/ SyncCall(s) \/ SyncFails(s)
    PROVE  StoreTypeOK' /\ AdminRefundTypeOK' /\ RefundersInv' /\ Frames
<1>1. StoreTypeOK /\ AdminRefundTypeOK /\ RefundersInv
  BY DEF RowsInv, RequestInv, CheckoutTypeOK
<1>2. UNCHANGED <<order, items, stock, recorded, latest, refunds, paypal, settled, finalized,
                  restocked, refunding>>
  BY DEF SyncBegin, SyncCall, SyncFails, storeVars, historyVars
<1>3. syncing \in [Syncs -> SyncRecords] /\ syncing[s] \in SyncRecords
  BY <1>1 DEF AdminRefundTypeOK, SyncRecords
<1>4. PICK new \in SyncRecords :
         /\ syncing' = [syncing EXCEPT ![s] = new]
         /\ new.pc \in {"call", "apply"} =>
               /\ new.refund \in RefundIds /\ refunds[new.refund] # NoRefund
               /\ refunds[new.refund].known
               /\ new.pc = "apply" => new.answer \in {"pending", "completed", "failed"}
  <2>1. ASSUME NEW r \in RefundIds, SyncBegin(s, r)
        PROVE  \E new \in SyncRecords :
                  /\ syncing' = [syncing EXCEPT ![s] = new]
                  /\ new.pc = "call" /\ new.refund = r
                  /\ refunds[r] # NoRefund /\ refunds[r].known
    <3> DEFINE rec == [pc |-> "call", refund |-> r, answer |-> NoId]
    <3>1. rec \in SyncRecords /\ rec.pc = "call" /\ rec.refund = r
      BY DEF SyncRecords
    <3>2. syncing' = [syncing EXCEPT ![s] = rec] /\ refunds[r] # NoRefund /\ refunds[r].known
      BY <2>1 DEF SyncBegin
    <3> HIDE DEF rec
    <3> QED BY <3>1, <3>2
  <2>2. CASE SyncCall(s)
    <3> DEFINE answer == IF settled[syncing[s].refund] \in {"completed", "pending"}
                         THEN settled[syncing[s].refund] ELSE "failed"
               rec == [syncing[s] EXCEPT !.pc = "apply", !.answer = answer]
    <3>1. answer \in {"pending", "completed", "failed"}
      OBVIOUS
    <3>2. syncing' = [syncing EXCEPT ![s] = rec] /\ syncing[s].pc = "call"
      BY <2>2 DEF SyncCall
    <3>3. /\ syncing[s].refund \in RefundIds /\ refunds[syncing[s].refund] # NoRefund
          /\ refunds[syncing[s].refund].known
      BY <1>1, <3>2 DEF RefundersInv, SyncInv
    <3> HIDE DEF answer
    <3>4. rec \in SyncRecords /\ rec.refund = syncing[s].refund /\ rec.answer = answer
      BY <1>3, <3>1 DEF SyncRecords, Answers
    <3> HIDE DEF rec
    <3> QED BY <3>1, <3>2, <3>3, <3>4
  <2>3. CASE SyncFails(s)
    <3> DEFINE rec == [syncing[s] EXCEPT !.pc = "done"]
    <3>1. rec \in SyncRecords /\ rec.pc = "done"
      BY <1>3 DEF SyncRecords
    <3>2. syncing' = [syncing EXCEPT ![s] = rec]
      BY <2>3 DEF SyncFails
    <3> HIDE DEF rec
    <3> QED BY <3>1, <3>2
  <2> QED BY <2>1, <2>2, <2>3
<1>5. /\ syncing' \in [Syncs -> SyncRecords] /\ syncing'[s] = new
      /\ \A x \in Syncs \ {s} : syncing'[x] = syncing[x]
  BY <1>3, <1>4
<1>6. AdminRefundTypeOK'
  BY <1>1, <1>2, <1>5 DEF AdminRefundTypeOK, SyncRecords
<1>7. StoreTypeOK'
  BY <1>1, <1>2 DEF StoreTypeOK
<1>8. Frames
  BY <1>2, BooksFrames DEF Untouched
<1>9. RefundersInv'
  <2>1. \A r \in RefundIds : refunds'[r] # NoRefund /\ refunds'[r].known => settled'[r] # "unasked"
    BY <1>1, <1>2 DEF RefundersInv
  <2> QED BY <1>1, <1>2, <1>4, <1>5, <2>1, RefundersStep
<1> QED BY <1>6, <1>7, <1>8, <1>9

(* SyncApply: PayPal was asked about a refund whose id is stored.           *)
LEMMA SyncApplies ==
    ASSUME RowsInv, UNCHANGED <<requestVars, adminVars>>, NEW s \in Syncs, SyncApply(s)
    PROVE  StoreTypeOK' /\ AdminRefundTypeOK' /\ RefundersInv' /\ Frames
<1> DEFINE r == syncing[s].refund
           result == syncing[s].answer
<1>1. StoreTypeOK /\ AdminRefundTypeOK /\ RefundersInv
  BY DEF RowsInv, RequestInv, CheckoutTypeOK
<1>2. /\ syncing[s].pc = "apply" /\ applyPayPalRefundResult(r, result)
      /\ syncing' = [syncing EXCEPT ![s].pc = "done"] /\ refunding' = refunding
  BY DEF SyncApply
<1>3. r \in RefundIds /\ refunds[r] # NoRefund /\ result \in Answers /\ settled[r] # "unasked"
  BY <1>1, <1>2 DEF RefundersInv, SyncInv, Answers
<1> HIDE DEF r, result
<1>4. /\ syncing' \in [Syncs -> SyncRecords] /\ syncing'[s].pc = "done"
      /\ \A x \in Syncs \ {s} : syncing'[x] = syncing[x]
  BY <1>1, <1>2, SyncDone
<1>5. AdminRefundTypeOK'
  BY <1>1, <1>2, <1>4 DEF AdminRefundTypeOK, SyncRecords
<1>6. StoreTypeOK'
  BY <1>1, <1>2, <1>3, ApplyRows
<1>7. Frames
  BY <1>1, <1>2, <1>3, ApplyFrames
<1>8. RefundersInv'
  BY <1>1, <1>2, <1>3, <1>4, ApplyKeepsRefunders
<1> QED BY <1>5, <1>6, <1>7, <1>8

(* No refund touches the items of an order or PayPal's captures.            *)
LEMMA RefundsUntouched ==
    ASSUME RefundNext
    PROVE  UNCHANGED <<items, paypal>>
<1>1. ASSUME NEW q \in RefundRequests, NEW o \in Orders, NEW r \in RefundIds, NEW amount,
             RefundBegin(q, o, r, amount)
      PROVE  UNCHANGED <<items, paypal>>
  BY <1>1 DEF RefundBegin
<1>2. ASSUME NEW q \in RefundRequests,
             RefundAccepted(q) \/ RefundRefused(q) \/ RefundAnswerLost(q) \/ RefundReject(q)
                \/ RefundRecordStatus(q) \/ RefundApply(q) \/ RefundDies(q)
      PROVE  UNCHANGED <<items, paypal>>
  BY <1>2 DEF RefundAccepted, RefundRefused, RefundAnswerLost, RefundReject, RefundRecordStatus,
        RefundApply, RefundDies, applyPayPalRefundResult, storeVars
<1>3. ASSUME NEW r \in RefundIds, SettleRefund(r) PROVE UNCHANGED <<items, paypal>>
  BY <1>3 DEF SettleRefund
<1>4. ASSUME NEW s \in Syncs,
             (\E r \in RefundIds : SyncBegin(s, r)) \/ SyncCall(s) \/ SyncApply(s) \/ SyncFails(s)
      PROVE  UNCHANGED <<items, paypal>>
  BY <1>4 DEF SyncBegin, SyncCall, SyncApply, SyncFails, applyPayPalRefundResult, storeVars
<1> QED BY <1>1, <1>2, <1>3, <1>4 DEF RefundNext

(* The refund endpoints and PayPal keep the rows, and their frames hold.    *)
LEMMA RefundKeepsRows ==
    ASSUME RowsInv, RefundNext, UNCHANGED <<requestVars, adminVars>>
    PROVE  RowsInv' /\ Frames
<1>1. StoreTypeOK' /\ AdminRefundTypeOK' /\ RefundersInv' /\ Frames
  <2>1. ASSUME NEW q \in RefundRequests, NEW o \in Orders, NEW r \in RefundIds,
               NEW amount \in 1..Total[o], RefundBegin(q, o, r, amount)
        PROVE  StoreTypeOK' /\ AdminRefundTypeOK' /\ RefundersInv' /\ Frames
    <3>1. Total[o] \in Nat
      BY AmountsAssumption
    <3>2. amount \in Nat
      BY <3>1
    <3> QED BY <2>1, <3>2, BeginRows
  <2>2. ASSUME NEW q \in RefundRequests,
               RefundAccepted(q) \/ RefundRefused(q) \/ RefundAnswerLost(q) \/ RefundReject(q)
                  \/ RefundRecordStatus(q) \/ RefundApply(q) \/ RefundDies(q)
        PROVE  StoreTypeOK' /\ AdminRefundTypeOK' /\ RefundersInv' /\ Frames
    BY <2>2, CallRows, CloseRows, RequestApplies, DiesRows
  <2>3. ASSUME NEW r \in RefundIds, SettleRefund(r)
        PROVE  StoreTypeOK' /\ AdminRefundTypeOK' /\ RefundersInv' /\ Frames
    BY <2>3, SettleRows
  <2>4. ASSUME NEW s \in Syncs,
               (\E r \in RefundIds : SyncBegin(s, r)) \/ SyncCall(s) \/ SyncApply(s) \/ SyncFails(s)
        PROVE  StoreTypeOK' /\ AdminRefundTypeOK' /\ RefundersInv' /\ Frames
    BY <2>4, SyncMoves, SyncApplies
  <2> QED BY <2>1, <2>2, <2>3, <2>4 DEF RefundNext
<1>2. UNCHANGED <<items, paypal>>
  BY RefundsUntouched
<1>3. RequestInv'
  BY <1>1, <1>2, RequestsAlone DEF RowsInv
<1>4. AdminTypeOK' /\ AdminsInv'
  <2>1. AdminTypeOK'
    BY DEF RowsInv, AdminTypeOK, adminVars
  <2>2. AdminsInv'
    BY <1>1, <1>2 DEF RowsInv, AdminsInv, Deleting, Frames, Deletions, adminVars
  <2> QED BY <2>1, <2>2
<1> QED BY <1>1, <1>3, <1>4 DEF RowsInv

-----------------------------------------------------------------------------
(* The theorems. *)

(* Every step keeps the rows and has the frames.                            *)
LEMMA ServiceStep ==
    ASSUME RowsInv, [ServiceNext]_serviceVars
    PROVE  RowsInv' /\ Frames
<1>1. CASE CheckoutNext /\ UNCHANGED <<adminRefundVars, adminVars>>
  BY <1>1, CheckoutRows, CheckoutFrames
<1>2. CASE RefundNext /\ UNCHANGED <<requestVars, adminVars>>
  BY <1>2, RefundKeepsRows
<1>3. CASE AdminNext /\ UNCHANGED <<requestVars, adminRefundVars>>
  BY <1>3, AdminRows
<1>4. CASE UNCHANGED serviceVars
  <2>1. UNCHANGED checkoutVars /\ UNCHANGED <<adminRefundVars, adminVars>>
    BY <1>4 DEF serviceVars, checkoutVars
  <2> QED BY <2>1, CheckoutRows, CheckoutFrames
<1> QED BY <1>1, <1>2, <1>3, <1>4 DEF ServiceNext

(* An empty shop.                                                           *)
LEMMA ServiceInvInit == ServiceInit => ServiceInv /\ CapturedInv
<1> SUFFICES ASSUME ServiceInit PROVE ServiceInv /\ CapturedInv
  OBVIOUS
<1>1. RequestInv
  BY RequestInvInit DEF ServiceInit, CheckoutInit
<1>2. AdminRefundTypeOK /\ RefundersInv
  BY DEF ServiceInit, StoreInit, RefundInit, AdminRefundTypeOK, RefundersInv, SyncInv, Busy
<1>3. AdminTypeOK /\ AdminsInv
  BY DEF ServiceInit, AdminInit, AdminTypeOK, AdminsInv, Deleting
<1>4. \A o \in Orders : order[o] \notin OrderRows /\ recorded[o] = {} /\ o \notin items
  BY SentinelsAssumption DEF ServiceInit, StoreInit
<1>5. RecordedInv /\ DeletedHasNoItems
  BY <1>4 DEF RecordedInv, DeletedHasNoItems
<1>6. RefundedInv /\ CapturedInv
  BY <1>4 DEF ServiceInit, AdminInit, StoreInit, RefundedInv, CapturedInv
<1> QED BY <1>1, <1>2, <1>3, <1>5, <1>6 DEF ServiceInv, RowsInv

(* It is inductive.                                                         *)
LEMMA ServiceInvStep == ServiceInv /\ [ServiceNext]_serviceVars => ServiceInv'
<1> SUFFICES ASSUME ServiceInv, [ServiceNext]_serviceVars PROVE ServiceInv'
  OBVIOUS
<1>1. RowsInv /\ RowsInv' /\ Frames
  BY ServiceStep DEF ServiceInv
<1>2. RecordedInv'
  BY <1>1, RecordedStep DEF ServiceInv, RowsInv, Frames
<1>3. RefundedInv'
  BY <1>1, RefundedStep DEF ServiceInv
<1>4. DeletedHasNoItems'
  BY <1>1, DeletedStep DEF ServiceInv, RowsInv, Frames
<1> QED BY <1>1, <1>2, <1>3, <1>4 DEF ServiceInv

(* Checkout, refunds, edits and deletes keep all their rows and requests    *)
(* well-typed, together.                                                    *)
THEOREM ServiceTyping == ServiceSpec => []ServiceTypeOK
<1>1. ServiceInv => ServiceTypeOK
  BY DEF ServiceInv, RowsInv, RequestInv, ServiceTypeOK
<1> QED BY <1>1, ServiceInvInit, ServiceInvStep, PTL DEF ServiceSpec

(* Whatever interleaves, a payment row records a capture of its order, a    *)
(* refund state has a refund PayPal was asked for (the admin's edit cannot  *)
(* make one up), and a deleted order has no items left.                     *)
THEOREM RowsHaveCauses == ServiceSpec => [](RecordedIsCaptured /\ RefundStateHasRefund /\ DeletedHasNoItems)
<1>1. ServiceInv => RecordedIsCaptured /\ RefundStateHasRefund /\ DeletedHasNoItems
  <2> SUFFICES ASSUME ServiceInv
               PROVE  RecordedIsCaptured /\ RefundStateHasRefund /\ DeletedHasNoItems
    OBVIOUS
  <2>1. StoreTypeOK
    BY DEF ServiceInv, RowsInv, RequestInv, CheckoutTypeOK
  <2>2. ASSUME NEW o \in Orders, NEW p \in recorded[o]
        PROVE  paypal[p] = [order |-> o, state |-> "completed"]
    <3>1. p \in PayPalIds /\ paypal[p] \in PayPalOrders /\ CompletedFor(p, o)
      BY <2>1 DEF ServiceInv, RecordedInv, StoreTypeOK
    <3> QED BY <3>1 DEF PayPalOrders, CompletedFor
  <2>3. RefundStateHasRefund
    BY <2>1, ExistsIsRow DEF ServiceInv, RefundedInv, RefundStateHasRefund, HasRefund
  <2> QED BY <2>2, <2>3 DEF RecordedIsCaptured, ServiceInv
<1> QED BY <1>1, ServiceInvInit, ServiceInvStep, PTL DEF ServiceSpec

(* "The browser never decides whether an order is paid": if no admin says   *)
(* so, an order counts as paid, or as paid and then refunded, only if PayPal*)
(* completed a capture for it, however edits write old copies back.         *)
THEOREM PaidIsCaptured ==
    ASSUME "paid" \notin EditPayments
    PROVE  ServiceSpec => []PaidMeansCaptured
<1>1. ServiceInv /\ CapturedInv /\ [ServiceNext]_serviceVars => CapturedInv'
  <2> SUFFICES ASSUME ServiceInv, CapturedInv, [ServiceNext]_serviceVars PROVE CapturedInv'
    OBVIOUS
  <2>1. RowsInv /\ Frames
    BY ServiceStep DEF ServiceInv
  <2>2. StoreTypeOK /\ AdminsInv
    BY <2>1 DEF RowsInv, RequestInv, CheckoutTypeOK
  <2> QED BY <2>1, <2>2, CapturedStep
<1>2. ServiceInv /\ CapturedInv => PaidMeansCaptured
  <2> SUFFICES ASSUME ServiceInv, CapturedInv, NEW o \in Orders, Exists(o),
                      order[o].payment \in {"paid"} \cup RefundStates
               PROVE  \E p \in PayPalIds : paypal[p] = [order |-> o, state |-> "completed"]
    BY DEF PaidMeansCaptured
  <2>1. StoreTypeOK
    BY DEF ServiceInv, RowsInv, RequestInv, CheckoutTypeOK
  <2>2. order[o] \in OrderRows
    BY <2>1, ExistsIsRow
  <2>3. PICK p \in PayPalIds : CompletedFor(p, o)
    BY <2>2 DEF CapturedInv, PaidStates, Captured
  <2>4. paypal[p] = [order |-> o, state |-> "completed"]
    BY <2>1, <2>3 DEF StoreTypeOK, PayPalOrders, CompletedFor
  <2> QED BY <2>4
<1> QED BY <1>1, <1>2, ServiceInvInit, ServiceInvStep, PTL DEF ServiceSpec
-----------------------------------------------------------------------------
(* Evidence, and what a late webhook needs. *)

(* A capture, a refund and PayPal's record of it are never taken back, and  *)
(* the payment state of an order moves only for one of them, or by an edit. *)
THEOREM PaymentSources == ServiceSpec => [][Growth /\ Sources]_serviceVars
<1>1. ServiceInv /\ [ServiceNext]_serviceVars => Growth /\ Sources
  BY ServiceStep DEF ServiceInv, Frames
<1> QED BY <1>1, ServiceInvInit, ServiceInvStep, PTL DEF ServiceSpec

(* An order somebody refunded or edited, or tried to.                       *)
Touched(o) ==
    \/ \E r \in RefundIds : refunds[r] # NoRefund /\ refunds[r].order = o
    \/ \E e \in Edits : edit[e].pc # "idle" /\ edit[e].order = o

(* Any other order has been finalized once if it is paid, and never if not. *)
FinalizedAsPaid(o) ==
    /\ order[o] = Unplaced => finalized[o] = 0
    /\ order[o] = Deleted => finalized[o] <= 1
    /\ order[o] \in OrderRows => finalized[o] = IF order[o].payment = "paid" THEN 1 ELSE 0

OnceInv == \A o \in Orders : Touched(o) \/ FinalizedAsPaid(o)

(* Edits begin with an order and keep it.                                   *)
LEMMA EditsKeepOrder ==
    ASSUME AdminTypeOK, [ServiceNext]_serviceVars, NEW e \in Edits, edit[e].pc # "idle"
    PROVE  edit'[e].pc # "idle" /\ edit'[e].order = edit[e].order
<1>1. edit \in [Edits -> EditRecords]
  BY DEF AdminTypeOK, EditRecords
<1>2. CASE UNCHANGED edit
  BY <1>2
<1>3. ASSUME NEW x \in Edits, NEW o \in Orders, EditRead(x, o)
      PROVE  edit'[e].pc # "idle" /\ edit'[e].order = edit[e].order
  <2>1. x # e
    BY <1>3 DEF EditRead
  <2> QED BY <1>1, <1>3, <2>1 DEF EditRead
<1>4. ASSUME NEW x \in Edits, EditSave(x)
      PROVE  edit'[e].pc # "idle" /\ edit'[e].order = edit[e].order
  <2>1. edit' = [edit EXCEPT ![x].pc = "done"]
    BY <1>4 DEF EditSave
  <2> QED BY <1>1, <2>1 DEF EditRecords
<1>5. ASSUME NEW d \in Deletes,
             (\E o \in Orders : DeleteRead(d, o)) \/ DeleteRestock(d) \/ DeleteItems(d)
                \/ DeleteTransactions(d) \/ DeleteRow(d) \/ DeleteFails(d)
      PROVE  UNCHANGED edit
  BY <1>5 DEF DeleteRead, DeleteRestock, DeleteItems, DeleteTransactions, DeleteRow, DeleteFails
<1>6. CASE AdminNext
  BY <1>2, <1>3, <1>4, <1>5, <1>6 DEF AdminNext
<1> QED BY <1>2, <1>6 DEF ServiceNext, serviceVars, adminVars

(* So who touched an order stays known.                                     *)
LEMMA TouchedKept ==
    ASSUME AdminTypeOK, Growth, [ServiceNext]_serviceVars, NEW o \in Orders, Touched(o)
    PROVE  Touched(o)'
<1>1. CASE \E r \in RefundIds : refunds[r] # NoRefund /\ refunds[r].order = o
  BY <1>1 DEF Growth, Touched
<1>2. CASE \E e \in Edits : edit[e].pc # "idle" /\ edit[e].order = o
  BY <1>2, EditsKeepOrder DEF Touched
<1> QED BY <1>1, <1>2 DEF Touched

(* Checkout finalizes only what is not paid, and leaves it paid.            *)
LEMMA CheckoutOnce ==
    ASSUME RequestInv, [CheckoutNext]_checkoutVars, NEW o \in Orders, FinalizedAsPaid(o)
    PROVE  FinalizedAsPaid(o)'
<1>1. StoreTypeOK
  BY DEF RequestInv, CheckoutTypeOK
<1>2. /\ \A row \in OrderRows : row # Unplaced /\ row # Deleted
      /\ Unplaced # Deleted
  BY SentinelsAssumption
<1>3. CASE Idles
  BY <1>3 DEF Idles, FinalizedAsPaid
<1>4. CASE Restores
  <2>1. /\ Exists(o)' <=> Exists(o) /\ (Exists(o) => order'[o].payment = order[o].payment)
        /\ finalized' = finalized
    BY <1>4, RestoreStep
  <2>2. CheckoutEffect(o)
    BY CheckoutOrders
  <2> QED BY <1>1, <1>2, <2>1, <2>2 DEF FinalizedAsPaid, CheckoutEffect, Exists, StoreTypeOK
<1>5. CASE Places
  <2>1. PICK x \in Orders : CreateOrder(x)
    BY <1>5 DEF Places
  <2>2. /\ order[x] = Unplaced /\ Exists(x)' /\ order'[x].payment = "pending"
        /\ \A y \in Orders \ {x} : order'[y] = order[y]
        /\ finalized' = finalized
    BY <2>1, PlaceStep DEF CreateOrder
  <2> QED BY <2>2 DEF FinalizedAsPaid, Exists
<1>6. CASE Finalizes
  <2>1. PICK x \in Orders, p \in PayPalIds : finalizePaidOrder(x, p)
    BY <1>6 DEF Finalizes
  <2>2. /\ order[x] \in OrderRows /\ order'[x] \in OrderRows /\ order'[x].payment = "paid"
        /\ \A y \in Orders \ {x} : order'[y] = order[y] /\ finalized'[y] = finalized[y]
        /\ IF order[x].payment = "paid" THEN UNCHANGED <<order, finalized>>
           ELSE finalized'[x] = Again(finalized[x])
    BY <1>1, <2>1, FinalizeStep
  <2>3. CASE o # x \/ order[x].payment = "paid"
    BY <2>2, <2>3 DEF FinalizedAsPaid
  <2>4. CASE o = x /\ order[x].payment # "paid"
    <3>1. finalized[o] = 0
      BY <2>2, <2>4 DEF FinalizedAsPaid
    <3>2. finalized'[o] = 1
      BY <2>2, <2>4, <3>1 DEF Again
    <3> QED BY <1>2, <2>2, <2>4, <3>2 DEF FinalizedAsPaid
  <2> QED BY <2>3, <2>4
<1> QED BY <1>3, <1>4, <1>5, <1>6, FourWays

(* The refund endpoints change only orders that have a refund.              *)
LEMMA RefundsMoveTheirOrder ==
    ASSUME RowsInv, RefundNext, NEW o \in Orders, ~Touched(o)
    PROVE  order'[o] = order[o] /\ finalized' = finalized
<1>1. StoreTypeOK /\ RefundersInv
  BY DEF RowsInv, RequestInv, CheckoutTypeOK
<1>2. ASSUME NEW r \in RefundIds, refunds[r] # NoRefund, NEW result, applyPayPalRefundResult(r, result)
      PROVE  order'[o] = order[o] /\ finalized' = finalized
  <2>1. refunds[r].order # o
    BY <1>2 DEF Touched
  <2>2. finalized' = finalized
    BY <1>2 DEF applyPayPalRefundResult
  <2>3. order'[o] = order[o]
    BY <1>1, <1>2, <2>1 DEF applyPayPalRefundResult, StoreTypeOK
  <2> QED BY <2>2, <2>3
<1>3. ASSUME NEW q \in RefundRequests, NEW x \in Orders, NEW r \in RefundIds,
             NEW amount \in 1..Total[x], RefundBegin(q, x, r, amount)
      PROVE  order'[o] = order[o] /\ finalized' = finalized
  BY <1>3 DEF RefundBegin, historyVars
<1>4. ASSUME NEW q \in RefundRequests,
             RefundAccepted(q) \/ RefundRefused(q) \/ RefundAnswerLost(q) \/ RefundReject(q)
                \/ RefundRecordStatus(q) \/ RefundApply(q) \/ RefundDies(q)
      PROVE  order'[o] = order[o] /\ finalized' = finalized
  <2>1. CASE RefundApply(q)
    <3>1. refunding[q].refund \in RefundIds /\ refunds[refunding[q].refund] # NoRefund
      BY <1>1, <2>1 DEF RefundApply, RefundersInv, Busy
    <3> QED BY <1>2, <2>1, <3>1 DEF RefundApply
  <2>2. CASE RefundAccepted(q) \/ RefundRefused(q) \/ RefundAnswerLost(q) \/ RefundReject(q)
                \/ RefundRecordStatus(q) \/ RefundDies(q)
    BY <2>2 DEF RefundAccepted, RefundRefused, RefundAnswerLost, RefundReject, RefundRecordStatus,
          RefundDies, storeVars, historyVars
  <2> QED BY <1>4, <2>1, <2>2
<1>5. ASSUME NEW r \in RefundIds, SettleRefund(r) PROVE order'[o] = order[o] /\ finalized' = finalized
  BY <1>5 DEF SettleRefund, historyVars
<1>6. ASSUME NEW s \in Syncs,
             (\E r \in RefundIds : SyncBegin(s, r)) \/ SyncCall(s) \/ SyncApply(s) \/ SyncFails(s)
      PROVE  order'[o] = order[o] /\ finalized' = finalized
  <2>1. CASE SyncApply(s)
    <3>1. syncing[s].refund \in RefundIds /\ refunds[syncing[s].refund] # NoRefund
      BY <1>1, <2>1 DEF SyncApply, RefundersInv, SyncInv
    <3> QED BY <1>2, <2>1, <3>1 DEF SyncApply
  <2>2. CASE (\E r \in RefundIds : SyncBegin(s, r)) \/ SyncCall(s) \/ SyncFails(s)
    BY <2>2 DEF SyncBegin, SyncCall, SyncFails, storeVars, historyVars
  <2> QED BY <1>6, <2>1, <2>2
<1> QED BY <1>3, <1>4, <1>5, <1>6 DEF RefundNext

(* The admin saves only what was edited; a delete takes a row away for good.*)
LEMMA AdminsOnce ==
    ASSUME RowsInv, AdminNext, NEW o \in Orders, ~Touched(o), FinalizedAsPaid(o)
    PROVE  FinalizedAsPaid(o)'
<1>1. StoreTypeOK /\ AdminsInv
  BY DEF RowsInv, RequestInv, CheckoutTypeOK
<1>2. ASSUME NEW e \in Edits, EditSave(e) PROVE order'[o] = order[o] /\ finalized' = finalized
  <2>1. edit[e].order # o
    BY <1>2 DEF EditSave, Touched
  <2>2. PICK new : order' = [order EXCEPT ![edit[e].order] = new]
    BY <1>2 DEF EditSave
  <2> QED BY <1>1, <1>2, <2>1, <2>2 DEF EditSave, historyVars, StoreTypeOK
<1>3. ASSUME NEW e \in Edits, NEW x \in Orders, EditRead(e, x)
      PROVE  order'[o] = order[o] /\ finalized' = finalized
  BY <1>3 DEF EditRead, storeVars, historyVars
<1>4. ASSUME NEW d \in Deletes,
             (\E x \in Orders : DeleteRead(d, x)) \/ DeleteRestock(d) \/ DeleteItems(d)
                \/ DeleteTransactions(d) \/ DeleteFails(d)
      PROVE  order'[o] = order[o] /\ finalized' = finalized
  BY <1>4 DEF DeleteRead, DeleteRestock, DeleteItems, DeleteTransactions, DeleteFails, storeVars,
        historyVars
<1>5. ASSUME NEW d \in Deletes, DeleteRow(d) PROVE FinalizedAsPaid(o)'
  <2> DEFINE x == deletion[d].order
  <2>1. /\ order' = [order EXCEPT ![x] = Deleted] /\ finalized' = finalized
        /\ deletion[d].pc = "row"
    BY <1>5 DEF DeleteRow, historyVars
  <2>2. x \in Orders /\ order[x] # Unplaced
    BY <1>1, <2>1 DEF AdminsInv, Deleting
  <2>3. CASE x # o
    BY <1>1, <2>1, <2>3 DEF StoreTypeOK, FinalizedAsPaid
  <2>4. CASE x = o
    <3>1. order'[o] = Deleted
      BY <1>1, <2>1, <2>4 DEF StoreTypeOK
    <3>2. order[o] = Deleted \/ order[o] \in OrderRows
      BY <1>1, <2>2, <2>4 DEF StoreTypeOK
    <3>3. finalized[o] <= 1
      BY <3>2 DEF FinalizedAsPaid
    <3> QED BY <2>1, <3>1, <3>3, SentinelsAssumption DEF FinalizedAsPaid
  <2> QED BY <2>3, <2>4
<1>6. ASSUME order'[o] = order[o], finalized' = finalized PROVE FinalizedAsPaid(o)'
  BY <1>6 DEF FinalizedAsPaid
<1> QED BY <1>2, <1>3, <1>4, <1>5, <1>6 DEF AdminNext

(* Every step, then.                                                        *)
LEMMA OnceStep ==
    ASSUME RowsInv, OnceInv, [ServiceNext]_serviceVars
    PROVE  OnceInv'
<1> SUFFICES ASSUME NEW o \in Orders PROVE Touched(o)' \/ FinalizedAsPaid(o)'
  BY DEF OnceInv
<1>1. CASE Touched(o)
  BY <1>1, ServiceStep, TouchedKept DEF RowsInv, Frames
<1>2. CASE ~Touched(o)
  <2>1. FinalizedAsPaid(o)
    BY <1>2 DEF OnceInv
  <2>2. CASE CheckoutNext \/ UNCHANGED serviceVars
    <3>1. [CheckoutNext]_checkoutVars
      BY <2>2 DEF serviceVars, checkoutVars
    <3> QED BY <2>1, <3>1, CheckoutOnce DEF RowsInv
  <2>3. CASE RefundNext
    <3>1. order'[o] = order[o] /\ finalized' = finalized
      BY <1>2, <2>3, RefundsMoveTheirOrder
    <3> QED BY <2>1, <3>1 DEF FinalizedAsPaid
  <2>4. CASE AdminNext
    BY <1>2, <2>1, <2>4, AdminsOnce
  <2> QED BY <2>2, <2>3, <2>4 DEF ServiceNext
<1> QED BY <1>1, <1>2

(* "marks the order paid exactly once": in the whole shop an order is       *)
(* finalized a second time, and its stock taken twice, only after a refund  *)
(* of it or an edit of it was begun.  A delete is not enough, and neither   *)
(* are webhooks and captures, however they race.                            *)
THEOREM FinalizedTwiceOnlyIfTouched ==
    ServiceSpec => [](\A o \in Orders : finalized[o] > 1 => Touched(o))
<1>1. ServiceInit => OnceInv
  BY SentinelsAssumption DEF ServiceInit, StoreInit, OnceInv, FinalizedAsPaid
<1>2. ServiceInv /\ OnceInv /\ [ServiceNext]_serviceVars => OnceInv'
  BY OnceStep DEF ServiceInv
<1>3. ServiceInv /\ OnceInv => \A o \in Orders : finalized[o] > 1 => Touched(o)
  <2> SUFFICES ASSUME ServiceInv, OnceInv, NEW o \in Orders, finalized[o] > 1, ~Touched(o)
               PROVE  FALSE
    OBVIOUS
  <2>1. order[o] \in OrderRows \cup {Unplaced, Deleted}
    BY DEF ServiceInv, RowsInv, RequestInv, CheckoutTypeOK, StoreTypeOK
  <2>2. FinalizedAsPaid(o)
    BY DEF OnceInv
  <2>3. finalized[o] <= 1
    BY <2>1, <2>2 DEF FinalizedAsPaid
  <2>4. finalized[o] \in 0..2
    BY DEF ServiceInv, RowsInv, RequestInv, CheckoutTypeOK, StoreTypeOK
  <2> QED BY <2>3, <2>4
<1> QED BY <1>1, <1>2, <1>3, ServiceInvInit, ServiceInvStep, PTL DEF ServiceSpec
-----------------------------------------------------------------------------
(* The books of the shop and PayPal's. *)

(* PayPal paid r back for order o.                                          *)
PaidBack(r, o) == refunds[r] # NoRefund /\ refunds[r].order = o /\ settled[r] = "completed"

(* PayPal is asked once about a row, by the request that inserted it; who   *)
(* is about to record a completed refund was told so, and PayPal stays by it*)
ToldInv ==
    /\ RowsAsked /\ DistinctInv
    /\ \A q \in RefundRequests :
          /\ refunding[q].pc = "call" => settled[refunding[q].refund] = "unasked"
          /\ refunding[q].pc = "apply" /\ refunding[q].answer = "completed"
                => settled[refunding[q].refund] = "completed"
    /\ \A s \in Syncs : syncing[s].pc = "apply" /\ syncing[s].answer = "completed"
          => settled[syncing[s].refund] = "completed"
    /\ \A r \in RefundIds : refunds[r] # NoRefund /\ refunds[r].status = "completed"
          => settled[r] = "completed"

(* What an order, or the copy an edit read, counts as refunded was.         *)
CountedPaidBack ==
    /\ \A o \in Orders : order[o] \in OrderRows => \A r \in order[o].counted : PaidBack(r, o)
    /\ \A e \in Edits : edit[e].pc = "read" =>
          \A r \in edit[e].row.counted : PaidBack(r, edit[e].order)

MovedInv == ToldInv /\ CountedPaidBack

(* What a step may do to the amounts counted, and to what PayPal settled.   *)
CountedSources ==
    \A o \in Orders : order'[o] \in OrderRows => \A r \in order'[o].counted :
        \/ order[o] \in OrderRows /\ r \in order[o].counted
        \/ PaidBack(r, o)
        \/ \E e \in Edits : edit[e].pc = "read" /\ edit[e].order = o /\ r \in edit[e].row.counted

SettledStays == \A r \in RefundIds : settled[r] = "completed" => settled'[r] = "completed"

(* Then what is counted goes on being paid back.                            *)
LEMMA CountedStep ==
    ASSUME StoreTypeOK, CountedPaidBack, AdminsInv, Frames, CountedSources, SettledStays
    PROVE  CountedPaidBack'
<1>1. ASSUME NEW r, NEW o, PaidBack(r, o), r \in RefundIds PROVE PaidBack(r, o)'
  BY <1>1 DEF PaidBack, Frames, Growth, SettledStays
<1>2. /\ \A o \in Orders : order[o] \in OrderRows => order[o].counted \subseteq RefundIds
      /\ \A e \in Edits : edit[e].pc = "read" => edit[e].row.counted \subseteq RefundIds
  BY DEF AdminsInv, OrderRows
<1>3. ASSUME NEW o \in Orders, order'[o] \in OrderRows, NEW r \in order'[o].counted
      PROVE  PaidBack(r, o)'
  <2>1. r \in RefundIds
    BY <1>3 DEF OrderRows
  <2>2. PaidBack(r, o)
    BY <1>3 DEF CountedSources, CountedPaidBack
  <2> QED BY <1>1, <2>1, <2>2
<1>4. ASSUME NEW e \in Edits, edit'[e].pc = "read", NEW r \in edit'[e].row.counted,
             NEW o, o = edit'[e].order
      PROVE  PaidBack(r, o)'
  <2>1. CASE edit[e].pc = "read" /\ edit'[e].order = edit[e].order /\ edit'[e].row = edit[e].row
    BY <1>1, <1>2, <1>4, <2>1 DEF CountedPaidBack
  <2>2. CASE LET x == edit'[e].order
             IN  x \in Orders /\ order[x] \in OrderRows /\ edit'[e].row = order[x]
    BY <1>1, <1>2, <1>4, <2>2 DEF CountedPaidBack
  <2> QED BY <1>4, <2>1, <2>2 DEF Frames, Copies
<1>5. \A e \in Edits : edit'[e].pc = "read" =>
          \A r \in edit'[e].row.counted :
             refunds'[r] # NoRefund /\ refunds'[r].order = edit'[e].order /\ settled'[r] = "completed"
  BY <1>4 DEF PaidBack
<1> QED BY <1>3, <1>5 DEF CountedPaidBack, PaidBack

(* Checkout leaves the counted amount of a row alone, or inserts a row with *)
(* none.                                                                    *)
LEMMA CheckoutCounts ==
    ASSUME RequestInv, [CheckoutNext]_checkoutVars, NEW o \in Orders, order'[o] \in OrderRows
    PROVE  \/ order'[o].counted = {}
           \/ order[o] \in OrderRows /\ order'[o].counted = order[o].counted
<1>1. StoreTypeOK
  BY DEF RequestInv, CheckoutTypeOK
<1>2. CASE Idles
  BY <1>2 DEF Idles
<1>3. ASSUME NEW x \in Orders, NEW new, order' = [order EXCEPT ![x] = new],
             order[x] \in OrderRows, new.counted = order[x].counted
      PROVE  order[o] \in OrderRows /\ order'[o].counted = order[o].counted
  BY <1>1, <1>3 DEF StoreTypeOK
<1>4. CASE Finalizes
  <2>1. PICK x \in Orders, p \in PayPalIds : finalizePaidOrder(x, p)
    BY <1>4 DEF Finalizes
  <2>2. order[x] \in OrderRows
    BY <1>1, <2>1, ExistsIsRow DEF finalizePaidOrder
  <2>3. CASE order[x].payment = "paid"
    BY <2>1, <2>3 DEF finalizePaidOrder
  <2>4. CASE order[x].payment # "paid"
    <3> DEFINE new == [order[x] EXCEPT !.payment = "paid", !.status = "confirmed",
                                       !.paymentId = IF @ = NoId THEN p ELSE @]
    <3>1. order' = [order EXCEPT ![x] = new]
      BY <2>1, <2>4 DEF finalizePaidOrder
    <3>2. new.counted = order[x].counted
      BY <2>2 DEF OrderRows
    <3> HIDE DEF new
    <3> QED BY <1>3, <2>2, <3>1, <3>2
  <2> QED BY <2>3, <2>4
<1>5. CASE Restores
  <2>1. PICK c \in Creates : CreateStore(c)
    BY <1>5 DEF Restores
  <2> DEFINE x == create[c].order
             p == create[c].new
             new == [order[x] EXCEPT !.paymentId = p]
  <2>2. x \in Orders /\ p \in PayPalIds
    BY <2>1 DEF CreateStore, RequestInv, CreateInv
  <2>3. order' = IF Exists(x) THEN [order EXCEPT ![x] = new] ELSE order
    BY <2>1 DEF CreateStore
  <2>4. CASE ~Exists(x)
    BY <2>3, <2>4
  <2>5. CASE Exists(x)
    <3>1. order[x] \in OrderRows
      BY <1>1, <2>2, <2>5, ExistsIsRow
    <3>2. new.counted = order[x].counted
      BY <3>1 DEF OrderRows
    <3> HIDE DEF new, x, p
    <3> QED BY <1>3, <2>2, <2>3, <2>5, <3>1, <3>2
  <2> QED BY <2>4, <2>5
<1>6. CASE Places
  <2>1. PICK x \in Orders : CreateOrder(x)
    BY <1>6 DEF Places
  <2> DEFINE row == [status |-> "pending", payment |-> "pending", paymentId |-> NoId,
                     counted |-> {}, restored |-> FALSE]
  <2>2. order' = [order EXCEPT ![x] = row] /\ row.counted = {}
    BY <2>1 DEF CreateOrder
  <2> HIDE DEF row
  <2> QED BY <1>1, <2>2 DEF StoreTypeOK
<1> QED BY <1>2, <1>4, <1>5, <1>6, FourWays

(* So it is with an edit, which writes the amount of its copy back, and with*)
(* a delete.                                                                *)
LEMMA AdminCounts ==
    ASSUME RowsInv, AdminNext
    PROVE  CountedSources
<1>1. StoreTypeOK /\ AdminsInv
  BY DEF RowsInv, RequestInv, CheckoutTypeOK
<1>2. ASSUME order' = order PROVE CountedSources
  BY <1>2 DEF CountedSources
<1>3. ASSUME NEW e \in Edits, EditSave(e) PROVE CountedSources
  <2> DEFINE o == edit[e].order
  <2>1. edit[e].pc = "read" /\ o \in Orders /\ edit[e].row \in OrderRows
    BY <1>1, <1>3 DEF EditSave, AdminsInv
  <2>2. PICK status, payment :
           order' = [order EXCEPT ![o] = [edit[e].row EXCEPT !.status = status, !.payment = payment]]
    BY <1>3 DEF EditSave
  <2> DEFINE new == [edit[e].row EXCEPT !.status = status, !.payment = payment]
  <2>3. new.counted = edit[e].row.counted
    BY <2>1 DEF OrderRows
  <2>4. order' = [order EXCEPT ![o] = new]
    BY <2>2
  <2> HIDE DEF new, o
  <2>5. order'[o] = new /\ \A x \in Orders \ {o} : order'[x] = order[x]
    BY <1>1, <2>1, <2>4 DEF StoreTypeOK
  <2>6. edit[e].order = o
    BY DEF o
  <2> QED BY <2>1, <2>3, <2>5, <2>6 DEF CountedSources
<1>4. ASSUME NEW d \in Deletes, DeleteRow(d) PROVE CountedSources
  <2> DEFINE o == deletion[d].order
  <2>1. order' = [order EXCEPT ![o] = Deleted]
    BY <1>4 DEF DeleteRow
  <2>2. \A x \in Orders : order'[x] = order[x] \/ order'[x] = Deleted
    BY <1>1, <2>1 DEF StoreTypeOK
  <2> QED BY <2>2, SentinelsAssumption DEF CountedSources
<1>5. ASSUME NEW e \in Edits, NEW o \in Orders, EditRead(e, o) PROVE order' = order
  BY <1>5 DEF EditRead, storeVars
<1>6. ASSUME NEW d \in Deletes,
             (\E o \in Orders : DeleteRead(d, o)) \/ DeleteRestock(d) \/ DeleteItems(d)
                \/ DeleteTransactions(d) \/ DeleteFails(d)
      PROVE  order' = order
  BY <1>6 DEF DeleteRead, DeleteRestock, DeleteItems, DeleteTransactions, DeleteFails, storeVars
<1> QED BY <1>2, <1>3, <1>4, <1>5, <1>6 DEF AdminNext

(* A completed answer counts the completed rows, each of which was paid back*)
LEMMA ApplyCounts ==
    ASSUME StoreTypeOK, ToldInv, NEW r \in RefundIds, refunds[r] # NoRefund,
           NEW result \in Answers, applyPayPalRefundResult(r, result),
           result = "completed" => settled[r] = "completed"
    PROVE  CountedSources
<1> DEFINE o == refunds[r].order
<1>1. /\ order[o] \in OrderRows /\ \A x \in Orders \ {o} : order'[x] = order[x]
      /\ order'[o].counted = IF result = "completed" THEN RefundsOf(o, "completed") \cup {r}
                             ELSE order[o].counted
  BY ApplyRows
<1>2. refunds[r].order = o
  OBVIOUS
<1> HIDE DEF o
<1>3. ASSUME NEW x \in RefundsOf(o, "completed") PROVE PaidBack(x, o)
  BY DEF RefundsOf, ToldInv, PaidBack
<1>4. result = "completed" => PaidBack(r, o)
  BY <1>2 DEF PaidBack
<1> QED BY <1>1, <1>3, <1>4 DEF CountedSources

(* A request that goes on, or ends, tells the books only what it was told.  *)
LEMMA ToldByRequest ==
    ASSUME ToldInv, RefundersInv, Growth, NEW q \in RefundRequests, Busy(q), syncing' = syncing,
           \A x \in RefundRequests \ {q} : refunding'[x] = refunding[x],
           refunding'[q].pc \in {"apply", "reject", "done"},
           refunding'[q].refund = refunding[q].refund,
           NEW r, r = refunding[q].refund,
           refunding'[q].pc = "apply" /\ refunding'[q].answer = "completed" => settled'[r] = "completed",
           \A x \in RefundIds \ {r} : refunds'[x] = refunds[x] /\ settled'[x] = settled[x],
           refunds'[r].status = "completed" => settled'[r] = "completed",
           settled[r] = "completed" => settled'[r] = "completed"
    PROVE  ToldInv' /\ SettledStays
<1>1. r \in RefundIds /\ refunds[r] # NoRefund
  BY DEF RefundersInv
<1>2. SettledStays
  BY DEF SettledStays
<1>3. RowsAsked'
  BY <1>1 DEF ToldInv, RowsAsked, Growth
<1>4. DistinctInv'
  BY DEF ToldInv, DistinctInv, Busy
<1>5. ASSUME NEW x \in RefundRequests, refunding'[x].pc = "call"
      PROVE  settled'[refunding'[x].refund] = "unasked"
  <2>1. x # q /\ refunding'[x] = refunding[x] /\ Busy(x)
    BY <1>5 DEF Busy
  <2>2. refunding[x].refund # r /\ refunding[x].refund \in RefundIds
    BY <2>1 DEF ToldInv, DistinctInv, RefundersInv
  <2> QED BY <1>5, <2>1, <2>2 DEF ToldInv
<1>6. ASSUME NEW x \in RefundRequests, refunding'[x].pc = "apply", refunding'[x].answer = "completed"
      PROVE  settled'[refunding'[x].refund] = "completed"
  <2>1. CASE x = q
    BY <1>6, <2>1
  <2>2. CASE x # q
    <3>1. refunding[x].refund \in RefundIds
      BY <1>6, <2>2 DEF RefundersInv, Busy
    <3> QED BY <1>2, <1>6, <2>2, <3>1 DEF ToldInv, SettledStays
  <2> QED BY <2>1, <2>2
<1>7. ASSUME NEW s \in Syncs, syncing'[s].pc = "apply", syncing'[s].answer = "completed"
      PROVE  settled'[syncing'[s].refund] = "completed"
  <2>1. syncing[s].refund \in RefundIds
    BY <1>7 DEF RefundersInv, SyncInv
  <2> QED BY <1>2, <1>7, <2>1 DEF ToldInv, SettledStays
<1>8. ASSUME NEW x \in RefundIds, refunds'[x] # NoRefund, refunds'[x].status = "completed"
      PROVE  settled'[x] = "completed"
  BY <1>8 DEF ToldInv
<1> QED BY <1>2, <1>3, <1>4, <1>5, <1>6, <1>7, <1>8 DEF ToldInv

(* RefundBegin inserts a row PayPal was not asked about.                    *)
LEMMA BeginTold ==
    ASSUME RowsInv, ToldInv, Growth, NEW q \in RefundRequests, NEW o \in Orders,
           NEW r \in RefundIds, NEW amount, RefundBegin(q, o, r, amount)
    PROVE  ToldInv' /\ SettledStays
<1> DEFINE new == [pc |-> "call", refund |-> r, answer |-> NoId]
           row == [order |-> o, capture |-> latest[o], amount |-> amount,
                   status |-> "pending", known |-> FALSE]
<1>1. StoreTypeOK /\ AdminRefundTypeOK /\ RefundersInv
  BY DEF RowsInv, RequestInv, CheckoutTypeOK
<1>2. /\ refunds[r] = NoRefund /\ UNCHANGED <<settled, syncing>>
      /\ refunds' = [refunds EXCEPT ![r] = row] /\ refunding' = [refunding EXCEPT ![q] = new]
  BY DEF RefundBegin
<1>3. new.pc = "call" /\ new.refund = r /\ row.status # "completed"
  OBVIOUS
<1> HIDE DEF new, row
<1>4. /\ refunds'[r] = row /\ \A x \in RefundIds \ {r} : refunds'[x] = refunds[x]
      /\ refunding'[q] = new /\ \A x \in RefundRequests \ {q} : refunding'[x] = refunding[x]
  BY <1>1, <1>2 DEF StoreTypeOK, AdminRefundTypeOK
<1>5. RowsAsked'
  BY <1>2, <1>4 DEF ToldInv, RowsAsked, Growth
<1>6. \A x \in RefundRequests : Busy(x) => refunding[x].refund # r
  BY <1>1, <1>2 DEF RefundersInv
<1>7. DistinctInv'
  BY <1>3, <1>4, <1>6 DEF ToldInv, DistinctInv, Busy
<1>8. settled[r] = "unasked"
  BY <1>2 DEF ToldInv, RowsAsked
<1>9. \A x \in RefundRequests :
         /\ refunding'[x].pc = "call" => settled'[refunding'[x].refund] = "unasked"
         /\ refunding'[x].pc = "apply" /\ refunding'[x].answer = "completed"
               => settled'[refunding'[x].refund] = "completed"
  BY <1>2, <1>3, <1>4, <1>8 DEF ToldInv
<1>10. \A x \in RefundIds : refunds'[x] # NoRefund /\ refunds'[x].status = "completed"
           => settled'[x] = "completed"
  BY <1>2, <1>3, <1>4 DEF ToldInv
<1> QED BY <1>2, <1>5, <1>7, <1>9, <1>10 DEF ToldInv, SettledStays

(* PayPal is asked by one request, before it was asked: its answer is news. *)
LEMMA CallTold ==
    ASSUME RowsInv, ToldInv, Growth, NEW q \in RefundRequests,
           RefundAccepted(q) \/ RefundRefused(q) \/ RefundAnswerLost(q)
    PROVE  ToldInv' /\ SettledStays
<1> DEFINE r == refunding[q].refund
<1>1. StoreTypeOK /\ AdminRefundTypeOK /\ RefundersInv
  BY DEF RowsInv, RequestInv, CheckoutTypeOK
<1>2. UNCHANGED <<refunds, syncing>> /\ refunding[q].pc = "call"
  BY DEF RefundAccepted, RefundRefused, RefundAnswerLost, storeVars
<1>3. /\ Busy(q) /\ r \in RefundIds /\ refunds[r] # NoRefund /\ settled[r] = "unasked"
      /\ refunds[r].status # "completed"
  BY <1>1, <1>2 DEF RefundersInv, ToldInv, Busy
<1>4. \/ \E answer \in Answers : /\ settled' = [settled EXCEPT ![r] = answer]
                                 /\ refunding' = [refunding EXCEPT ![q].pc = "apply", ![q].answer = answer]
      \/ /\ settled' = settled \/ \E answer \in Answers : settled' = [settled EXCEPT ![r] = answer]
         /\ refunding' = [refunding EXCEPT ![q].pc = "reject"]
  BY DEF RefundAccepted, RefundRefused, RefundAnswerLost, storeVars, Asked, Answers
<1> HIDE DEF r
<1>5. \A x \in RefundIds \ {r} : refunds'[x] = refunds[x] /\ settled'[x] = settled[x]
  BY <1>1, <1>2, <1>4 DEF StoreTypeOK
<1>6. /\ refunding'[q].pc \in {"apply", "reject", "done"} /\ refunding'[q].refund = r
      /\ refunding'[q].pc = "apply" /\ refunding'[q].answer = "completed" => settled'[r] = "completed"
      /\ \A x \in RefundRequests \ {q} : refunding'[x] = refunding[x]
  <2>1. ASSUME NEW answer \in Answers, settled' = [settled EXCEPT ![r] = answer],
               refunding' = [refunding EXCEPT ![q].pc = "apply", ![q].answer = answer]
        PROVE  /\ refunding'[q].pc \in {"apply", "reject", "done"} /\ refunding'[q].refund = r
               /\ refunding'[q].answer = "completed" => settled'[r] = "completed"
               /\ \A x \in RefundRequests \ {q} : refunding'[x] = refunding[x]
    <3>1. settled'[r] = answer
      BY <1>1, <1>3, <2>1 DEF StoreTypeOK
    <3> QED BY <1>1, <2>1, <3>1, RefundAnswered DEF r
  <2>2. CASE refunding' = [refunding EXCEPT ![q].pc = "reject"]
    BY <1>1, <2>2, RefundDone DEF r
  <2> QED BY <1>4, <2>1, <2>2
<1>7. refunding[q].refund = r
  BY DEF r
<1> QED BY <1>1, <1>2, <1>3, <1>5, <1>6, <1>7, ToldByRequest

(* A request that ends without a word of its own to the order.              *)
LEMMA EndTold ==
    ASSUME RowsInv, ToldInv, Growth, NEW q \in RefundRequests,
           RefundReject(q) \/ RefundRecordStatus(q) \/ RefundDies(q)
    PROVE  ToldInv' /\ SettledStays
<1> DEFINE r == refunding[q].refund
<1>1. StoreTypeOK /\ AdminRefundTypeOK /\ RefundersInv
  BY DEF RowsInv, RequestInv, CheckoutTypeOK
<1>2. /\ UNCHANGED <<settled, syncing>> /\ Busy(q)
      /\ refunding' = [refunding EXCEPT ![q].pc = "done"]
  BY DEF RefundReject, RefundRecordStatus, RefundDies, storeVars, Busy
<1>3. r \in RefundIds /\ refunds[r] # NoRefund /\ refunds[r] \in RefundRows
  BY <1>1, <1>2, RowThere DEF RefundersInv
<1>4. /\ refunding'[q].pc = "done" /\ refunding'[q].refund = r
      /\ \A x \in RefundRequests \ {q} : refunding'[x] = refunding[x]
  BY <1>1, <1>2, RefundDone
<1>5. \/ refunds' = refunds
      \/ \E new \in RefundRows : /\ refunds' = [refunds EXCEPT ![r] = new]
                                 /\ new.status # "completed"
  <2>1. CASE RefundReject(q)
    <3> DEFINE new == [refunds[r] EXCEPT !.status = "failed"]
    <3>1. refunds' = [refunds EXCEPT ![r] = new]
      BY <2>1 DEF RefundReject
    <3>2. new \in RefundRows /\ new.status # "completed"
      BY <1>3, RowFailed
    <3> HIDE DEF new, r
    <3> QED BY <3>1, <3>2
  <2>2. CASE RefundRecordStatus(q)
    <3> DEFINE new == [refunds[r] EXCEPT !.status = refunding[q].answer, !.known = TRUE]
    <3>1. refunds' = [refunds EXCEPT ![r] = new] /\ refunding[q].answer \in {"failed", "cancelled"}
      BY <2>2 DEF RefundRecordStatus
    <3>2. new \in RefundRows /\ new.status # "completed"
      BY <1>3, <3>1, RowRecorded DEF Answers
    <3> HIDE DEF new, r
    <3> QED BY <3>1, <3>2
  <2>3. CASE RefundDies(q)
    BY <2>3 DEF RefundDies, storeVars
  <2> QED BY <2>1, <2>2, <2>3
<1>6. refunding[q].refund = r
  OBVIOUS
<1> HIDE DEF r
<1>7. /\ \A x \in RefundIds \ {r} : refunds'[x] = refunds[x]
      /\ refunds'[r].status = "completed" => settled'[r] = "completed"
  <2>1. CASE refunds' = refunds
    BY <1>2, <1>3, <2>1 DEF ToldInv
  <2>2. ASSUME NEW new \in RefundRows, refunds' = [refunds EXCEPT ![r] = new], new.status # "completed"
        PROVE  /\ \A x \in RefundIds \ {r} : refunds'[x] = refunds[x]
               /\ refunds'[r].status # "completed"
    BY <1>1, <1>3, <2>2, TableUpdated
  <2> QED BY <1>5, <2>1, <2>2
<1> QED BY <1>1, <1>2, <1>3, <1>4, <1>6, <1>7, ToldByRequest

(* RefundApply records what PayPal said.                                    *)
LEMMA RequestAppliesTold ==
    ASSUME RowsInv, ToldInv, Growth, NEW q \in RefundRequests, RefundApply(q)
    PROVE  ToldInv' /\ SettledStays /\ CountedSources
<1> DEFINE r == refunding[q].refund
           result == refunding[q].answer
<1>1. StoreTypeOK /\ AdminRefundTypeOK /\ RefundersInv
  BY DEF RowsInv, RequestInv, CheckoutTypeOK
<1>2. /\ refunding[q].pc = "apply" /\ applyPayPalRefundResult(r, result)
      /\ refunding' = [refunding EXCEPT ![q].pc = "done"] /\ syncing' = syncing
  BY DEF RefundApply
<1>3. /\ Busy(q) /\ r \in RefundIds /\ refunds[r] # NoRefund /\ result \in Answers
      /\ result = "completed" => settled[r] = "completed"
  BY <1>1, <1>2 DEF RefundersInv, ToldInv, Busy
<1>4. /\ refunding'[q].pc = "done" /\ refunding'[q].refund = r
      /\ \A x \in RefundRequests \ {q} : refunding'[x] = refunding[x]
  BY <1>1, <1>2, RefundDone
<1>5. refunding[q].refund = r
  OBVIOUS
<1> HIDE DEF r, result
<1>6. /\ refunds'[r].status = result /\ \A x \in RefundIds \ {r} : refunds'[x] = refunds[x]
      /\ settled' = settled
  BY <1>1, <1>2, <1>3, ApplyRows
<1>7. ToldInv' /\ SettledStays
  BY <1>1, <1>2, <1>3, <1>4, <1>5, <1>6, ToldByRequest
<1> QED BY <1>1, <1>2, <1>3, <1>7, ApplyCounts

(* SettleRefund moves only what is pending at PayPal.                       *)
LEMMA SettleTold ==
    ASSUME RowsInv, ToldInv, NEW r \in RefundIds, SettleRefund(r)
    PROVE  ToldInv' /\ SettledStays
<1>1. StoreTypeOK /\ RefundersInv
  BY DEF RowsInv, RequestInv, CheckoutTypeOK
<1>2. settled[r] = "pending" /\ UNCHANGED <<refunds, refunding, syncing>>
  BY DEF SettleRefund, adminRefundVars
<1>3. \A x \in RefundIds \ {r} : settled'[x] = settled[x]
  BY <1>1 DEF SettleRefund, Asked, StoreTypeOK
<1>4. SettledStays /\ \A x \in RefundIds : settled[x] = "unasked" => settled'[x] = "unasked"
  BY <1>2, <1>3 DEF SettledStays
<1>5. RowsAsked' /\ DistinctInv'
  BY <1>2, <1>4 DEF ToldInv, RowsAsked, DistinctInv, Busy
<1>6. ASSUME NEW q \in RefundRequests
      PROVE  /\ refunding'[q].pc = "call" => settled'[refunding'[q].refund] = "unasked"
             /\ refunding'[q].pc = "apply" /\ refunding'[q].answer = "completed"
                   => settled'[refunding'[q].refund] = "completed"
  BY <1>1, <1>2, <1>4 DEF ToldInv, RefundersInv, Busy, SettledStays
<1>7. ASSUME NEW s \in Syncs, syncing'[s].pc = "apply", syncing'[s].answer = "completed"
      PROVE  settled'[syncing'[s].refund] = "completed"
  BY <1>1, <1>2, <1>4, <1>7 DEF ToldInv, RefundersInv, SyncInv, SettledStays
<1>8. \A x \in RefundIds : refunds'[x] # NoRefund /\ refunds'[x].status = "completed"
          => settled'[x] = "completed"
  BY <1>2, <1>4 DEF ToldInv, SettledStays
<1> QED BY <1>4, <1>5, <1>6, <1>7, <1>8 DEF ToldInv

(* SyncRefund tells the order what PayPal said when it was asked.           *)
LEMMA SyncTold ==
    ASSUME RowsInv, ToldInv, Growth, NEW s \in Syncs,
           (\E r \in RefundIds : SyncBegin(s, r)) \/ SyncCall(s) \/ SyncFails(s)
    PROVE  ToldInv' /\ SettledStays
<1>1. AdminRefundTypeOK /\ RefundersInv
  BY DEF RowsInv
<1>2. UNCHANGED <<refunds, settled, refunding>>
  BY DEF SyncBegin, SyncCall, SyncFails, storeVars
<1>3. syncing \in [Syncs -> SyncRecords] /\ syncing[s] \in SyncRecords
  BY <1>1 DEF AdminRefundTypeOK, SyncRecords
<1>4. /\ \A x \in Syncs \ {s} : syncing'[x] = syncing[x]
      /\ syncing'[s].pc = "apply" /\ syncing'[s].answer = "completed"
            => settled[syncing'[s].refund] = "completed"
  <2>1. ASSUME NEW r \in RefundIds, SyncBegin(s, r)
        PROVE  syncing'[s].pc = "call" /\ \A x \in Syncs \ {s} : syncing'[x] = syncing[x]
    BY <1>3, <2>1 DEF SyncBegin
  <2>2. CASE SyncCall(s)
    <3> DEFINE answer == IF settled[syncing[s].refund] \in {"completed", "pending"}
                         THEN settled[syncing[s].refund] ELSE "failed"
               rec == [syncing[s] EXCEPT !.pc = "apply", !.answer = answer]
    <3>1. answer = "completed" => settled[syncing[s].refund] = "completed"
      OBVIOUS
    <3>2. syncing' = [syncing EXCEPT ![s] = rec]
      BY <2>2 DEF SyncCall
    <3> HIDE DEF answer
    <3>3. rec.refund = syncing[s].refund /\ rec.answer = answer
      BY <1>3 DEF SyncRecords
    <3> HIDE DEF rec
    <3> QED BY <1>3, <3>1, <3>2, <3>3
  <2>3. CASE SyncFails(s)
    <3>1. syncing' = [syncing EXCEPT ![s].pc = "done"]
      BY <2>3 DEF SyncFails
    <3> QED BY <1>1, <3>1, SyncDone
  <2> QED BY <2>1, <2>2, <2>3
<1>5. RowsAsked' /\ DistinctInv'
  BY <1>2 DEF ToldInv, RowsAsked, DistinctInv, Busy
<1> QED BY <1>2, <1>4, <1>5 DEF ToldInv, SettledStays

(* SyncApply                                                                *)
LEMMA SyncAppliesTold ==
    ASSUME RowsInv, ToldInv, NEW s \in Syncs, SyncApply(s)
    PROVE  ToldInv' /\ SettledStays /\ CountedSources
<1> DEFINE r == syncing[s].refund
           result == syncing[s].answer
<1>1. StoreTypeOK /\ AdminRefundTypeOK /\ RefundersInv
  BY DEF RowsInv, RequestInv, CheckoutTypeOK
<1>2. /\ syncing[s].pc = "apply" /\ applyPayPalRefundResult(r, result)
      /\ syncing' = [syncing EXCEPT ![s].pc = "done"] /\ refunding' = refunding
  BY DEF SyncApply
<1>3. /\ r \in RefundIds /\ refunds[r] # NoRefund /\ result \in Answers
      /\ result = "completed" => settled[r] = "completed"
  BY <1>1, <1>2 DEF RefundersInv, SyncInv, ToldInv, Answers
<1>4. syncing'[s].pc = "done" /\ \A x \in Syncs \ {s} : syncing'[x] = syncing[x]
  BY <1>1, <1>2, SyncDone
<1> HIDE DEF r, result
<1>5. /\ refunds'[r] # NoRefund /\ refunds'[r].status = result
      /\ \A x \in RefundIds \ {r} : refunds'[x] = refunds[x]
      /\ settled' = settled
  <2>1. StoreTypeOK /\ applyPayPalRefundResult(r, result)
    BY <1>1, <1>2
  <2>2. r \in RefundIds /\ refunds[r] # NoRefund /\ result \in Answers
    BY <1>3
  <2> QED BY <2>1, <2>2, ApplyRows
<1>6. RowsAsked' /\ DistinctInv'
  <2>1. RowsAsked'
    <3>1. RowsAsked
      BY DEF ToldInv
    <3> QED BY <1>5, <3>1 DEF RowsAsked
  <2>2. DistinctInv'
    <3>1. DistinctInv
      BY DEF ToldInv
    <3> QED BY <1>2, <3>1 DEF DistinctInv, Busy
  <2> QED BY <2>1, <2>2
<1>7. \A x \in RefundIds : refunds'[x] # NoRefund /\ refunds'[x].status = "completed"
          => settled'[x] = "completed"
  BY <1>3, <1>5 DEF ToldInv
<1>8. ToldInv' /\ SettledStays
  BY <1>2, <1>4, <1>5, <1>6, <1>7 DEF ToldInv, SettledStays
<1> QED BY <1>1, <1>2, <1>3, <1>8, ApplyCounts

(* The refund endpoints and PayPal, then.                                   *)
LEMMA RefundTold ==
    ASSUME RowsInv, ToldInv, Growth, RefundNext
    PROVE  ToldInv' /\ SettledStays /\ CountedSources
<1>1. ASSUME order' = order PROVE CountedSources
  BY <1>1 DEF CountedSources
<1>2. ASSUME NEW q \in RefundRequests, NEW o \in Orders, NEW r \in RefundIds,
             NEW amount \in 1..Total[o], RefundBegin(q, o, r, amount)
      PROVE  ToldInv' /\ SettledStays /\ CountedSources
  <2>1. order' = order
    BY <1>2 DEF RefundBegin
  <2> QED BY <1>1, <1>2, <2>1, BeginTold
<1>3. ASSUME NEW q \in RefundRequests,
             RefundAccepted(q) \/ RefundRefused(q) \/ RefundAnswerLost(q) \/ RefundReject(q)
                \/ RefundRecordStatus(q) \/ RefundApply(q) \/ RefundDies(q)
      PROVE  ToldInv' /\ SettledStays /\ CountedSources
  <2>1. CASE RefundApply(q)
    BY <2>1, RequestAppliesTold
  <2>2. CASE RefundAccepted(q) \/ RefundRefused(q) \/ RefundAnswerLost(q)
    <3>1. order' = order
      BY <2>2 DEF RefundAccepted, RefundRefused, RefundAnswerLost, storeVars
    <3> QED BY <1>1, <2>2, <3>1, CallTold
  <2>3. CASE RefundReject(q) \/ RefundRecordStatus(q) \/ RefundDies(q)
    <3>1. order' = order
      BY <2>3 DEF RefundReject, RefundRecordStatus, RefundDies, storeVars
    <3> QED BY <1>1, <2>3, <3>1, EndTold
  <2> QED BY <1>3, <2>1, <2>2, <2>3
<1>4. ASSUME NEW r \in RefundIds, SettleRefund(r)
      PROVE  ToldInv' /\ SettledStays /\ CountedSources
  <2>1. order' = order
    BY <1>4 DEF SettleRefund
  <2> QED BY <1>1, <1>4, <2>1, SettleTold
<1>5. ASSUME NEW s \in Syncs,
             (\E r \in RefundIds : SyncBegin(s, r)) \/ SyncCall(s) \/ SyncApply(s) \/ SyncFails(s)
      PROVE  ToldInv' /\ SettledStays /\ CountedSources
  <2>1. CASE SyncApply(s)
    BY <2>1, SyncAppliesTold
  <2>2. CASE (\E r \in RefundIds : SyncBegin(s, r)) \/ SyncCall(s) \/ SyncFails(s)
    <3>1. order' = order
      BY <2>2 DEF SyncBegin, SyncCall, SyncFails, storeVars
    <3> QED BY <1>1, <2>2, <3>1, SyncTold
  <2> QED BY <1>5, <2>1, <2>2
<1> QED BY <1>2, <1>3, <1>4, <1>5 DEF RefundNext

(* MovedInv is inductive.                                                   *)
LEMMA MovedStep ==
    ASSUME RowsInv, MovedInv, [ServiceNext]_serviceVars
    PROVE  MovedInv'
<1>1. RowsInv' /\ Frames /\ Growth /\ ToldInv /\ StoreTypeOK /\ AdminsInv
  BY ServiceStep DEF Frames, MovedInv, RowsInv, RequestInv, CheckoutTypeOK
<1>2. ASSUME UNCHANGED <<refunds, settled, adminRefundVars>> PROVE ToldInv' /\ SettledStays
  BY <1>1, <1>2 DEF ToldInv, RowsAsked, DistinctInv, Busy, SettledStays, adminRefundVars
<1>3. ToldInv' /\ SettledStays /\ CountedSources
  <2>1. CASE CheckoutNext /\ UNCHANGED <<adminRefundVars, adminVars>>
    <3>1. RequestInv /\ [CheckoutNext]_checkoutVars
      BY <2>1 DEF RowsInv
    <3>2. UNCHANGED <<refunds, settled>>
      BY <2>1, <3>1, CheckoutKeepsRefunds
    <3>3. CountedSources
      BY <3>1, CheckoutCounts DEF CountedSources
    <3> QED BY <1>2, <2>1, <3>2, <3>3
  <2>2. CASE RefundNext
    BY <1>1, <2>2, RefundTold
  <2>3. CASE AdminNext /\ UNCHANGED <<requestVars, adminRefundVars>>
    <3>1. UNCHANGED <<refunds, settled>>
      BY <2>3 DEF AdminNext, EditRead, EditSave, DeleteRead, DeleteRestock, DeleteItems,
            DeleteTransactions, DeleteRow, DeleteFails, storeVars
    <3> QED BY <1>2, <2>3, <3>1, AdminCounts
  <2>4. CASE UNCHANGED serviceVars
    BY <1>2, <2>4 DEF serviceVars, storeVars, CountedSources
  <2> QED BY <2>1, <2>2, <2>3, <2>4 DEF ServiceNext
<1>4. CountedPaidBack'
  BY <1>1, <1>3, CountedStep DEF MovedInv
<1> QED BY <1>3, <1>4 DEF MovedInv

(* refunded_amount and the "completed" of a refunds row are PayPal's money: *)
(* whatever requests, syncs, edits and deletes interleave, and whichever old*)
(* copy an edit writes back, an order counts as refunded only what PayPal   *)
(* paid back for it, and a row is completed only if PayPal completed it.    *)
THEOREM CountedWasPaidBack ==
    ServiceSpec => [](/\ \A o \in Orders : Exists(o) => \A r \in order[o].counted : PaidBack(r, o)
                      /\ \A r \in RefundIds : refunds[r] # NoRefund /\ refunds[r].status = "completed"
                            => settled[r] = "completed")
<1>1. ServiceInit => MovedInv
  BY SentinelsAssumption DEF ServiceInit, StoreInit, RefundInit, AdminInit, MovedInv, ToldInv,
     RowsAsked, DistinctInv, Busy, CountedPaidBack
<1>2. ServiceInv /\ MovedInv /\ [ServiceNext]_serviceVars => MovedInv'
  BY MovedStep DEF ServiceInv
<1>3. ServiceInv /\ MovedInv =>
         /\ \A o \in Orders : Exists(o) => \A r \in order[o].counted : PaidBack(r, o)
         /\ \A r \in RefundIds : refunds[r] # NoRefund /\ refunds[r].status = "completed"
               => settled[r] = "completed"
  <2> SUFFICES ASSUME ServiceInv, MovedInv
               PROVE  /\ \A o \in Orders : Exists(o) => \A r \in order[o].counted : PaidBack(r, o)
                      /\ \A r \in RefundIds : refunds[r] # NoRefund /\ refunds[r].status = "completed"
                            => settled[r] = "completed"
    OBVIOUS
  <2>1. StoreTypeOK
    BY DEF ServiceInv, RowsInv, RequestInv, CheckoutTypeOK
  <2>2. \A o \in Orders : Exists(o) => order[o] \in OrderRows
    BY <2>1, ExistsIsRow
  <2> QED BY <2>2 DEF MovedInv, ToldInv, CountedPaidBack
<1> QED BY <1>1, <1>2, <1>3, ServiceInvInit, ServiceInvStep, PTL DEF ServiceSpec
=============================================================================
