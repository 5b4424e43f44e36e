----------------------------- MODULE OrderAdmin -----------------------------
(***************************************************************************)
(* The admin's edits and deletes of orders (controllers/order.go:          *)
(* UpdateOrderStatus, UpdateOrder, DeleteOrder).  An edit reads the row    *)
(* and later saves every column of its copy; a delete decides on what it   *)
(* read and then runs its statements one by one.  Neither takes a lock or  *)
(* a transaction.                                                          *)
(***************************************************************************)
EXTENDS PaymentStore

CONSTANTS
    Edits,         \* requests that edit an order
    Deletes,       \* requests that delete an order
    EditStatuses,  \* statuses an admin gives
    EditPayments   \* payment statuses an admin gives

ASSUME EditsAssumption == EditStatuses \subseteq Statuses

(* Values UpdateOrder accepts: a refund state only if it is the present one.*)
ASSUME EditPaymentsAssumption == EditPayments \subseteq {"pending", "paid", "failed"}

VARIABLES
    edit,       \* per edit: phase, order, the row it read
    deletion    \* per delete: phase, order

adminVars == <<edit, deletion>>

AdminTypeOK ==
    /\ edit \in [Edits -> [pc : {"idle", "read", "done"}, order : Orders \cup {NoId},
                           row : OrderRows \cup {Unplaced}]]
    /\ deletion \in [Deletes -> [pc : {"idle", "restock", "items", "transactions", "row", "done"},
                                 order : Orders \cup {NoId}]]

AdminInit ==
    /\ edit = [e \in Edits |-> [pc |-> "idle", order |-> NoId, row |-> Unplaced]]
    /\ deletion = [d \in Deletes |-> [pc |-> "idle", order |-> NoId]]

-----------------------------------------------------------------------------
(* UpdateOrderStatus, UpdateOrder *)

EditRead(e, o) ==
    /\ edit[e].pc = "idle"
    /\ Exists(o)
    /\ edit' = [edit EXCEPT ![e] = [pc |-> "read", order |-> o, row |-> order[o]]]
    /\ UNCHANGED <<storeVars, deletion>>

(* Mutant: UpdateOrder accepts every payment status. *)
EditSaveAnyPayment(e) ==
    /\ edit[e].pc = "read"
    /\ \E status \in EditStatuses \cup {edit[e].row.status}, payment \in PaymentStatuses :
          order' = [order EXCEPT ![edit[e].order] =
                        [edit[e].row EXCEPT !.status = status, !.payment = payment]]
    /\ edit' = [edit EXCEPT ![e].pc = "done"]
    /\ UNCHANGED <<items, stock, recorded, latest, refunds, paypal, settled, historyVars, deletion>>

(* Save writes the whole copy, and inserts it if the row is gone. *)
EditSave(e) ==
    /\ edit[e].pc = "read"
    /\ \E status \in EditStatuses \cup {edit[e].row.status},
          payment \in EditPayments \cup {edit[e].row.payment} :
          order' = [order EXCEPT ![edit[e].order] =
                        [edit[e].row EXCEPT !.status = status, !.payment = payment]]
    /\ edit' = [edit EXCEPT ![e].pc = "done"]
    /\ UNCHANGED <<items, stock, recorded, latest, refunds, paypal, settled, historyVars, deletion>>

-----------------------------------------------------------------------------
(* DeleteOrder *)

DeleteReadSkippingItems(d, o) ==   \* mutant: items go only when they are restocked
    /\ deletion[d].pc = "idle"
    /\ Exists(o)
    /\ \A r \in RefundIds : refunds[r] # NoRefund => refunds[r].order # o
    /\ order[o].status \in {"pending", "cancelled"}
    /\ deletion' = [deletion EXCEPT ![d] =
          [pc |-> IF order[o].payment = "paid" THEN "restock" ELSE "transactions", order |-> o]]
    /\ UNCHANGED <<storeVars, edit>>

DeleteRead(d, o) ==
    /\ deletion[d].pc = "idle"
    /\ Exists(o)
    /\ \A r \in RefundIds : refunds[r] # NoRefund => refunds[r].order # o
    /\ order[o].status \in {"pending", "cancelled"}
    /\ deletion' = [deletion EXCEPT ![d] =
          [pc |-> IF order[o].payment = "paid" /\ o \in items THEN "restock" ELSE "items",
           order |-> o]]
    /\ UNCHANGED <<storeVars, edit>>

DeleteRestock(d) ==
    /\ deletion[d].pc = "restock"
    /\ stock' = stock + Qty[deletion[d].order]
    /\ restocked' = [restocked EXCEPT ![deletion[d].order] = Again(@)]
    /\ deletion' = [deletion EXCEPT ![d].pc = "items"]
    /\ UNCHANGED <<order, items, recorded, latest, refunds, paypal, settled, finalized, edit>>

DeleteItems(d) ==
    /\ deletion[d].pc = "items"
    /\ items' = items \ {deletion[d].order}
    /\ deletion' = [deletion EXCEPT ![d].pc = "transactions"]
    /\ UNCHANGED <<order, stock, recorded, latest, refunds, paypal, settled, historyVars, edit>>

DeleteTransactions(d) ==
    /\ deletion[d].pc = "transactions"
    /\ recorded' = [recorded EXCEPT ![deletion[d].order] = {}]
    /\ latest' = [latest EXCEPT ![deletion[d].order] = NoId]
    /\ deletion' = [deletion EXCEPT ![d].pc = "row"]
    /\ UNCHANGED <<order, items, stock, refunds, paypal, settled, historyVars, edit>>

DeleteRow(d) ==
    /\ deletion[d].pc = "row"
    /\ order' = [order EXCEPT ![deletion[d].order] = Deleted]
    /\ deletion' = [deletion EXCEPT ![d].pc = "done"]
    /\ UNCHANGED <<items, stock, recorded, latest, refunds, paypal, settled, historyVars, edit>>

(* A statement fails or the process stops; what was done stays done. *)
DeleteFails(d) ==
    /\ deletion[d].pc \in {"restock", "items", "transactions", "row"}
    /\ deletion' = [deletion EXCEPT ![d].pc = "done"]
    /\ UNCHANGED <<storeVars, edit>>

-----------------------------------------------------------------------------
AdminNext ==
    \/ \E e \in Edits : EditSave(e) \/ \E o \in Orders : EditRead(e, o)
    \/ \E d \in Deletes : \/ \E o \in Orders : DeleteRead(d, o)
                          \/ DeleteRestock(d) \/ DeleteItems(d) \/ DeleteTransactions(d)
                          \/ DeleteRow(d) \/ DeleteFails(d)
=============================================================================
