----------------------------- MODULE OrderLedger -----------------------------
(***************************************************************************)
(* What checkout promises, without requests, webhooks or PayPal: an order  *)
(* is placed only if the stock was once seen to cover it, which reserves   *)
(* nothing, and is paid at most once, which takes its units from stock, or *)
(* what is left of them.                                                   *)
(***************************************************************************)
EXTENDS Integers

CONSTANTS Orders, Qty, InitialStock

VARIABLES covered, placed, paid, stock

ledgerVars == <<covered, placed, paid, stock>>

Init == covered = {} /\ placed = {} /\ paid = {} /\ stock = InitialStock

(* Between this step and Place other orders may be placed and paid. *)
Cover(o) ==
    /\ o \notin covered
    /\ stock >= Qty[o]
    /\ covered' = covered \cup {o}
    /\ UNCHANGED <<placed, paid, stock>>

Place(o) ==
    /\ o \in covered \ placed
    /\ placed' = placed \cup {o}
    /\ UNCHANGED <<covered, paid, stock>>

Pay(o) ==
    /\ o \in placed \ paid
    /\ paid' = paid \cup {o}
    /\ stock' = IF stock >= Qty[o] THEN stock - Qty[o] ELSE 0
    /\ UNCHANGED <<covered, placed>>

Next == \E o \in Orders : Cover(o) \/ Place(o) \/ Pay(o)

Spec == Init /\ [][Next]_ledgerVars
=============================================================================
