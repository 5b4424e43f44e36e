------------------------------ MODULE Semaphore ------------------------------
(***************************************************************************)
(* What a gate promises: at most limit holders are let in, whatever the    *)
(* limit was before.  Lowering it evicts nobody.                           *)
(***************************************************************************)
EXTENDS Integers, FiniteSets

CONSTANTS Processes, InitialLimit

VARIABLES holders, limit

Init == holders = {} /\ limit = InitialLimit

Enter(p) ==
    /\ p \notin holders
    /\ Cardinality(holders) < limit
    /\ holders' = holders \cup {p}
    /\ UNCHANGED limit

Leave(p) ==
    /\ p \in holders
    /\ holders' = holders \ {p}
    /\ UNCHANGED limit

Resize ==
    /\ limit' \in Nat \ {0}
    /\ UNCHANGED holders

Next == Resize \/ \E p \in Processes : Enter(p) \/ Leave(p)

Spec == Init /\ [][Next]_<<holders, limit>>
=============================================================================
