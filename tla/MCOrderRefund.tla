---------------------------- MODULE MCOrderRefund ----------------------------
(* Instance of OrderRefund: an order of three cents, so that refunds can be *)
(* full, partial, or partial and then the rest.                             *)
EXTENDS OrderRefund

CONSTANTS o1, o2, p1, p2, r1, r2, r3, q1, q2, s1, s2

MCTotal == [o \in Orders |-> 3]
MCQty == [o \in Orders |-> 1]
=============================================================================
