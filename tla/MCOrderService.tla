--------------------------- MODULE MCOrderService ---------------------------
(* Instance of OrderService.  An order of two cents can be refunded in part.*)
EXTENDS OrderService

CONSTANTS o1, o2, p1, p2, r1, r2, c1, c2, k1, k2, q1, q2, s1, s2, e1, e2, d1, d2

MCTotal == [o \in Orders |-> 2]
MCQty == [o \in Orders |-> 1]
=============================================================================
