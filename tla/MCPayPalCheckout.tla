-------------------------- MODULE MCPayPalCheckout --------------------------
(* Instance of PayPalCheckout.  Order o2 wants two units: with a stock of   *)
(* two both orders can be placed, and the stock covers only one of them.    *)
EXTENDS PayPalCheckout

CONSTANTS o1, o2, p1, p2, c1, c2, k1, k2

MCTotal == [o \in Orders |-> 2]
MCQty == [o \in Orders |-> IF o = o2 THEN 2 ELSE 1]
=============================================================================
