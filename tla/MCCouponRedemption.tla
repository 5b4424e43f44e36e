------------------------- MODULE MCCouponRedemption -------------------------
(* Instance of CouponRedemption: customer a checks out more than once. *)
EXTENDS CouponRedemption

CONSTANTS o1, o2, o3, o4, a, b

MCCustomerOf == [o \in Orders |-> IF o \in {o1, o2} THEN a ELSE b]
MCLimits == {1, 2, NoLimit}
MCUserLimits == {1, NoLimit}
=============================================================================
