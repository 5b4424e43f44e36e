-------------------------- MODULE CouponRedemption --------------------------
(***************************************************************************)
(* Redemption of one coupon code by concurrent checkouts                   *)
(* (controllers/coupon.go, called from CreateOrder in controllers/order.go)*)
(* beside the admin's edit and delete of the same row.                     *)
(*                                                                         *)
(* A checkout reads the coupon twice: once outside any transaction         *)
(* (ValidateCouponCode) and once inside the order's transaction            *)
(* (ConsumeCoupon), whose snapshot is taken at its first SELECT            *)
(* (MySQL REPEATABLE READ).  The conditional UPDATE that follows sees the  *)
(* latest committed row and keeps it locked up to the commit, so the claim *)
(* and the commit are one step.                                            *)
(*                                                                         *)
(* An order is named by its checkout; since a checkout inserts at most one *)
(* usage row, the table coupon_usages is the set of orders that have one.  *)
(***************************************************************************)
EXTENDS Integers, FiniteSets

CONSTANTS
    Orders,       \* the checkouts that name this coupon
    Customers,    \* customer e-mail addresses
    CustomerOf,   \* who places which order
    Editors,      \* admin requests that edit the coupon
    Deleters,     \* admin requests that delete it
    Limits,       \* values an admin gives usage_limit
    UserLimits,   \* values an admin gives user_usage_limit
    NoLimit,      \* a nil limit
    NoCoupon      \* the row does not exist

ASSUME OrdersAssumption == IsFiniteSet(Orders) /\ CustomerOf \in [Orders -> Customers]
ASSUME LimitsAssumption == /\ Limits \subseteq Nat \cup {NoLimit}
                           /\ UserLimits \subseteq Nat \cup {NoLimit}
                           /\ NoLimit \notin Nat

Coupons == [used : Nat, limit : Limits, userLimit : UserLimits, active : BOOLEAN]

ASSUME NoCouponAssumption == NoCoupon \notin Coupons

VARIABLES
    coupon,     \* the coupons row, or NoCoupon
    usages,     \* the orders that have a coupon_usages row
    couponRef,  \* the committed orders whose coupon_id names the coupon
    checkout,   \* per order: the phase of CreateOrder and the row its transaction read
    editor,     \* per edit: its phase and the row it read
    deleter     \* per delete: its phase

vars == <<coupon, usages, couponRef, checkout, editor, deleter>>

UsesOf(customer) == {o \in usages : CustomerOf[o] = customer}

(* validateCouponRules on the row c, with the usage rows visible now.  The *)
(* rules on dates and on the order amount only refuse more orders; Refuse  *)
(* below stands for them.                                                  *)
Valid(c, o) ==
    /\ c # NoCoupon
    /\ c.active
    /\ c.limit # NoLimit => c.used < c.limit
    /\ c.userLimit # NoLimit => Cardinality(UsesOf(CustomerOf[o])) < c.userLimit

Init ==
    /\ \E limit \in Limits, userLimit \in UserLimits :
          coupon = [used |-> 0, limit |-> limit, userLimit |-> userLimit, active |-> TRUE]
    /\ usages = {}
    /\ couponRef = {}
    /\ checkout = [o \in Orders |-> [pc |-> "start", row |-> NoCoupon]]
    /\ editor = [e \in Editors |-> [pc |-> "idle", row |-> NoCoupon]]
    /\ deleter = [d \in Deleters |-> "idle"]

-----------------------------------------------------------------------------
(* CreateOrder *)

Leave(o, pc) == checkout' = [checkout EXCEPT ![o] = [pc |-> pc, row |-> NoCoupon]]

(* The read-only check before the order exists. *)
ValidateCouponCode(o) ==
    /\ checkout[o].pc = "start"
    /\ Valid(coupon, o)
    /\ Leave(o, "validated")
    /\ UNCHANGED <<coupon, usages, couponRef, editor, deleter>>

(* BEGIN; INSERT the order; the SELECTs of ConsumeCoupon fix the snapshot. *)
ReadInTransaction(o) ==
    /\ checkout[o].pc = "validated"
    /\ Valid(coupon, o)
    /\ checkout' = [checkout EXCEPT ![o] = [pc |-> "claiming", row |-> coupon]]
    /\ UNCHANGED <<coupon, usages, couponRef, editor, deleter>>

(* Mutant: the UPDATE trusts the limit check made on the snapshot. *)
ClaimableUnconditionally(seen) == coupon # NoCoupon /\ coupon.active

(* WHERE of the conditional UPDATE: the limit is the one the snapshot read, *)
(* used_count and is_active are those of the latest committed row.          *)
Claimable(seen) ==
    /\ coupon # NoCoupon
    /\ coupon.active
    /\ seen.limit # NoLimit => coupon.used < seen.limit

(* Mutant: used_count is written from the row that was read. *)
ConsumeFromCopy(o) ==
    /\ checkout[o].pc = "claiming"
    /\ Claimable(checkout[o].row)
    /\ coupon' = [coupon EXCEPT !.used = checkout[o].row.used + 1]
    /\ usages' = usages \cup {o}
    /\ couponRef' = couponRef \cup {o}
    /\ Leave(o, "placed")
    /\ UNCHANGED <<editor, deleter>>

(* UPDATE used_count, INSERT the usage row, COMMIT. *)
ConsumeCoupon(o) ==
    /\ checkout[o].pc = "claiming"
    /\ Claimable(checkout[o].row)
    /\ coupon' = [coupon EXCEPT !.used = @ + 1]
    /\ usages' = usages \cup {o}
    /\ couponRef' = couponRef \cup {o}
    /\ Leave(o, "placed")
    /\ UNCHANGED <<editor, deleter>>

(* Mutants of the rollback: it keeps the use it took, or the order with its *)
(* coupon_id.                                                               *)
RefuseKeepingUse(o) ==
    /\ checkout[o].pc = "claiming"
    /\ Leave(o, "refused")
    /\ coupon' = IF coupon = NoCoupon THEN coupon ELSE [coupon EXCEPT !.used = @ + 1]
    /\ UNCHANGED <<usages, couponRef, editor, deleter>>

RefuseKeepingOrder(o) ==
    /\ checkout[o].pc = "claiming"
    /\ Leave(o, "refused")
    /\ couponRef' = couponRef \cup {o}
    /\ UNCHANGED <<coupon, usages, editor, deleter>>

(* A check that fails, a claim that matches no row, or a database error:    *)
(* the transaction, if begun, is rolled back and nothing is recorded.       *)
Refuse(o) ==
    /\ checkout[o].pc \in {"start", "validated", "claiming"}
    /\ Leave(o, "refused")
    /\ UNCHANGED <<coupon, usages, couponRef, editor, deleter>>

-----------------------------------------------------------------------------
(* UpdateCoupon: SELECT the row, then Save every column of the copy. *)

EditRead(e) ==
    /\ editor[e].pc = "idle"
    /\ coupon # NoCoupon
    /\ editor' = [editor EXCEPT ![e] = [pc |-> "read", row |-> coupon]]
    /\ UNCHANGED <<coupon, usages, couponRef, checkout, deleter>>

(* GORM's Save inserts the row again when its UPDATE matches none. *)
EditSave(e) ==
    /\ editor[e].pc = "read"
    /\ \E limit \in Limits, userLimit \in UserLimits, active \in BOOLEAN :
          coupon' = [editor[e].row EXCEPT !.limit = limit, !.userLimit = userLimit,
                                          !.active = active]
    /\ editor' = [editor EXCEPT ![e] = [pc |-> "saved", row |-> NoCoupon]]
    /\ UNCHANGED <<usages, couponRef, checkout, deleter>>

-----------------------------------------------------------------------------
(* DeleteCoupon: three statements, no transaction. *)

DeleteUsages(d) ==
    /\ deleter[d] = "idle"
    /\ coupon # NoCoupon
    /\ usages' = {}
    /\ deleter' = [deleter EXCEPT ![d] = "usages deleted"]
    /\ UNCHANGED <<coupon, couponRef, checkout, editor>>

NullifyOrders(d) ==
    /\ deleter[d] = "usages deleted"
    /\ couponRef' = {}
    /\ deleter' = [deleter EXCEPT ![d] = "orders nullified"]
    /\ UNCHANGED <<coupon, usages, checkout, editor>>

DeleteRow(d) ==
    /\ deleter[d] = "orders nullified"
    /\ coupon' = NoCoupon
    /\ deleter' = [deleter EXCEPT ![d] = "done"]
    /\ UNCHANGED <<usages, couponRef, checkout, editor>>

(* A statement fails: the handler answers 500 and keeps what it had done. *)
DeleteFails(d) ==
    /\ deleter[d] \in {"usages deleted", "orders nullified"}
    /\ deleter' = [deleter EXCEPT ![d] = "failed"]
    /\ UNCHANGED <<coupon, usages, couponRef, checkout, editor>>

-----------------------------------------------------------------------------
Next ==
    \/ \E o \in Orders : \/ ValidateCouponCode(o) \/ ReadInTransaction(o)
                         \/ ConsumeCoupon(o) \/ Refuse(o)
    \/ \E e \in Editors : EditRead(e) \/ EditSave(e)
    \/ \E d \in Deleters : \/ DeleteUsages(d) \/ NullifyOrders(d)
                           \/ DeleteRow(d) \/ DeleteFails(d)

Spec == Init /\ [][Next]_vars

-----------------------------------------------------------------------------
TypeOK ==
    /\ coupon \in Coupons \cup {NoCoupon}
    /\ usages \subseteq Orders
    /\ couponRef \subseteq Orders
    /\ checkout \in [Orders -> [pc : {"start", "validated", "claiming", "placed", "refused"},
                                row : Coupons \cup {NoCoupon}]]
    /\ editor \in [Editors -> [pc : {"idle", "read", "saved"}, row : Coupons \cup {NoCoupon}]]
    /\ deleter \in [Deleters -> {"idle", "usages deleted", "orders nullified", "done", "failed"}]

(* No admin has saved an edit or begun a delete.                            *)
Untouched ==
    /\ \A e \in Editors : editor[e].pc # "saved"
    /\ \A d \in Deleters : deleter[d] = "idle"

(* "two concurrent orders can never exceed the total usage limit": however  *)
(* the checkouts interleave, no more orders hold a use than usage_limit     *)
(* allows (ConsumeCoupon's conditional UPDATE), until an admin intervenes.  *)
UsageLimitRespected ==
    Untouched /\ coupon # NoCoupon /\ coupon.limit # NoLimit
        => Cardinality(usages) <= coupon.limit

(* used_count is the number of usage rows ("current usage count"): a        *)
(* refused checkout gives back nothing and keeps nothing.                   *)
UsedCountIsUsageCount == coupon # NoCoupon => coupon.used = Cardinality(usages)

(* Checkouts alone keep the two equal.                                      *)
CheckoutsCountRight == Untouched => UsedCountIsUsageCount

(* As long as nobody deletes the coupon, used_count never exceeds the uses  *)
(* that orders really hold, whatever admins save: a customer is never told  *)
(* that a limit is reached which is not.                                    *)
UsedCountNeverOvercounts ==
    (coupon # NoCoupon /\ \A d \in Deleters : deleter[d] = "idle")
        => coupon.used <= Cardinality(usages)

(* An order that carries the coupon has the usage row that pays for it,     *)
(* until a delete starts to erase usage rows.                               *)
ReferenceHasUsage ==
    (\A d \in Deleters : deleter[d] = "idle") => couponRef \subseteq usages
=============================================================================
