----------------------- MODULE CouponRedemption_proofs -----------------------
(***************************************************************************)
(* Proofs about CouponRedemption, for any number of checkouts, customers,  *)
(* edits and deletes and any limits.                                       *)
(***************************************************************************)
EXTENDS CouponRedemption, FiniteSetTheorems, TLAPS

(* A row that an edit saves is a row of the table. *)
LEMMA EditedRow ==
    ASSUME NEW row \in Coupons, NEW limit \in Limits, NEW userLimit \in UserLimits,
           NEW active \in BOOLEAN
    PROVE  [row EXCEPT !.limit = limit, !.userLimit = userLimit, !.active = active] \in Coupons
  BY DEF Coupons

(* A claimed row is a row of the table. *)
LEMMA ClaimedRow ==
    ASSUME NEW row \in Coupons
    PROVE  [row EXCEPT !.used = @ + 1] \in Coupons
  BY DEF Coupons

(* Every edit that has read the row holds a row of the table. *)
EditorHoldsRow == \A e \in Editors : editor[e].pc = "read" => editor[e].row \in Coupons

(* Every variable keeps its type. *)
THEOREM Typing == Spec => [](TypeOK /\ EditorHoldsRow)
<1>1. ASSUME Init PROVE TypeOK /\ EditorHoldsRow
  <2>1. coupon \in Coupons
    BY <1>1 DEF Init, Coupons
  <2>2. checkout \in [Orders -> [pc : {"start", "validated", "claiming", "placed", "refused"},
                                 row : Coupons \cup {NoCoupon}]]
    BY <1>1 DEF Init
  <2>3. editor \in [Editors -> [pc : {"idle", "read", "saved"}, row : Coupons \cup {NoCoupon}]]
    BY <1>1 DEF Init
  <2>4. EditorHoldsRow
    BY <1>1 DEF Init, EditorHoldsRow
  <2> QED
    BY <1>1, <2>1, <2>2, <2>3, <2>4 DEF Init, TypeOK
<1>2. ASSUME TypeOK, EditorHoldsRow, [Next]_vars PROVE TypeOK' /\ EditorHoldsRow'
  <2> USE <1>2 DEF TypeOK, EditorHoldsRow
  <2>1. ASSUME NEW o \in Orders, ValidateCouponCode(o) PROVE TypeOK' /\ EditorHoldsRow'
    BY <2>1 DEF ValidateCouponCode, Leave
  <2>2. ASSUME NEW o \in Orders, ReadInTransaction(o) PROVE TypeOK' /\ EditorHoldsRow'
    <3>1. coupon \in Coupons /\ checkout' = [checkout EXCEPT ![o] = [pc |-> "claiming", row |-> coupon]]
      BY <2>2 DEF ReadInTransaction, Valid
    <3>2. [pc |-> "claiming", row |-> coupon]
             \in [pc : {"start", "validated", "claiming", "placed", "refused"},
                  row : Coupons \cup {NoCoupon}]
      BY <3>1
    <3>3. checkout' \in [Orders -> [pc : {"start", "validated", "claiming", "placed", "refused"},
                                    row : Coupons \cup {NoCoupon}]]
      BY <3>1, <3>2
    <3>4. UNCHANGED <<coupon, usages, couponRef, editor, deleter>>
      BY <2>2 DEF ReadInTransaction
    <3> QED
      BY <3>3, <3>4
  <2>3. ASSUME NEW o \in Orders, ConsumeCoupon(o) PROVE TypeOK' /\ EditorHoldsRow'
    <3>1. coupon \in Coupons /\ coupon' = [coupon EXCEPT !.used = @ + 1]
      BY <2>3 DEF ConsumeCoupon, Claimable
    <3>2. coupon' \in Coupons
      BY <3>1, ClaimedRow
    <3>3. checkout' \in [Orders -> [pc : {"start", "validated", "claiming", "placed", "refused"},
                                    row : Coupons \cup {NoCoupon}]]
      BY <2>3 DEF ConsumeCoupon, Leave
    <3> QED
      BY <2>3, <3>2, <3>3 DEF ConsumeCoupon
  <2>4. ASSUME NEW o \in Orders, Refuse(o) PROVE TypeOK' /\ EditorHoldsRow'
    BY <2>4 DEF Refuse, Leave
  <2>5. ASSUME NEW e \in Editors, EditRead(e) PROVE TypeOK' /\ EditorHoldsRow'
    <3>1. coupon \in Coupons /\ editor' = [editor EXCEPT ![e] = [pc |-> "read", row |-> coupon]]
      BY <2>5 DEF EditRead
    <3>2. [pc |-> "read", row |-> coupon] \in [pc : {"idle", "read", "saved"}, row : Coupons \cup {NoCoupon}]
      BY <3>1
    <3>3. editor' \in [Editors -> [pc : {"idle", "read", "saved"}, row : Coupons \cup {NoCoupon}]]
      BY <3>1, <3>2
    <3>4. EditorHoldsRow'
      BY <3>1
    <3>5. UNCHANGED <<coupon, usages, couponRef, checkout, deleter>>
      BY <2>5 DEF EditRead
    <3> QED
      BY <3>3, <3>4, <3>5
  <2>6. ASSUME NEW e \in Editors, EditSave(e) PROVE TypeOK' /\ EditorHoldsRow'
    <3>1. PICK limit \in Limits, userLimit \in UserLimits, active \in BOOLEAN :
             coupon' = [editor[e].row EXCEPT !.limit = limit, !.userLimit = userLimit,
                                             !.active = active]
      BY <2>6 DEF EditSave
    <3>2. editor[e].row \in Coupons
      BY <2>6 DEF EditSave
    <3>3. coupon' \in Coupons
      BY <3>1, <3>2, EditedRow
    <3>4. /\ editor' = [editor EXCEPT ![e] = [pc |-> "saved", row |-> NoCoupon]]
          /\ UNCHANGED <<usages, couponRef, checkout, deleter>>
      BY <2>6 DEF EditSave
    <3> QED
      BY <3>3, <3>4
  <2>7. ASSUME NEW d \in Deleters, DeleteUsages(d) PROVE TypeOK' /\ EditorHoldsRow'
    BY <2>7 DEF DeleteUsages
  <2>8. ASSUME NEW d \in Deleters, NullifyOrders(d) PROVE TypeOK' /\ EditorHoldsRow'
    BY <2>8 DEF NullifyOrders
  <2>9. ASSUME NEW d \in Deleters, DeleteRow(d) PROVE TypeOK' /\ EditorHoldsRow'
    BY <2>9 DEF DeleteRow
  <2>10. ASSUME NEW d \in Deleters, DeleteFails(d) PROVE TypeOK' /\ EditorHoldsRow'
    BY <2>10 DEF DeleteFails
  <2>11. CASE UNCHANGED vars
    BY <2>11 DEF vars
  <2> QED
    BY <1>2, <2>1, <2>2, <2>3, <2>4, <2>5, <2>6, <2>7, <2>8, <2>9, <2>10, <2>11 DEF Next
<1> QED BY <1>1, <1>2, PTL DEF Spec
-----------------------------------------------------------------------------
(* One more usage row: the count grows by one, since an order that is still *)
(* claiming has none.                                                       *)
LEMMA NewUsage ==
    ASSUME usages \subseteq Orders, NEW o \in Orders, o \notin usages
    PROVE  /\ Cardinality(usages) \in Nat
           /\ Cardinality(usages \cup {o}) = Cardinality(usages) + 1
<1>1. IsFiniteSet(usages)
  BY FS_Subset, OrdersAssumption
<1> QED
  BY <1>1, FS_AddElement, FS_CardinalityType

(* Only placed orders hold a usage row. *)
UsagesArePlaced == \A o \in usages : checkout[o].pc = "placed"

(* What keeps the limit until an admin saves an edit or begins a delete:    *)
(* the counter counts the usage rows, the limit a checkout read is the      *)
(* limit still in force, and the counter is within it.                      *)
LimitInv ==
    /\ UsagesArePlaced
    /\ Untouched =>
          /\ coupon \in Coupons
          /\ coupon.used = Cardinality(usages)
          /\ coupon.limit # NoLimit => coupon.used <= coupon.limit
          /\ \A o \in Orders : checkout[o].pc = "claiming" => checkout[o].row.limit = coupon.limit

(* ConsumeCoupon's promise, for any number of concurrent checkouts: the     *)
(* uses that orders hold never exceed usage_limit, and used_count counts    *)
(* them, until an admin rewrites or deletes the row.                        *)
THEOREM UsageLimit == Spec => [](UsageLimitRespected /\ CheckoutsCountRight)
<1>1. ASSUME Init PROVE LimitInv
  <2>1. coupon \in Coupons /\ coupon.used = 0 /\ (coupon.limit # NoLimit => 0 <= coupon.limit)
    BY <1>1, LimitsAssumption DEF Init, Coupons
  <2>2. Cardinality(usages) = 0
    BY <1>1, FS_EmptySet DEF Init
  <2>3. \A o \in Orders : checkout[o].pc = "start"
    BY <1>1 DEF Init
  <2> QED
    BY <1>1, <2>1, <2>2, <2>3 DEF Init, LimitInv, UsagesArePlaced
<1>2. ASSUME TypeOK, LimitInv, [Next]_vars PROVE LimitInv'
  <2>1. ASSUME NEW o \in Orders, ValidateCouponCode(o) PROVE LimitInv'
    BY <1>2, <2>1 DEF ValidateCouponCode, Leave, LimitInv, Untouched, UsagesArePlaced, TypeOK
  <2>2. ASSUME NEW o \in Orders, ReadInTransaction(o) PROVE LimitInv'
    BY <1>2, <2>2 DEF ReadInTransaction, LimitInv, Untouched, UsagesArePlaced, TypeOK
  <2>3. ASSUME NEW o \in Orders, ConsumeCoupon(o) PROVE LimitInv'
    <3>1. /\ coupon' = [coupon EXCEPT !.used = @ + 1]
          /\ checkout[o].pc = "claiming"
          /\ checkout[o].row.limit # NoLimit => coupon.used < checkout[o].row.limit
          /\ UNCHANGED <<editor, deleter>>
      BY <2>3 DEF ConsumeCoupon, Claimable
    <3>2. o \notin usages
      BY <1>2, <3>1 DEF LimitInv, UsagesArePlaced
    <3>3. Cardinality(usages') = Cardinality(usages) + 1 /\ Cardinality(usages) \in Nat
      BY <1>2, <2>3, <3>2, NewUsage DEF ConsumeCoupon, TypeOK
    <3>4. UsagesArePlaced'
      BY <1>2, <2>3 DEF ConsumeCoupon, Leave, LimitInv, UsagesArePlaced, TypeOK
    <3>5. ASSUME Untouched'
          PROVE  /\ coupon' \in Coupons
                 /\ coupon'.used = Cardinality(usages')
                 /\ coupon'.limit # NoLimit => coupon'.used <= coupon'.limit
                 /\ \A x \in Orders : checkout'[x].pc = "claiming"
                                         => checkout'[x].row.limit = coupon'.limit
      <4>1. /\ coupon \in Coupons /\ coupon.used = Cardinality(usages)
            /\ \A x \in Orders : checkout[x].pc = "claiming" => checkout[x].row.limit = coupon.limit
        BY <1>2, <3>1, <3>5 DEF LimitInv, Untouched
      <4>2. coupon' \in Coupons /\ coupon'.used = coupon.used + 1 /\ coupon'.limit = coupon.limit
        BY <3>1, <4>1, ClaimedRow DEF Coupons
      <4>3. coupon'.limit # NoLimit => coupon'.used <= coupon'.limit
        BY <3>1, <4>1, <4>2, LimitsAssumption DEF Coupons
      <4>4. \A x \in Orders : checkout'[x].pc = "claiming" => checkout'[x].row.limit = coupon'.limit
        BY <1>2, <2>3, <4>1, <4>2 DEF ConsumeCoupon, Leave, TypeOK
      <4> QED
        BY <3>3, <4>1, <4>2, <4>3, <4>4
    <3> QED
      BY <3>4, <3>5 DEF LimitInv
  <2>4. ASSUME NEW o \in Orders, Refuse(o) PROVE LimitInv'
    BY <1>2, <2>4 DEF Refuse, Leave, LimitInv, Untouched, UsagesArePlaced, TypeOK
  <2>5. ASSUME NEW e \in Editors, EditRead(e) PROVE LimitInv'
    <3>1. editor[e].pc = "idle" /\ editor' = [editor EXCEPT ![e] = [pc |-> "read", row |-> coupon]]
          /\ UNCHANGED <<coupon, usages, checkout, deleter>>
      BY <2>5 DEF EditRead
    <3>2. Untouched' => Untouched
      BY <1>2, <3>1 DEF Untouched, TypeOK
    <3> QED
      BY <1>2, <3>1, <3>2 DEF LimitInv, UsagesArePlaced
  <2>6. ASSUME NEW e \in Editors, EditSave(e) PROVE LimitInv'
    <3>1. editor'[e].pc = "saved" /\ UNCHANGED <<usages, checkout>>
      BY <1>2, <2>6 DEF EditSave, TypeOK
    <3> QED
      BY <1>2, <3>1 DEF LimitInv, Untouched, UsagesArePlaced
  <2>7. ASSUME NEW d \in Deleters, \/ DeleteUsages(d) \/ NullifyOrders(d)
                                   \/ DeleteRow(d) \/ DeleteFails(d)
        PROVE  LimitInv'
    <3>1. deleter'[d] # "idle" /\ usages' \subseteq usages /\ UNCHANGED checkout
      BY <1>2, <2>7 DEF DeleteUsages, NullifyOrders, DeleteRow, DeleteFails, TypeOK
    <3> QED
      BY <1>2, <3>1 DEF LimitInv, Untouched, UsagesArePlaced
  <2>8. CASE UNCHANGED vars
    BY <1>2, <2>8 DEF vars, LimitInv, Untouched, UsagesArePlaced
  <2> QED
    BY <1>2, <2>1, <2>2, <2>3, <2>4, <2>5, <2>6, <2>7, <2>8 DEF Next
<1>3. LimitInv => UsageLimitRespected /\ CheckoutsCountRight
  BY DEF LimitInv, UsageLimitRespected, CheckoutsCountRight, UsedCountIsUsageCount
<1> QED
  BY <1>1, <1>2, <1>3, Typing, PTL DEF Spec

-----------------------------------------------------------------------------
(* Until a delete begins, neither the row nor any copy an edit will save    *)
(* counts more uses than orders hold: usage rows only appear, and a copy is *)
(* as old as its read.                                                      *)
OvercountInv ==
    /\ UsagesArePlaced
    /\ (\A d \in Deleters : deleter[d] = "idle") =>
          /\ coupon \in Coupons
          /\ coupon.used <= Cardinality(usages)
          /\ \A e \in Editors : editor[e].pc = "read" => editor[e].row.used <= Cardinality(usages)

(* Whatever admins save, used_count never counts a use no order holds.      *)
THEOREM NeverOvercounts == Spec => []UsedCountNeverOvercounts
<1>1. ASSUME Init PROVE OvercountInv
  <2>1. coupon \in Coupons /\ coupon.used = 0
    BY <1>1 DEF Init, Coupons
  <2>2. Cardinality(usages) = 0 /\ usages = {}
    BY <1>1, FS_EmptySet DEF Init
  <2>3. \A e \in Editors : editor[e].pc = "idle"
    BY <1>1 DEF Init
  <2> QED
    BY <2>1, <2>2, <2>3 DEF OvercountInv, UsagesArePlaced
<1>2. ASSUME TypeOK, EditorHoldsRow, OvercountInv, [Next]_vars PROVE OvercountInv'
  <2>1. ASSUME NEW o \in Orders, ValidateCouponCode(o) PROVE OvercountInv'
    BY <1>2, <2>1 DEF ValidateCouponCode, Leave, OvercountInv, UsagesArePlaced, TypeOK
  <2>2. ASSUME NEW o \in Orders, ReadInTransaction(o) PROVE OvercountInv'
    BY <1>2, <2>2 DEF ReadInTransaction, OvercountInv, UsagesArePlaced, TypeOK
  <2>3. ASSUME NEW o \in Orders, ConsumeCoupon(o) PROVE OvercountInv'
    <3>1. /\ checkout[o].pc = "claiming"
          /\ coupon' = [coupon EXCEPT !.used = @ + 1]
          /\ UNCHANGED <<editor, deleter>>
      BY <2>3 DEF ConsumeCoupon
    <3>2. o \notin usages
      BY <1>2, <3>1 DEF OvercountInv, UsagesArePlaced
    <3>3. Cardinality(usages') = Cardinality(usages) + 1 /\ Cardinality(usages) \in Nat
      BY <1>2, <2>3, <3>2, NewUsage DEF ConsumeCoupon, TypeOK
    <3>4. UsagesArePlaced'
      BY <1>2, <2>3 DEF ConsumeCoupon, Leave, OvercountInv, UsagesArePlaced, TypeOK
    <3>5. ASSUME \A d \in Deleters : deleter'[d] = "idle"
          PROVE  /\ coupon' \in Coupons
                 /\ coupon'.used <= Cardinality(usages')
                 /\ \A e \in Editors : editor'[e].pc = "read"
                                         => editor'[e].row.used <= Cardinality(usages')
      <4>1. coupon \in Coupons /\ coupon.used <= Cardinality(usages)
        BY <1>2, <3>1, <3>5 DEF OvercountInv
      <4>2. coupon' \in Coupons /\ coupon'.used = coupon.used + 1 /\ coupon.used \in Nat
        BY <3>1, <4>1, ClaimedRow DEF Coupons
      <4>3. ASSUME NEW e \in Editors, editor'[e].pc = "read"
            PROVE  editor'[e].row.used <= Cardinality(usages')
        <5>1. editor[e].row.used <= Cardinality(usages)
          BY <1>2, <3>1, <3>5, <4>3 DEF OvercountInv
        <5>2. editor[e].row.used \in Nat
          BY <1>2, <3>1, <4>3 DEF EditorHoldsRow, Coupons
        <5> QED
          BY <3>1, <3>3, <5>1, <5>2
      <4> QED
        BY <3>3, <4>1, <4>2, <4>3
    <3> QED
      BY <3>4, <3>5 DEF OvercountInv
  <2>4. ASSUME NEW o \in Orders, Refuse(o) PROVE OvercountInv'
    BY <1>2, <2>4 DEF Refuse, Leave, OvercountInv, UsagesArePlaced, TypeOK
  <2>5. ASSUME NEW e \in Editors, EditRead(e) PROVE OvercountInv'
    BY <1>2, <2>5 DEF EditRead, OvercountInv, UsagesArePlaced, TypeOK
  <2>6. ASSUME NEW e \in Editors, EditSave(e) PROVE OvercountInv'
    <3>1. PICK limit \in Limits, userLimit \in UserLimits, active \in BOOLEAN :
             coupon' = [editor[e].row EXCEPT !.limit = limit, !.userLimit = userLimit,
                                             !.active = active]
      BY <2>6 DEF EditSave
    <3>2. editor[e].pc = "read" /\ editor[e].row \in Coupons
      BY <1>2, <2>6 DEF EditSave, EditorHoldsRow
    <3>3. coupon' \in Coupons /\ coupon'.used = editor[e].row.used
      BY <3>1, <3>2, EditedRow DEF Coupons
    <3>4. /\ editor' = [editor EXCEPT ![e] = [pc |-> "saved", row |-> NoCoupon]]
          /\ UNCHANGED <<usages, couponRef, checkout, deleter>>
      BY <2>6 DEF EditSave
    <3> QED
      BY <1>2, <3>2, <3>3, <3>4 DEF OvercountInv, UsagesArePlaced, TypeOK
  <2>7. ASSUME NEW d \in Deleters, DeleteUsages(d) PROVE OvercountInv'
    BY <1>2, <2>7 DEF DeleteUsages, OvercountInv, UsagesArePlaced, TypeOK
  <2>8. ASSUME NEW d \in Deleters, NullifyOrders(d) PROVE OvercountInv'
    BY <1>2, <2>8 DEF NullifyOrders, OvercountInv, UsagesArePlaced, TypeOK
  <2>9. ASSUME NEW d \in Deleters, DeleteRow(d) PROVE OvercountInv'
    BY <1>2, <2>9 DEF DeleteRow, OvercountInv, UsagesArePlaced, TypeOK
  <2>10. ASSUME NEW d \in Deleters, DeleteFails(d) PROVE OvercountInv'
    BY <1>2, <2>10 DEF DeleteFails, OvercountInv, UsagesArePlaced, TypeOK
  <2>11. CASE UNCHANGED vars
    BY <1>2, <2>11 DEF vars, OvercountInv, UsagesArePlaced
  <2> QED
    BY <1>2, <2>1, <2>2, <2>3, <2>4, <2>5, <2>6, <2>7, <2>8, <2>9, <2>10, <2>11 DEF Next
<1>3. OvercountInv => UsedCountNeverOvercounts
  BY DEF OvercountInv, UsedCountNeverOvercounts
<1> QED
  BY <1>1, <1>2, <1>3, Typing, PTL DEF Spec

-----------------------------------------------------------------------------
(* CreateOrder commits the order's coupon_id and its usage row together, and*)
(* only DeleteCoupon takes either away.                                     *)
THEOREM ReferencesPaid == Spec => []ReferenceHasUsage
<1>1. Init => ReferenceHasUsage
  BY DEF Init, ReferenceHasUsage
<1>2. ASSUME TypeOK, ReferenceHasUsage, [Next]_vars PROVE ReferenceHasUsage'
  <2> USE <1>2 DEF ReferenceHasUsage
  <2>1. ASSUME NEW o \in Orders, ValidateCouponCode(o) \/ ReadInTransaction(o) \/ Refuse(o)
        PROVE  ReferenceHasUsage'
    BY <2>1 DEF ValidateCouponCode, ReadInTransaction, Refuse
  <2>2. ASSUME NEW o \in Orders, ConsumeCoupon(o) PROVE ReferenceHasUsage'
    BY <2>2 DEF ConsumeCoupon
  <2>3. ASSUME NEW e \in Editors, EditRead(e) \/ EditSave(e) PROVE ReferenceHasUsage'
    BY <2>3 DEF EditRead, EditSave
  <2>4. ASSUME NEW d \in Deleters, \/ DeleteUsages(d) \/ NullifyOrders(d)
                                   \/ DeleteRow(d) \/ DeleteFails(d)
        PROVE  ReferenceHasUsage'
    <3>1. deleter'[d] # "idle"
      BY <2>4 DEF DeleteUsages, NullifyOrders, DeleteRow, DeleteFails, TypeOK
    <3> QED BY <3>1
  <2>5. CASE UNCHANGED vars
    BY <2>5 DEF vars
  <2> QED BY <2>1, <2>2, <2>3, <2>4, <2>5 DEF Next
<1> QED BY <1>1, <1>2, Typing, PTL DEF Spec
=============================================================================
