------------------------ MODULE PayPalCheckout_proofs ------------------------
(***************************************************************************)
(* Proofs about PayPalCheckout: its type invariant, that an order is       *)
(* finalized at most once and only for a capture PayPal completed for it,  *)
(* that checkout implements OrderLedger, and that the stock is what the    *)
(* paid orders left.  The lemmas about SumOver serve the refunds too.      *)
(***************************************************************************)
EXTENDS PayPalCheckout, FiniteSetTheorems, TLAPS

CreateRecords == [pc : {"idle", "read", "store", "done"}, order : Orders \cup {NoId},
                  seen : PayPalIds \cup {NoId}, new : PayPalIds \cup {NoId}]
CaptureRecords == [pc : {"idle", "call", "finalize", "done"},
                   order : Orders \cup {NoId}, id : PayPalIds \cup {NoId}]

-----------------------------------------------------------------------------
(* The inductive invariant. *)

(* A create request under way knows its order; the PayPal order it has made *)
(* but not stored is its own, and nobody can have paid it.                  *)
CreateInv ==
    \A c \in Creates :
        /\ create[c].pc \in {"read", "store"} => create[c].order \in Orders
        /\ create[c].pc = "store" =>
              /\ create[c].new \in PayPalIds
              /\ paypal[create[c].new].state = "created"
              /\ \A d \in Creates : d # c /\ create[d].pc = "store" => create[d].new # create[c].new

(* A PayPal order in use names the order it was made for. *)
OwnedInv == \A p \in PayPalIds : paypal[p].state # "unused" => paypal[p].order \in Orders

CompletedFor(p, o) == paypal[p].state = "completed" /\ paypal[p].order = o

(* A capture request finalizes only what it has seen completed. *)
CaptureInv ==
    \A k \in Captures :
        /\ capture[k].pc \in {"call", "finalize"} =>
              capture[k].order \in Orders /\ capture[k].id \in PayPalIds
        /\ capture[k].pc = "finalize" =>
              CompletedFor(capture[k].id, capture[k].order)

RequestInv == CheckoutTypeOK /\ CreateInv /\ OwnedInv /\ CaptureInv

(* The rows finalizePaidOrder writes belong together.                       *)
RecordedInv ==
    \A o \in Orders : \A p \in recorded[o] : CompletedFor(p, o)
PaidInv ==
    \A o \in Orders :
        IF Exists(o) /\ order[o].payment = "paid"
        THEN finalized[o] = 1 /\ recorded[o] # {}
        ELSE finalized[o] = 0

-----------------------------------------------------------------------------
(* Sums. *)

Units(f, S) == UNION {{x} \X (1..f[x]) : x \in S}

(* The units of one x are as many as f[x].                                 *)
LEMMA UnitsOfOne ==
    ASSUME NEW x, NEW n \in Nat
    PROVE  IsFiniteSet({x} \X (1..n)) /\ Cardinality({x} \X (1..n)) = n
<1> DEFINE f == [c \in 1..n |-> <<x, c>>]
<1>1. f \in Bijection(1..n, {x} \X (1..n))
  BY DEF Bijection, Injection, Surjection, IsInjective
<1>2. ExistsBijection(1..n, {x} \X (1..n))
  BY <1>1 DEF ExistsBijection
<1>3. IsFiniteSet(1..n) /\ Cardinality(1..n) = n
  BY FS_Interval
<1> HIDE DEF f
<1> QED
  BY <1>2, <1>3, FS_Bijection

(* Finitely many x have finitely many units.                               *)
LEMMA UnitsFinite ==
    ASSUME NEW S, IsFiniteSet(S), NEW f, \A x \in S : f[x] \in Nat
    PROVE  IsFiniteSet(Units(f, S))
<1> DEFINE T == {{x} \X (1..f[x]) : x \in S}
           g == [x \in S |-> {x} \X (1..f[x])]
<1>1. g \in Surjection(S, T)
  BY DEF Surjection
<1>2. IsFiniteSet(T)
  <2> HIDE DEF g, T
  <2> QED BY <1>1, FS_Surjection
<1>3. \A t \in T : IsFiniteSet(t)
  <2> SUFFICES ASSUME NEW x \in S PROVE IsFiniteSet({x} \X (1..f[x]))
    OBVIOUS
  <2>1. f[x] \in Nat
    OBVIOUS
  <2> QED BY <2>1, UnitsOfOne
<1>4. IsFiniteSet(UNION T)
  <2> HIDE DEF T
  <2> QED BY <1>2, <1>3, FS_UNION
<1> QED
  BY <1>4 DEF Units

(* A sum is a natural number, and zero over nothing.                       *)
LEMMA SumType ==
    ASSUME NEW S, IsFiniteSet(S), NEW f, \A x \in S : f[x] \in Nat
    PROVE  SumOver(f, S) \in Nat
  BY UnitsFinite, FS_CardinalityType DEF SumOver, Units

LEMMA SumEmpty == \A f : SumOver(f, {}) = 0
  BY FS_EmptySet DEF SumOver

(* One element more adds its term.                                         *)
LEMMA SumAdd ==
    ASSUME NEW S, IsFiniteSet(S), NEW f, \A y \in S : f[y] \in Nat,
           NEW x, x \notin S, f[x] \in Nat
    PROVE  SumOver(f, S \cup {x}) = SumOver(f, S) + f[x]
<1> DEFINE one == {x} \X (1..f[x])
<1>1. IsFiniteSet(one) /\ Cardinality(one) = f[x]
  BY UnitsOfOne
<1>2. IsFiniteSet(Units(f, S))
  BY UnitsFinite
<1>3. Units(f, S \cup {x}) = Units(f, S) \cup one
  BY DEF Units
<1>4. Units(f, S) \cap one = {}
  BY DEF Units
<1>5. Cardinality(Units(f, S)) \in Nat
  BY <1>2, FS_CardinalityType
<1> HIDE DEF one
<1>6. Cardinality(Units(f, S) \cup one) = Cardinality(Units(f, S)) + Cardinality(one) - 0
  BY <1>1, <1>2, <1>4, FS_Union, FS_EmptySet
<1>7. /\ SumOver(f, S) = Cardinality(Units(f, S))
      /\ SumOver(f, S \cup {x}) = Cardinality(Units(f, S) \cup one)
  BY <1>3 DEF SumOver, Units
<1> QED
  BY <1>1, <1>5, <1>6, <1>7

(* Fewer elements have no larger sum.                                      *)
LEMMA SumMonotone ==
    ASSUME NEW S, IsFiniteSet(S), NEW f, \A x \in S : f[x] \in Nat, NEW T \in SUBSET S
    PROVE  SumOver(f, T) <= SumOver(f, S)
<1>1. IsFiniteSet(Units(f, S))
  BY UnitsFinite
<1>2. Units(f, T) \in SUBSET Units(f, S)
  BY DEF Units
<1> QED
  BY <1>1, <1>2, FS_Subset DEF SumOver, Units

(* Only the terms matter.                                                  *)
LEMMA SumSame ==
    ASSUME NEW S, NEW f, NEW g, \A x \in S : f[x] = g[x]
    PROVE  SumOver(f, S) = SumOver(g, S)
  BY DEF SumOver

-----------------------------------------------------------------------------
(* A row that finalizePaidOrder or CreateStore rewrites is a row. *)
LEMMA FinalizedRow ==
    ASSUME NEW row \in OrderRows, NEW p \in PayPalIds
    PROVE  LET new == [row EXCEPT !.payment = "paid", !.status = "confirmed",
                                  !.paymentId = IF @ = NoId THEN p ELSE @]
           IN  new \in OrderRows /\ new.payment = "paid"
  BY DEF OrderRows, Statuses, PaymentStatuses, RefundStates

(* CreateStore leaves the payment state of the row alone.                  *)
LEMMA StoredRow ==
    ASSUME NEW row \in OrderRows, NEW p \in PayPalIds
    PROVE  /\ [row EXCEPT !.paymentId = p] \in OrderRows
           /\ [row EXCEPT !.paymentId = p].payment = row.payment
  BY DEF OrderRows

(* The row that CreateOrder inserts is a row.                              *)
LEMMA PlacedRow ==
    [status |-> "pending", payment |-> "pending", paymentId |-> NoId, counted |-> {},
     restored |-> FALSE] \in OrderRows
  BY DEF OrderRows, Statuses, PaymentStatuses

(* Existing orders are those that have a row. *)
LEMMA ExistsIsRow ==
    ASSUME StoreTypeOK, NEW o \in Orders
    PROVE  Exists(o) <=> order[o] \in OrderRows
  BY SentinelsAssumption DEF StoreTypeOK, Exists

-----------------------------------------------------------------------------
(* What finalizePaidOrder does to the rows it does not leave alone. *)
LEMMA FinalizeStep ==
    ASSUME StoreTypeOK, NEW o \in Orders, NEW p \in PayPalIds, finalizePaidOrder(o, p)
    PROVE  /\ StoreTypeOK'
           /\ order[o] \in OrderRows
           /\ order'[o] \in OrderRows /\ order'[o].payment = "paid"
           /\ \A x \in Orders \ {o} : order'[x] = order[x] /\ recorded'[x] = recorded[x]
                                      /\ finalized'[x] = finalized[x]
           /\ IF order[o].payment = "paid"
              THEN UNCHANGED <<order, stock, recorded, finalized>>
              ELSE recorded'[o] = recorded[o] \cup {p} /\ finalized'[o] = Again(finalized[o])
           /\ UNCHANGED paypal
<1>1. order[o] \in OrderRows
  BY ExistsIsRow DEF finalizePaidOrder
<1>2. UNCHANGED <<items, refunds, paypal, settled, restocked>>
  BY DEF finalizePaidOrder
<1>3. CASE order[o].payment = "paid"
  <2>1. UNCHANGED <<order, stock, recorded, latest, finalized>>
    BY <1>3 DEF finalizePaidOrder
  <2> QED
    BY <1>1, <1>2, <1>3, <2>1 DEF StoreTypeOK
<1>4. CASE order[o].payment # "paid"
  <2> DEFINE new == [order[o] EXCEPT !.payment = "paid", !.status = "confirmed",
                                     !.paymentId = IF @ = NoId THEN p ELSE @]
  <2>1. order' = [order EXCEPT ![o] = new]
    BY <1>4 DEF finalizePaidOrder
  <2>2. new \in OrderRows /\ new.payment = "paid"
    BY <1>1, FinalizedRow
  <2> HIDE DEF new
  <2>3. order' \in [Orders -> OrderRows \cup {Unplaced, Deleted}]
    BY <2>1, <2>2 DEF StoreTypeOK
  <2>4. stock' \in Nat
    <3>1. stock' = IF o \notin items THEN stock
                   ELSE IF stock >= Qty[o] THEN stock - Qty[o] ELSE 0
      BY <1>4 DEF finalizePaidOrder
    <3>2. stock \in Nat /\ Qty[o] \in Nat
      BY AmountsAssumption DEF StoreTypeOK
    <3> QED
      BY <3>1, <3>2
  <2>5. /\ recorded' = [recorded EXCEPT ![o] = recorded[o] \cup {p}]
        /\ finalized' = [finalized EXCEPT ![o] = Again(finalized[o])]
        /\ latest' = [latest EXCEPT ![o] = IF p \in recorded[o] THEN latest[o] ELSE p]
    BY <1>4 DEF finalizePaidOrder
  <2>6. Again(finalized[o]) \in 0..2
    BY DEF Again, StoreTypeOK
  <2>7. recorded' \in [Orders -> SUBSET PayPalIds] /\ latest' \in [Orders -> PayPalIds \cup {NoId}]
    BY <2>5 DEF StoreTypeOK
  <2>8. finalized' \in [Orders -> 0..2]
    BY <2>5, <2>6 DEF StoreTypeOK
  <2>9. StoreTypeOK'
    BY <1>2, <2>3, <2>4, <2>7, <2>8 DEF StoreTypeOK
  <2>10. /\ order'[o] \in OrderRows /\ order'[o].payment = "paid"
         /\ recorded'[o] = recorded[o] \cup {p} /\ finalized'[o] = Again(finalized[o])
    BY <2>1, <2>2, <2>5 DEF StoreTypeOK
  <2>11. \A x \in Orders \ {o} : order'[x] = order[x] /\ recorded'[x] = recorded[x]
                                 /\ finalized'[x] = finalized[x]
    BY <2>1, <2>5 DEF StoreTypeOK
  <2> QED
    BY <1>1, <1>2, <1>4, <2>9, <2>10, <2>11
<1> QED
  BY <1>3, <1>4

-----------------------------------------------------------------------------
(* The request invariant, action by action. *)

(* An empty shop has no request to be unsound.                             *)
LEMMA RequestInvInit == CheckoutInit => RequestInv
<1> SUFFICES ASSUME CheckoutInit PROVE RequestInv
  OBVIOUS
<1> USE DEF CheckoutInit, StoreInit, RequestInit
<1>1. StoreTypeOK
  BY AmountsAssumption DEF StoreTypeOK, PayPalOrders
<1>2. RequestTypeOK
  BY DeliveriesAssumption DEF RequestTypeOK
<1>3. CreateInv /\ OwnedInv /\ CaptureInv
  BY DEF CreateInv, OwnedInv, CaptureInv, CompletedFor
<1> QED
  BY <1>1, <1>2, <1>3 DEF RequestInv, CheckoutTypeOK

(* Looking at the stock only notes that it was enough.                     *)
LEMMA CheckStockKeeps ==
    ASSUME RequestInv, NEW o \in Orders, CheckStock(o)
    PROVE  RequestInv'
<1>1. checked' \subseteq Orders
  BY DEF CheckStock, RequestInv, CheckoutTypeOK, RequestTypeOK
<1>2. UNCHANGED <<storeVars, create, capture, delivered>>
  BY DEF CheckStock
<1> QED
  BY <1>1, <1>2 DEF RequestInv, CheckoutTypeOK, StoreTypeOK, RequestTypeOK, storeVars,
                    historyVars, CreateInv, OwnedInv, CaptureInv, CompletedFor

(* CreateOrder places a row and nothing else.                              *)
LEMMA CreateOrderKeeps ==
    ASSUME RequestInv, NEW o \in Orders, CreateOrder(o)
    PROVE  RequestInv'
<1>1. /\ order' \in [Orders -> OrderRows \cup {Unplaced, Deleted}]
      /\ items' \subseteq Orders
  BY PlacedRow DEF CreateOrder, RequestInv, CheckoutTypeOK, StoreTypeOK
<1>2. UNCHANGED <<stock, recorded, latest, refunds, paypal, settled, historyVars, requestVars>>
  BY DEF CreateOrder
<1> QED
  BY <1>1, <1>2 DEF RequestInv, CheckoutTypeOK, StoreTypeOK, RequestTypeOK, historyVars,
                    requestVars, CreateInv, OwnedInv, CaptureInv, CompletedFor

(* CreateBegin only remembers what it read of an order that exists.        *)
LEMMA CreateBeginKeeps ==
    ASSUME RequestInv, NEW c \in Creates, NEW o \in Orders, CreateBegin(c, o)
    PROVE  RequestInv'
<1>1. order[o] \in OrderRows
  BY ExistsIsRow DEF CreateBegin, RequestInv, CheckoutTypeOK
<1> DEFINE new == [pc |-> "read", order |-> o, seen |-> order[o].paymentId, new |-> NoId]
<1>2. new \in CreateRecords
  BY <1>1 DEF CreateRecords, OrderRows
<1>3. create' = [create EXCEPT ![c] = new] /\ UNCHANGED <<storeVars, checked, capture, delivered>>
  BY DEF CreateBegin
<1>4. new.pc = "read" /\ new.order = o
  OBVIOUS
<1> HIDE DEF new
<1>5. create' \in [Creates -> CreateRecords]
  BY <1>2, <1>3 DEF RequestInv, CheckoutTypeOK, RequestTypeOK, CreateRecords
<1>6. CreateInv'
  BY <1>3, <1>4 DEF RequestInv, CheckoutTypeOK, RequestTypeOK, CreateInv, storeVars
<1> QED
  BY <1>3, <1>5, <1>6 DEF RequestInv, CheckoutTypeOK, StoreTypeOK, RequestTypeOK, CreateRecords,
                    storeVars, historyVars, OwnedInv, CaptureInv, CompletedFor

(* A create request that only changes its phase, to one that owns nothing.  *)
LEMMA CreateDone ==
    ASSUME RequestInv, NEW c \in Creates, create' = [create EXCEPT ![c].pc = "done"]
    PROVE  create' \in [Creates -> CreateRecords]
           /\ create'[c].pc = "done"
           /\ \A d \in Creates \ {c} : create'[d] = create[d]
  BY DEF RequestInv, CheckoutTypeOK, RequestTypeOK, CreateRecords

(* CreateReuse only ends the request.                                      *)
LEMMA CreateReuseKeeps ==
    ASSUME RequestInv, NEW c \in Creates, CreateReuse(c)
    PROVE  RequestInv'
<1>1. create' = [create EXCEPT ![c].pc = "done"] /\ UNCHANGED <<storeVars, checked, capture, delivered>>
  BY DEF CreateReuse
<1>2. CreateInv'
  BY <1>1, CreateDone DEF RequestInv, CreateInv, storeVars
<1> QED
  BY <1>1, <1>2, CreateDone DEF RequestInv, CheckoutTypeOK, StoreTypeOK, RequestTypeOK,
                    CreateRecords, storeVars, historyVars, OwnedInv, CaptureInv, CompletedFor

(* CreateNew takes an unused PayPal order, which no request holds yet.     *)
LEMMA CreateNewKeeps ==
    ASSUME RequestInv, NEW c \in Creates, CreateNew(c)
    PROVE  RequestInv'
<1>1. PICK p \in PayPalIds :
          /\ paypal[p].state = "unused"
          /\ paypal' = [paypal EXCEPT ![p] = [order |-> create[c].order, state |-> "created"]]
          /\ create' = [create EXCEPT ![c].pc = "store", ![c].new = p]
  BY DEF CreateNew
<1>2. create[c].pc = "read" /\ create[c].order \in Orders
      /\ UNCHANGED <<order, items, stock, recorded, latest, refunds, settled, historyVars,
                     checked, capture, delivered>>
  BY DEF CreateNew, RequestInv, CreateInv
<1> DEFINE made == [order |-> create[c].order, state |-> "created"]
<1>3. made \in PayPalOrders /\ made.state = "created" /\ made.order \in Orders
  BY <1>2 DEF PayPalOrders
<1>4. paypal' = [paypal EXCEPT ![p] = made]
  BY <1>1
<1> HIDE DEF made
<1>5. paypal' \in [PayPalIds -> PayPalOrders] /\ paypal'[p] = made
      /\ \A x \in PayPalIds \ {p} : paypal'[x] = paypal[x]
  BY <1>3, <1>4 DEF RequestInv, CheckoutTypeOK, StoreTypeOK
<1>6. /\ create' \in [Creates -> CreateRecords]
      /\ create'[c].pc = "store" /\ create'[c].new = p /\ create'[c].order = create[c].order
      /\ \A d \in Creates \ {c} : create'[d] = create[d]
  BY <1>1 DEF RequestInv, CheckoutTypeOK, RequestTypeOK, CreateRecords
<1>7. CreateInv'
  <2>1. \A d \in Creates \ {c} : create[d].pc = "store" =>
           create[d].new \in PayPalIds \ {p} /\ paypal'[create[d].new].state = "created"
    BY <1>1, <1>5 DEF RequestInv, CreateInv
  <2>2. \A d \in Creates \ {c} : create'[d] = create[d]
    BY <1>6
  <2>3. \A d \in Creates : create'[d].pc \in {"read", "store"} => create'[d].order \in Orders
    BY <1>2, <1>6, <2>2 DEF RequestInv, CreateInv
  <2>4. \A d \in Creates : create'[d].pc = "store" =>
           create'[d].new \in PayPalIds /\ paypal'[create'[d].new].state = "created"
    BY <1>3, <1>5, <1>6, <2>1, <2>2
  <2>5. \A d, e \in Creates : d # e /\ create'[d].pc = "store" /\ create'[e].pc = "store"
                              => create'[e].new # create'[d].new
    <3>1. \A d, e \in Creates : d # e /\ create[d].pc = "store" /\ create[e].pc = "store"
                               => create[e].new # create[d].new
      BY DEF RequestInv, CreateInv
    <3>2. \A d, e \in Creates \ {c} : d # e /\ create'[d].pc = "store" /\ create'[e].pc = "store"
                                     => create'[e].new # create'[d].new
      BY <2>2, <3>1
    <3>3. \A d \in Creates \ {c} : create'[d].pc = "store" => create'[d].new # create'[c].new
      BY <1>6, <2>1, <2>2
    <3> QED
      BY <3>2, <3>3
  <2> QED
    BY <2>3, <2>4, <2>5 DEF CreateInv
<1>8. OwnedInv'
  BY <1>3, <1>5 DEF RequestInv, OwnedInv
<1>9. CaptureInv'
  <2>1. \A k \in Captures : capture[k].pc = "finalize" => capture[k].id # p
    BY <1>1 DEF RequestInv, CaptureInv, CompletedFor
  <2> QED
    BY <1>2, <1>5, <2>1 DEF RequestInv, CaptureInv, CompletedFor
<1> QED
  BY <1>2, <1>5, <1>6, <1>7, <1>8, <1>9 DEF RequestInv, CheckoutTypeOK, StoreTypeOK, RequestTypeOK,
        CreateRecords, historyVars

(* CreateStore writes the id of the PayPal order its request owns.         *)
LEMMA CreateStoreKeeps ==
    ASSUME RequestInv, NEW c \in Creates, CreateStore(c)
    PROVE  RequestInv'
<1> DEFINE o == create[c].order
           p == create[c].new
<1>1. o \in Orders /\ p \in PayPalIds
  BY DEF CreateStore, RequestInv, CreateInv
<1>2. /\ order' = IF Exists(o) THEN [order EXCEPT ![o].paymentId = p] ELSE order
      /\ create' = [create EXCEPT ![c].pc = "done"]
      /\ UNCHANGED <<items, stock, recorded, latest, refunds, paypal, settled, historyVars,
                     checked, capture, delivered>>
  BY DEF CreateStore
<1> HIDE DEF o, p
<1>3. order' \in [Orders -> OrderRows \cup {Unplaced, Deleted}]
  <2>1. CASE Exists(o)
    <3>1. order[o] \in OrderRows
      BY <1>1, <2>1, ExistsIsRow DEF RequestInv, CheckoutTypeOK
    <3>2. [order[o] EXCEPT !.paymentId = p] \in OrderRows
      BY <1>1, <3>1, StoredRow
    <3>3. order' = [order EXCEPT ![o] = [order[o] EXCEPT !.paymentId = p]]
      BY <1>2, <2>1
    <3> QED
      BY <1>1, <3>2, <3>3 DEF RequestInv, CheckoutTypeOK, StoreTypeOK
  <2>2. CASE ~Exists(o)
    BY <1>2, <2>2 DEF RequestInv, CheckoutTypeOK, StoreTypeOK
  <2> QED
    BY <2>1, <2>2
<1>4. CreateInv'
  BY <1>2, CreateDone DEF RequestInv, CreateInv
<1> QED
  BY <1>2, <1>3, <1>4, CreateDone DEF RequestInv, CheckoutTypeOK, StoreTypeOK, RequestTypeOK,
        CreateRecords, historyVars, OwnedInv, CaptureInv, CompletedFor

(* CreateFails gives back a PayPal order that nobody else can name.        *)
LEMMA CreateFailsKeeps ==
    ASSUME RequestInv, NEW c \in Creates, CreateFails(c)
    PROVE  RequestInv'
<1>1. /\ create' = [create EXCEPT ![c].pc = "done"]
      /\ UNCHANGED <<order, items, stock, recorded, latest, refunds, settled, historyVars,
                     checked, capture, delivered>>
  BY DEF CreateFails
<1>2. CASE create[c].pc # "store"
  <2>1. UNCHANGED paypal
    BY <1>2 DEF CreateFails
  <2>2. CreateInv'
    BY <1>1, <2>1, CreateDone DEF RequestInv, CreateInv
  <2> QED
    BY <1>1, <2>1, <2>2, CreateDone DEF RequestInv, CheckoutTypeOK, StoreTypeOK, RequestTypeOK,
          CreateRecords, historyVars, OwnedInv, CaptureInv, CompletedFor
<1>3. CASE create[c].pc = "store"
  <2> DEFINE p == create[c].new
             forgotten == [order |-> NoId, state |-> "unused"]
  <2>1. p \in PayPalIds /\ paypal[p].state = "created"
        /\ \A d \in Creates \ {c} : create[d].pc = "store" => create[d].new # p
    BY <1>3 DEF RequestInv, CreateInv
  <2>2. paypal' = [paypal EXCEPT ![p] = forgotten]
    BY <1>3 DEF CreateFails
  <2>3. forgotten \in PayPalOrders /\ forgotten.state = "unused"
    BY DEF PayPalOrders
  <2> HIDE DEF p, forgotten
  <2>4. paypal' \in [PayPalIds -> PayPalOrders] /\ paypal'[p] = forgotten
        /\ \A x \in PayPalIds \ {p} : paypal'[x] = paypal[x]
    BY <2>1, <2>2, <2>3 DEF RequestInv, CheckoutTypeOK, StoreTypeOK
  <2>5. CreateInv'
    <3>1. \A d \in Creates \ {c} : create'[d] = create[d]
      BY <1>1, CreateDone
    <3>2. create'[c].pc = "done"
      BY <1>1, CreateDone
    <3>3. \A d \in Creates \ {c} : create[d].pc = "store" =>
              create[d].new \in PayPalIds \ {p} /\ paypal'[create[d].new].state = "created"
      BY <2>1, <2>4 DEF RequestInv, CreateInv
    <3>4. \A d \in Creates : create'[d].pc \in {"read", "store"} => create'[d].order \in Orders
      BY <3>1, <3>2 DEF RequestInv, CreateInv
    <3>5. \A d, e \in Creates : d # e /\ create[d].pc = "store" /\ create[e].pc = "store"
                               => create[e].new # create[d].new
      BY DEF RequestInv, CreateInv
    <3> QED
      BY <3>1, <3>2, <3>3, <3>4, <3>5 DEF CreateInv
  <2>6. OwnedInv'
    BY <2>3, <2>4 DEF RequestInv, OwnedInv
  <2>7. CaptureInv'
    <3>1. \A k \in Captures : capture[k].pc = "finalize" => capture[k].id # p
      BY <2>1 DEF RequestInv, CaptureInv, CompletedFor
    <3> QED
      BY <1>1, <2>4, <3>1 DEF RequestInv, CaptureInv, CompletedFor
  <2> QED
    BY <1>1, <2>4, <2>5, <2>6, <2>7, CreateDone DEF RequestInv, CheckoutTypeOK, StoreTypeOK,
          RequestTypeOK, CreateRecords, historyVars
<1> QED
  BY <1>2, <1>3

(* PayPal moves an order on that no create request still holds, and that is *)
(* not completed.                                                           *)
LEMMA PayPalMoves ==
    ASSUME RequestInv, NEW p \in PayPalIds,
           NEW state \in {"created", "approved", "pending", "completed", "declined"},
           paypal[p].state \notin {"unused", "completed"},
           \A c \in Creates : create[c].pc = "store" => create[c].new # p,
           paypal' = [paypal EXCEPT ![p].state = state],
           UNCHANGED <<order, items, stock, recorded, latest, refunds, settled, historyVars,
                       requestVars>>
    PROVE  RequestInv'
<1> DEFINE moved == [paypal[p] EXCEPT !.state = state]
<1>1. paypal[p] \in PayPalOrders
  BY DEF RequestInv, CheckoutTypeOK, StoreTypeOK
<1>2. moved \in PayPalOrders /\ moved.order = paypal[p].order
  BY <1>1 DEF PayPalOrders
<1>3. paypal' = [paypal EXCEPT ![p] = moved]
  OBVIOUS
<1> HIDE DEF moved
<1>4. paypal' \in [PayPalIds -> PayPalOrders] /\ paypal'[p] = moved
      /\ \A x \in PayPalIds \ {p} : paypal'[x] = paypal[x]
  BY <1>2, <1>3 DEF RequestInv, CheckoutTypeOK, StoreTypeOK
<1>5. CreateInv'
  BY <1>4 DEF RequestInv, CreateInv, requestVars
<1>6. OwnedInv'
  BY <1>2, <1>4 DEF RequestInv, OwnedInv
<1>7. CaptureInv'
  <2>1. \A k \in Captures : capture[k].pc = "finalize" => capture[k].id # p
    BY DEF RequestInv, CaptureInv, CompletedFor
  <2>2. capture' = capture
    BY DEF requestVars
  <2> QED
    BY <1>4, <2>1, <2>2 DEF RequestInv, CaptureInv, CompletedFor
<1> QED
  BY <1>4, <1>5, <1>6, <1>7 DEF RequestInv, CheckoutTypeOK, StoreTypeOK, RequestTypeOK,
        requestVars, historyVars

(* Approve moves a PayPal order that no create request holds.              *)
LEMMA ApproveKeeps ==
    ASSUME RequestInv, NEW p \in PayPalIds, Approve(p)
    PROVE  RequestInv'
  BY PayPalMoves DEF Approve

(* ReviewCapture moves a capture that is pending.                          *)
LEMMA ReviewKeeps ==
    ASSUME RequestInv, NEW p \in PayPalIds, ReviewCapture(p)
    PROVE  RequestInv'
<1>1. \A c \in Creates : create[c].pc = "store" => create[c].new # p
  BY DEF ReviewCapture, RequestInv, CreateInv
<1>2. PICK state \in {"completed", "declined"} : paypal' = [paypal EXCEPT ![p].state = state]
  BY DEF ReviewCapture
<1> QED
  BY <1>1, <1>2, PayPalMoves DEF ReviewCapture

(* CaptureBegin only remembers the order and the id it was sent.           *)
LEMMA CaptureBeginKeeps ==
    ASSUME RequestInv, NEW k \in Captures, NEW o \in Orders, NEW p \in PayPalIds,
           CaptureBegin(k, o, p)
    PROVE  RequestInv'
<1> DEFINE new == [pc |-> "call", order |-> o, id |-> p]
<1>1. /\ capture' = [capture EXCEPT ![k] = new]
      /\ UNCHANGED <<storeVars, checked, create, delivered>>
  BY DEF CaptureBegin
<1>2. new \in CaptureRecords /\ new.pc = "call" /\ new.order = o /\ new.id = p
  BY DEF CaptureRecords
<1> HIDE DEF new
<1>3. /\ capture' \in [Captures -> CaptureRecords] /\ capture'[k] = new
      /\ \A j \in Captures \ {k} : capture'[j] = capture[j]
  BY <1>1, <1>2 DEF RequestInv, CheckoutTypeOK, RequestTypeOK, CaptureRecords
<1>4. CaptureInv'
  BY <1>1, <1>2, <1>3 DEF RequestInv, CaptureInv, CompletedFor, storeVars
<1> QED
  BY <1>1, <1>3, <1>4 DEF RequestInv, CheckoutTypeOK, StoreTypeOK, RequestTypeOK,
        CaptureRecords, storeVars, historyVars, CreateInv, OwnedInv

(* A capture request that ends, leaving the store alone. *)
LEMMA CaptureEnds ==
    ASSUME RequestInv, NEW k \in Captures, NEW pc \in {"finalize", "done"},
           pc = "finalize" => CompletedFor(capture[k].id, capture[k].order)
                              /\ capture[k].pc = "call",
           capture' = [capture EXCEPT ![k].pc = pc],
           UNCHANGED <<checked, create, delivered>>,
           UNCHANGED paypal, StoreTypeOK'
    PROVE  RequestInv'
<1>1. /\ capture' \in [Captures -> CaptureRecords]
      /\ capture'[k].pc = pc /\ capture'[k].order = capture[k].order
      /\ capture'[k].id = capture[k].id
      /\ \A j \in Captures \ {k} : capture'[j] = capture[j]
  BY DEF RequestInv, CheckoutTypeOK, RequestTypeOK, CaptureRecords
<1>2. CaptureInv'
  BY <1>1 DEF RequestInv, CaptureInv, CompletedFor
<1> QED
  BY <1>1, <1>2 DEF RequestInv, CheckoutTypeOK, RequestTypeOK, CaptureRecords, CreateInv, OwnedInv

(* CaptureFails only ends the request.                                     *)
LEMMA CaptureFailsKeeps ==
    ASSUME RequestInv, NEW k \in Captures, CaptureFails(k)
    PROVE  RequestInv'
<1>1. StoreTypeOK'
  BY DEF CaptureFails, storeVars, historyVars, RequestInv, CheckoutTypeOK, StoreTypeOK
<1>2. capture' = [capture EXCEPT ![k].pc = "done"] /\ UNCHANGED <<checked, create, delivered, paypal>>
  BY DEF CaptureFails, storeVars
<1> QED
  BY <1>1, <1>2, CaptureEnds

(* CaptureFinalize is finalizePaidOrder at the end of a capture.           *)
LEMMA CaptureFinalizeKeeps ==
    ASSUME RequestInv, NEW k \in Captures, CaptureFinalize(k)
    PROVE  RequestInv'
<1>1. capture[k].order \in Orders /\ capture[k].id \in PayPalIds
  BY DEF CaptureFinalize, RequestInv, CaptureInv
<1>2. StoreTypeOK' /\ UNCHANGED paypal
  BY <1>1, FinalizeStep DEF CaptureFinalize, RequestInv, CheckoutTypeOK
<1>3. capture' = [capture EXCEPT ![k].pc = "done"] /\ UNCHANGED <<checked, create, delivered>>
  BY DEF CaptureFinalize
<1> QED
  BY <1>2, <1>3, CaptureEnds

(* Webhook is finalizePaidOrder for the order PayPal names.                *)
LEMMA WebhookKeeps ==
    ASSUME RequestInv, NEW p \in PayPalIds, Webhook(p)
    PROVE  RequestInv'
<1>1. paypal[p].order \in Orders
  BY DEF Webhook, Verified, RequestInv, OwnedInv
<1>2. StoreTypeOK' /\ UNCHANGED paypal
  BY <1>1, FinalizeStep DEF Webhook, RequestInv, CheckoutTypeOK
<1>3. delivered' \in [PayPalIds -> 0..MaxDeliveries]
  BY DeliveriesAssumption DEF Webhook, RequestInv, CheckoutTypeOK, RequestTypeOK
<1>4. UNCHANGED <<checked, create, capture>>
  BY DEF Webhook
<1> QED
  BY <1>2, <1>3, <1>4 DEF RequestInv, CheckoutTypeOK, RequestTypeOK, CreateInv, OwnedInv,
        CaptureInv, CompletedFor

(* PayPal answers a capture call: approved orders move on, others are as    *)
(* they were.                                                               *)
LEMMA CaptureAnswer ==
    ASSUME RequestInv, NEW p \in PayPalIds, NEW state \in CaptureStates(p),
           paypal' = [paypal EXCEPT ![p].state = state],
           UNCHANGED <<order, items, stock, recorded, latest, refunds, settled, historyVars, checked,
                       create, delivered>>
    PROVE  /\ paypal' \in [PayPalIds -> PayPalOrders]
           /\ paypal'[p].state = state /\ paypal'[p].order = paypal[p].order
           /\ \A x \in PayPalIds \ {p} : paypal'[x] = paypal[x]
           /\ \A o : \A x \in PayPalIds : CompletedFor(x, o) => CompletedFor(x, o)'
           /\ StoreTypeOK' /\ CreateInv' /\ OwnedInv'
<1>1. paypal[p] \in PayPalOrders
  BY DEF RequestInv, CheckoutTypeOK, StoreTypeOK
<1>2. state \in {"unused", "created", "approved", "pending", "completed", "declined"}
      /\ (paypal[p].state # "approved" => state = paypal[p].state)
  BY <1>1 DEF CaptureStates, PayPalOrders
<1> DEFINE moved == [paypal[p] EXCEPT !.state = state]
<1>3. moved \in PayPalOrders /\ moved.order = paypal[p].order /\ moved.state = state
  BY <1>1, <1>2 DEF PayPalOrders
<1>4. paypal' = [paypal EXCEPT ![p] = moved]
  OBVIOUS
<1> HIDE DEF moved
<1>5. /\ paypal' \in [PayPalIds -> PayPalOrders] /\ paypal'[p] = moved
      /\ \A x \in PayPalIds \ {p} : paypal'[x] = paypal[x]
  BY <1>3, <1>4 DEF RequestInv, CheckoutTypeOK, StoreTypeOK
<1>6. StoreTypeOK'
  BY <1>5 DEF RequestInv, CheckoutTypeOK, StoreTypeOK, historyVars
<1>7. CreateInv'
  BY <1>2, <1>3, <1>5 DEF RequestInv, CreateInv
<1>8. OwnedInv'
  BY <1>2, <1>3, <1>5 DEF RequestInv, OwnedInv
<1>9. \A o : \A x \in PayPalIds : CompletedFor(x, o) => CompletedFor(x, o)'
  BY <1>2, <1>3, <1>5 DEF CompletedFor
<1> QED
  BY <1>3, <1>5, <1>6, <1>7, <1>8, <1>9

(* CaptureCall and CaptureLost. *)
LEMMA CaptureCallKeeps ==
    ASSUME RequestInv, NEW k \in Captures, CaptureCall(k) \/ CaptureLost(k)
    PROVE  RequestInv'
<1> DEFINE p == capture[k].id
<1>1. capture[k].pc = "call" /\ p \in PayPalIds /\ capture[k].order \in Orders
  BY DEF CaptureCall, CaptureLost, RequestInv, CaptureInv
<1>2. PICK state \in CaptureStates(p), pc \in {"finalize", "done"} :
          /\ paypal' = [paypal EXCEPT ![p].state = state]
          /\ capture' = [capture EXCEPT ![k].pc = pc]
          /\ pc = "finalize" => Verified(capture[k].order, p, state)
  BY DEF CaptureCall, CaptureLost
<1>3. UNCHANGED <<order, items, stock, recorded, latest, refunds, settled, historyVars, checked,
                  create, delivered>>
  BY DEF CaptureCall, CaptureLost
<1> HIDE DEF p
<1>4. /\ paypal'[p].state = state /\ paypal'[p].order = paypal[p].order
      /\ \A o : \A x \in PayPalIds : CompletedFor(x, o) => CompletedFor(x, o)'
      /\ StoreTypeOK' /\ CreateInv' /\ OwnedInv'
  BY <1>1, <1>2, <1>3, CaptureAnswer
<1>5. /\ capture' \in [Captures -> CaptureRecords]
      /\ capture'[k].pc = pc /\ capture'[k].order = capture[k].order /\ capture'[k].id = p
      /\ \A j \in Captures \ {k} : capture'[j] = capture[j]
  BY <1>2 DEF p, RequestInv, CheckoutTypeOK, RequestTypeOK, CaptureRecords
<1>6. pc = "finalize" => CompletedFor(p, capture[k].order)'
  <2>1. pc = "finalize" => state = "completed" /\ paypal[p].order = capture[k].order
    BY <1>2 DEF Verified
  <2>2. capture'[k].order = capture[k].order
    BY <1>5
  <2> QED
    BY <1>4, <1>5, <2>1, <2>2 DEF CompletedFor, p
<1>7. CaptureInv'
  <2>1. \A j \in Captures : capture[j].pc = "finalize" =>
            capture[j].id \in PayPalIds /\ CompletedFor(capture[j].id, capture[j].order)
    BY DEF RequestInv, CaptureInv
  <2>2. \A x \in PayPalIds : \A o : CompletedFor(x, o)
            => paypal'[x].state = "completed" /\ paypal'[x].order = o
    BY <1>4 DEF CompletedFor
  <2>3. \A j \in Captures \ {k} : capture'[j].pc = "finalize" =>
            paypal'[capture'[j].id].state = "completed"
            /\ paypal'[capture'[j].id].order = capture'[j].order
    BY <1>5, <2>1, <2>2 DEF CompletedFor
  <2> QED
    BY <1>1, <1>5, <1>6, <2>3 DEF RequestInv, CaptureInv, CompletedFor, p
<1> QED
  BY <1>3, <1>4, <1>5, <1>7 DEF RequestInv, CheckoutTypeOK, RequestTypeOK, CaptureRecords

(* Every step of the checkout keeps the request invariant.                 *)
LEMMA RequestStep == RequestInv /\ [CheckoutNext]_checkoutVars => RequestInv'
<1> SUFFICES ASSUME RequestInv, [CheckoutNext]_checkoutVars PROVE RequestInv'
  OBVIOUS
<1>1. CASE UNCHANGED checkoutVars
  BY <1>1 DEF checkoutVars, requestVars, storeVars, historyVars, RequestInv, CheckoutTypeOK,
        StoreTypeOK, RequestTypeOK, CreateInv, OwnedInv, CaptureInv, CompletedFor
<1>2. CASE \E o \in Orders : CheckStock(o) \/ CreateOrder(o)
  BY <1>2, CheckStockKeeps, CreateOrderKeeps
<1>3. CASE \E c \in Creates : \/ \E o \in Orders : CreateBegin(c, o)
                              \/ CreateReuse(c) \/ CreateNew(c) \/ CreateStore(c) \/ CreateFails(c)
  BY <1>3, CreateBeginKeeps, CreateReuseKeeps, CreateNewKeeps, CreateStoreKeeps, CreateFailsKeeps
<1>4. CASE \E p \in PayPalIds : Approve(p) \/ ReviewCapture(p) \/ Webhook(p)
  BY <1>4, ApproveKeeps, ReviewKeeps, WebhookKeeps
<1>5. CASE \E k \in Captures : \/ \E o \in Orders, p \in PayPalIds : CaptureBegin(k, o, p)
                               \/ CaptureCall(k) \/ CaptureLost(k)
                               \/ CaptureFinalize(k) \/ CaptureFails(k)
  BY <1>5, CaptureBeginKeeps, CaptureCallKeeps, CaptureFinalizeKeeps, CaptureFailsKeeps
<1> QED
  BY <1>1, <1>2, <1>3, <1>4, <1>5 DEF CheckoutNext

(* CreateOrder, CreatePayPalOrder, CapturePayPalOrder and the webhook keep  *)
(* the rows and the requests well-typed, and each request sound.            *)
THEOREM CheckoutTyping == CheckoutSpec => []RequestInv
  BY RequestInvInit, RequestStep, PTL DEF CheckoutSpec

-----------------------------------------------------------------------------
(* Money. *)

(* No step takes a completed capture away from its order.                   *)
LEMMA CompletedKept ==
    ASSUME RequestInv, [CheckoutNext]_checkoutVars, NEW p \in PayPalIds, NEW o \in Orders,
           CompletedFor(p, o)
    PROVE  CompletedFor(p, o)'
<1>1. CASE UNCHANGED paypal
  BY <1>1 DEF CompletedFor
<1>2. ASSUME NEW c \in Creates, CreateNew(c) PROVE CompletedFor(p, o)'
  <2>1. PICK x \in PayPalIds :
            /\ paypal[x].state = "unused"
            /\ paypal' = [paypal EXCEPT ![x] = [order |-> create[c].order, state |-> "created"]]
    BY <1>2 DEF CreateNew
  <2>2. x # p
    BY <2>1 DEF CompletedFor
  <2> QED
    BY <2>1, <2>2 DEF CompletedFor, RequestInv, CheckoutTypeOK, StoreTypeOK
<1>3. ASSUME NEW c \in Creates, CreateFails(c) PROVE CompletedFor(p, o)'
  <2>1. CASE create[c].pc # "store"
    BY <1>3, <2>1 DEF CreateFails, CompletedFor
  <2>2. CASE create[c].pc = "store"
    <3>1. create[c].new # p
      BY <2>2 DEF RequestInv, CreateInv, CompletedFor
    <3>2. paypal' = [paypal EXCEPT ![create[c].new] = [order |-> NoId, state |-> "unused"]]
      BY <1>3, <2>2 DEF CreateFails
    <3> QED
      BY <3>1, <3>2 DEF CompletedFor, RequestInv, CheckoutTypeOK, StoreTypeOK
  <2> QED
    BY <2>1, <2>2
<1>4. ASSUME NEW x \in PayPalIds, Approve(x) \/ ReviewCapture(x) PROVE CompletedFor(p, o)'
  <2>1. x # p
    BY <1>4 DEF Approve, ReviewCapture, CompletedFor
  <2>2. PICK state : paypal' = [paypal EXCEPT ![x].state = state]
    BY <1>4 DEF Approve, ReviewCapture
  <2> QED
    BY <2>1, <2>2 DEF CompletedFor, RequestInv, CheckoutTypeOK, StoreTypeOK
<1>5. ASSUME NEW k \in Captures, CaptureCall(k) \/ CaptureLost(k) PROVE CompletedFor(p, o)'
  <2>1. capture[k].id \in PayPalIds
    BY <1>5 DEF CaptureCall, CaptureLost, RequestInv, CaptureInv
  <2>2. PICK state \in CaptureStates(capture[k].id) :
            paypal' = [paypal EXCEPT ![capture[k].id].state = state]
    BY <1>5 DEF CaptureCall, CaptureLost
  <2>3. UNCHANGED <<order, items, stock, recorded, latest, refunds, settled, historyVars, checked,
                    create, delivered>>
    BY <1>5 DEF CaptureCall, CaptureLost
  <2> QED
    BY <2>1, <2>2, <2>3, CaptureAnswer
<1>6. ASSUME NEW x \in Orders, CheckStock(x) \/ CreateOrder(x) PROVE UNCHANGED paypal
  BY <1>6 DEF CheckStock, CreateOrder, storeVars
<1>7. ASSUME NEW c \in Creates, NEW x \in Orders, CreateBegin(c, x) PROVE UNCHANGED paypal
  BY <1>7 DEF CreateBegin, storeVars
<1>8. ASSUME NEW c \in Creates, CreateReuse(c) \/ CreateStore(c) PROVE UNCHANGED paypal
  BY <1>8 DEF CreateReuse, CreateStore, storeVars
<1>9. ASSUME NEW x \in PayPalIds, Webhook(x) PROVE UNCHANGED paypal
  BY <1>9 DEF Webhook, finalizePaidOrder
<1>10. ASSUME NEW k \in Captures, NEW x \in Orders, NEW y \in PayPalIds, CaptureBegin(k, x, y)
       PROVE UNCHANGED paypal
  BY <1>10 DEF CaptureBegin, storeVars
<1>11. ASSUME NEW k \in Captures, CaptureFinalize(k) \/ CaptureFails(k) PROVE UNCHANGED paypal
  BY <1>11 DEF CaptureFinalize, CaptureFails, finalizePaidOrder, storeVars
<1>12. CASE UNCHANGED checkoutVars
  BY <1>12 DEF checkoutVars, storeVars, CompletedFor
<1> QED
  BY <1>1, <1>2, <1>3, <1>4, <1>5, <1>6, <1>7, <1>8, <1>9, <1>10, <1>11, <1>12 DEF CheckoutNext

(* Every step leaves orders, payment rows and stock alone, places an order, *)
(* rewrites a payment_id, or finalizes an order for a completed capture.    *)
Finalizes == \E o \in Orders, p \in PayPalIds : CompletedFor(p, o) /\ finalizePaidOrder(o, p)
Restores == \E c \in Creates : CreateStore(c)
Places == \E o \in Orders : CreateOrder(o)
Idles == UNCHANGED <<order, items, stock, recorded, finalized>>

(* What a step may do to the money: finalize, store an id, place, or nothing. *)
LEMMA FourWays ==
    ASSUME RequestInv, [CheckoutNext]_checkoutVars
    PROVE  Finalizes \/ Restores \/ Places \/ Idles
<1>1. ASSUME NEW p \in PayPalIds, Webhook(p) PROVE Finalizes
  <2>1. paypal[p].order \in Orders /\ CompletedFor(p, paypal[p].order)
    BY <1>1 DEF Webhook, Verified, CompletedFor, RequestInv, OwnedInv
  <2> QED
    BY <1>1, <2>1 DEF Webhook, Finalizes
<1>2. ASSUME NEW k \in Captures, CaptureFinalize(k) PROVE Finalizes
  <2>1. /\ capture[k].order \in Orders /\ capture[k].id \in PayPalIds
        /\ CompletedFor(capture[k].id, capture[k].order)
    BY <1>2 DEF CaptureFinalize, RequestInv, CaptureInv
  <2> QED
    BY <1>2, <2>1 DEF CaptureFinalize, Finalizes
<1>3. ASSUME NEW c \in Creates, \/ \E o \in Orders : CreateBegin(c, o)
                                \/ CreateReuse(c) \/ CreateNew(c) \/ CreateFails(c)
      PROVE Idles
  BY <1>3 DEF CreateBegin, CreateReuse, CreateNew, CreateFails, storeVars, historyVars, Idles
<1>4. ASSUME NEW p \in PayPalIds, Approve(p) \/ ReviewCapture(p) PROVE Idles
  BY <1>4 DEF Approve, ReviewCapture, historyVars, Idles
<1>5. ASSUME NEW k \in Captures, \/ \E o \in Orders, p \in PayPalIds : CaptureBegin(k, o, p)
                                 \/ CaptureCall(k) \/ CaptureLost(k) \/ CaptureFails(k)
      PROVE Idles
  BY <1>5 DEF CaptureBegin, CaptureCall, CaptureLost, CaptureFails, storeVars, historyVars, Idles
<1>6. CASE UNCHANGED checkoutVars
  BY <1>6 DEF checkoutVars, storeVars, historyVars, Idles
<1>7. ASSUME NEW o \in Orders, CheckStock(o) PROVE Idles
  BY <1>7 DEF CheckStock, storeVars, historyVars, Idles
<1> QED
  BY <1>1, <1>2, <1>3, <1>4, <1>5, <1>6, <1>7 DEF CheckoutNext, Restores, Places

(* Only CheckStock notes an order that the stock covers.                   *)
LEMMA OnlyCheckStockCovers ==
    ASSUME [CheckoutNext]_checkoutVars, \A o \in Orders : ~CheckStock(o)
    PROVE  UNCHANGED checked
<1>1. CASE UNCHANGED checkoutVars
  BY <1>1 DEF checkoutVars, requestVars
<1>2. ASSUME NEW o \in Orders, CreateOrder(o) PROVE UNCHANGED checked
  BY <1>2 DEF CreateOrder, requestVars
<1>3. ASSUME NEW c \in Creates, \/ \E o \in Orders : CreateBegin(c, o)
                                \/ CreateReuse(c) \/ CreateNew(c) \/ CreateStore(c)
                                \/ CreateFails(c)
      PROVE UNCHANGED checked
  BY <1>3 DEF CreateBegin, CreateReuse, CreateNew, CreateStore, CreateFails
<1>4. ASSUME NEW p \in PayPalIds, Approve(p) \/ ReviewCapture(p) \/ Webhook(p)
      PROVE UNCHANGED checked
  BY <1>4 DEF Approve, ReviewCapture, Webhook, requestVars
<1>5. ASSUME NEW k \in Captures, \/ \E o \in Orders, p \in PayPalIds : CaptureBegin(k, o, p)
                                 \/ CaptureCall(k) \/ CaptureLost(k)
                                 \/ CaptureFinalize(k) \/ CaptureFails(k)
      PROVE UNCHANGED checked
  BY <1>5 DEF CaptureBegin, CaptureCall, CaptureLost, CaptureFinalize, CaptureFails
<1> QED
  BY <1>1, <1>2, <1>3, <1>4, <1>5 DEF CheckoutNext

-----------------------------------------------------------------------------
(* What the four kinds of step do to the orders that count as placed and as *)
(* paid.                                                                    *)
PlacedOrders == {o \in Orders : Exists(o)}
PaidOrders == {o \in Orders : Exists(o) /\ order[o].payment = "paid"}

(* Storing an id moves no order between the ledger's sets.                 *)
LEMMA RestoreStep ==
    ASSUME RequestInv, Restores
    PROVE  /\ \A o \in Orders : /\ Exists(o)' <=> Exists(o)
                                /\ Exists(o) => order'[o].payment = order[o].payment
           /\ UNCHANGED <<items, stock, recorded, finalized>>
<1>1. PICK c \in Creates : CreateStore(c)
  BY DEF Restores
<1> DEFINE x == create[c].order
           p == create[c].new
<1>2. x \in Orders /\ p \in PayPalIds
  BY <1>1 DEF CreateStore, RequestInv, CreateInv
<1>3. /\ order' = IF Exists(x) THEN [order EXCEPT ![x].paymentId = p] ELSE order
      /\ UNCHANGED <<items, stock, recorded, finalized>>
  BY <1>1 DEF CreateStore, historyVars
<1> HIDE DEF x, p
<1>4. CASE ~Exists(x)
  BY <1>3, <1>4 DEF Exists
<1>5. CASE Exists(x)
  <2>1. order[x] \in OrderRows
    BY <1>2, <1>5, ExistsIsRow DEF RequestInv, CheckoutTypeOK
  <2>2. /\ [order[x] EXCEPT !.paymentId = p] \in OrderRows
        /\ [order[x] EXCEPT !.paymentId = p].payment = order[x].payment
    BY <1>2, <2>1, StoredRow
  <2>3. order' = [order EXCEPT ![x] = [order[x] EXCEPT !.paymentId = p]]
    BY <1>3, <1>5
  <2>4. \A o \in Orders \ {x} : order'[o] = order[o]
    BY <2>3 DEF RequestInv, CheckoutTypeOK, StoreTypeOK
  <2>5. order'[x] \in OrderRows /\ order'[x].payment = order[x].payment
    BY <1>2, <2>2, <2>3 DEF RequestInv, CheckoutTypeOK, StoreTypeOK
  <2>6. order'[x] \notin {Unplaced, Deleted}
    BY <2>5, SentinelsAssumption
  <2> QED
    BY <1>3, <1>5, <2>4, <2>5, <2>6 DEF Exists
<1> QED
  BY <1>4, <1>5

(* Placing an order adds one pending row, if the stock was once enough.    *)
LEMMA PlaceStep ==
    ASSUME RequestInv, NEW o \in Orders, CreateOrder(o)
    PROVE  /\ ~Exists(o) /\ Exists(o)' /\ order'[o].payment = "pending" /\ o \in checked
           /\ \A x \in Orders \ {o} : order'[x] = order[x]
           /\ items' = items \cup {o}
           /\ UNCHANGED <<stock, recorded, finalized>>
<1> DEFINE new == [status |-> "pending", payment |-> "pending", paymentId |-> NoId,
                   counted |-> {}, restored |-> FALSE]
<1>1. order[o] = Unplaced /\ order' = [order EXCEPT ![o] = new] /\ o \in checked
      /\ items' = items \cup {o} /\ UNCHANGED <<stock, recorded, finalized>>
  BY DEF CreateOrder, historyVars
<1>2. new \in OrderRows /\ new.payment = "pending"
  BY PlacedRow
<1> HIDE DEF new
<1>3. order'[o] = new /\ \A x \in Orders \ {o} : order'[x] = order[x]
  BY <1>1 DEF RequestInv, CheckoutTypeOK, StoreTypeOK
<1>4. new \notin {Unplaced, Deleted}
  BY <1>2, SentinelsAssumption
<1> QED
  BY <1>1, <1>2, <1>3, <1>4 DEF Exists

MoneyInv == RecordedInv /\ PaidInv

(* Every step keeps the money invariant.                                   *)
LEMMA MoneyStep ==
    ASSUME RequestInv, MoneyInv, [CheckoutNext]_checkoutVars
    PROVE  MoneyInv'
<1>1. \A o \in Orders, p \in PayPalIds : CompletedFor(p, o)
          => paypal'[p].state = "completed" /\ paypal'[p].order = o
  BY CompletedKept DEF CompletedFor
<1>2. \A o \in Orders : recorded[o] \subseteq PayPalIds
  BY DEF RequestInv, CheckoutTypeOK, StoreTypeOK
<1>3. ASSUME UNCHANGED recorded PROVE RecordedInv'
  BY <1>1, <1>2, <1>3 DEF MoneyInv, RecordedInv, CompletedFor
<1>4. CASE Idles
  <2>1. PaidInv'
    BY <1>4 DEF Idles, MoneyInv, PaidInv, Exists
  <2> QED
    BY <1>3, <1>4, <2>1 DEF Idles, MoneyInv
<1>5. CASE Restores
  <2>1. PaidInv'
    BY <1>5, RestoreStep DEF MoneyInv, PaidInv
  <2> QED
    BY <1>3, <1>5, <2>1, RestoreStep DEF MoneyInv
<1>6. CASE Places
  <2>1. PICK o \in Orders : CreateOrder(o)
    BY <1>6 DEF Places
  <2>2. /\ ~Exists(o) /\ Exists(o)' /\ order'[o].payment = "pending"
        /\ \A x \in Orders \ {o} : order'[x] = order[x]
        /\ UNCHANGED <<recorded, finalized>>
    BY <2>1, PlaceStep
  <2>3. PaidInv'
    BY <2>2 DEF MoneyInv, PaidInv, Exists
  <2> QED
    BY <1>3, <2>2, <2>3 DEF MoneyInv
<1>7. CASE Finalizes
  <2>1. PICK o \in Orders, p \in PayPalIds : CompletedFor(p, o) /\ finalizePaidOrder(o, p)
    BY <1>7 DEF Finalizes
  <2>2. /\ order[o] \in OrderRows
        /\ order'[o] \in OrderRows /\ order'[o].payment = "paid"
        /\ \A x \in Orders \ {o} : order'[x] = order[x] /\ recorded'[x] = recorded[x]
                                   /\ finalized'[x] = finalized[x]
        /\ IF order[o].payment = "paid"
           THEN UNCHANGED <<order, stock, recorded, finalized>>
           ELSE recorded'[o] = recorded[o] \cup {p} /\ finalized'[o] = Again(finalized[o])
    BY <2>1, FinalizeStep DEF RequestInv, CheckoutTypeOK
  <2>3. CASE order[o].payment = "paid"
    <3>1. PaidInv'
      BY <2>2, <2>3 DEF MoneyInv, PaidInv, Exists
    <3> QED
      BY <1>3, <2>2, <2>3, <3>1 DEF MoneyInv
  <2>4. CASE order[o].payment # "paid"
    <3>1. recorded'[o] = recorded[o] \cup {p} /\ finalized'[o] = Again(finalized[o])
      BY <2>2, <2>4
    <3>2. finalized[o] = 0
      BY <2>4 DEF MoneyInv, PaidInv
    <3>3. finalized'[o] = 1 /\ recorded'[o] # {}
      BY <3>1, <3>2 DEF Again
    <3>4. Exists(o)'
      BY <2>2, SentinelsAssumption DEF Exists
    <3>5. \A x \in Orders \ {o} : Exists(x)' <=> Exists(x)
      BY <2>2 DEF Exists
    <3>6. PaidInv'
      BY <2>2, <3>3, <3>4, <3>5 DEF MoneyInv, PaidInv
    <3>7. \A q \in recorded'[o] : CompletedFor(q, o)
      BY <2>1, <3>1 DEF MoneyInv, RecordedInv
    <3>8. recorded'[o] \subseteq PayPalIds
      BY <1>2, <3>1
    <3>9. RecordedInv'
      BY <1>1, <1>2, <2>2, <3>7, <3>8 DEF MoneyInv, RecordedInv, CompletedFor
    <3> QED
      BY <3>6, <3>9 DEF MoneyInv
  <2> QED
    BY <2>3, <2>4
<1> QED
  BY <1>4, <1>5, <1>6, <1>7, FourWays

(* The money invariant is what CheckoutSafety claims, and more.            *)
LEMMA MoneySafe ==
    ASSUME RequestInv, MoneyInv
    PROVE  FinalizedOnce /\ PaidOnlyIfCaptured
<1>1. FinalizedOnce
  <2>1. \A o \in Orders : finalized[o] \in {0, 1}
    BY DEF MoneyInv, PaidInv
  <2> QED
    BY <2>1 DEF FinalizedOnce
<1>2. ASSUME NEW o \in Orders, Exists(o), order[o].payment = "paid"
      PROVE  \E p \in recorded[o] : paypal[p] = [order |-> o, state |-> "completed"]
  <2>1. PICK p \in recorded[o] : TRUE
    BY <1>2 DEF MoneyInv, PaidInv
  <2>2. p \in PayPalIds /\ paypal[p] \in PayPalOrders /\ CompletedFor(p, o)
    BY <2>1 DEF MoneyInv, RecordedInv, RequestInv, CheckoutTypeOK, StoreTypeOK
  <2>3. paypal[p] = [order |-> o, state |-> "completed"]
    BY <2>2 DEF PayPalOrders, CompletedFor
  <2> QED
    BY <2>1, <2>3
<1> QED
  BY <1>1, <1>2 DEF PaidOnlyIfCaptured

(* However many orders, requests and deliveries there are, finalizePaidOrder*)
(* finalizes an order at most once, and a paid order has a recorded capture *)
(* that PayPal completed for it.                                            *)
THEOREM CheckoutSafety == CheckoutSpec => [](FinalizedOnce /\ PaidOnlyIfCaptured)
<1>1. CheckoutInit => MoneyInv
  BY DEF CheckoutInit, StoreInit, MoneyInv, RecordedInv, PaidInv, Exists
<1>2. RequestInv /\ MoneyInv /\ [CheckoutNext]_checkoutVars => MoneyInv'
  BY MoneyStep
<1>3. RequestInv /\ MoneyInv => FinalizedOnce /\ PaidOnlyIfCaptured
  BY MoneySafe
<1> QED
  BY <1>1, <1>2, <1>3, CheckoutTyping, PTL DEF CheckoutSpec

-----------------------------------------------------------------------------
(* Refinement. *)

(* A placed order has its items. *)
ItemsInv == \A o \in Orders : Exists(o) => o \in items

(* Every step leaves the items of placed orders there.                     *)
LEMMA ItemsStep ==
    ASSUME RequestInv, ItemsInv, [CheckoutNext]_checkoutVars
    PROVE  ItemsInv'
<1>1. CASE Idles
  BY <1>1 DEF Idles, ItemsInv, Exists
<1>2. CASE Restores
  BY <1>2, RestoreStep DEF ItemsInv
<1>3. CASE Places
  BY <1>3, PlaceStep DEF Places, ItemsInv, Exists
<1>4. CASE Finalizes
  <2>1. PICK o \in Orders, p \in PayPalIds : finalizePaidOrder(o, p)
    BY <1>4 DEF Finalizes
  <2>2. Exists(o) /\ items' = items /\ \A x \in Orders \ {o} : order'[x] = order[x]
    BY <2>1, FinalizeStep DEF finalizePaidOrder, RequestInv, CheckoutTypeOK
  <2> QED
    BY <2>2 DEF ItemsInv, Exists
<1> QED
  BY <1>1, <1>2, <1>3, <1>4, FourWays

(* An empty shop is an empty ledger.                                       *)
LEMMA LedgerInit == CheckoutInit => Ledger!Init
  BY DEF CheckoutInit, StoreInit, RequestInit, Ledger!Init, Exists

(* Every step is one of the ledger's or leaves its variables alone.        *)
LEMMA LedgerStep ==
    ASSUME RequestInv, ItemsInv, [CheckoutNext]_checkoutVars
    PROVE  Ledger!Next \/ UNCHANGED <<checked, PlacedOrders, PaidOrders, stock>>
<1>1. CASE \E o \in Orders : CheckStock(o)
  <2>1. PICK o \in Orders : CheckStock(o)
    BY <1>1
  <2>2. /\ o \notin checked /\ stock >= Qty[o] /\ checked' = checked \cup {o}
        /\ UNCHANGED <<order, stock>>
    BY <2>1 DEF CheckStock, storeVars
  <2>3. PlacedOrders' = PlacedOrders /\ PaidOrders' = PaidOrders
    BY <2>2 DEF PlacedOrders, PaidOrders, Exists
  <2> QED
    BY <2>2, <2>3 DEF Ledger!Next, Ledger!Cover, PlacedOrders, PaidOrders
<1>2. CASE \A o \in Orders : ~CheckStock(o)
  <2>1. UNCHANGED checked
    BY <1>2, OnlyCheckStockCovers
  <2>2. CASE Idles
    BY <2>1, <2>2 DEF Idles, PlacedOrders, PaidOrders, Exists
  <2>3. CASE Restores
    BY <2>1, <2>3, RestoreStep DEF PlacedOrders, PaidOrders
  <2>4. CASE Places
    <3>1. PICK o \in Orders : CreateOrder(o)
      BY <2>4 DEF Places
    <3>2. /\ ~Exists(o) /\ Exists(o)' /\ order'[o].payment = "pending" /\ o \in checked
          /\ \A x \in Orders \ {o} : order'[x] = order[x]
          /\ UNCHANGED stock
      BY <3>1, PlaceStep
    <3>3. PlacedOrders' = PlacedOrders \cup {o} /\ PaidOrders' = PaidOrders
      BY <3>2 DEF PlacedOrders, PaidOrders, Exists
    <3>4. Ledger!Place(o)
      BY <2>1, <3>2, <3>3 DEF Ledger!Place, PlacedOrders, PaidOrders
    <3> QED
      BY <3>4 DEF Ledger!Next
  <2>5. CASE Finalizes
    <3>1. PICK o \in Orders, p \in PayPalIds : finalizePaidOrder(o, p)
      BY <2>5 DEF Finalizes
    <3>2. /\ order[o] \in OrderRows
          /\ order'[o] \in OrderRows /\ order'[o].payment = "paid"
          /\ \A x \in Orders \ {o} : order'[x] = order[x]
          /\ order[o].payment = "paid" => UNCHANGED <<order, stock>>
      BY <3>1, FinalizeStep DEF RequestInv, CheckoutTypeOK
    <3>3. CASE order[o].payment = "paid"
      BY <2>1, <3>2, <3>3 DEF PlacedOrders, PaidOrders, Exists
    <3>4. CASE order[o].payment # "paid"
      <4>1. Exists(o) /\ Exists(o)'
        BY <3>2, SentinelsAssumption DEF Exists
      <4>2. PlacedOrders' = PlacedOrders /\ PaidOrders' = PaidOrders \cup {o}
            /\ o \in PlacedOrders \ PaidOrders
        BY <3>2, <3>4, <4>1 DEF PlacedOrders, PaidOrders, Exists
      <4>3. stock' = IF stock >= Qty[o] THEN stock - Qty[o] ELSE 0
        BY <3>1, <3>4, <4>1 DEF finalizePaidOrder, ItemsInv
      <4> QED
        BY <2>1, <4>1, <4>2, <4>3 DEF Ledger!Next, Ledger!Pay, PlacedOrders, PaidOrders
    <3> QED
      BY <3>3, <3>4
  <2> QED
    BY <2>1, <2>2, <2>3, <2>4, <2>5, FourWays
<1> QED
  BY <1>1, <1>2

(* Checkout implements OrderLedger: whatever interleaves, CreateOrder places*)
(* only orders that the stock covered when it looked, and each is paid once,*)
(* which takes its units or what is left of them.                           *)
THEOREM CheckoutImplementsLedger == CheckoutSpec => ImplementsLedger
<1>1. CheckoutInit => Ledger!Init /\ ItemsInv
  BY LedgerInit DEF CheckoutInit, StoreInit, ItemsInv, Exists
<1>2. RequestInv /\ ItemsInv /\ [CheckoutNext]_checkoutVars
        => /\ ItemsInv'
           /\ [Ledger!Next]_Ledger!ledgerVars
  BY LedgerStep, ItemsStep DEF PlacedOrders, PaidOrders, Ledger!ledgerVars
<1> QED
  BY <1>1, <1>2, CheckoutTyping, PTL DEF CheckoutSpec, ImplementsLedger, Ledger!Spec
-----------------------------------------------------------------------------
(* The stock. *)

(* What the stock is, while finitely many orders are paid, all with items.  *)
StockInv == IsFiniteSet(PaidFor) /\ ItemsInv /\ StockConserved

(* A sale takes its units from what was left, or empties the shelf.         *)
LEMMA UnitsTaken ==
    ASSUME StoreTypeOK, StockInv, NEW o \in Orders \ PaidFor,
           stock' = IF stock >= Qty[o] THEN stock - Qty[o] ELSE 0,
           PaidFor' = PaidFor \cup {o}
    PROVE  IsFiniteSet(PaidFor') /\ StockConserved'
<1> DEFINE taken == UnitsOf(PaidFor)
<1>1. IsFiniteSet(PaidFor) /\ PaidFor \subseteq Orders
  BY DEF StockInv, PaidFor
<1>2. \A x \in Orders : Qty[x] \in Nat
  BY AmountsAssumption
<1>3. IsFiniteSet(PaidFor')
  BY <1>1, FS_AddElement
<1>4. SumOver(Qty, PaidFor) \in Nat
      /\ SumOver(Qty, PaidFor \cup {o}) = SumOver(Qty, PaidFor) + Qty[o]
  BY <1>1, <1>2, SumType, SumAdd
<1>5. taken \in Nat /\ UnitsOf(PaidFor') = taken + Qty[o]
  BY <1>4 DEF UnitsOf
<1>6. Qty[o] \in Nat /\ InitialStock \in Nat /\ stock \in Nat /\ Qty[o] # 0
  BY AmountsAssumption DEF StoreTypeOK
<1>7. stock = IF taken <= InitialStock THEN InitialStock - taken ELSE 0
  BY DEF StockInv, StockConserved
<1> HIDE DEF taken
<1>8. stock' = IF taken + Qty[o] <= InitialStock THEN InitialStock - (taken + Qty[o]) ELSE 0
  BY <1>5, <1>6, <1>7
<1>9. UnitsOf(PaidFor)' = taken + Qty[o]
  BY <1>5 DEF UnitsOf
<1> QED
  BY <1>3, <1>8, <1>9 DEF StockConserved

(* Steps that finalize nothing and leave the stock alone keep StockInv.     *)
LEMMA StockKept ==
    ASSUME StockInv, UNCHANGED <<stock, finalized>>, ItemsInv'
    PROVE  StockInv'
<1>1. PaidFor' = PaidFor
  BY DEF PaidFor
<1> QED
  BY <1>1 DEF StockInv, StockConserved, UnitsOf

(* Every step keeps StockInv: only a first finalization takes units.        *)
LEMMA StockStep ==
    ASSUME RequestInv, MoneyInv, StockInv, [CheckoutNext]_checkoutVars
    PROVE  StockInv'
<1>1. ItemsInv'
  BY ItemsStep DEF StockInv
<1>2. CASE Idles
  BY <1>1, <1>2, StockKept DEF Idles
<1>3. CASE Restores
  BY <1>1, <1>3, RestoreStep, StockKept
<1>4. CASE Places
  BY <1>1, <1>4, PlaceStep, StockKept DEF Places
<1>5. CASE Finalizes
  <2>1. PICK o \in Orders, p \in PayPalIds : finalizePaidOrder(o, p)
    BY <1>5 DEF Finalizes
  <2>2. StoreTypeOK
    BY DEF RequestInv, CheckoutTypeOK
  <2>3. CASE order[o].payment = "paid"
    <3>1. UNCHANGED <<stock, finalized>>
      BY <2>1, <2>3 DEF finalizePaidOrder
    <3> QED
      BY <3>1, <1>1, StockKept
  <2>4. CASE order[o].payment # "paid"
    <3>1. finalized[o] = 0
      BY <2>4 DEF MoneyInv, PaidInv
    <3>2. finalized'[o] = 1 /\ \A x \in Orders \ {o} : finalized'[x] = finalized[x]
      BY <2>1, <2>2, <2>4, <3>1, FinalizeStep DEF Again
    <3>3. o \notin PaidFor /\ PaidFor' = PaidFor \cup {o}
      BY <3>1, <3>2 DEF PaidFor
    <3>4. stock' = IF stock >= Qty[o] THEN stock - Qty[o] ELSE 0
      BY <2>1, <2>4 DEF finalizePaidOrder, StockInv, ItemsInv
    <3> QED
      BY <2>2, <3>3, <3>4, <1>1, UnitsTaken DEF StockInv
  <2> QED
    BY <2>3, <2>4
<1> QED
  BY <1>2, <1>3, <1>4, <1>5, FourWays

(* However payments race, the stock is what there was less the units of the *)
(* orders finalized, and zero once these exceed what there was: no sale is  *)
(* taken twice, forgotten, or given back.                                   *)
THEOREM StockAccounted == CheckoutSpec => []StockConserved
<1>1. CheckoutInit => StockInv
  <2> SUFFICES ASSUME CheckoutInit PROVE StockInv
    OBVIOUS
  <2>1. PaidFor = {}
    BY DEF CheckoutInit, StoreInit, PaidFor
  <2>2. IsFiniteSet(PaidFor) /\ UnitsOf(PaidFor) = 0
    BY <2>1, FS_EmptySet, SumEmpty DEF UnitsOf
  <2>3. ItemsInv
    BY DEF CheckoutInit, StoreInit, ItemsInv, Exists
  <2>4. StockConserved
    <3>1. stock = InitialStock /\ InitialStock \in Nat
      BY AmountsAssumption DEF CheckoutInit, StoreInit
    <3> QED BY <2>2, <3>1 DEF StockConserved
  <2> QED
    BY <2>2, <2>3, <2>4 DEF StockInv
<1>2. CheckoutInit => MoneyInv
  BY DEF CheckoutInit, StoreInit, MoneyInv, RecordedInv, PaidInv, Exists
<1>3. RequestInv /\ MoneyInv /\ [CheckoutNext]_checkoutVars => MoneyInv'
  BY MoneyStep
<1>4. RequestInv /\ MoneyInv /\ StockInv /\ [CheckoutNext]_checkoutVars => StockInv'
  BY StockStep
<1>5. StockInv => StockConserved
  BY DEF StockInv
<1> QED
  BY <1>1, <1>2, <1>3, <1>4, <1>5, CheckoutTyping, PTL DEF CheckoutSpec
=============================================================================
