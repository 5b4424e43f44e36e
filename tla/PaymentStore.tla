---------------------------- MODULE PaymentStore ----------------------------
(***************************************************************************)
(* What the payment handlers share: the rows of orders, order_items,       *)
(* payment_transactions, refunds and products, and PayPal's own record of  *)
(* its orders, captures and refunds.  The two database transactions that   *)
(* several handlers run are defined here: finalizePaidOrder                *)
(* (controllers/paypal_payment.go) and applyPayPalRefundResult             *)
(* (controllers/refund.go).  Both read what they decide on under the       *)
(* order's row lock and keep it up to the commit, so each is one step.     *)
(*                                                                         *)
(* Data abstractions.  One product stands for the products of all orders;  *)
(* an order has one item of Qty[o] units.  Money is a number of cents.     *)
(* refunded_amount is a sum over refund rows whose amounts never change,   *)
(* so the order keeps the set of the rows summed (counted).                *)
(* payment_method is "paypal" exactly when payment_id is set: the two      *)
(* statements that write one write the other.  A PayPal order has at most  *)
(* one capture, named by the PayPal order.  Foreign keys are not created   *)
(* (config/database.go, DisableForeignKeyConstraintWhenMigrating).         *)
(***************************************************************************)
EXTENDS Integers, FiniteSets

CONSTANTS
    Orders,        \* order ids
    PayPalIds,     \* ids PayPal gives to its orders
    RefundIds,     \* ids of the refunds rows
    Total,         \* total_amount of an order, in cents
    Qty,           \* units an order takes from stock
    InitialStock,  \* stock_quantity at the start
    NoId,          \* an empty payment_id
    Unplaced,      \* the order is not in the table yet
    Deleted,       \* the order was deleted
    NoRefund       \* the refund row is not in the table yet

ASSUME AmountsAssumption == /\ Total \in [Orders -> Nat \ {0}]
                            /\ Qty \in [Orders -> Nat \ {0}]
                            /\ InitialStock \in Nat

VARIABLES
    order,       \* the orders table
    items,       \* the orders whose order_items row exists
    stock,       \* stock_quantity of the product
    recorded,    \* per order: the captures with a payment_transactions row
    latest,      \* per order: the capture of its newest such row
    refunds,     \* the refunds table
    paypal,      \* PayPal: its orders
    settled,     \* PayPal: the state of each refund it was asked for
    finalized,   \* history: how often an order was finalized, saturating at 2
    restocked    \* history: how often its goods were put back, saturating at 2

historyVars == <<finalized, restocked>>
storeVars == <<order, items, stock, recorded, latest, refunds, paypal, settled, historyVars>>

Statuses == {"pending", "confirmed", "processing", "shipped", "delivered", "cancelled"}
RefundStates == {"refund_pending", "partially_refunded", "refunded"}
PaymentStatuses == {"pending", "paid", "failed"} \cup RefundStates

OrderRows == [status : Statuses, payment : PaymentStatuses, paymentId : PayPalIds \cup {NoId},
              counted : SUBSET RefundIds, restored : BOOLEAN]
RefundRows == [order : Orders, capture : PayPalIds, amount : Nat,
               status : {"pending", "completed", "failed", "cancelled"}, known : BOOLEAN]
PayPalOrders == [order : Orders \cup {NoId},
                 state : {"unused", "created", "approved", "pending", "completed", "declined"}]

ASSUME SentinelsAssumption == /\ NoId \notin PayPalIds \cup Orders
                              /\ {Unplaced, Deleted} \cap OrderRows = {}
                              /\ Unplaced # Deleted
                              /\ NoRefund \notin RefundRows

StoreTypeOK ==
    /\ order \in [Orders -> OrderRows \cup {Unplaced, Deleted}]
    /\ items \subseteq Orders
    /\ stock \in Nat
    /\ recorded \in [Orders -> SUBSET PayPalIds]
    /\ latest \in [Orders -> PayPalIds \cup {NoId}]
    /\ refunds \in [RefundIds -> RefundRows \cup {NoRefund}]
    /\ paypal \in [PayPalIds -> PayPalOrders]
    /\ settled \in [RefundIds -> {"unasked", "pending", "completed", "failed", "cancelled"}]
    /\ finalized \in [Orders -> 0..2]
    /\ restocked \in [Orders -> 0..2]

StoreInit ==
    /\ order = [o \in Orders |-> Unplaced]
    /\ items = {}
    /\ stock = InitialStock
    /\ recorded = [o \in Orders |-> {}]
    /\ latest = [o \in Orders |-> NoId]
    /\ refunds = [r \in RefundIds |-> NoRefund]
    /\ paypal = [p \in PayPalIds |-> [order |-> NoId, state |-> "unused"]]
    /\ settled = [r \in RefundIds |-> "unasked"]
    /\ finalized = [o \in Orders |-> 0]
    /\ restocked = [o \in Orders |-> 0]

Again(n) == IF n < 2 THEN n + 1 ELSE 2

Exists(o) == order[o] \notin {Unplaced, Deleted}

-----------------------------------------------------------------------------
(* Sums of refund amounts and of units.  A sum of natural numbers is the    *)
(* number of things counted, each x of S standing for f[x] of them: said so,*)
(* it needs no recursion, and theorems about cardinalities apply to it.     *)

SumOver(f, S) == Cardinality(UNION {{x} \X (1..f[x]) : x \in S})

AmountOf(S) == SumOver([r \in S |-> refunds[r].amount], S)

RefundsOf(o, status) ==
    {r \in RefundIds : refunds[r] # NoRefund /\ refunds[r].order = o /\ refunds[r].status = status}

UnitsOf(S) == SumOver(Qty, S)

Remaining(o) == Total[o] - AmountOf(order[o].counted)

-----------------------------------------------------------------------------
(* Mutant: the order is not looked at again under the lock. *)
finalizeUnconditionally(o, p) ==
    /\ Exists(o)
    /\ order' = [order EXCEPT ![o].payment = "paid", ![o].status = "confirmed",
                              ![o].paymentId = IF @ = NoId THEN p ELSE @]
    /\ stock' = IF o \notin items THEN stock
                ELSE IF stock >= Qty[o] THEN stock - Qty[o] ELSE 0
    /\ recorded' = [recorded EXCEPT ![o] = @ \cup {p}]
    /\ latest' = [latest EXCEPT ![o] = IF p \in recorded[o] THEN @ ELSE p]
    /\ finalized' = [finalized EXCEPT ![o] = Again(@)]
    /\ UNCHANGED <<items, refunds, paypal, settled, restocked>>

(* Mutant: the stock is decremented without GREATEST. *)
finalizeBelowZero(o, p) ==
    /\ Exists(o)
    /\ order[o].payment # "paid"
    /\ order' = [order EXCEPT ![o].payment = "paid", ![o].status = "confirmed",
                              ![o].paymentId = IF @ = NoId THEN p ELSE @]
    /\ stock' = IF o \notin items THEN stock ELSE stock - Qty[o]
    /\ recorded' = [recorded EXCEPT ![o] = @ \cup {p}]
    /\ latest' = [latest EXCEPT ![o] = IF p \in recorded[o] THEN @ ELSE p]
    /\ finalized' = [finalized EXCEPT ![o] = Again(@)]
    /\ UNCHANGED <<items, refunds, paypal, settled, restocked>>

(* finalizePaidOrder for a verified, completed capture p.  The unique key   *)
(* of payment_transactions makes the insert of a recorded capture a no-op;  *)
(* GREATEST(stock - qty, 0) never goes below zero.                          *)
finalizePaidOrder(o, p) ==
    /\ Exists(o)
    /\ IF order[o].payment = "paid"
       THEN UNCHANGED <<order, stock, recorded, latest, finalized>>
       ELSE /\ order' = [order EXCEPT
                  ![o].payment = "paid",
                  ![o].status = "confirmed",
                  ![o].paymentId = IF @ = NoId THEN p ELSE @]
            /\ stock' = IF o \notin items THEN stock
                        ELSE IF stock >= Qty[o] THEN stock - Qty[o] ELSE 0
            /\ recorded' = [recorded EXCEPT ![o] = @ \cup {p}]
            /\ latest' = [latest EXCEPT ![o] = IF p \in recorded[o] THEN @ ELSE p]
            /\ finalized' = [finalized EXCEPT ![o] = Again(@)]
    /\ UNCHANGED <<items, refunds, paypal, settled, restocked>>

-----------------------------------------------------------------------------
(* applyPayPalRefundResult for refund r and the provider's answer. *)

(* Mutant: a refund that fails leaves the order as it was.                  *)
PaymentKeptOnFailure(o, completed, result) ==
    CASE result = "pending" -> "refund_pending"
      [] result = "completed" -> IF AmountOf(completed) >= Total[o] THEN "refunded"
                                 ELSE "partially_refunded"
      [] OTHER -> order[o].payment

PaymentAfter(o, completed, result) ==
    CASE result = "pending" -> "refund_pending"
      [] result = "completed" -> IF AmountOf(completed) >= Total[o] THEN "refunded"
                                 ELSE "partially_refunded"
      [] OTHER -> IF AmountOf(completed) > 0 THEN "partially_refunded" ELSE "paid"

(* Mutants: every completed refund cancels and restocks; none cancels.      *)
applyRestockingEach(r, result) ==
    LET o == refunds[r].order
        completed == IF result = "completed" THEN RefundsOf(o, "completed") \cup {r}
                     ELSE RefundsOf(o, "completed") \ {r}
        payment == PaymentAfter(o, completed, result)
        cancels == result = "completed" /\ order[o].status \notin {"shipped", "delivered"}
    IN  /\ Exists(o)
        /\ refunds' = [refunds EXCEPT ![r].status = result, ![r].known = TRUE]
        /\ order' = [order EXCEPT
              ![o].payment = payment,
              ![o].status = IF cancels THEN "cancelled" ELSE @,
              ![o].counted = IF result = "completed" THEN completed ELSE @,
              ![o].restored = @ \/ cancels]
        /\ stock' = IF cancels /\ o \in items THEN stock + Qty[o] ELSE stock
        /\ restocked' = IF cancels THEN [restocked EXCEPT ![o] = Again(@)] ELSE restocked
        /\ UNCHANGED <<items, recorded, latest, paypal, settled, finalized>>

applyWithoutCancelling(r, result) ==
    LET o == refunds[r].order
        completed == IF result = "completed" THEN RefundsOf(o, "completed") \cup {r}
                     ELSE RefundsOf(o, "completed") \ {r}
    IN  /\ Exists(o)
        /\ refunds' = [refunds EXCEPT ![r].status = result, ![r].known = TRUE]
        /\ order' = [order EXCEPT
              ![o].payment = PaymentAfter(o, completed, result),
              ![o].counted = IF result = "completed" THEN completed ELSE @]
        /\ UNCHANGED <<items, stock, recorded, latest, paypal, settled, historyVars>>

(* A full refund of goods not yet sent cancels the order; the first such    *)
(* cancellation puts the goods back into stock.                             *)
applyPayPalRefundResult(r, result) ==
    LET o == refunds[r].order
        completed == IF result = "completed" THEN RefundsOf(o, "completed") \cup {r}
                     ELSE RefundsOf(o, "completed") \ {r}
        payment == PaymentAfter(o, completed, result)
        cancels == payment = "refunded" /\ order[o].status \notin {"shipped", "delivered"}
        restores == cancels /\ ~order[o].restored
    IN  /\ Exists(o)
        /\ refunds' = [refunds EXCEPT ![r].status = result, ![r].known = TRUE]
        /\ order' = [order EXCEPT
              ![o].payment = payment,
              ![o].status = IF cancels THEN "cancelled" ELSE @,
              ![o].counted = IF result = "completed" THEN completed ELSE @,
              ![o].restored = @ \/ restores]
        /\ stock' = IF restores /\ o \in items THEN stock + Qty[o] ELSE stock
        /\ restocked' = IF restores THEN [restocked EXCEPT ![o] = Again(@)] ELSE restocked
        /\ UNCHANGED <<items, recorded, latest, paypal, settled, finalized>>
=============================================================================
