----------------------------- MODULE Shop_proofs -----------------------------
(***************************************************************************)
(* Safety of the commerce service for any finite set of requests and any   *)
(* items, prices and coupons: orders are worked on once paid, the use      *)
(* count of the coupon agrees with the orders, every column keeps its      *)
(* type, held stock is backed by active reservations, and the totals of    *)
(* carts and orders are those of their lines.                              *)
(***************************************************************************)
EXTENDS Shop, Sums, Functions, FiniteSetTheorems, WellFoundedInduction, TLAPS

\* An order row, for what is asked of it.
Row(r) == /\ {"status", "paid", "code"} \subseteq DOMAIN r
          /\ r.status \in OrderStatus \cup {"absent"}

\* What a request that is to write a status has read, before and after others.
Reads(at, j, rows) ==
    /\ at = "count" => j.code
    /\ at = "status" =>
           /\ j.row \in Order /\ rows[j.row].status # "absent"
           /\ j.to \in OrderStatus
           /\ j.to \notin {"pending_payment", "paid", "cancelled"} => rows[j.row].paid

Shaped ==
    /\ DOMAIN order = Order /\ \A o \in Order : Row(order[o])
    /\ DOMAIN pc = Requests /\ DOMAIN job = Requests
    /\ \A q \in Requests : Reads(pc[q], job[q], order)
OrderInv == Shaped /\ PaidBeforeFulfilled

LEMMA Statuses ==
    OrderStatus = {"pending_payment", "paid", "processing", "shipped", "ready_for_pickup",
                   "delivered", "completed", "cancelled", "refunded"}
BY DEF OrderStatus, After

LEMMA Transitions ==
    ASSUME NEW s \in OrderStatus, NEW to \in After[s]
    PROVE  /\ to \in OrderStatus \ {"pending_payment"}
           /\ to \notin {"paid", "cancelled"} => s \notin {"pending_payment", "cancelled"}
BY Statuses DEF After

LEMMA InitHolds == Init => OrderInv
<1> SUFFICES ASSUME Init PROVE OrderInv
    OBVIOUS
<1>1. Orders = {} /\ DOMAIN order = Order /\ \A o \in Order : Row(order[o])
    BY DEF Init, Orders, Row
<1>2. /\ DOMAIN pc = Requests /\ DOMAIN job = Requests
      /\ \A q \in Requests : Reads(pc[q], job[q], order)
    BY DEF Init, Reads
<1> QED
    BY <1>1, <1>2 DEF OrderInv, Shaped, PaidBeforeFulfilled

-----------------------------------------------------------------------------
(* Steps that write no order.                                              *)

\* Where requests are that neither make nor change an order.
Elsewhere == Loc \ {"order", "close", "count", "status"}

\* Orders stay, and stay paid.
Grown(rows, next) ==
    \A o \in Order : rows[o].status # "absent" => /\ next[o].status # "absent"
                                                  /\ rows[o].paid => next[o].paid

LEMMA MovesOn ==
    ASSUME OrderInv, NEW p \in Requests, NEW loc, NEW j, Goto(p, loc, j),
           Reads(loc, j, order'), Grown(order, order')
    PROVE  /\ DOMAIN pc' = Requests /\ DOMAIN job' = Requests
           /\ pc'[p] = loc /\ job'[p] = j
           /\ \A q \in Requests : q # p => pc'[q] = pc[q] /\ job'[q] = job[q]
           /\ \A q \in Requests : Reads(pc'[q], job'[q], order')
<1>1. pc' = [pc EXCEPT ![p] = loc] /\ job' = [job EXCEPT ![p] = j]
    BY DEF Goto
<1>2. DOMAIN pc' = Requests /\ DOMAIN job' = Requests /\ pc'[p] = loc /\ job'[p] = j
    BY <1>1 DEF OrderInv, Shaped
<1>3. \A q \in Requests : q # p => pc'[q] = pc[q] /\ job'[q] = job[q]
    BY <1>1 DEF OrderInv, Shaped
<1>4. ASSUME NEW q \in Requests, q # p PROVE Reads(pc'[q], job'[q], order')
    <2>1. Reads(pc[q], job[q], order)
        BY DEF OrderInv, Shaped
    <2> QED
        BY <1>3, <1>4, <2>1 DEF Reads, Grown
<1> QED
    BY <1>2, <1>3, <1>4

LEMMA Moves ==
    ASSUME OrderInv, NEW p \in Requests, NEW loc, NEW j, Goto(p, loc, j),
           Reads(loc, j, order), UNCHANGED order
    PROVE  OrderInv'
<1>1. /\ DOMAIN pc' = Requests /\ DOMAIN job' = Requests
      /\ \A q \in Requests : Reads(pc'[q], job'[q], order')
    BY MovesOn DEF Grown
<1>2. Orders' = Orders
    BY DEF Orders
<1> QED
    BY <1>1, <1>2 DEF OrderInv, Shaped, PaidBeforeFulfilled

LEMMA ElsewhereReads == \A at \in Elsewhere : \A j, rows : Reads(at, j, rows)
BY DEF Elsewhere, Reads

\* No use is counted: the coupon is left alone or edited.
UsesStay ==
    \/ UNCHANGED coupon
    \/ \E t \in Terms, a \in BOOLEAN : coupon' = [coupon EXCEPT !.active = a, !.terms = t]

\* The steps on stock and carts.
GoesElsewhere(p) == \E at \in Elsewhere : \E j : Goto(p, at, j)

LEMMA OtherSteps ==
    ASSUME NEW p \in Requests, Stock(p) \/ Basket(p) \/ Full(p)
    PROVE  /\ UNCHANGED <<mode, order>> /\ pc[p] \notin {"close", "count"}
           /\ GoesElsewhere(p) \/ UNCHANGED <<pc, job>>
           /\ UsesStay
<1> USE DEF UsesStay, GoesElsewhere, Elsewhere, Loc, Done, Recalculate
<1>1. CASE Stock(p)
    <2>1. ASSUME NEW i \in Items, NEW q \in Quantities, ReserveInventory(p, i, q)
          PROVE  UNCHANGED <<mode, order, coupon>> /\ pc[p] \notin {"close", "count"} /\ GoesElsewhere(p)
        BY <2>1 DEF ReserveInventory, Ready
    <2>2. ASSUME NEW i \in Items, NEW d \in {-1, 1}, AdjustStock(p, i, d)
          PROVE  UNCHANGED <<mode, order, coupon>> /\ pc[p] \notin {"close", "count"} /\ GoesElsewhere(p)
        BY <2>2 DEF AdjustStock, Ready
    <2>3. ASSUME NEW i \in Items, NEW v \in Prices, NEW n \in 0 .. MaxStock, UpdateProduct(p, i, v, n)
          PROVE  UNCHANGED <<mode, order, coupon, pc, job>> /\ pc[p] \notin {"close", "count"}
        BY <2>3 DEF UpdateProduct, Ready
    <2>4. ASSUME NEW r \in Reservation, ReleaseReservation(p, r) \/ ConfirmReservation(p, r)
          PROVE  UNCHANGED <<mode, order, coupon>> /\ pc[p] \notin {"close", "count"} /\ GoesElsewhere(p)
        BY <2>4 DEF Ready, ReleaseReservation, ConfirmReservation
    <2>5. CASE CheckStock(p) \/ CreateReservation(p) \/ Hold(p) \/ Unhold(p) \/ MarkReservation(p)
               \/ SetStock(p)
        BY <2>5 DEF CheckStock, CreateReservation, Hold, Unhold, MarkReservation, SetStock
    <2> QED
        BY <1>1, <2>1, <2>2, <2>3, <2>4, <2>5 DEF Stock
<1>2. CASE Basket(p)
    <2>1. ASSUME NEW c \in Cart, NEW i \in Items, NEW q \in Quantities, AddToCart(p, c, i, q)
          PROVE  UNCHANGED <<mode, order, coupon>> /\ pc[p] \notin {"close", "count"} /\ GoesElsewhere(p)
        BY <2>1 DEF AddToCart, Ready
    <2>2. ASSUME NEW c \in Cart, ApplyCoupon(p, c) \/ RemoveCoupon(p, c)
          PROVE  UNCHANGED <<mode, order, coupon>> /\ pc[p] \notin {"close", "count"} /\ GoesElsewhere(p)
        BY <2>2 DEF Ready, ApplyCoupon, RemoveCoupon
    <2>3. ASSUME NEW l \in Line, NEW q \in Quantities \cup {0}, UpdateCartItem(p, l, q)
          PROVE  UNCHANGED <<mode, order, coupon>> /\ pc[p] \notin {"close", "count"} /\ GoesElsewhere(p)
        BY <2>3 DEF UpdateCartItem, Ready
    <2>4. CASE FindCart(p) \/ CreateCart(p) \/ SetCoupon(p) \/ ReadLines(p) \/ ReadCoupon(p)
               \/ WriteTotals(p)
        BY <2>4 DEF Ready, FindCart, CreateCart, SetCoupon, ReadLines, ReadCoupon, WriteTotals
    <2>5. CASE FindLine(p) \/ ChangeLine(p)
        BY <2>5 DEF FindLine, ChangeLine
    <2>6. CASE StoreLine(p)
        BY <2>6 DEF StoreLine
    <2>7. ASSUME NEW t \in Terms, NEW a \in BOOLEAN, EditCoupon(p, t, a)
          PROVE  /\ UNCHANGED <<mode, order, pc, job>> /\ pc[p] \notin {"close", "count"}
                 /\ UsesStay
        BY <2>7 DEF EditCoupon, Ready
    <2> QED
        BY <1>2, <2>1, <2>2, <2>3, <2>4, <2>5, <2>6, <2>7 DEF Basket
<1>3. CASE Full(p)
    BY <1>3 DEF Full
<1> QED
    BY <1>1, <1>2, <1>3

-----------------------------------------------------------------------------
(* Checkout and the status of orders.                                      *)

LEMMA CreateOrderKeeps ==
    ASSUME OrderInv, NEW p \in Requests, CreateOrder(p)
    PROVE  /\ OrderInv'
           /\ \E o \in Order : /\ order[o].status = "absent"
                               /\ order'[o].status # "absent" /\ order'[o].code = job[p].code
                               /\ \A i \in Order : i # o => order'[i] = order[i]
<1>1. PICK o \in Fresh(Orders, Order) :
          order' = [order EXCEPT ![o] =
                      [status |-> "pending_payment", cart |-> job[p].cart, paid |-> FALSE,
                       lines |-> job[p].lines, subtotal |-> job[p].sum,
                       total |-> job[p].total, code |-> job[p].code]]
    BY DEF CreateOrder
<1>2. o \in Order /\ order[o].status = "absent"
    BY DEF Fresh, Orders
<1> DEFINE r == [status |-> "pending_payment", cart |-> job[p].cart, paid |-> FALSE,
                 lines |-> job[p].lines, subtotal |-> job[p].sum,
                 total |-> job[p].total, code |-> job[p].code]
<1>3. Row(r) /\ r.status = "pending_payment" /\ r.code = job[p].code
    BY Statuses DEF Row
<1>4. order' = [order EXCEPT ![o] = r]
    BY <1>1
<1>5. Goto(p, "close", [NoJob EXCEPT !.cart = job[p].cart, !.code = job[p].code])
    BY DEF CreateOrder
<1> HIDE DEF r
<1>6. /\ DOMAIN order' = Order /\ order'[o] = r
      /\ \A i \in Order : i # o => order'[i] = order[i]
    BY <1>2, <1>4 DEF OrderInv, Shaped
<1>7. Grown(order, order')
    BY <1>2, <1>6 DEF Grown
<1>8. Reads("close", [NoJob EXCEPT !.cart = job[p].cart, !.code = job[p].code], order')
    BY DEF Reads
<1>9. /\ DOMAIN pc' = Requests /\ DOMAIN job' = Requests
      /\ \A q \in Requests : Reads(pc'[q], job'[q], order')
    BY <1>5, <1>7, <1>8, MovesOn
<1>10. Shaped'
    BY <1>3, <1>6, <1>9 DEF OrderInv, Shaped
<1>11. PaidBeforeFulfilled'
    BY <1>3, <1>6 DEF OrderInv, PaidBeforeFulfilled, Orders
<1> QED
    BY <1>2, <1>3, <1>6, <1>10, <1>11 DEF OrderInv

LEMMA SetOrderStatusKeeps ==
    ASSUME OrderInv, NEW p \in Requests, SetOrderStatus(p)
    PROVE  /\ OrderInv'
           /\ \A o \in Order : /\ order'[o].status # "absent" <=> order[o].status # "absent"
                               /\ order'[o].code = order[o].code
<1> DEFINE o == job[p].row
           to == job[p].to
           r == [order[o] EXCEPT !.status = to, !.paid = @ \/ to = "paid"]
<1>1. /\ order' = [order EXCEPT ![o].status = to, ![o].paid = @ \/ to = "paid"]
      /\ pc[p] = "status" /\ Goto(p, "idle", NoJob)
    BY DEF SetOrderStatus, Done
<1>2. /\ o \in Order /\ order[o].status # "absent" /\ to \in OrderStatus
      /\ to \notin {"pending_payment", "paid", "cancelled"} => order[o].paid
    BY <1>1 DEF OrderInv, Shaped, Reads
<1>3. DOMAIN order = Order /\ Row(order[o])
    BY <1>2 DEF OrderInv, Shaped
<1>4. /\ Row(r) /\ r.status = to /\ r.code = order[o].code
      /\ r.paid = (order[o].paid \/ to = "paid")
    BY <1>2, <1>3 DEF Row
<1>5. order' = [order EXCEPT ![o] = r]
    BY <1>1, <1>2, <1>3
<1> HIDE DEF r, o, to
<1>6. /\ DOMAIN order' = Order /\ order'[o] = r
      /\ \A i \in Order : i # o => order'[i] = order[i]
    BY <1>2, <1>3, <1>5
<1>7. to # "absent"
    BY <1>2, Statuses
<1>8. Grown(order, order')
    BY <1>2, <1>4, <1>6, <1>7 DEF Grown
<1>9. Reads("idle", NoJob, order')
    BY DEF Reads
<1>10. /\ DOMAIN pc' = Requests /\ DOMAIN job' = Requests
       /\ \A q \in Requests : Reads(pc'[q], job'[q], order')
    BY <1>1, <1>8, <1>9, MovesOn
<1>11. Shaped'
    BY <1>4, <1>6, <1>10 DEF OrderInv, Shaped
<1>12. PaidBeforeFulfilled'
    BY <1>2, <1>4, <1>6 DEF OrderInv, PaidBeforeFulfilled, Orders
<1> QED
    BY <1>2, <1>4, <1>6, <1>7, <1>11, <1>12 DEF OrderInv

LEMMA UpdateOrderStatusKeeps ==
    ASSUME OrderInv, NEW p \in Requests, NEW o \in Order, NEW s \in OrderStatus,
           UpdateOrderStatus(p, o, s)
    PROVE  OrderInv'
<1> DEFINE j == [NoJob EXCEPT !.row = o, !.to = s]
<1>1. j.row = o /\ j.to = s
    BY DEF NoJob
<1>2. Goto(p, "status", j) /\ UNCHANGED order
    BY DEF UpdateOrderStatus
<1> HIDE DEF j
<1>3. o \in Orders /\ s \in After[order[o].status]
    BY DEF UpdateOrderStatus
<1>4. order[o].status \in OrderStatus
    BY <1>3 DEF Orders, OrderInv, Shaped, Row
<1>5. s # "pending_payment"
      /\ (s \notin {"paid", "cancelled"} => order[o].status \notin {"pending_payment", "cancelled"})
    BY <1>3, <1>4, Transitions
<1>6. s \notin {"paid", "cancelled"} => order[o].paid
    BY <1>3, <1>5 DEF OrderInv, PaidBeforeFulfilled
<1>7. Reads("status", j, order)
    BY <1>1, <1>3, <1>6 DEF Reads, Orders
<1> QED
    BY <1>2, <1>7, Moves

LEMMA CheckoutKeeps ==
    ASSUME OrderInv, NEW p \in Requests,
           (\E c \in Cart : Checkout(p, c)) \/ CloseCart(p) \/ CountCoupon(p)
    PROVE  OrderInv'
<1>1. CASE \E c \in Cart : Checkout(p, c)
    <2>1. PICK j : Goto(p, "order", j) /\ UNCHANGED order
        BY <1>1 DEF Checkout
    <2> QED
        BY <2>1, Moves DEF Reads
<1>2. CASE CloseCart(p)
    <2>1. /\ Goto(p, "count", [NoJob EXCEPT !.code = TRUE]) \/ Goto(p, "idle", NoJob)
          /\ UNCHANGED order
        BY <1>2 DEF CloseCart, Done
    <2>2. [NoJob EXCEPT !.code = TRUE].code
        BY DEF NoJob
    <2>3. Reads("count", [NoJob EXCEPT !.code = TRUE], order) /\ Reads("idle", NoJob, order)
        BY <2>2 DEF Reads
    <2> QED
        BY <2>1, <2>3, Moves
<1>3. CASE CountCoupon(p)
    <2>1. Goto(p, "idle", NoJob) /\ UNCHANGED order /\ Reads("idle", NoJob, order)
        BY <1>3 DEF CountCoupon, Done, Reads
    <2> QED
        BY <2>1, Moves
<1> QED
    BY <1>1, <1>2, <1>3

LEMMA OtherKeeps ==
    ASSUME OrderInv, NEW p \in Requests, Stock(p) \/ Basket(p) \/ Full(p)
    PROVE  OrderInv'
<1>1. UNCHANGED order /\ (GoesElsewhere(p) \/ UNCHANGED <<pc, job>>)
    BY OtherSteps
<1>2. CASE GoesElsewhere(p)
    <2>1. PICK at \in Elsewhere : \E j : Goto(p, at, j)
        BY <1>2 DEF GoesElsewhere
    <2>2. PICK j : Goto(p, at, j)
        BY <2>1
    <2>3. Reads(at, j, order)
        BY ElsewhereReads
    <2> QED
        BY <1>1, <2>2, <2>3, Moves
<1>3. CASE UNCHANGED <<pc, job>>
    BY <1>1, <1>3 DEF OrderInv, Shaped, PaidBeforeFulfilled, Orders
<1> QED
    BY <1>1, <1>2, <1>3

LEMMA StepKeeps == OrderInv /\ [Next]_vars => OrderInv'
<1> SUFFICES ASSUME OrderInv, [Next]_vars PROVE OrderInv'
    OBVIOUS
<1>1. ASSUME NEW p \in Requests, Stock(p) \/ Basket(p) \/ Full(p) PROVE OrderInv'
    BY <1>1, OtherKeeps
<1>2. ASSUME NEW p \in Requests, Sale(p) PROVE OrderInv'
    BY <1>2, CheckoutKeeps, CreateOrderKeeps, UpdateOrderStatusKeeps, SetOrderStatusKeeps DEF Sale
<1>3. CASE UNCHANGED vars
    BY <1>3 DEF vars, OrderInv, Shaped, PaidBeforeFulfilled, Orders
<1> QED
    BY <1>1, <1>2, <1>3 DEF Next

\* A status is written on a read before, so staff may move an order from a status
\* it has left; no order is worked on, delivered or refunded that was not paid.
THEOREM PaidFirst == Spec => []PaidBeforeFulfilled
<1>1. OrderInv => PaidBeforeFulfilled
    BY DEF OrderInv
<1> QED
    BY <1>1, InitHolds, StepKeeps, PTL DEF Spec

-----------------------------------------------------------------------------
(* The use count of the coupon.                                            *)

Counting == {q \in Requests : pc[q] \in {"close", "count"} /\ job[q].code}
Spent == {o \in Orders : order[o].code}

CountInv ==
    /\ OrderInv /\ "used" \in DOMAIN coupon /\ coupon.used \in Nat
    /\ coupon.used + Cardinality(Counting) <= Cardinality(Spent)
    /\ mode = "alone" => coupon.used + Cardinality(Counting) = Cardinality(Spent)

LEMMA Finite ==
    /\ IsFiniteSet(Counting) /\ Cardinality(Counting) \in Nat
    /\ IsFiniteSet(Spent) /\ Cardinality(Spent) \in Nat
<1>1. Counting \subseteq Requests /\ Spent \subseteq 1 .. MaxOrders
    BY DEF Counting, Spent, Orders, Order
<1>2. IsFiniteSet(Requests) /\ IsFiniteSet(1 .. MaxOrders)
    BY ShopAssumption, FS_Interval
<1> QED
    BY <1>1, <1>2, FS_Subset, FS_CardinalityType

\* One request moves: it is counted after the step or not, as it was before or not.
LEMMA CountingMoves ==
    ASSUME OrderInv, NEW p \in Requests, NEW loc, NEW j, Goto(p, loc, j)
    PROVE  LET counts == loc \in {"close", "count"} /\ j.code IN
           Counting' = IF counts THEN Counting \cup {p} ELSE Counting \ {p}
<1>1. /\ pc'[p] = loc /\ job'[p] = j
      /\ \A q \in Requests : q # p => pc'[q] = pc[q] /\ job'[q] = job[q]
    BY DEF Goto, OrderInv, Shaped
<1>2. Counting' = {q \in Requests : pc'[q] \in {"close", "count"} /\ job'[q].code}
    BY DEF Counting
<1>3. p \in Counting' <=> loc \in {"close", "count"} /\ j.code
    BY <1>1, <1>2
<1>4. \A q \in Requests : q # p => (q \in Counting' <=> q \in Counting)
    BY <1>1, <1>2 DEF Counting
<1>5. Counting \subseteq Requests /\ Counting' \subseteq Requests
    BY <1>2 DEF Counting
<1> QED
    BY <1>3, <1>4, <1>5

\* A request that neither was nor is counted.
LEMMA NotCounted ==
    ASSUME OrderInv, NEW p \in Requests, NEW loc, NEW j, Goto(p, loc, j),
           pc[p] \notin {"close", "count"}, loc \notin {"close", "count"}
    PROVE  Counting' = Counting
<1>1. Counting' = Counting \ {p}
    BY CountingMoves
<1> QED
    BY <1>1 DEF Counting

LEMMA CountInit == Init => CountInv
<1> SUFFICES ASSUME Init PROVE CountInv
    OBVIOUS
<1>1. Counting = {} /\ Spent = {} /\ coupon.used = 0 /\ "used" \in DOMAIN coupon
    BY DEF Init, Counting, Spent, Orders
<1>2. Cardinality({}) = 0
    BY FS_EmptySet
<1> QED
    BY <1>1, <1>2, InitHolds DEF CountInv

\* A step that changes neither of the two sets.
LEMMA CountSame ==
    ASSUME CountInv, OrderInv', mode' = mode, Counting' = Counting, Spent' = Spent,
           UsesStay
    PROVE  CountInv'
<1>1. "used" \in DOMAIN coupon' /\ coupon'.used = coupon.used
    BY DEF CountInv, UsesStay
<1> QED
    BY <1>1 DEF CountInv

LEMMA CountCreate ==
    ASSUME CountInv, NEW p \in Requests, CreateOrder(p)
    PROVE  CountInv'
<1>1. /\ OrderInv /\ OrderInv' /\ pc[p] = "order" /\ UNCHANGED <<mode, coupon>>
      /\ Goto(p, "close", [NoJob EXCEPT !.cart = job[p].cart, !.code = job[p].code])
    BY CreateOrderKeeps DEF CountInv, CreateOrder
<1>2. PICK o \in Order : /\ order[o].status = "absent"
                         /\ order'[o].status # "absent" /\ order'[o].code = job[p].code
                         /\ \A i \in Order : i # o => order'[i] = order[i]
    BY CreateOrderKeeps DEF CountInv
<1>3. Spent' = IF job[p].code THEN Spent \cup {o} ELSE Spent
    BY <1>2 DEF Spent, Orders
<1>4. o \notin Spent /\ p \notin Counting
    BY <1>1, <1>2 DEF Spent, Orders, Counting
<1> DEFINE j == [NoJob EXCEPT !.cart = job[p].cart, !.code = job[p].code]
<1>5. j.code = job[p].code /\ Goto(p, "close", j)
    BY <1>1 DEF NoJob
<1> HIDE DEF j
<1>6. Counting' = IF job[p].code THEN Counting \cup {p} ELSE Counting \ {p}
    BY <1>1, <1>5, CountingMoves
<1>7. CASE job[p].code
    <2>1. Cardinality(Counting') = Cardinality(Counting) + 1
        BY <1>4, <1>6, <1>7, Finite, FS_AddElement
    <2>2. Cardinality(Spent') = Cardinality(Spent) + 1
        BY <1>3, <1>4, <1>7, Finite, FS_AddElement
    <2> QED
        BY <1>1, <2>1, <2>2, Finite DEF CountInv
<1>8. CASE ~ job[p].code
    <2>1. Counting' = Counting /\ Spent' = Spent
        BY <1>3, <1>4, <1>6, <1>8
    <2> QED
        BY <1>1, <2>1, CountSame DEF UsesStay
<1> QED
    BY <1>7, <1>8

LEMMA CountClose ==
    ASSUME CountInv, NEW p \in Requests, CloseCart(p)
    PROVE  CountInv'
<1>1. /\ OrderInv /\ OrderInv' /\ pc[p] = "close" /\ UNCHANGED <<mode, coupon, order>>
    BY CheckoutKeeps DEF CountInv, CloseCart
<1>2. Spent' = Spent
    BY <1>1 DEF Spent, Orders
<1>3. CASE job[p].code
    <2>1. Goto(p, "count", [NoJob EXCEPT !.code = TRUE]) /\ [NoJob EXCEPT !.code = TRUE].code
        BY <1>3 DEF CloseCart, NoJob
    <2>2. Counting' = Counting \cup {p}
        BY <1>1, <2>1, CountingMoves
    <2>3. Counting' = Counting
        BY <1>1, <1>3, <2>2 DEF Counting
    <2> QED
        BY <1>1, <1>2, <2>3, CountSame DEF UsesStay
<1>4. CASE ~ job[p].code
    <2>1. Goto(p, "idle", NoJob)
        BY <1>4 DEF CloseCart, Done
    <2>2. Counting' = Counting \ {p}
        BY <1>1, <2>1, CountingMoves
    <2>3. Counting' = Counting
        BY <1>4, <2>2 DEF Counting
    <2> QED
        BY <1>1, <1>2, <2>3, CountSame DEF UsesStay
<1> QED
    BY <1>3, <1>4

LEMMA CountUse ==
    ASSUME CountInv, NEW p \in Requests, CountCoupon(p)
    PROVE  CountInv'
<1>1. /\ OrderInv /\ OrderInv' /\ pc[p] = "count" /\ UNCHANGED <<mode, order>>
      /\ coupon' = [coupon EXCEPT !.used = @ + 1] /\ Goto(p, "idle", NoJob)
    BY CheckoutKeeps DEF CountInv, CountCoupon, Done
<1>2. Spent' = Spent
    BY <1>1 DEF Spent, Orders
<1>3. p \in Counting
    BY <1>1 DEF OrderInv, Shaped, Reads, Counting
<1>4. Counting' = Counting \ {p}
    BY <1>1, CountingMoves
<1>5. Cardinality(Counting') = Cardinality(Counting) - 1
    BY <1>3, <1>4, Finite, FS_RemoveElement
<1>6. "used" \in DOMAIN coupon' /\ coupon'.used = coupon.used + 1
    BY <1>1 DEF CountInv
<1> QED
    BY <1>1, <1>2, <1>5, <1>6, Finite DEF CountInv

LEMMA CountOther ==
    ASSUME CountInv, NEW p \in Requests,
           \/ Stock(p) \/ Basket(p) \/ Full(p)
           \/ \E c \in Cart : Checkout(p, c)
           \/ \E o \in Order, s \in OrderStatus : UpdateOrderStatus(p, o, s)
    PROVE  CountInv'
<1>1. CASE Stock(p) \/ Basket(p) \/ Full(p)
    <2>1. /\ OrderInv /\ OrderInv' /\ UNCHANGED <<mode, order>> /\ pc[p] \notin {"close", "count"}
          /\ GoesElsewhere(p) \/ UNCHANGED <<pc, job>>
          /\ UsesStay
        BY <1>1, OtherSteps, OtherKeeps DEF CountInv
    <2>2. Spent' = Spent
        BY <2>1 DEF Spent, Orders
    <2>3. CASE GoesElsewhere(p)
        <3>1. PICK at \in Elsewhere : \E j : Goto(p, at, j)
            BY <2>3 DEF GoesElsewhere
        <3>2. PICK j : Goto(p, at, j)
            BY <3>1
        <3>3. at \notin {"close", "count"}
            BY DEF Elsewhere
        <3>4. Counting' = Counting
            BY <2>1, <3>2, <3>3, NotCounted
        <3> QED
            BY <2>1, <2>2, <3>4, CountSame
    <2>4. CASE UNCHANGED <<pc, job>>
        <3>1. Counting' = Counting
            BY <2>4 DEF Counting
        <3> QED
            BY <2>1, <2>2, <3>1, CountSame
    <2> QED
        BY <2>1, <2>3, <2>4
<1>2. CASE \/ \E c \in Cart : Checkout(p, c)
           \/ \E o \in Order, s \in OrderStatus : UpdateOrderStatus(p, o, s)
    <2>1. /\ UNCHANGED <<mode, order, coupon>> /\ pc[p] = "idle"
          /\ \E at \in {"order", "status"} : \E j : Goto(p, at, j)
        BY <1>2 DEF Checkout, UpdateOrderStatus, Ready
    <2>2. OrderInv /\ OrderInv'
        BY <1>2, CheckoutKeeps, UpdateOrderStatusKeeps DEF CountInv
    <2>3. Spent' = Spent
        BY <2>1 DEF Spent, Orders
    <2>4. Counting' = Counting
        BY <2>1, <2>2, NotCounted
    <2> QED
        BY <2>1, <2>2, <2>3, <2>4, CountSame DEF UsesStay
<1> QED
    BY <1>1, <1>2

LEMMA CountStatus ==
    ASSUME CountInv, NEW p \in Requests, SetOrderStatus(p)
    PROVE  CountInv'
<1>1. /\ OrderInv /\ OrderInv' /\ UNCHANGED <<mode, coupon>> /\ pc[p] = "status"
      /\ Goto(p, "idle", NoJob)
    BY SetOrderStatusKeeps DEF CountInv, SetOrderStatus, Done
<1>2. \A o \in Order : /\ order'[o].status # "absent" <=> order[o].status # "absent"
                       /\ order'[o].code = order[o].code
    BY SetOrderStatusKeeps DEF CountInv
<1>3. Spent' = Spent
    BY <1>2 DEF Spent, Orders
<1>4. Counting' = Counting
    BY <1>1, NotCounted
<1> QED
    BY <1>1, <1>3, <1>4, CountSame DEF UsesStay

LEMMA CountStep == CountInv /\ [Next]_vars => CountInv'
<1> SUFFICES ASSUME CountInv, [Next]_vars PROVE CountInv'
    OBVIOUS
<1>1. ASSUME NEW p \in Requests, Stock(p) \/ Basket(p) \/ Full(p) PROVE CountInv'
    BY <1>1, CountOther
<1>2. ASSUME NEW p \in Requests, Sale(p) PROVE CountInv'
    BY <1>2, CountOther, CountCreate, CountClose, CountUse, CountStatus DEF Sale
<1>3. CASE UNCHANGED vars
    <2>1. OrderInv' /\ mode' = mode /\ coupon' = coupon
        BY <1>3, StepKeeps DEF CountInv, vars
    <2>2. Counting' = Counting /\ Spent' = Spent
        BY <1>3 DEF vars, Counting, Spent, Orders
    <2> QED
        BY <2>1, <2>2, CountSame DEF UsesStay
<1> QED
    BY <1>1, <1>2, <1>3 DEF Next

\* A use is counted by a write of its own after the order was made and the cart
\* closed: a checkout that dies loses it, none counts it twice.
THEOREM UsesCounted == Spec => []CouponCounted
<1>1. CountInv => CouponCounted
    BY DEF CountInv, Counting, Spent, CouponCounted
<1> QED
    BY <1>1, CountInit, CountStep, PTL DEF Spec
-----------------------------------------------------------------------------
(* Types                                                                   *)

ItemRow == [price : Nat, stock : Int, reserved : Int]
ResvRow == [status : {"absent", "active", "released", "confirmed"}, item : Items, qty : Nat]
CartRow == [status : {"absent", "open", "closed"}, code : BOOLEAN, subtotal : Nat, total : Nat,
            stale : BOOLEAN]
LineRow == [cart : Cart \cup {0}, here : BOOLEAN, item : Items, qty : Nat, price : Nat,
            total : Nat]
CouponRow == [active : BOOLEAN, used : Nat, terms : Terms]
OrderRow == [status : OrderStatus \cup {"absent"}, cart : Cart \cup {0}, lines : Nat,
             subtotal : Nat, total : Nat, code : BOOLEAN, paid : BOOLEAN]
RowsTyped ==
    /\ item \in [Items -> ItemRow] /\ resv \in [Reservation -> ResvRow]
    /\ cart \in [Cart -> CartRow] /\ line \in [Line -> LineRow]
    /\ coupon \in CouponRow /\ order \in [Order -> OrderRow]

\* A request that is to write a status knows one the column has.
Writes(at, j) ==
    /\ at \in {"unhold", "unheld"} => j.to \in {"released", "confirmed"}
    /\ at = "status" => j.to \in OrderStatus
TypeInv ==
    /\ mode \in DOMAIN Together /\ RowsTyped
    /\ pc \in [Requests -> Loc] /\ job \in [Requests -> Job]
    /\ \A p \in Requests : Writes(pc[p], job[p])

LEMMA NoJobTyped == NoJob \in Job
<1>1. NoJob.item \in Items /\ NoJob.terms \in Terms
    BY ShopAssumption DEF NoJob
<1> QED
    BY <1>1 DEF NoJob, Job

LEMMA JobFields ==
    ASSUME NEW j \in Job
    PROVE  /\ j.cart \in Cart \cup {0} /\ j.item \in Items /\ j.row \in Nat /\ j.qty \in Nat
           /\ j.price \in Nat /\ j.avail \in Int /\ j.code \in BOOLEAN /\ j.sum \in Nat
           /\ j.total \in Nat /\ j.lines \in Nat
           /\ j.to \in OrderStatus \cup {"none", "released", "confirmed"} /\ j.terms \in Terms
    BY DEF Job

\* What a request starts from and reads fits its locals.
LEMMA CartJob ==
    ASSUME NEW c \in Cart \cup {0},
           NEW j, j = [NoJob EXCEPT !.cart = c]
    PROVE  j \in Job /\ j.cart = c
<1>1. PICK none : none = NoJob
    OBVIOUS
<1>2. j = [none EXCEPT !.cart = c] /\ none \in Job
    BY <1>1, NoJobTyped
<1>3. j \in Job
    BY <1>2 DEF Job
<1> QED
    BY <1>2, <1>3 DEF Job

LEMMA StockJob ==
    ASSUME NEW i \in Items, NEW q \in Nat,
           NEW j, j = [NoJob EXCEPT !.item = i, !.qty = q]
    PROVE  j \in Job /\ j.item = i /\ j.qty = q /\ j.cart = 0
<1>1. PICK none : none = NoJob
    OBVIOUS
<1>2. j = [none EXCEPT !.item = i, !.qty = q] /\ none \in Job
    BY <1>1, NoJobTyped
<1>3. j \in Job
    BY <1>2 DEF Job
<1>4. j.cart = 0
    BY DEF NoJob
<1> QED
    BY <1>2, <1>3, <1>4 DEF Job

Holding(n, i, q, s) == [NoJob EXCEPT !.row = n, !.item = i, !.qty = q, !.to = s]
LEMMA RowJob ==
    ASSUME NEW n \in Nat, NEW i \in Items, NEW q \in Nat, NEW s \in OrderStatus \cup {"none",
           "released", "confirmed"},
           NEW j, j = Holding(n, i, q, s)
    PROVE  j \in Job /\ j.row = n /\ j.item = i /\ j.qty = q /\ j.to = s /\ j.cart = 0
<1>1. PICK none : none = NoJob
    OBVIOUS
<1>2. j = [none EXCEPT !.row = n, !.item = i, !.qty = q, !.to = s] /\ none \in Job
    BY <1>1, NoJobTyped DEF Holding
<1>3. j \in Job
    BY <1>2 DEF Job
<1>4. j.cart = 0
    BY DEF NoJob, Holding
<1> QED
    BY <1>2, <1>3, <1>4 DEF Job

Adding(c, i, q, v, a) == [NoJob EXCEPT !.cart = c, !.item = i, !.qty = q, !.price = v, !.avail = a]
LEMMA AddJob ==
    ASSUME NEW c \in Cart \cup {0}, NEW i \in Items, NEW q \in Nat, NEW v \in Nat, NEW a \in Int,
           NEW j, j = Adding(c, i, q, v, a)
    PROVE  j \in Job /\ j.cart = c /\ j.item = i /\ j.qty = q /\ j.price = v /\ j.avail = a
           /\ j.row = 0
<1>1. PICK none : none = NoJob
    OBVIOUS
<1>2. j = [none EXCEPT !.cart = c, !.item = i, !.qty = q, !.price = v, !.avail = a] /\ none \in Job
    BY <1>1, NoJobTyped DEF Adding
<1>3. j \in Job
    BY <1>2 DEF Job
<1>4. j.row = 0
    BY DEF NoJob, Adding
<1> QED
    BY <1>2, <1>3, <1>4 DEF Job

Reserving(c, i, q) == [NoJob EXCEPT !.cart = c, !.item = i, !.qty = q]
LEMMA ReserveJob ==
    ASSUME NEW c \in Cart \cup {0}, NEW i \in Items, NEW q \in Nat,
           NEW j, j = Reserving(c, i, q)
    PROVE  j \in Job /\ j.cart = c /\ j.item = i /\ j.qty = q
<1>1. PICK none : none = NoJob
    OBVIOUS
<1>2. j = [none EXCEPT !.cart = c, !.item = i, !.qty = q] /\ none \in Job
    BY <1>1, NoJobTyped DEF Reserving
<1>3. j \in Job
    BY <1>2 DEF Job
<1> QED
    BY <1>2, <1>3 DEF Job

Changing(c, n, q, v) == [NoJob EXCEPT !.cart = c, !.row = n, !.qty = q, !.price = v]
LEMMA ChangeJob ==
    ASSUME NEW c \in Cart \cup {0}, NEW n \in Nat, NEW q \in Nat, NEW v \in Nat,
           NEW j, j = Changing(c, n, q, v)
    PROVE  j \in Job /\ j.cart = c /\ j.row = n /\ j.qty = q /\ j.price = v
<1>1. PICK none : none = NoJob
    OBVIOUS
<1>2. j = [none EXCEPT !.cart = c, !.row = n, !.qty = q, !.price = v] /\ none \in Job
    BY <1>1, NoJobTyped DEF Changing
<1>3. j \in Job
    BY <1>2 DEF Job
<1> QED
    BY <1>2, <1>3 DEF Job

Buying(c, b, m, t, k) == [NoJob EXCEPT !.cart = c, !.code = b, !.sum = m, !.total = t, !.lines = k]
LEMMA CheckoutJob ==
    ASSUME NEW c \in Cart \cup {0}, NEW b \in BOOLEAN, NEW m \in Nat, NEW t \in Nat, NEW k \in Nat,
           NEW j, j = Buying(c, b, m, t, k)
    PROVE  j \in Job /\ j.cart = c /\ j.code = b /\ j.sum = m /\ j.total = t /\ j.lines = k
<1>1. PICK none : none = NoJob
    OBVIOUS
<1>2. j = [none EXCEPT !.cart = c, !.code = b, !.sum = m, !.total = t, !.lines = k] /\ none \in Job
    BY <1>1, NoJobTyped DEF Buying
<1>3. j \in Job
    BY <1>2 DEF Job
<1>4. j.code = b
    BY <1>2, <1>3, Zenon DEF Job
<1> QED
    BY <1>2, <1>3, <1>4 DEF Job

LEMMA CloseJob ==
    ASSUME NEW c \in Cart \cup {0}, NEW b \in BOOLEAN,
           NEW j, j = [NoJob EXCEPT !.cart = c, !.code = b]
    PROVE  j \in Job /\ j.cart = c /\ j.code = b
<1>1. PICK none : none = NoJob
    OBVIOUS
<1>2. j = [none EXCEPT !.cart = c, !.code = b] /\ none \in Job
    BY <1>1, NoJobTyped
<1>3. j \in Job
    BY <1>2 DEF Job
<1> QED
    BY <1>2, <1>3 DEF Job

LEMMA CountJob ==
    ASSUME NEW b \in BOOLEAN,
           NEW j, j = [NoJob EXCEPT !.code = b]
    PROVE  j \in Job /\ j.code = b
<1>1. PICK none : none = NoJob
    OBVIOUS
<1>2. j = [none EXCEPT !.code = b] /\ none \in Job
    BY <1>1, NoJobTyped
<1>3. j \in Job
    BY <1>2 DEF Job
<1> QED
    BY <1>2, <1>3 DEF Job

Marking(n, s) == [NoJob EXCEPT !.row = n, !.to = s]
LEMMA StatusJob ==
    ASSUME NEW n \in Nat, NEW s \in OrderStatus \cup {"none", "released", "confirmed"},
           NEW j, j = Marking(n, s)
    PROVE  j \in Job /\ j.row = n /\ j.to = s
<1>1. PICK none : none = NoJob
    OBVIOUS
<1>2. j = [none EXCEPT !.row = n, !.to = s] /\ none \in Job
    BY <1>1, NoJobTyped DEF Marking
<1>3. j \in Job
    BY <1>2 DEF Job
<1> QED
    BY <1>2, <1>3 DEF Job

LEMMA LinesTotalType == ASSUME RowsTyped, NEW c PROVE LinesTotal(c) \in Nat
<1>1. IsFiniteSet(Line)
    BY ShopAssumption, FS_Interval DEF Line
<1>2. IsFiniteSet(Lines(c)) /\ Lines(c) \subseteq Line
    BY <1>1, FS_Subset DEF Lines
<1>3. \A l \in Line : line[l].total \in Nat
    BY DEF RowsTyped, LineRow
<1>4. PICK f : f = [l \in Line |-> line[l].total]
    OBVIOUS
<1>5. \A l \in Lines(c) : f[l] \in Nat
    BY <1>2, <1>3, <1>4
<1> QED
    BY <1>2, <1>4, <1>5, SumType DEF LinesTotal

LEMMA DiscountedType == ASSUME NEW s \in Nat, NEW t \in Terms PROVE Discounted(s, t) \in Nat
<1>1. \A n \in Int : Max({0, n}) \in Nat
    <2>1. ASSUME NEW n \in Int PROVE Max({0, n}) \in Nat
        <3>1. \E x \in {0, n} : \A y \in {0, n} : x >= y
            BY <2>1
        <3>2. PICK x : x = Max({0, n})
            OBVIOUS
        <3>3. x \in {0, n} /\ \A y \in {0, n} : x >= y
            BY <3>1, <3>2 DEF Max
        <3> QED
            BY <3>2, <3>3
    <2> QED
        BY <2>1
<1>2. \A m, n \in Nat : Min({m, n}) \in Nat
    <2>1. ASSUME NEW m \in Nat, NEW n \in Nat PROVE Min({m, n}) \in Nat
        <3>1. \E x \in {m, n} : \A y \in {m, n} : x <= y
            BY <2>1
        <3>2. PICK x : x = Min({m, n})
            OBVIOUS
        <3>3. x \in {m, n}
            BY <3>1, <3>2 DEF Min
        <3> QED
            BY <3>2, <3>3
    <2> QED
        BY <2>1
<1>3. t.value \in Nat
    BY ShopAssumption
<1>4. (s * t.value) \div 100 \in Int /\ Min({t.value, s}) \in Nat
    BY <1>2, <1>3
<1> QED
    BY <1>1, <1>4 DEF Discounted

LEMMA TypeMoves ==
    ASSUME TypeInv, NEW p \in Requests, NEW loc \in Loc, NEW j \in Job, Goto(p, loc, j),
           Writes(loc, j), RowsTyped', UNCHANGED mode
    PROVE  TypeInv'
<1>1. pc' = [pc EXCEPT ![p] = loc] /\ job' = [job EXCEPT ![p] = j]
    BY DEF Goto
<1>2. pc' \in [Requests -> Loc] /\ job' \in [Requests -> Job]
    BY <1>1 DEF TypeInv
<1>3. \A q \in Requests : Writes(pc'[q], job'[q])
    BY <1>1 DEF TypeInv
<1> QED
    BY <1>2, <1>3 DEF TypeInv

LEMMA TypeDone ==
    ASSUME TypeInv, NEW p \in Requests, Done(p), RowsTyped', UNCHANGED mode
    PROVE  TypeInv'
<1>1. "idle" \in Loc /\ Writes("idle", NoJob)
    BY DEF Loc, Writes
<1> QED
    BY <1>1, NoJobTyped, TypeMoves DEF Done

LEMMA TypeRecalculate ==
    ASSUME TypeInv, NEW p \in Requests, Recalculate(p), RowsTyped', UNCHANGED mode
    PROVE  TypeInv'
<1>1. job[p].cart \in Cart \cup {0}
    BY JobFields DEF TypeInv
<1>2. PICK j : j = [NoJob EXCEPT !.cart = job[p].cart]
    OBVIOUS
<1>3. j \in Job
    BY <1>1, <1>2, CartJob
<1>4. "lines" \in Loc /\ Writes("lines", j)
    BY DEF Loc, Writes
<1> QED
    BY <1>2, <1>3, <1>4, TypeMoves DEF Recalculate

\* A request begins: it reads, and writes no row.
LEMMA TypeBegins ==
    ASSUME TypeInv, NEW p \in Requests, NEW loc \in Loc, NEW j \in Job, Goto(p, loc, j),
           Writes(loc, j), UNCHANGED <<mode, goods, basket, coupon, order>>
    PROVE  TypeInv'
<1>1. RowsTyped'
    BY DEF TypeInv, RowsTyped, goods, basket
<1> QED
    BY <1>1, TypeMoves

LEMMA TypeAsks ==
    ASSUME TypeInv, NEW p \in Requests,
           \/ \E i \in Items : \/ \E q \in Quantities : ReserveInventory(p, i, q)
                               \/ \E d \in {-1, 1} : AdjustStock(p, i, d)
           \/ \E r \in Reservation : ReleaseReservation(p, r) \/ ConfirmReservation(p, r)
           \/ FindCart(p)
           \/ \E c \in Cart : \/ \E i \in Items, q \in Quantities : AddToCart(p, c, i, q)
                              \/ ApplyCoupon(p, c)
                              \/ Checkout(p, c)
           \/ \E l \in Line, q \in Quantities \cup {0} : UpdateCartItem(p, l, q)
           \/ \E o \in Order, s \in OrderStatus : UpdateOrderStatus(p, o, s)
    PROVE  TypeInv'
<1>0. RowsTyped /\ Quantities \subseteq Nat /\ Reservation \subseteq Nat /\ Order \subseteq Nat
      /\ Line \subseteq Nat
    BY ShopAssumption DEF TypeInv, Reservation, Order, Line
<1>1. ASSUME NEW i \in Items, NEW q \in Quantities, ReserveInventory(p, i, q) PROVE TypeInv'
    <2>1. PICK j : j = [NoJob EXCEPT !.item = i, !.qty = q]
        OBVIOUS
    <2>2. j \in Job
        BY <1>0, <2>1, StockJob
    <2>3. "create" \in Loc /\ Writes("create", j)
        BY DEF Loc, Writes
    <2> QED
        BY <1>1, <2>1, <2>2, <2>3, TypeBegins DEF ReserveInventory
<1>2. ASSUME NEW i \in Items, NEW d \in {-1, 1}, AdjustStock(p, i, d) PROVE TypeInv'
    <2>1. PICK q : q = item[i].stock + d
        OBVIOUS
    <2>2. PICK j : j = [NoJob EXCEPT !.item = i, !.qty = q]
        OBVIOUS
    <2>3. q \in Nat
        <3>1. q \in 0 .. MaxStock
            BY <1>2, <2>1 DEF AdjustStock
        <3> QED
            BY <3>1
    <2>4. j \in Job
        BY <2>2, <2>3, StockJob
    <2>5. "adjust" \in Loc /\ Writes("adjust", j)
        BY DEF Loc, Writes
    <2> QED
        BY <1>2, <2>1, <2>2, <2>4, <2>5, TypeBegins DEF AdjustStock
<1>3. ASSUME NEW r \in Reservation, ReleaseReservation(p, r) \/ ConfirmReservation(p, r)
      PROVE  TypeInv'
    <2>1. PICK s, i, q, j :
             /\ s \in {"released", "confirmed"} /\ i = resv[r].item /\ q = resv[r].qty
             /\ j = Holding(r, i, q, s)
             /\ Goto(p, "unhold", j) /\ UNCHANGED <<mode, goods, basket, coupon, order>>
        BY <1>3 DEF ReleaseReservation, ConfirmReservation, Holding
    <2>2. i \in Items /\ q \in Nat /\ r \in Nat
          /\ s \in OrderStatus \cup {"none", "released", "confirmed"}
        BY <1>0, <2>1 DEF RowsTyped, ResvRow
    <2>3. j \in Job /\ j.to = s
        BY <2>1, <2>2, RowJob
    <2>4. "unhold" \in Loc /\ Writes("unhold", j)
        BY <2>1, <2>3 DEF Loc, Writes
    <2> QED
        BY <2>1, <2>3, <2>4, TypeBegins
<1>4. CASE FindCart(p)
    <2>1. "cart" \in Loc /\ Writes("cart", NoJob)
        BY DEF Loc, Writes
    <2> QED
        BY <1>4, <2>1, NoJobTyped, TypeBegins DEF FindCart
<1>5. ASSUME NEW c \in Cart, NEW i \in Items, NEW q \in Quantities, AddToCart(p, c, i, q)
      PROVE  TypeInv'
    <2>1. PICK v, a, j :
             /\ v = item[i].price /\ a = Available(i)
             /\ j = Adding(c, i, q, v, a)
             /\ Goto(p, "line", j) /\ UNCHANGED <<mode, goods, basket, coupon, order>>
        BY <1>5 DEF AddToCart, Adding
    <2>2. v \in Nat /\ a \in Int /\ q \in Nat
        BY <1>0, <2>1 DEF RowsTyped, ItemRow, Available
    <2>3. j \in Job
        BY <2>1, <2>2, AddJob
    <2>4. "line" \in Loc /\ Writes("line", j)
        BY DEF Loc, Writes
    <2> QED
        BY <2>1, <2>3, <2>4, TypeBegins
<1>6. ASSUME NEW c \in Cart, ApplyCoupon(p, c) PROVE TypeInv'
    <2>1. PICK j : j = [NoJob EXCEPT !.cart = c]
        OBVIOUS
    <2>2. j \in Job
        BY <2>1, CartJob
    <2>3. "apply" \in Loc /\ Writes("apply", j)
        BY DEF Loc, Writes
    <2> QED
        BY <1>6, <2>1, <2>2, <2>3, TypeBegins DEF ApplyCoupon
<1>7. ASSUME NEW c \in Cart, Checkout(p, c) PROVE TypeInv'
    <2>1. PICK b, m, t, k, j :
             /\ b = cart[c].code /\ m = cart[c].subtotal /\ t = cart[c].total /\ k = LinesTotal(c)
             /\ j = Buying(c, b, m, t, k)
             /\ Goto(p, "order", j) /\ UNCHANGED <<mode, goods, basket, coupon, order>>
        BY <1>7 DEF Checkout, Buying
    <2>2. b \in BOOLEAN /\ m \in Nat /\ t \in Nat /\ k \in Nat
        BY <1>0, <2>1, LinesTotalType DEF RowsTyped, CartRow
    <2>3. j \in Job
        BY <2>1, <2>2, CheckoutJob
    <2>4. "order" \in Loc /\ Writes("order", j)
        BY DEF Loc, Writes
    <2> QED
        BY <2>1, <2>3, <2>4, TypeBegins
<1>8. ASSUME NEW l \in Line, NEW q \in Quantities \cup {0}, UpdateCartItem(p, l, q) PROVE TypeInv'
    <2>1. PICK c, v, j :
             /\ c = line[l].cart /\ v = line[l].price
             /\ j = Changing(c, l, q, v)
             /\ Goto(p, "change", j) /\ UNCHANGED <<mode, goods, basket, coupon, order>>
        BY <1>8 DEF UpdateCartItem, Changing
    <2>2. c \in Cart \cup {0} /\ v \in Nat /\ q \in Nat /\ l \in Nat
        BY <1>0, <2>1 DEF RowsTyped, LineRow
    <2>3. j \in Job
        BY <2>1, <2>2, ChangeJob
    <2>4. "change" \in Loc /\ Writes("change", j)
        BY DEF Loc, Writes
    <2> QED
        BY <2>1, <2>3, <2>4, TypeBegins
<1>9. ASSUME NEW o \in Order, NEW s \in OrderStatus, UpdateOrderStatus(p, o, s) PROVE TypeInv'
    <2>1. PICK j : j = Marking(o, s)
        OBVIOUS
    <2>2. j \in Job /\ j.to = s
        BY <1>0, <2>1, StatusJob
    <2>3. "status" \in Loc /\ Writes("status", j)
        BY <2>2 DEF Loc, Writes
    <2> QED
        BY <1>9, <2>1, <2>2, <2>3, TypeBegins DEF UpdateOrderStatus, Marking
<1> QED
    BY <1>1, <1>2, <1>3, <1>4, <1>5, <1>6, <1>7, <1>8, <1>9

LEMMA TypeStock ==
    ASSUME TypeInv, NEW p \in Requests,
           \/ CheckStock(p) \/ CreateReservation(p) \/ Hold(p) \/ Unhold(p) \/ MarkReservation(p)
           \/ SetStock(p)
           \/ \E i \in Items, v \in Prices, n \in 0 .. MaxStock : UpdateProduct(p, i, v, n)
    PROVE  TypeInv'
<1>0. RowsTyped /\ job[p] \in Job /\ Writes(pc[p], job[p])
    BY DEF TypeInv
<1>1. PICK j : j = job[p]
    OBVIOUS
<1>2. /\ j \in Job /\ j.item \in Items /\ j.qty \in Nat /\ j.row \in Nat
    BY <1>0, <1>1, JobFields
<1>3. CASE CheckStock(p)
    <2>1. Goto(p, "create", j) \/ Done(p)
        BY <1>1, <1>3 DEF CheckStock
    <2>2. "create" \in Loc /\ Writes("create", j)
        BY DEF Loc, Writes
    <2>3. RowsTyped' /\ UNCHANGED mode
        BY <1>0, <1>3 DEF CheckStock, goods, basket, RowsTyped
    <2> QED
        BY <1>2, <2>1, <2>2, <2>3, TypeMoves, TypeDone
<1>4. CASE CreateReservation(p)
    <2>1. PICK r, new : /\ new = [status |-> "active", item |-> j.item, qty |-> j.qty]
                        /\ r \in Reservation /\ resv' = [resv EXCEPT ![r] = new]
        BY <1>1, <1>4 DEF CreateReservation, Fresh
    <2>2. new \in ResvRow
        BY <1>2, <2>1 DEF ResvRow
    <2>3. resv' \in [Reservation -> ResvRow]
        BY <1>0, <2>1, <2>2 DEF RowsTyped
    <2>4. RowsTyped' /\ UNCHANGED mode /\ Goto(p, "hold", j)
        BY <1>0, <1>1, <1>4, <2>3 DEF CreateReservation, basket, RowsTyped
    <2>5. "hold" \in Loc /\ Writes("hold", j)
        BY DEF Loc, Writes
    <2> QED
        BY <1>2, <2>4, <2>5, TypeMoves
<1>5. ASSUME NEW at \in ItemRow, NEW i \in Items, item' = [item EXCEPT ![i] = at],
             UNCHANGED <<resv, basket, coupon, order>>
      PROVE  RowsTyped'
    BY <1>0, <1>5 DEF RowsTyped, basket
<1>6. CASE Hold(p)
    <2>1. PICK i, n, new : /\ i = j.item /\ n = item[i].reserved + j.qty
                           /\ new = [item[i] EXCEPT !.reserved = n]
        OBVIOUS
    <2>2. item[i] \in ItemRow /\ n \in Int /\ new \in ItemRow
        BY <1>0, <1>2, <2>1 DEF RowsTyped, ItemRow
    <2>3. item' = [item EXCEPT ![i] = new]
        BY <1>0, <1>1, <1>2, <1>6, <2>1 DEF Hold, RowsTyped, ItemRow
    <2>4. RowsTyped' /\ UNCHANGED mode
        BY <1>2, <1>5, <1>6, <2>1, <2>2, <2>3 DEF Hold
    <2> QED
        BY <1>6, <2>4, TypeDone, TypeRecalculate DEF Hold
<1>7. CASE Unhold(p)
    <2>1. PICK i, n, m, mid, new :
             /\ i = j.item /\ n = item[i].reserved - j.qty
             /\ m = IF j.to = "confirmed" THEN item[i].stock - j.qty ELSE item[i].stock
             /\ mid = [item[i] EXCEPT !.reserved = n] /\ new = [mid EXCEPT !.stock = m]
        OBVIOUS
    <2>2. item[i] \in ItemRow /\ n \in Int /\ m \in Int
        BY <1>0, <1>2, <2>1 DEF RowsTyped, ItemRow
    <2>3. new \in ItemRow
        BY <2>1, <2>2 DEF ItemRow
    <2>4. item' = [item EXCEPT ![i] = new]
        <3>1. mid.stock = item[i].stock
            BY <2>1, <2>2 DEF ItemRow
        <3> QED
            BY <1>0, <1>1, <1>2, <1>7, <2>1, <3>1 DEF Unhold, RowsTyped, ItemRow
    <2>5. RowsTyped' /\ UNCHANGED mode /\ Goto(p, "unheld", j)
        BY <1>1, <1>2, <1>5, <1>7, <2>1, <2>3, <2>4 DEF Unhold
    <2>6. "unheld" \in Loc /\ Writes("unheld", j)
        BY <1>0, <1>1, <1>7 DEF Loc, Writes, Unhold
    <2> QED
        BY <1>2, <2>5, <2>6, TypeMoves
<1>8. CASE MarkReservation(p)
    <2>1. j.to \in {"released", "confirmed"}
        BY <1>0, <1>1, <1>8 DEF MarkReservation, Writes
    <2>2. resv' \in [Reservation -> ResvRow]
        <3>1. CASE j.row \in Reservation
            <4>1. PICK to, new : to = j.to /\ new = [resv[j.row] EXCEPT !.status = to]
                OBVIOUS
            <4>2. new \in ResvRow
                BY <1>0, <2>1, <3>1, <4>1 DEF RowsTyped, ResvRow
            <4>3. resv' = [resv EXCEPT ![j.row] = new]
                BY <1>0, <1>1, <1>8, <3>1, <4>1 DEF MarkReservation, RowsTyped
            <4> QED
                BY <1>0, <4>2, <4>3 DEF RowsTyped
        <3>2. CASE j.row \notin Reservation
            BY <1>0, <1>1, <1>8, <3>2 DEF MarkReservation, RowsTyped
        <3> QED
            BY <3>1, <3>2
    <2>3. RowsTyped' /\ UNCHANGED mode /\ Done(p)
        BY <1>0, <1>8, <2>2 DEF MarkReservation, basket, RowsTyped
    <2> QED
        BY <2>3, TypeDone
<1>9. CASE SetStock(p)
    <2>1. PICK i, n, new : i = j.item /\ n = j.qty /\ new = [item[i] EXCEPT !.stock = n]
        OBVIOUS
    <2>2. item[i] \in ItemRow /\ n \in Int /\ new \in ItemRow
        BY <1>0, <1>2, <2>1 DEF RowsTyped, ItemRow
    <2>3. item' = [item EXCEPT ![i] = new]
        BY <1>0, <1>1, <1>2, <1>9, <2>1 DEF SetStock, RowsTyped, ItemRow
    <2>4. RowsTyped' /\ UNCHANGED mode /\ Done(p)
        BY <1>2, <1>5, <1>9, <2>1, <2>2, <2>3 DEF SetStock
    <2> QED
        BY <2>4, TypeDone
<1>10. ASSUME NEW i \in Items, NEW v \in Prices, NEW n \in 0 .. MaxStock, UpdateProduct(p, i, v, n)
       PROVE  TypeInv'
    <2>1. PICK mid, new : mid = [item[i] EXCEPT !.price = v] /\ new = [mid EXCEPT !.stock = n]
        OBVIOUS
    <2>2. item[i] \in ItemRow /\ v \in Nat /\ n \in Int
        BY <1>0, ShopAssumption DEF RowsTyped
    <2>3. new \in ItemRow
        BY <2>1, <2>2 DEF ItemRow
    <2>4. item' = [item EXCEPT ![i] = new]
        BY <1>0, <1>10, <2>1 DEF UpdateProduct, RowsTyped
    <2>5. RowsTyped' /\ UNCHANGED <<mode, pc, job>>
        BY <1>5, <1>10, <2>3, <2>4 DEF UpdateProduct
    <2> QED
        BY <2>5 DEF TypeInv
<1> QED
    BY <1>3, <1>4, <1>6, <1>7, <1>8, <1>9, <1>10

\* A job that keeps its fields but those it has just computed.
LEMMA SumJob ==
    ASSUME NEW j \in Job, NEW n \in Nat, NEW k, k = [j EXCEPT !.sum = n]
    PROVE  /\ k \in Job /\ k.sum = n /\ k.cart = j.cart
           /\ k.item = j.item /\ k.qty = j.qty /\ k.row = j.row
BY DEF Job

\* What a recalculation knows once it has read the coupon.
Known(j, b, t) == [j EXCEPT !.code = b, !.terms = t]

LEMMA CodeJob ==
    ASSUME NEW j \in Job, NEW b \in BOOLEAN, NEW t \in Terms, NEW k, k = Known(j, b, t)
    PROVE  /\ k \in Job /\ k.code = b /\ k.terms = t /\ k.cart = j.cart /\ k.sum = j.sum
           /\ k.item = j.item /\ k.qty = j.qty /\ k.row = j.row
<1>1. k \in Job
    BY DEF Job, Known
<1>2. k.code = b
    BY <1>1, Zenon DEF Job, Known
<1> QED
    BY <1>1, <1>2 DEF Job, Known

LEMMA FoundJob ==
    ASSUME NEW j \in Job, NEW n \in Nat, NEW m \in Nat, NEW k,
           k = [j EXCEPT !.row = n, !.total = m]
    PROVE  /\ k \in Job /\ k.row = n /\ k.total = m /\ k.cart = j.cart
           /\ k.item = j.item /\ k.qty = j.qty /\ k.price = j.price
BY DEF Job

LEMMA NewJob ==
    ASSUME NEW j \in Job, NEW m \in Nat, NEW k, k = [j EXCEPT !.total = m]
    PROVE  /\ k \in Job /\ k.row = j.row /\ k.total = m /\ k.cart = j.cart
           /\ k.item = j.item /\ k.qty = j.qty /\ k.price = j.price
BY DEF Job

LEMMA TypeLines ==
    ASSUME TypeInv, NEW p \in Requests, FindLine(p) \/ StoreLine(p) \/ ChangeLine(p)
    PROVE  TypeInv'
<1>0. RowsTyped /\ job[p] \in Job
    BY DEF TypeInv
<1>1. PICK j : j = job[p]
    OBVIOUS
<1>2. /\ j \in Job /\ j.item \in Items /\ j.qty \in Nat /\ j.row \in Nat /\ j.total \in Nat
      /\ j.price \in Nat /\ j.cart \in Cart \cup {0}
    BY <1>0, <1>1, JobFields
<1>3. \A l \in Line : line[l] \in LineRow /\ l \in Nat /\ line[l].qty \in Nat
    BY <1>0 DEF RowsTyped, LineRow, Line
<1>4. \A m, n \in Nat : m + n \in Nat /\ m * n \in Nat
    OBVIOUS
<1>5. "store" \in Loc /\ "reserve" \in Loc
    BY DEF Loc
<1>6. CASE FindLine(p)
    <2>1. UNCHANGED <<mode, goods, basket, coupon, order>> /\ RowsTyped'
        BY <1>0, <1>6 DEF FindLine, goods, basket, RowsTyped
    <2>2. \/ Done(p)
          \/ \E k \in Job : Goto(p, "store", k)
        <3>1. \/ Done(p)
              \/ Goto(p, "store", [j EXCEPT !.total = j.qty])
              \/ \E l \in Line : Goto(p, "store", [j EXCEPT !.row = l, !.total = line[l].qty + j.qty])
            BY <1>1, <1>6 DEF FindLine, Lines
        <3>2. CASE Goto(p, "store", [j EXCEPT !.total = j.qty])
            BY <1>2, <3>2, NewJob
        <3>3. ASSUME NEW l \in Line,
                     Goto(p, "store", [j EXCEPT !.row = l, !.total = line[l].qty + j.qty])
              PROVE  \E k \in Job : Goto(p, "store", k)
            <4>1. PICK n : n = line[l].qty + j.qty
                OBVIOUS
            <4>2. n \in Nat /\ l \in Nat
                BY <1>2, <1>3, <1>4, <4>1
            <4>3. PICK k : k = [j EXCEPT !.row = l, !.total = n]
                OBVIOUS
            <4>4. k \in Job
                BY <1>2, <4>2, <4>3, FoundJob
            <4> QED
                BY <3>3, <4>1, <4>3, <4>4
        <3> QED
            BY <3>1, <3>2, <3>3
    <2>3. ASSUME NEW k \in Job, Goto(p, "store", k) PROVE TypeInv'
        <3>1. Writes("store", k)
            BY DEF Writes
        <3> QED
            BY <1>5, <2>1, <2>3, <3>1, TypeMoves
    <2> QED
        BY <2>1, <2>2, <2>3, TypeDone
<1>7. CASE StoreLine(p)
    <2>1. line' \in [Line -> LineRow]
        <3>1. CASE j.row = 0
            <4>0. \E l \in Fresh(Stored, Line) :
                     line' = [line EXCEPT ![l] = [cart |-> j.cart, here |-> TRUE, item |-> j.item,
                                                  qty |-> j.total, price |-> j.price,
                                                  total |-> j.price * j.total]]
                BY <1>1, <1>7, <3>1 DEF StoreLine
            <4>1. PICK l \in Fresh(Stored, Line) :
                     line' = [line EXCEPT ![l] = [cart |-> j.cart, here |-> TRUE, item |-> j.item,
                                                  qty |-> j.total, price |-> j.price,
                                                  total |-> j.price * j.total]]
                BY <4>0
            <4>2. PICK c, i, n, v, m, new :
                     /\ c = j.cart /\ i = j.item /\ n = j.total /\ v = j.price
                     /\ m = v * n
                     /\ new = [cart |-> c, here |-> TRUE, item |-> i, qty |-> n, price |-> v,
                               total |-> m]
                OBVIOUS
            <4>3. /\ c \in Cart \cup {0} /\ i \in Items /\ n \in Nat /\ v \in Nat /\ m \in Nat
                BY <1>2, <1>4, <4>2
            <4>4. new \in LineRow
                BY <4>2, <4>3 DEF LineRow
            <4>5. l \in Line /\ line' = [line EXCEPT ![l] = new]
                BY <4>1, <4>2 DEF Fresh
            <4> QED
                BY <1>0, <4>4, <4>5 DEF RowsTyped
        <3>2. CASE j.row # 0 /\ line[j.row].here
            <4>1. line' = [line EXCEPT ![j.row].qty = j.total, ![j.row].total = j.price * j.total]
                BY <1>1, <1>7, <3>2 DEF StoreLine
            <4>2. CASE j.row \in Line
                <5>1. PICK n, m, mid, new : /\ n = j.total /\ m = j.price * j.total
                                            /\ mid = [line[j.row] EXCEPT !.qty = n]
                                            /\ new = [mid EXCEPT !.total = m]
                    OBVIOUS
                <5>2. new \in LineRow
                    BY <1>2, <1>3, <1>4, <4>2, <5>1 DEF LineRow
                <5>3. line' = [line EXCEPT ![j.row] = new]
                    BY <1>0, <4>1, <4>2, <5>1 DEF RowsTyped
                <5> QED
                    BY <1>0, <5>2, <5>3 DEF RowsTyped
            <4>3. CASE j.row \notin Line
                <5>1. line' = line
                    BY <1>0, <4>1, <4>3 DEF RowsTyped
                <5> QED
                    BY <1>0, <5>1 DEF RowsTyped
            <4> QED
                BY <4>2, <4>3
        <3>3. CASE j.row # 0 /\ ~ line[j.row].here
            BY <1>0, <1>1, <1>7, <3>3 DEF StoreLine, RowsTyped
        <3> QED
            BY <3>1, <3>2, <3>3
    <2>2. RowsTyped' /\ UNCHANGED mode
        BY <1>0, <1>7, <2>1 DEF StoreLine, goods, RowsTyped
    <2>3. Done(p) \/ Goto(p, "reserve", Reserving(j.cart, j.item, j.qty))
        BY <1>1, <1>7 DEF StoreLine, Reserving
    <2>4. PICK k, c, i, q : c = j.cart /\ i = j.item /\ q = j.qty /\ k = Reserving(c, i, q)
        OBVIOUS
    <2>5. k \in Job
        BY <1>2, <2>4, ReserveJob
    <2>6. Writes("reserve", k)
        BY DEF Writes
    <2> QED
        BY <1>5, <2>2, <2>3, <2>4, <2>5, <2>6, TypeMoves, TypeDone
<1>8. CASE ChangeLine(p)
    <2>1. line' \in [Line -> LineRow]
        <3>1. CASE j.row \in Line
            <4>1. \/ line' = line
                  \/ line' = [line EXCEPT ![j.row].here = FALSE]
                  \/ line' = [line EXCEPT ![j.row].qty = j.qty, ![j.row].total = j.price * j.qty]
                BY <1>1, <1>8 DEF ChangeLine
            <4>2. CASE line' = line
                BY <1>0, <4>2 DEF RowsTyped
            <4>3. CASE line' = [line EXCEPT ![j.row].here = FALSE]
                <5>1. PICK off, new : off = FALSE /\ new = [line[j.row] EXCEPT !.here = off]
                    OBVIOUS
                <5>2. new \in LineRow
                    BY <1>3, <3>1, <5>1 DEF LineRow
                <5>3. line' = [line EXCEPT ![j.row] = new]
                    BY <1>0, <3>1, <4>3, <5>1 DEF RowsTyped
                <5> QED
                    BY <1>0, <5>2, <5>3 DEF RowsTyped
            <4>4. CASE line' = [line EXCEPT ![j.row].qty = j.qty, ![j.row].total = j.price * j.qty]
                <5>1. PICK n, m, mid, new : /\ n = j.qty /\ m = j.price * j.qty
                                            /\ mid = [line[j.row] EXCEPT !.qty = n]
                                            /\ new = [mid EXCEPT !.total = m]
                    OBVIOUS
                <5>2. new \in LineRow
                    BY <1>2, <1>3, <1>4, <3>1, <5>1 DEF LineRow
                <5>3. line' = [line EXCEPT ![j.row] = new]
                    BY <1>0, <3>1, <4>4, <5>1 DEF RowsTyped
                <5> QED
                    BY <1>0, <5>2, <5>3 DEF RowsTyped
            <4> QED
                BY <4>1, <4>2, <4>3, <4>4
        <3>2. CASE j.row \notin Line
            <4>1. line' = line
                BY <1>0, <1>1, <1>8, <3>2 DEF ChangeLine, RowsTyped
            <4> QED
                BY <1>0, <4>1 DEF RowsTyped
        <3> QED
            BY <3>1, <3>2
    <2>2. RowsTyped' /\ UNCHANGED mode /\ (Done(p) \/ Recalculate(p))
        BY <1>0, <1>8, <2>1 DEF ChangeLine, goods, RowsTyped
    <2> QED
        BY <2>2, TypeDone, TypeRecalculate
<1> QED
    BY <1>6, <1>7, <1>8

LEMMA TypeCarts ==
    ASSUME TypeInv, NEW p \in Requests,
           \/ CreateCart(p) \/ SetCoupon(p) \/ ReadLines(p) \/ ReadCoupon(p)
           \/ \E t \in Terms, a \in BOOLEAN : EditCoupon(p, t, a)
           \/ WriteTotals(p) \/ \E c \in Cart : RemoveCoupon(p, c)
    PROVE  TypeInv'
<1>0. RowsTyped /\ job[p] \in Job
    BY DEF TypeInv
<1>1. PICK j : j = job[p]
    OBVIOUS
<1>2. /\ j \in Job /\ j.cart \in Cart \cup {0} /\ j.sum \in Nat /\ j.code \in BOOLEAN
    BY <1>0, <1>1, JobFields
<1>3. ASSUME NEW c, NEW new, c \in Cart => new \in CartRow, cart' = [cart EXCEPT ![c] = new],
             UNCHANGED <<goods, line, coupon, order>>
      PROVE  RowsTyped'
    <2>1. cart' \in [Cart -> CartRow]
        BY <1>0, <1>3 DEF RowsTyped
    <2> QED
        BY <1>0, <1>3, <2>1 DEF RowsTyped, goods
<1>4. ASSUME NEW c, NEW b \in BOOLEAN, cart' = [cart EXCEPT ![c].code = b],
             UNCHANGED <<goods, line, coupon, order>>
      PROVE  RowsTyped'
    <2>1. PICK new : new = [cart[c] EXCEPT !.code = b]
        OBVIOUS
    <2>2. c \in Cart => new \in CartRow
        BY <1>0, <2>1 DEF RowsTyped, CartRow
    <2>3. cart' = [cart EXCEPT ![c] = new]
        BY <1>0, <1>4, <2>1 DEF RowsTyped
    <2> QED
        BY <1>3, <1>4, <2>2, <2>3
<1>5. CASE CreateCart(p)
    <2>1. PICK c \in Cart : cart' = [cart EXCEPT ![c].status = "open"]
        BY <1>5 DEF CreateCart, Fresh
    <2>2. PICK open, new : open = "open" /\ new = [cart[c] EXCEPT !.status = open]
        OBVIOUS
    <2>3. new \in CartRow
        BY <1>0, <2>2 DEF RowsTyped, CartRow
    <2>4. cart' = [cart EXCEPT ![c] = new]
        BY <1>0, <2>1, <2>2 DEF RowsTyped
    <2>5. RowsTyped' /\ UNCHANGED mode /\ Done(p)
        BY <1>3, <1>5, <2>3, <2>4 DEF CreateCart
    <2> QED
        BY <2>5, TypeDone
<1>6. CASE SetCoupon(p)
    <2>1. /\ cart' = [cart EXCEPT ![j.cart].code = TRUE] /\ Recalculate(p)
          /\ UNCHANGED <<mode, goods, line, coupon, order>>
        BY <1>1, <1>6 DEF SetCoupon
    <2>2. RowsTyped'
        BY <1>4, <2>1
    <2> QED
        BY <2>1, <2>2, TypeRecalculate
<1>7. ASSUME NEW c \in Cart, RemoveCoupon(p, c) PROVE TypeInv'
    <2>1. PICK k : k = [NoJob EXCEPT !.cart = c]
        OBVIOUS
    <2>2. /\ cart' = [cart EXCEPT ![c].code = FALSE] /\ Goto(p, "lines", k)
          /\ UNCHANGED <<mode, goods, line, coupon, order>>
        BY <1>7, <2>1 DEF RemoveCoupon
    <2>3. RowsTyped' /\ k \in Job /\ "lines" \in Loc /\ Writes("lines", k)
        BY <1>4, <2>1, <2>2, CartJob DEF Loc, Writes
    <2> QED
        BY <2>2, <2>3, TypeMoves
<1>8. ASSUME NEW t \in Terms, NEW a \in BOOLEAN, EditCoupon(p, t, a) PROVE TypeInv'
    <2>1. coupon' = [coupon EXCEPT !.active = a, !.terms = t]
        BY <1>8 DEF EditCoupon
    <2>2. coupon' \in CouponRow
        BY <1>0, <2>1 DEF RowsTyped, CouponRow
    <2>3. ASSUME NEW c \in Cart, NEW b, b = (cart[c].stale \/ cart[c].code)
          PROVE  [cart[c] EXCEPT !.stale = b] \in CartRow
        BY <1>0, <2>3 DEF RowsTyped, CartRow
    <2>4. cart' \in [Cart -> CartRow]
        BY <1>8, <2>3 DEF EditCoupon
    <2>5. RowsTyped' /\ UNCHANGED <<mode, pc, job>>
        BY <1>0, <1>8, <2>2, <2>4 DEF EditCoupon, RowsTyped, goods
    <2> QED
        BY <2>5 DEF TypeInv
<1>9. CASE ReadLines(p)
    <2>1. PICK n, k : n = LinesTotal(j.cart) /\ k = [j EXCEPT !.sum = n]
        OBVIOUS
    <2>2. n \in Nat
        BY <1>0, <2>1, LinesTotalType
    <2>3. k \in Job
        BY <1>2, <2>1, <2>2, SumJob
    <2>4. Goto(p, "coupon", k) /\ UNCHANGED <<mode, goods, basket, coupon, order>>
        BY <1>1, <1>9, <2>1 DEF ReadLines
    <2>5. "coupon" \in Loc /\ Writes("coupon", k)
        BY DEF Loc, Writes
    <2> QED
        BY <2>3, <2>4, <2>5, TypeBegins
<1>10. CASE ReadCoupon(p)
    <2>0. PICK b, t : b = (cart[j.cart].code /\ coupon.active) /\ t = coupon.terms
        OBVIOUS
    <2>1. PICK k : k = Known(j, b, t)
        OBVIOUS
    <2>2. b \in BOOLEAN /\ t \in Terms
        BY <1>0, <2>0 DEF RowsTyped, CouponRow
    <2>3. k \in Job
        BY <1>2, <2>1, <2>2, CodeJob
    <2>4. Goto(p, "totals", k) /\ UNCHANGED <<mode, goods, basket, coupon, order>>
        BY <1>1, <1>10, <2>0, <2>1, Zenon DEF ReadCoupon, Known
    <2>5. "totals" \in Loc /\ Writes("totals", k)
        BY DEF Loc, Writes
    <2> QED
        BY <2>3, <2>4, <2>5, TypeBegins
<1>11. CASE WriteTotals(p)
    <2>1. PICK c, n, m, no, new :
             /\ c = j.cart /\ n = j.sum /\ no = FALSE
             /\ m = IF j.code THEN Discounted(j.sum, j.terms) ELSE j.sum
             /\ new = [cart[c] EXCEPT !.subtotal = n, !.total = m, !.stale = no]
        OBVIOUS
    <2>2. n \in Nat /\ m \in Nat
        BY <1>0, <1>1, <1>2, <2>1, DiscountedType, JobFields
    <2>3. c \in Cart => new \in CartRow
        BY <1>0, <2>1, <2>2 DEF RowsTyped, CartRow
    <2>4. cart' = [cart EXCEPT ![c] = new]
        BY <1>0, <1>1, <1>11, <2>1 DEF WriteTotals, RowsTyped
    <2>5. RowsTyped' /\ UNCHANGED mode /\ Done(p)
        BY <1>3, <1>11, <2>3, <2>4 DEF WriteTotals
    <2> QED
        BY <2>5, TypeDone
<1> QED
    BY <1>5, <1>6, <1>7, <1>8, <1>9, <1>10, <1>11

LEMMA TypeSales ==
    ASSUME TypeInv, NEW p \in Requests,
           CreateOrder(p) \/ CloseCart(p) \/ CountCoupon(p) \/ SetOrderStatus(p) \/ Full(p)
    PROVE  TypeInv'
<1>0. RowsTyped /\ job[p] \in Job /\ Writes(pc[p], job[p])
    BY DEF TypeInv
<1>1. PICK j : j = job[p]
    OBVIOUS
<1>2. /\ j \in Job /\ j.cart \in Cart \cup {0} /\ j.sum \in Nat /\ j.code \in BOOLEAN
      /\ j.lines \in Nat /\ j.total \in Nat
    BY <1>0, <1>1, JobFields
<1>3. "close" \in Loc /\ "count" \in Loc /\ (\A k : Writes("close", k) /\ Writes("count", k))
    BY DEF Loc, Writes
<1>4. CASE CreateOrder(p)
    <2>1. PICK o \in Fresh(Orders, Order) :
             order' = [order EXCEPT ![o] =
                          [status |-> "pending_payment", cart |-> j.cart, paid |-> FALSE,
                           lines |-> j.lines, subtotal |-> j.sum, total |-> j.total,
                           code |-> j.code]]
        BY <1>1, <1>4 DEF CreateOrder
    <2>2. PICK s, c, off, k, n, m, b, new :
             /\ s = "pending_payment" /\ c = j.cart /\ off = FALSE /\ k = j.lines /\ n = j.sum
             /\ m = j.total /\ b = j.code
             /\ new = [status |-> s, cart |-> c, paid |-> off, lines |-> k, subtotal |-> n,
                       total |-> m, code |-> b]
        OBVIOUS
    <2>3. /\ s \in OrderStatus \cup {"absent"} /\ c \in Cart \cup {0} /\ off \in BOOLEAN
          /\ k \in Nat /\ n \in Nat /\ m \in Nat /\ b \in BOOLEAN
        BY <1>2, <2>2 DEF OrderStatus, After
    <2>4. new \in OrderRow
        BY <2>2, <2>3 DEF OrderRow
    <2>5. order' = [order EXCEPT ![o] = new]
        BY <2>1, <2>2
    <2>6. order' \in [Order -> OrderRow]
        BY <1>0, <2>4, <2>5 DEF RowsTyped
    <2>7. RowsTyped' /\ UNCHANGED mode
        BY <1>0, <1>4, <2>6 DEF CreateOrder, RowsTyped, goods, basket
    <2>8. PICK x : x = [NoJob EXCEPT !.cart = c, !.code = b]
        OBVIOUS
    <2>9. Goto(p, "close", x) /\ x \in Job
        <3>1. Goto(p, "close", x)
            BY <1>1, <1>4, <2>2, <2>8 DEF CreateOrder
        <3>2. x \in Job
            BY <2>3, <2>8, CloseJob
        <3> QED
            BY <3>1, <3>2
    <2> QED
        BY <1>3, <2>7, <2>9, TypeMoves
<1>5. CASE CloseCart(p)
    <2>1. PICK closed, new : closed = "closed" /\ new = [cart[j.cart] EXCEPT !.status = closed]
        OBVIOUS
    <2>2. j.cart \in Cart => new \in CartRow
        BY <1>0, <2>1 DEF RowsTyped, CartRow
    <2>3. cart' = [cart EXCEPT ![j.cart] = new]
        BY <1>0, <1>1, <1>5, <2>1 DEF CloseCart, RowsTyped
    <2>4. cart' \in [Cart -> CartRow]
        BY <1>0, <2>2, <2>3 DEF RowsTyped
    <2>5. RowsTyped' /\ UNCHANGED mode
        BY <1>0, <1>5, <2>4 DEF CloseCart, RowsTyped, goods
    <2>6. PICK on, x : on = TRUE /\ x = [NoJob EXCEPT !.code = on]
        OBVIOUS
    <2>7. x \in Job
        BY <2>6, CountJob
    <2>8. Done(p) \/ Goto(p, "count", x)
        BY <1>5, <2>6 DEF CloseCart
    <2> QED
        BY <1>3, <2>5, <2>7, <2>8, TypeMoves, TypeDone
<1>6. CASE CountCoupon(p)
    <2>1. PICK n : n = coupon.used + 1
        OBVIOUS
    <2>2. coupon' = [coupon EXCEPT !.used = n] /\ n \in Nat
        BY <1>0, <1>6, <2>1 DEF CountCoupon, RowsTyped, CouponRow
    <2>3. coupon' \in CouponRow
        BY <1>0, <2>2 DEF RowsTyped, CouponRow
    <2>4. RowsTyped' /\ UNCHANGED mode /\ Done(p)
        BY <1>0, <1>6, <2>3 DEF CountCoupon, RowsTyped, goods, basket
    <2> QED
        BY <2>4, TypeDone
<1>7. CASE SetOrderStatus(p)
    <2>1. j.to \in OrderStatus
        BY <1>0, <1>1, <1>7 DEF SetOrderStatus, Writes
    <2>2. order' = [order EXCEPT ![j.row].status = j.to, ![j.row].paid = @ \/ j.to = "paid"]
        BY <1>1, <1>7 DEF SetOrderStatus
    <2>3. order' \in [Order -> OrderRow]
        <3>1. CASE j.row \in Order
            <4>1. PICK s, b, mid, new : /\ s = j.to /\ mid = [order[j.row] EXCEPT !.status = s]
                                        /\ b = (order[j.row].paid \/ j.to = "paid")
                                        /\ new = [mid EXCEPT !.paid = b]
                OBVIOUS
            <4>2. order[j.row] \in OrderRow /\ b \in BOOLEAN /\ s \in OrderStatus
                BY <1>0, <2>1, <3>1, <4>1 DEF RowsTyped
            <4>3. mid \in OrderRow /\ mid.paid = order[j.row].paid
                BY <4>1, <4>2 DEF OrderRow
            <4>4. new \in OrderRow
                BY <4>1, <4>2, <4>3 DEF OrderRow
            <4>5. order' = [order EXCEPT ![j.row] = new]
                BY <1>0, <2>2, <3>1, <4>1, <4>3 DEF RowsTyped
            <4> QED
                BY <1>0, <4>4, <4>5 DEF RowsTyped
        <3>2. CASE j.row \notin Order
            <4>1. order' = order
                BY <1>0, <2>2, <3>2 DEF RowsTyped
            <4> QED
                BY <1>0, <4>1 DEF RowsTyped
        <3> QED
            BY <3>1, <3>2
    <2>4. RowsTyped' /\ UNCHANGED mode /\ Done(p)
        BY <1>0, <1>7, <2>3 DEF SetOrderStatus, RowsTyped, goods, basket
    <2> QED
        BY <2>4, TypeDone
<1>8. CASE Full(p)
    <2>1. RowsTyped' /\ UNCHANGED mode /\ Done(p)
        BY <1>0, <1>8 DEF Full, RowsTyped, goods, basket
    <2> QED
        BY <2>1, TypeDone
<1> QED
    BY <1>4, <1>5, <1>6, <1>7, <1>8

LEMMA TypeInit == Init => TypeInv
<1> SUFFICES ASSUME Init PROVE TypeInv
    OBVIOUS
<1>1. NoJob \in Job /\ NoJob.item \in Items
    BY NoJobTyped, JobFields
<1>2. item \in [Items -> ItemRow]
    <2>1. MaxStock \in Int /\ Prices \subseteq Nat
        BY ShopAssumption
    <2>2. ASSUME NEW v \in Prices, NEW s \in {MaxStock}, NEW n \in {0}
          PROVE  [price |-> v, stock |-> s, reserved |-> n] \in ItemRow
        BY <2>1 DEF ItemRow
    <2> DEFINE Rows == [price : Prices, stock : {MaxStock}, reserved : {0}]
    <2>3. Rows \subseteq ItemRow
        <3>1. \A r \in Rows : \E v \in Prices, s \in {MaxStock}, n \in {0} :
                 r = [price |-> v, stock |-> s, reserved |-> n]
            OBVIOUS
        <3> QED
            BY <2>2, <3>1, Zenon
    <2>4. item \in [Items -> Rows]
        BY Zenon DEF Init
    <2> QED
        <3> HIDE DEF Rows
        <3> QED
            BY <2>3, <2>4
<1>3. resv \in [Reservation -> ResvRow]
    BY <1>1 DEF Init, ResvRow
<1>4. cart \in [Cart -> CartRow]
    BY DEF Init, CartRow
<1>5. line \in [Line -> LineRow]
    <2>1. PICK i, off, new : /\ i = NoJob.item /\ off = FALSE
                             /\ new = [cart |-> 0, here |-> off, item |-> i, qty |-> 0,
                                       price |-> 0, total |-> 0]
        OBVIOUS
    <2>2. new \in LineRow
        BY <1>1, <2>1 DEF LineRow
    <2>3. line = [l \in Line |-> new]
        BY <2>1 DEF Init
    <2> QED
        BY <2>2, <2>3
<1>6. coupon \in CouponRow
    <2>1. PICK t \in Terms, on \in {TRUE} : coupon = [active |-> on, used |-> 0, terms |-> t]
        BY DEF Init
    <2>2. on \in BOOLEAN
        OBVIOUS
    <2>3. [active |-> on, used |-> 0, terms |-> t] \in CouponRow
        BY <2>2 DEF CouponRow
    <2> QED
        BY <2>1, <2>3
<1>7. order \in [Order -> OrderRow]
    <2>1. PICK off, new : /\ off = FALSE
                          /\ new = [status |-> "absent", cart |-> 0, lines |-> 0, subtotal |-> 0,
                                    total |-> 0, code |-> off, paid |-> off]
        OBVIOUS
    <2>2. new \in OrderRow
        BY <2>1 DEF OrderRow
    <2>3. order = [o \in Order |-> new]
        BY <2>1 DEF Init
    <2> QED
        BY <2>2, <2>3
<1>8. mode \in DOMAIN Together /\ pc \in [Requests -> Loc] /\ job \in [Requests -> Job]
    BY <1>1 DEF Init, Loc
<1>9. \A q \in Requests : Writes(pc[q], job[q])
    BY DEF Init, Writes
<1> QED
    BY <1>2, <1>3, <1>4, <1>5, <1>6, <1>7, <1>8, <1>9 DEF TypeInv, RowsTyped

LEMMA TypeStep == TypeInv /\ [Next]_vars => TypeInv'
<1> SUFFICES ASSUME TypeInv, [Next]_vars PROVE TypeInv'
    OBVIOUS
<1>1. CASE UNCHANGED vars
    BY <1>1 DEF TypeInv, RowsTyped, vars, goods, basket
<1>2. ASSUME NEW p \in Requests, Stock(p) PROVE TypeInv'
    BY <1>2, TypeAsks, TypeStock DEF Stock
<1>3. ASSUME NEW p \in Requests, Basket(p) PROVE TypeInv'
    BY <1>3, TypeAsks, TypeLines, TypeCarts DEF Basket
<1>4. ASSUME NEW p \in Requests, Sale(p) PROVE TypeInv'
    BY <1>4, TypeAsks, TypeSales DEF Sale
<1>5. ASSUME NEW p \in Requests, Full(p) PROVE TypeInv'
    BY <1>5, TypeSales
<1> QED
    BY <1>1, <1>2, <1>3, <1>4, <1>5 DEF Next

\* Every column and every local of a request holds a value of its type.
THEOREM TypeCorrect == Spec => []TypeOK
<1>1. TypeInv => TypeOK
    BY DEF TypeInv, TypeOK, RowsTyped, ItemRow, ResvRow, CartRow, LineRow, CouponRow, OrderRow
<1> QED
    BY <1>1, TypeInit, TypeStep, PTL DEF Spec

-----------------------------------------------------------------------------
(* Reserved stock and the reservations behind it.                          *)

\* What requests are about to hold of an item, and the active reservations of
\* it that no request has lowered the counter for.
Holders(at, jobs, i) == {q \in Requests : at[q] = "hold" /\ jobs[q].item = i}
Pending(at, jobs, i) ==
    SumFunctionOnSet([q \in Requests |-> jobs[q].qty], Holders(at, jobs, i))
Lowered(at, jobs, r) == \E q \in Requests : at[q] = "unheld" /\ jobs[q].row = r
Free(at, jobs, rows, i) ==
    {r \in Reservation : /\ rows[r].status = "active" /\ rows[r].item = i
                         /\ ~Lowered(at, jobs, r)}
Backing(at, jobs, rows, i) ==
    SumFunctionOnSet([r \in Reservation |-> rows[r].qty], Free(at, jobs, rows, i))

\* A request that lowers the counter for a reservation knows what it holds.
Frees(at, j, rows) ==
    at \in {"unhold", "unheld"} =>
        /\ j.row \in Reservation /\ rows[j.row].status # "absent"
        /\ j.item = rows[j.row].item /\ j.qty = rows[j.row].qty

BackedAt(at, jobs, rows, goodsAt, i) ==
    goodsAt[i].reserved + Pending(at, jobs, i) <= Backing(at, jobs, rows, i)
HoldInv ==
    /\ TypeInv
    /\ \A q \in Requests : Frees(pc[q], job[q], resv)
    /\ \A i \in Items : BackedAt(pc, job, resv, item, i)

JobsTyped(jobs) == \A q \in Requests : jobs[q].qty \in Nat
RowsCount(rows) == \A r \in Reservation : rows[r].qty \in Nat
\* Two moments between which only p moves.
OnlyMoves(p, a, b, j, k) == \A q \in Requests : q # p => a[q] = b[q] /\ j[q] = k[q]

LEMMA PendingFinite ==
    ASSUME NEW at, NEW jobs, JobsTyped(jobs), NEW i
    PROVE  /\ IsFiniteSet(Holders(at, jobs, i)) /\ Pending(at, jobs, i) \in Nat
<1>1. IsFiniteSet(Holders(at, jobs, i))
    BY ShopAssumption, FS_Subset DEF Holders
<1>2. PICK f : f = [q \in Requests |-> jobs[q].qty]
    OBVIOUS
<1>3. \A q \in Holders(at, jobs, i) : f[q] \in Nat
    BY <1>2 DEF JobsTyped, Holders
<1> QED
    BY <1>1, <1>2, <1>3, SumType DEF Pending

LEMMA PendingSame ==
    ASSUME NEW p \in Requests, NEW a, NEW b, NEW j, NEW k, OnlyMoves(p, a, b, j, k),
           a[p] # "hold", b[p] # "hold", JobsTyped(j), NEW i
    PROVE  Pending(b, k, i) = Pending(a, j, i)
<1>1. PICK S, f, g : /\ S = Holders(a, j, i)
                     /\ f = [q \in Requests |-> j[q].qty] /\ g = [q \in Requests |-> k[q].qty]
    OBVIOUS
<1>2. Holders(b, k, i) = S
    BY <1>1 DEF Holders, OnlyMoves
<1>3. IsFiniteSet(S)
    BY <1>1, PendingFinite
<1>4. \A q \in S : f[q] = g[q]
    BY <1>1 DEF Holders, OnlyMoves
<1>5. SumFunctionOnSet(f, S) = SumFunctionOnSet(g, S)
    BY <1>3, <1>4, SumSame
<1> QED
    BY <1>1, <1>2, <1>5 DEF Pending

LEMMA PendingAdds ==
    ASSUME NEW p \in Requests, NEW a, NEW b, NEW j, NEW k, OnlyMoves(p, a, b, j, k),
           a[p] # "hold", b[p] = "hold", JobsTyped(j), JobsTyped(k), NEW i
    PROVE  Pending(b, k, i) = Pending(a, j, i) + (IF k[p].item = i THEN k[p].qty ELSE 0)
<1>1. PICK S, f, g : /\ S = Holders(a, j, i)
                     /\ f = [q \in Requests |-> j[q].qty] /\ g = [q \in Requests |-> k[q].qty]
    OBVIOUS
<1>2. IsFiniteSet(S) /\ p \notin S /\ \A q \in S : f[q] = g[q] /\ g[q] \in Nat
    <2>1. IsFiniteSet(S)
        BY <1>1, PendingFinite
    <2>2. p \notin S /\ \A q \in S : f[q] = g[q] /\ g[q] \in Nat
        BY <1>1 DEF Holders, OnlyMoves, JobsTyped
    <2> QED
        BY <2>1, <2>2
<1>3. SumFunctionOnSet(f, S) = SumFunctionOnSet(g, S) /\ SumFunctionOnSet(f, S) \in Nat
    <2>1. SumFunctionOnSet(f, S) = SumFunctionOnSet(g, S)
        BY <1>2, SumSame
    <2>2. Pending(a, j, i) \in Nat /\ Pending(a, j, i) = SumFunctionOnSet(f, S)
        BY <1>1, PendingFinite DEF Pending
    <2> QED
        BY <2>1, <2>2
<1>4. CASE k[p].item = i
    <2>1. Holders(b, k, i) = S \cup {p}
        BY <1>1, <1>4 DEF Holders, OnlyMoves
    <2>2. \A q \in S \cup {p} : g[q] \in Nat
        BY <1>1, <1>2 DEF JobsTyped
    <2>3. SumFunctionOnSet(g, S \cup {p}) = g[p] + SumFunctionOnSet(g, S)
        BY <1>2, <2>2, SumWith
    <2>4. g[p] = k[p].qty /\ k[p].qty \in Nat
        BY <1>1 DEF JobsTyped
    <2>5. Pending(b, k, i) = SumFunctionOnSet(g, S \cup {p})
        BY <1>1, <2>1 DEF Pending
    <2>6. Pending(a, j, i) = SumFunctionOnSet(f, S)
        BY <1>1 DEF Pending
    <2> QED
        BY <1>3, <1>4, <2>3, <2>4, <2>5, <2>6
<1>5. CASE k[p].item # i
    <2>1. Holders(b, k, i) = S
        BY <1>1, <1>5 DEF Holders, OnlyMoves
    <2>2. Pending(b, k, i) = SumFunctionOnSet(g, S) /\ Pending(a, j, i) = SumFunctionOnSet(f, S)
        BY <1>1, <2>1 DEF Pending
    <2> QED
        BY <1>3, <1>5, <2>2
<1> QED
    BY <1>4, <1>5

LEMMA FreeFinite ==
    ASSUME NEW at, NEW jobs, NEW rows, RowsCount(rows), NEW i
    PROVE  IsFiniteSet(Free(at, jobs, rows, i)) /\ Backing(at, jobs, rows, i) \in Nat
<1>1. IsFiniteSet(Reservation)
    BY ShopAssumption, FS_Interval DEF Reservation
<1>2. IsFiniteSet(Free(at, jobs, rows, i))
    BY <1>1, FS_Subset DEF Free
<1>3. PICK f : f = [r \in Reservation |-> rows[r].qty]
    OBVIOUS
<1>4. \A r \in Free(at, jobs, rows, i) : f[r] \in Nat
    BY <1>3 DEF RowsCount, Free
<1> QED
    BY <1>2, <1>3, <1>4, SumType DEF Backing

\* No reservation counts for more or less: the same are free, at the same quantity.
LEMMA BackingSame ==
    ASSUME NEW a, NEW b, NEW j, NEW k, NEW m, NEW n, RowsCount(m), NEW i,
           Free(b, k, n, i) = Free(a, j, m, i),
           \A r \in Reservation : n[r].qty = m[r].qty
    PROVE  Backing(b, k, n, i) = Backing(a, j, m, i)
<1>1. [r \in Reservation |-> n[r].qty] = [r \in Reservation |-> m[r].qty]
    OBVIOUS
<1> QED
    BY <1>1 DEF Backing

\* A step that leaves the counters and the reservations alone.
LEMMA Aside ==
    ASSUME HoldInv, NEW p \in Requests, NEW loc, NEW j, Goto(p, loc, j), TypeInv',
           pc[p] \notin {"hold", "unheld"}, loc \notin {"hold", "unheld"},
           Frees(loc, j, resv), UNCHANGED resv,
           \A i \in Items : item'[i].reserved = item[i].reserved
    PROVE  HoldInv'
<1>1. /\ pc' = [pc EXCEPT ![p] = loc] /\ job' = [job EXCEPT ![p] = j]
      /\ pc \in [Requests -> Loc] /\ job \in [Requests -> Job]
    BY DEF Goto, HoldInv, TypeInv
<1>2. pc'[p] = loc /\ job'[p] = j /\ OnlyMoves(p, pc, pc', job, job')
    BY <1>1 DEF OnlyMoves
<1>3. JobsTyped(job)
    BY <1>1, JobFields DEF JobsTyped
<1>4. RowsCount(resv)
    BY DEF HoldInv, TypeInv, RowsTyped, ResvRow, RowsCount
<1>5. ASSUME NEW i \in Items PROVE BackedAt(pc', job', resv', item', i)
    <2>1. Pending(pc', job', i) = Pending(pc, job, i)
        BY <1>2, <1>3, PendingSame
    <2>2. \A r \in Reservation : Lowered(pc', job', r) <=> Lowered(pc, job, r)
        BY <1>2 DEF Lowered, OnlyMoves
    <2>3. Free(pc', job', resv', i) = Free(pc, job, resv, i)
        BY <2>2 DEF Free
    <2>4. Backing(pc', job', resv', i) = Backing(pc, job, resv, i)
        BY <1>4, <2>3, BackingSame
    <2> QED
        BY <2>1, <2>4 DEF HoldInv, BackedAt
<1>6. ASSUME NEW q \in Requests PROVE Frees(pc'[q], job'[q], resv')
    BY <1>2, <1>6 DEF HoldInv, OnlyMoves
<1> QED
    BY <1>5, <1>6 DEF HoldInv

\* The steps that neither make, mark nor end a reservation, nor touch its counter.
AsideLoc == Loc \ {"hold", "unhold", "unheld"}
StepsAside(p) ==
    /\ UNCHANGED resv /\ \A i \in Items : item'[i].reserved = item[i].reserved
    /\ \/ UNCHANGED <<pc, job>>
       \/ pc[p] \notin {"hold", "unheld"} /\ \E at \in AsideLoc : \E j : Goto(p, at, j)

LEMMA AsideKeeps ==
    ASSUME HoldInv, TypeInv', NEW p \in Requests, StepsAside(p)
    PROVE  HoldInv'
<1>1. CASE UNCHANGED <<pc, job>>
    BY <1>1 DEF StepsAside, HoldInv, BackedAt
<1>2. CASE pc[p] \notin {"hold", "unheld"} /\ \E at \in AsideLoc : \E j : Goto(p, at, j)
    <2>1. PICK at \in AsideLoc : \E j : Goto(p, at, j)
        BY <1>2
    <2>2. PICK j : Goto(p, at, j)
        BY <2>1
    <2>3. at \notin {"hold", "unhold", "unheld"} /\ Frees(at, j, resv)
        BY DEF AsideLoc, Frees
    <2> QED
        BY <1>2, <2>2, <2>3, Aside DEF StepsAside
<1> QED
    BY <1>1, <1>2 DEF StepsAside

LEMMA StockAside ==
    ASSUME TypeInv, NEW p \in Requests,
           \/ \E i \in Items : \/ \E q \in Quantities : ReserveInventory(p, i, q)
                               \/ \E d \in {-1, 1} : AdjustStock(p, i, d)
                               \/ \E v \in Prices, n \in 0 .. MaxStock : UpdateProduct(p, i, v, n)
           \/ CheckStock(p) \/ SetStock(p)
    PROVE  StepsAside(p)
<1>0. item \in [Items -> ItemRow]
    BY DEF TypeInv, RowsTyped
<1> USE DEF AsideLoc, Loc
<1>1. ASSUME NEW i \in Items, NEW q \in Quantities, ReserveInventory(p, i, q) PROVE StepsAside(p)
    BY <1>1 DEF ReserveInventory, Ready, StepsAside, goods
<1>2. ASSUME NEW i \in Items, NEW d \in {-1, 1}, AdjustStock(p, i, d) PROVE StepsAside(p)
    BY <1>2 DEF AdjustStock, Ready, StepsAside, goods
<1>3. ASSUME NEW i \in Items, NEW v \in Prices, NEW n \in 0 .. MaxStock, UpdateProduct(p, i, v, n)
      PROVE  StepsAside(p)
    <2>1. PICK mid, new : mid = [item[i] EXCEPT !.price = v] /\ new = [mid EXCEPT !.stock = n]
        OBVIOUS
    <2>2. item' = [item EXCEPT ![i] = new]
        BY <1>0, <1>3, <2>1 DEF UpdateProduct
    <2>3. new.reserved = item[i].reserved
        BY <1>0, <2>1 DEF ItemRow
    <2>4. \A x \in Items : item'[x].reserved = item[x].reserved
        BY <1>0, <2>2, <2>3
    <2> QED
        BY <1>3, <2>4 DEF UpdateProduct, StepsAside
<1>4. CASE CheckStock(p)
    BY <1>4 DEF CheckStock, StepsAside, Done, goods
<1>5. CASE SetStock(p)
    <2>1. PICK i, n, new : i = job[p].item /\ n = job[p].qty /\ new = [item[i] EXCEPT !.stock = n]
        OBVIOUS
    <2>2. item' = [item EXCEPT ![i] = new]
        BY <1>0, <1>5, <2>1 DEF SetStock
    <2>3. i \in Items => new.reserved = item[i].reserved
        BY <1>0, <2>1 DEF ItemRow
    <2>4. \A x \in Items : item'[x].reserved = item[x].reserved
        BY <1>0, <2>2, <2>3
    <2> QED
        BY <1>5, <2>4 DEF SetStock, StepsAside, Done
<1> QED
    BY <1>1, <1>2, <1>3, <1>4, <1>5

LEMMA BasketAside ==
    ASSUME NEW p \in Requests, Basket(p) \/ Sale(p) \/ Full(p)
    PROVE  StepsAside(p)
<1> USE DEF AsideLoc, Loc, StepsAside, goods, Done, Recalculate
<1>1. CASE Basket(p)
    <2>1. ASSUME FindCart(p) \/ CreateCart(p) PROVE StepsAside(p)
        BY <2>1 DEF FindCart, CreateCart, Ready
    <2>2. ASSUME NEW c \in Cart, NEW i \in Items, NEW q \in Quantities, AddToCart(p, c, i, q)
          PROVE  StepsAside(p)
        BY <2>2 DEF AddToCart, Ready
    <2>3. ASSUME NEW c \in Cart, ApplyCoupon(p, c) \/ RemoveCoupon(p, c) PROVE StepsAside(p)
        BY <2>3 DEF ApplyCoupon, RemoveCoupon, Ready
    <2>4. ASSUME NEW l \in Line, NEW q \in Quantities \cup {0}, UpdateCartItem(p, l, q)
          PROVE  StepsAside(p)
        BY <2>4 DEF UpdateCartItem, Ready
    <2>5. CASE FindLine(p)
        BY <2>5 DEF FindLine
    <2>6. CASE StoreLine(p)
        BY <2>6 DEF StoreLine
    <2>7. CASE ChangeLine(p) \/ SetCoupon(p)
        BY <2>7 DEF ChangeLine, SetCoupon
    <2>9. ASSUME NEW t \in Terms, NEW a \in BOOLEAN, EditCoupon(p, t, a) PROVE StepsAside(p)
        BY <2>9 DEF EditCoupon, Ready
    <2>8. CASE ReadLines(p) \/ ReadCoupon(p) \/ WriteTotals(p)
        BY <2>8 DEF ReadLines, ReadCoupon, WriteTotals
    <2> QED
        BY ONLY <1>1, <2>1, <2>2, <2>3, <2>4, <2>5, <2>6, <2>7, <2>8, <2>9 DEF Basket
<1>2. CASE Sale(p)
    <2>1. ASSUME NEW c \in Cart, Checkout(p, c) PROVE StepsAside(p)
        BY <2>1 DEF Checkout, Ready
    <2>2. CASE CreateOrder(p)
        BY <2>2 DEF CreateOrder
    <2>3. CASE CloseCart(p)
        BY <2>3 DEF CloseCart
    <2>4. CASE CountCoupon(p) \/ SetOrderStatus(p)
        BY <2>4 DEF CountCoupon, SetOrderStatus
    <2>5. ASSUME NEW o \in Order, NEW s \in OrderStatus, UpdateOrderStatus(p, o, s)
          PROVE  StepsAside(p)
        BY <2>5 DEF UpdateOrderStatus, Ready
    <2> QED
        BY ONLY <1>2, <2>1, <2>2, <2>3, <2>4, <2>5 DEF Sale
<1>3. CASE Full(p)
    BY <1>3 DEF Full
<1> QED
    BY <1>1, <1>2, <1>3

\* The facts the steps on reservations start from.
LEMMA HoldFacts ==
    ASSUME HoldInv, NEW p \in Requests, NEW loc, NEW j, Goto(p, loc, j), TypeInv'
    PROVE  /\ pc' = [pc EXCEPT ![p] = loc] /\ job' = [job EXCEPT ![p] = j]
           /\ pc'[p] = loc /\ job'[p] = j /\ OnlyMoves(p, pc, pc', job, job')
           /\ JobsTyped(job) /\ JobsTyped(job') /\ RowsCount(resv) /\ RowsCount(resv')
           /\ item \in [Items -> ItemRow] /\ resv \in [Reservation -> ResvRow]
           /\ job[p] \in Job /\ job[p].item \in Items /\ job[p].qty \in Nat
<1>1. /\ pc' = [pc EXCEPT ![p] = loc] /\ job' = [job EXCEPT ![p] = j]
      /\ pc \in [Requests -> Loc] /\ job \in [Requests -> Job] /\ job' \in [Requests -> Job]
    BY DEF Goto, HoldInv, TypeInv
<1>2. pc'[p] = loc /\ job'[p] = j /\ OnlyMoves(p, pc, pc', job, job')
    BY <1>1 DEF OnlyMoves
<1>3. JobsTyped(job) /\ JobsTyped(job')
    BY <1>1, JobFields DEF JobsTyped
<1>4. RowsCount(resv) /\ RowsCount(resv')
    BY DEF HoldInv, TypeInv, RowsTyped, ResvRow, RowsCount
<1>5. job[p] \in Job /\ job[p].item \in Items /\ job[p].qty \in Nat
    BY <1>1, JobFields
<1>6. item \in [Items -> ItemRow] /\ resv \in [Reservation -> ResvRow]
    BY DEF HoldInv, TypeInv, RowsTyped
<1> QED
    BY <1>1, <1>2, <1>3, <1>4, <1>5, <1>6

\* Beginning to lower the counter.
LEMMA AskKeeps ==
    ASSUME HoldInv, TypeInv', NEW p \in Requests, NEW r \in Reservation,
           ReleaseReservation(p, r) \/ ConfirmReservation(p, r)
    PROVE  HoldInv'
<1>1. PICK s, i, q, j :
         /\ i = resv[r].item /\ q = resv[r].qty /\ s \in {"released", "confirmed"}
         /\ j = Holding(r, i, q, s)
         /\ Goto(p, "unhold", j) /\ UNCHANGED <<mode, goods, basket, coupon, order>>
    BY DEF ReleaseReservation, ConfirmReservation, Holding
<1>2. resv[r].status # "absent" /\ pc[p] = "idle"
    BY DEF ReleaseReservation, ConfirmReservation, Reserved, Ready
<1>3. /\ i \in Items /\ q \in Nat /\ r \in Nat
      /\ s \in OrderStatus \cup {"none", "released", "confirmed"}
    BY <1>1 DEF HoldInv, TypeInv, RowsTyped, ResvRow, Reservation
<1>4. j.row = r /\ j.item = i /\ j.qty = q
    BY <1>1, <1>3, RowJob
<1>5. Frees("unhold", j, resv)
    BY <1>1, <1>2, <1>4 DEF Frees
<1>6. UNCHANGED resv /\ \A x \in Items : item'[x].reserved = item[x].reserved
    BY <1>1 DEF goods
<1> QED
    BY <1>1, <1>2, <1>5, <1>6, Aside

\* A new reservation counts on both sides: as backing, and as what is to be held.
LEMMA CreateKeeps ==
    ASSUME HoldInv, TypeInv', NEW p \in Requests, CreateReservation(p)
    PROVE  HoldInv'
<1>1. PICK j : j = job[p]
    OBVIOUS
<1>2. Goto(p, "hold", j) /\ pc[p] = "create" /\ UNCHANGED item
    BY <1>1 DEF CreateReservation
<1>3. /\ pc'[p] = "hold" /\ job'[p] = j /\ OnlyMoves(p, pc, pc', job, job')
      /\ JobsTyped(job) /\ JobsTyped(job') /\ RowsCount(resv) /\ RowsCount(resv')
      /\ item \in [Items -> ItemRow] /\ resv \in [Reservation -> ResvRow]
      /\ j.item \in Items /\ j.qty \in Nat
    BY <1>1, <1>2, HoldFacts
<1>4. PICK r, new :
         /\ r \in Reservation /\ new = [status |-> "active", item |-> j.item, qty |-> j.qty]
         /\ resv[r].status = "absent" /\ resv' = [resv EXCEPT ![r] = new]
    BY <1>1 DEF CreateReservation, Fresh, Reserved
<1>5. /\ resv'[r] = new /\ new.status = "active" /\ new.item = j.item /\ new.qty = j.qty
      /\ \A x \in Reservation : x # r => resv'[x] = resv[x]
    BY <1>3, <1>4
<1>6. \A x \in Reservation : Lowered(pc', job', x) <=> Lowered(pc, job, x)
    BY <1>2, <1>3 DEF Lowered, OnlyMoves
<1>7. ~Lowered(pc, job, r)
    BY <1>4 DEF Lowered, HoldInv, Frees
<1>8. ASSUME NEW i \in Items PROVE BackedAt(pc', job', resv', item', i)
    <2>1. PICK S, f, g : /\ S = Free(pc, job, resv, i)
                         /\ f = [x \in Reservation |-> resv[x].qty]
                         /\ g = [x \in Reservation |-> resv'[x].qty]
        OBVIOUS
    <2>2. IsFiniteSet(S) /\ Backing(pc, job, resv, i) \in Nat
        BY <1>3, <2>1, FreeFinite
    <2>3. r \notin S /\ \A x \in S : f[x] = g[x] /\ g[x] \in Nat
        BY <1>3, <1>4, <1>5, <2>1 DEF Free, RowsCount
    <2>4. SumFunctionOnSet(f, S) = SumFunctionOnSet(g, S)
        BY <2>2, <2>3, SumSame
    <2>5. Backing(pc, job, resv, i) = SumFunctionOnSet(f, S)
        BY <2>1 DEF Backing
    <2>6. Pending(pc', job', i) = Pending(pc, job, i) + (IF j.item = i THEN j.qty ELSE 0)
        BY <1>2, <1>3, PendingAdds
    <2>7. Pending(pc, job, i) \in Nat /\ item[i].reserved \in Int
        BY <1>3, PendingFinite DEF ItemRow
    <2>8. item[i].reserved + Pending(pc, job, i) <= Backing(pc, job, resv, i)
        BY DEF HoldInv, BackedAt
    <2>9. CASE j.item = i
        <3>1. Free(pc', job', resv', i) = S \cup {r}
            BY <1>4, <1>5, <1>6, <1>7, <2>1, <2>9 DEF Free
        <3>2. \A x \in S \cup {r} : g[x] \in Nat
            BY <1>3, <1>4, <2>1, <2>3 DEF RowsCount
        <3>3. SumFunctionOnSet(g, S \cup {r}) = g[r] + SumFunctionOnSet(g, S)
            BY <2>2, <2>3, <3>2, SumWith
        <3>4. g[r] = j.qty
            BY <1>4, <1>5, <2>1
        <3>5. Backing(pc', job', resv', i) = SumFunctionOnSet(g, S \cup {r})
            BY <2>1, <3>1 DEF Backing
        <3>6. Backing(pc', job', resv', i) = j.qty + Backing(pc, job, resv, i)
            BY <2>4, <2>5, <3>3, <3>4, <3>5
        <3> QED
            BY <1>2, <1>3, <2>2, <2>6, <2>7, <2>8, <2>9, <3>6 DEF BackedAt
    <2>10. CASE j.item # i
        <3>1. Free(pc', job', resv', i) = S
            BY <1>4, <1>5, <1>6, <2>1, <2>10 DEF Free
        <3>2. Backing(pc', job', resv', i) = Backing(pc, job, resv, i)
            BY <2>1, <2>4, <2>5, <3>1 DEF Backing
        <3> QED
            BY <1>2, <1>3, <2>2, <2>6, <2>7, <2>8, <2>10, <3>2 DEF BackedAt
    <2> QED
        BY <2>9, <2>10
<1>9. ASSUME NEW q \in Requests PROVE Frees(pc'[q], job'[q], resv')
    <2>1. CASE q = p
        BY <1>3, <2>1 DEF Frees
    <2>2. CASE q # p
        <3>1. Frees(pc[q], job[q], resv) /\ pc'[q] = pc[q] /\ job'[q] = job[q]
            BY <1>3, <2>2 DEF HoldInv, OnlyMoves
        <3> QED
            BY <1>4, <1>5, <3>1 DEF Frees
    <2> QED
        BY <2>1, <2>2
<1> QED
    BY <1>8, <1>9 DEF HoldInv

\* What was to be held is held.
LEMMA HoldKeeps ==
    ASSUME HoldInv, TypeInv', NEW p \in Requests, Hold(p)
    PROVE  HoldInv'
<1>1. PICK j, at, k : /\ j = job[p] /\ at \in {"idle", "lines"} /\ Goto(p, at, k)
    BY DEF Hold, Done, Recalculate
<1>2. /\ pc'[p] = at /\ job'[p] = k /\ OnlyMoves(p, pc, pc', job, job')
      /\ JobsTyped(job) /\ JobsTyped(job') /\ RowsCount(resv)
      /\ item \in [Items -> ItemRow] /\ j.item \in Items /\ j.qty \in Nat
    BY <1>1, HoldFacts
<1>3. pc[p] = "hold" /\ UNCHANGED resv
    BY DEF Hold
<1>4. \A i \in Items : item'[i].reserved = item[i].reserved + (IF j.item = i THEN j.qty ELSE 0)
    <2>1. PICK i, n, new : /\ i = j.item /\ n = item[i].reserved + j.qty
                           /\ new = [item[i] EXCEPT !.reserved = n]
        OBVIOUS
    <2>2. item' = [item EXCEPT ![i] = new]
        BY <1>1, <1>2, <2>1 DEF Hold, ItemRow
    <2>3. new.reserved = n /\ \A x \in Items : item[x].reserved \in Int
        BY <1>2, <2>1 DEF ItemRow
    <2> QED
        BY <1>2, <2>1, <2>2, <2>3
<1>5. \A x \in Reservation : Lowered(pc', job', x) <=> Lowered(pc, job, x)
    BY <1>1, <1>2, <1>3 DEF Lowered, OnlyMoves
<1>6. ASSUME NEW i \in Items PROVE BackedAt(pc', job', resv', item', i)
    <2>1. OnlyMoves(p, pc', pc, job', job)
        BY <1>2 DEF OnlyMoves
    <2>2. Pending(pc, job, i) = Pending(pc', job', i) + (IF j.item = i THEN j.qty ELSE 0)
        BY <1>1, <1>2, <1>3, <2>1, PendingAdds
    <2>3. Free(pc', job', resv', i) = Free(pc, job, resv, i)
        BY <1>3, <1>5 DEF Free
    <2>4. Backing(pc', job', resv', i) = Backing(pc, job, resv, i)
        BY <1>2, <1>3, <2>3, BackingSame
    <2>5. item[i].reserved + Pending(pc, job, i) <= Backing(pc, job, resv, i)
        BY DEF HoldInv, BackedAt
    <2>6. /\ Pending(pc', job', i) \in Nat /\ item[i].reserved \in Int
          /\ Backing(pc, job, resv, i) \in Nat
        BY <1>2, PendingFinite, FreeFinite DEF ItemRow
    <2> QED
        BY <1>2, <1>4, <2>2, <2>4, <2>5, <2>6 DEF BackedAt
<1>7. ASSUME NEW q \in Requests PROVE Frees(pc'[q], job'[q], resv')
    BY <1>1, <1>2, <1>3 DEF HoldInv, OnlyMoves, Frees
<1> QED
    BY <1>6, <1>7 DEF HoldInv

\* The counter is lowered by no less than the reservation that stops counting.
LEMMA UnholdKeeps ==
    ASSUME HoldInv, TypeInv', NEW p \in Requests, Unhold(p)
    PROVE  HoldInv'
<1>1. PICK j, r : j = job[p] /\ r = j.row
    OBVIOUS
<1>2. Goto(p, "unheld", j) /\ pc[p] = "unhold" /\ UNCHANGED resv
    BY <1>1 DEF Unhold
<1>3. /\ pc'[p] = "unheld" /\ job'[p] = j /\ OnlyMoves(p, pc, pc', job, job')
      /\ JobsTyped(job) /\ JobsTyped(job') /\ RowsCount(resv)
      /\ item \in [Items -> ItemRow] /\ j.item \in Items /\ j.qty \in Nat
    BY <1>1, <1>2, HoldFacts
<1>4. /\ r \in Reservation /\ resv[r].status # "absent"
      /\ j.item = resv[r].item /\ j.qty = resv[r].qty
    BY <1>1, <1>2 DEF HoldInv, Frees
<1>5. \A i \in Items : item'[i].reserved = item[i].reserved - (IF j.item = i THEN j.qty ELSE 0)
    <2>1. PICK i, n, m, mid, new :
             /\ i = j.item /\ n = item[i].reserved - j.qty
             /\ m = IF j.to = "confirmed" THEN item[i].stock - j.qty ELSE item[i].stock
             /\ mid = [item[i] EXCEPT !.reserved = n] /\ new = [mid EXCEPT !.stock = m]
        OBVIOUS
    <2>2. mid.stock = item[i].stock /\ new.reserved = n /\ \A x \in Items : item[x].reserved \in Int
        BY <1>3, <2>1 DEF ItemRow
    <2>3. item' = [item EXCEPT ![i] = new]
        BY <1>1, <1>3, <2>1, <2>2 DEF Unhold, ItemRow
    <2> QED
        BY <1>3, <2>1, <2>2, <2>3
<1>6. \A x \in Reservation : Lowered(pc', job', x) <=> (Lowered(pc, job, x) \/ x = r)
    <2>1. ASSUME NEW x \in Reservation, Lowered(pc, job, x) PROVE Lowered(pc', job', x)
        <3>1. PICK q \in Requests : pc[q] = "unheld" /\ job[q].row = x
            BY <2>1 DEF Lowered
        <3>2. pc'[q] = pc[q] /\ job'[q] = job[q]
            BY <1>2, <1>3, <3>1 DEF OnlyMoves
        <3> QED
            BY <3>1, <3>2 DEF Lowered
    <2>2. Lowered(pc', job', r)
        BY <1>1, <1>3 DEF Lowered
    <2>3. ASSUME NEW x \in Reservation, Lowered(pc', job', x), x # r PROVE Lowered(pc, job, x)
        <3>1. PICK q \in Requests : pc'[q] = "unheld" /\ job'[q].row = x
            BY <2>3 DEF Lowered
        <3>2. q # p
            BY <1>1, <1>3, <2>3, <3>1
        <3>3. pc'[q] = pc[q] /\ job'[q] = job[q]
            BY <1>3, <3>2 DEF OnlyMoves
        <3> QED
            BY <3>1, <3>3 DEF Lowered
    <2> QED
        BY <2>1, <2>2, <2>3
<1>7. ASSUME NEW i \in Items PROVE BackedAt(pc', job', resv', item', i)
    <2>1. Pending(pc', job', i) = Pending(pc, job, i)
        BY <1>2, <1>3, PendingSame
    <2>2. PICK S, f : S = Free(pc, job, resv, i) /\ f = [x \in Reservation |-> resv[x].qty]
        OBVIOUS
    <2>3. IsFiniteSet(S) /\ Backing(pc, job, resv, i) \in Nat
        BY <1>3, <2>2, FreeFinite
    <2>4. Backing(pc, job, resv, i) = SumFunctionOnSet(f, S) /\ \A x \in S : f[x] \in Nat
        BY <1>3, <2>2 DEF Backing, Free, RowsCount
    <2>5. Free(pc', job', resv', i) = S \ {r}
        BY <1>2, <1>6, <2>2 DEF Free
    <2>6. Backing(pc', job', resv', i) = SumFunctionOnSet(f, S \ {r})
        BY <1>2, <2>2, <2>5 DEF Backing
    <2>7. Backing(pc', job', resv', i) \in Nat
        BY <1>2, <1>3, FreeFinite
    <2>8. item[i].reserved + Pending(pc, job, i) <= Backing(pc, job, resv, i)
        BY DEF HoldInv, BackedAt
    <2>9. Pending(pc, job, i) \in Nat /\ item[i].reserved \in Int
        BY <1>3, PendingFinite DEF ItemRow
    <2>10. CASE r \in S
        <3>1. j.item = i /\ f[r] = j.qty
            BY <1>4, <2>2, <2>10 DEF Free
        <3>2. SumFunctionOnSet(f, S) = f[r] + SumFunctionOnSet(f, S \ {r})
            BY <2>3, <2>4, <2>10, SumWithout
        <3> QED
            BY <1>3, <1>5, <2>1, <2>3, <2>4, <2>6, <2>7, <2>8, <2>9, <3>1, <3>2 DEF BackedAt
    <2>11. CASE r \notin S
        <3>1. S \ {r} = S
            BY <2>11
        <3>2. Backing(pc', job', resv', i) = Backing(pc, job, resv, i)
            BY <2>4, <2>6, <3>1
        <3>3. item'[i].reserved <= item[i].reserved /\ item'[i].reserved \in Int
            BY <1>3, <1>5, <2>9
        <3> QED
            BY <2>1, <2>3, <2>8, <2>9, <3>2, <3>3 DEF BackedAt
    <2> QED
        BY <2>10, <2>11
<1>8. ASSUME NEW q \in Requests PROVE Frees(pc'[q], job'[q], resv')
    <2>1. CASE q = p
        BY <1>1, <1>2, <1>3, <1>4, <2>1 DEF Frees
    <2>2. CASE q # p
        BY <1>2, <1>3, <2>2 DEF HoldInv, OnlyMoves
    <2> QED
        BY <2>1, <2>2
<1> QED
    BY <1>7, <1>8 DEF HoldInv

\* The reservation a request marks had stopped counting when the counter fell.
LEMMA MarkKeeps ==
    ASSUME HoldInv, TypeInv', NEW p \in Requests, MarkReservation(p)
    PROVE  HoldInv'
<1>1. PICK j, r, to : j = job[p] /\ r = j.row /\ to = j.to
    OBVIOUS
<1>2. Goto(p, "idle", NoJob) /\ pc[p] = "unheld" /\ UNCHANGED item
    BY <1>1 DEF MarkReservation, Done
<1>3. /\ pc'[p] = "idle" /\ OnlyMoves(p, pc, pc', job, job')
      /\ JobsTyped(job) /\ JobsTyped(job') /\ RowsCount(resv)
      /\ item \in [Items -> ItemRow] /\ resv \in [Reservation -> ResvRow]
    BY <1>1, <1>2, HoldFacts
<1>4. r \in Reservation /\ to \in {"released", "confirmed"}
    BY <1>1, <1>2 DEF HoldInv, Frees, TypeInv, Writes
<1>5. /\ resv'[r].status = to /\ resv'[r].item = resv[r].item /\ resv'[r].qty = resv[r].qty
      /\ \A x \in Reservation : x # r => resv'[x] = resv[x]
    <2>1. PICK new : new = [resv[r] EXCEPT !.status = to]
        OBVIOUS
    <2>2. resv' = [resv EXCEPT ![r] = new]
        BY <1>1, <1>3, <2>1 DEF MarkReservation
    <2>3. new.status = to /\ new.item = resv[r].item /\ new.qty = resv[r].qty
        BY <1>3, <1>4, <2>1 DEF ResvRow
    <2> QED
        BY <1>3, <1>4, <2>2, <2>3
<1>6. Lowered(pc, job, r)
    BY <1>1, <1>2 DEF Lowered
<1>7. \A x \in Reservation : x # r => (Lowered(pc', job', x) <=> Lowered(pc, job, x))
    <2>1. ASSUME NEW x \in Reservation, x # r, Lowered(pc, job, x) PROVE Lowered(pc', job', x)
        <3>1. PICK q \in Requests : pc[q] = "unheld" /\ job[q].row = x
            BY <2>1 DEF Lowered
        <3>2. q # p
            BY <1>1, <2>1, <3>1
        <3> QED
            BY <1>3, <3>1, <3>2 DEF Lowered, OnlyMoves
    <2>2. ASSUME NEW x \in Reservation, Lowered(pc', job', x) PROVE Lowered(pc, job, x)
        <3>1. PICK q \in Requests : pc'[q] = "unheld" /\ job'[q].row = x
            BY <2>2 DEF Lowered
        <3>2. q # p
            BY <1>3, <3>1
        <3> QED
            BY <1>3, <3>1, <3>2 DEF Lowered, OnlyMoves
    <2> QED
        BY <2>1, <2>2
<1>8. ASSUME NEW i \in Items PROVE BackedAt(pc', job', resv', item', i)
    <2>1. Pending(pc', job', i) = Pending(pc, job, i)
        BY <1>2, <1>3, PendingSame
    <2>2. Free(pc', job', resv', i) = Free(pc, job, resv, i)
        BY <1>4, <1>5, <1>6, <1>7 DEF Free
    <2>3. \A x \in Reservation : resv'[x].qty = resv[x].qty
        BY <1>5
    <2>4. Backing(pc', job', resv', i) = Backing(pc, job, resv, i)
        BY <1>3, <2>2, <2>3, BackingSame
    <2> QED
        BY <1>2, <2>1, <2>4 DEF HoldInv, BackedAt
<1>9. ASSUME NEW q \in Requests PROVE Frees(pc'[q], job'[q], resv')
    <2>1. CASE q = p
        BY <1>3, <2>1 DEF Frees
    <2>2. CASE q # p
        <3>1. Frees(pc[q], job[q], resv) /\ pc'[q] = pc[q] /\ job'[q] = job[q]
            BY <1>3, <2>2 DEF HoldInv, OnlyMoves
        <3> QED
            BY <1>4, <1>5, <3>1 DEF Frees
    <2> QED
        BY <2>1, <2>2
<1> QED
    BY <1>8, <1>9 DEF HoldInv

LEMMA HoldInit == Init => HoldInv
<1> SUFFICES ASSUME Init PROVE HoldInv
    OBVIOUS
<1>1. \A q \in Requests : Frees(pc[q], job[q], resv)
    BY DEF Init, Frees
<1>2. ASSUME NEW i \in Items PROVE BackedAt(pc, job, resv, item, i)
    <2>1. Holders(pc, job, i) = {} /\ Free(pc, job, resv, i) = {}
        BY DEF Init, Holders, Free
    <2>2. Pending(pc, job, i) = 0 /\ Backing(pc, job, resv, i) = 0
        BY <2>1, SumTakes, FS_EmptySet DEF Pending, Backing
    <2>3. item[i].reserved = 0
        BY DEF Init
    <2> QED
        BY <2>2, <2>3 DEF BackedAt
<1> QED
    BY <1>1, <1>2, TypeInit DEF HoldInv

LEMMA HoldStep == HoldInv /\ [Next]_vars => HoldInv'
<1> SUFFICES ASSUME HoldInv, [Next]_vars PROVE HoldInv'
    OBVIOUS
<1>0. TypeInv /\ TypeInv'
    BY TypeStep DEF HoldInv
<1>1. CASE UNCHANGED vars
    BY <1>0, <1>1 DEF HoldInv, BackedAt, vars, goods
<1>2. ASSUME NEW p \in Requests, Stock(p) PROVE HoldInv'
    BY <1>0, <1>2, StockAside, AsideKeeps, AskKeeps, CreateKeeps, HoldKeeps, UnholdKeeps,
       MarkKeeps DEF Stock
<1>3. ASSUME NEW p \in Requests, Basket(p) \/ Sale(p) \/ Full(p) PROVE HoldInv'
    BY <1>0, <1>3, BasketAside, AsideKeeps
<1> QED
    BY <1>1, <1>2, <1>3 DEF Next

LEMMA HoldBacks == HoldInv => ReservedIsBacked
<1> SUFFICES ASSUME HoldInv, NEW i \in Items
             PROVE  item[i].reserved <= SumFunctionOnSet([r \in Reservation |-> resv[r].qty],
                       {r \in Reservation : resv[r].status = "active" /\ resv[r].item = i})
    BY DEF ReservedIsBacked
<1>1. PICK S, f : /\ f = [r \in Reservation |-> resv[r].qty]
                  /\ S = {r \in Reservation : resv[r].status = "active" /\ resv[r].item = i}
    OBVIOUS
<1>2. RowsCount(resv) /\ JobsTyped(job) /\ item \in [Items -> ItemRow]
    BY JobFields DEF HoldInv, TypeInv, RowsTyped, ResvRow, RowsCount, JobsTyped
<1>3. IsFiniteSet(S)
    <2>1. IsFiniteSet(Reservation)
        BY ShopAssumption, FS_Interval DEF Reservation
    <2>2. S \subseteq Reservation
        BY <1>1
    <2> QED
        BY <2>1, <2>2, FS_Subset
<1>4. \A r \in S : f[r] \in Nat
    BY <1>1, <1>2 DEF RowsCount
<1>5. Free(pc, job, resv, i) \in SUBSET S
    BY <1>1 DEF Free
<1>6. Backing(pc, job, resv, i) <= SumFunctionOnSet(f, S)
    BY <1>1, <1>3, <1>4, <1>5, SumAtMost DEF Backing
<1>7. item[i].reserved + Pending(pc, job, i) <= Backing(pc, job, resv, i)
    BY DEF HoldInv, BackedAt
<1>8. /\ Pending(pc, job, i) \in Nat /\ Backing(pc, job, resv, i) \in Nat
      /\ item[i].reserved \in Int /\ SumFunctionOnSet(f, S) \in Nat
    BY <1>2, <1>3, <1>4, PendingFinite, FreeFinite, SumType DEF ItemRow
<1>9. item[i].reserved <= SumFunctionOnSet(f, S)
    BY <1>6, <1>7, <1>8
<1> QED
    BY <1>1, <1>9

\* Stock is never held that no active reservation accounts for.
THEOREM HeldIsBacked == Spec => []ReservedIsBacked
BY HoldInit, HoldStep, HoldBacks, PTL DEF Spec

LEMMA ModeStays == [Next]_vars => UNCHANGED mode
<1> SUFFICES ASSUME [Next]_vars PROVE UNCHANGED mode
    OBVIOUS
<1>1. CASE UNCHANGED vars
    BY <1>1 DEF vars
<1>2. ASSUME NEW p \in Requests, Stock(p) PROVE UNCHANGED mode
    BY <1>2 DEF Stock, ReserveInventory, AdjustStock, UpdateProduct, ReleaseReservation,
       ConfirmReservation, CheckStock, CreateReservation, Hold, Unhold, MarkReservation, SetStock
<1>3. ASSUME NEW p \in Requests, Basket(p) PROVE UNCHANGED mode
    BY <1>3 DEF Basket, FindCart, CreateCart, AddToCart, ApplyCoupon, RemoveCoupon,
       UpdateCartItem, FindLine, StoreLine, ChangeLine, SetCoupon, EditCoupon, ReadLines,
       ReadCoupon, WriteTotals
<1>4. ASSUME NEW p \in Requests, Sale(p) PROVE UNCHANGED mode
    BY <1>4 DEF Sale, Checkout, CreateOrder, CloseCart, CountCoupon, UpdateOrderStatus,
       SetOrderStatus
<1>5. ASSUME NEW p \in Requests, Full(p) PROVE UNCHANGED mode
    BY <1>5 DEF Full
<1> QED
    BY <1>1, <1>2, <1>3, <1>4, <1>5 DEF Next

-----------------------------------------------------------------------------
(* Totals, of requests that do not overlap.                                *)

SumOf(rows, c) ==
    SumFunctionOnSet([l \in Line |-> rows[l].total],
                     {l \in Line : rows[l].cart = c /\ rows[l].here})

\* A cart whose totals are those of its items and of its coupon, unless that was
\* edited since.
Fits(c) ==
    /\ cart[c].subtotal = SumOf(line, c)
    /\ ~cart[c].stale =>
          cart[c].total = IF cart[c].code /\ coupon.active
                          THEN Discounted(SumOf(line, c), coupon.terms) ELSE SumOf(line, c)

\* What a request at work knows when nothing else runs.
AloneLoc == Loc \ {"unhold", "unheld", "adjust", "status"}
Dirty == {"reserve", "create", "hold", "lines", "coupon", "totals"}
Task(at, j) ==
    /\ at \in AloneLoc
    /\ at \in {"line", "store", "reserve"} => Available(j.item) >= j.qty
    /\ at = "line" => j.row = 0
    /\ at = "store" /\ j.row # 0 => j.row \in Line /\ line[j.row].cart = j.cart
    /\ at = "change" => j.row \in Line /\ line[j.row].cart = j.cart
    /\ at \in {"coupon", "totals"} => j.sum = SumOf(line, j.cart)
    /\ at = "totals" /\ j.cart \in Cart =>
          j.code = (cart[j.cart].code /\ coupon.active) /\ j.terms = coupon.terms
    /\ at = "order" => j.sum = j.lines

OneAtWork == \A p, q \in Requests : pc[p] # "idle" /\ pc[q] # "idle" => p = q
OrdersAddUp == \A o \in Order : order[o].status # "absent" => order[o].subtotal = order[o].lines
AloneInv ==
    mode = "alone" =>
        /\ OneAtWork /\ OrdersAddUp
        /\ \A q \in Requests : Task(pc[q], job[q])
        /\ \A c \in Cart : Fits(c) \/ \E q \in Requests : pc[q] \in Dirty /\ job[q].cart = c
TotalInv == TypeInv /\ AloneInv

LEMMA SumOfLines == ASSUME NEW c PROVE LinesTotal(c) = SumOf(line, c)
BY DEF LinesTotal, Lines, SumOf

\* The lines of another cart change no sum.
LEMMA SumOfSame ==
    ASSUME NEW m, NEW n, NEW c,
           \A l \in Line : \/ n[l] = m[l]
                           \/ m[l].cart # c /\ n[l].cart # c
    PROVE  SumOf(n, c) = SumOf(m, c)
<1>1. PICK S, f, g : /\ S = {l \in Line : m[l].cart = c /\ m[l].here}
                     /\ f = [l \in Line |-> m[l].total] /\ g = [l \in Line |-> n[l].total]
    OBVIOUS
<1>2. {l \in Line : n[l].cart = c /\ n[l].here} = S
    BY <1>1
<1>3. IsFiniteSet(S)
    <2>1. MaxLines \in Int /\ 1 \in Int
        BY ShopAssumption
    <2>2. IsFiniteSet(Line)
        BY <2>1, FS_Interval DEF Line
    <2>3. S \subseteq Line
        BY <1>1
    <2> QED
        BY <2>2, <2>3, FS_Subset
<1>4. \A l \in S : f[l] = g[l]
    BY <1>1
<1>5. SumFunctionOnSet(f, S) = SumFunctionOnSet(g, S)
    BY <1>3, <1>4, SumSame
<1> QED
    BY <1>1, <1>2, <1>5 DEF SumOf

\* The one request at work moves.
LEMMA AloneMoves ==
    ASSUME TypeInv, TypeInv', AloneInv, mode = "alone", NEW p \in Requests, NEW loc, NEW j,
           Goto(p, loc, j), \A q \in Requests : q # p => pc[q] = "idle",
           Task(loc, j)', OrdersAddUp',
           \A c \in Cart : Fits(c)' \/ (loc \in Dirty /\ j.cart = c)
    PROVE  AloneInv'
<1>1. /\ pc' = [pc EXCEPT ![p] = loc] /\ job' = [job EXCEPT ![p] = j]
      /\ pc \in [Requests -> Loc] /\ job \in [Requests -> Job]
    BY DEF Goto, TypeInv
<1>2. pc'[p] = loc /\ job'[p] = j /\ \A q \in Requests : q # p => pc'[q] = "idle"
    BY <1>1
<1>3. OneAtWork'
    BY <1>2 DEF OneAtWork
<1>4. ASSUME NEW q \in Requests PROVE Task(pc[q], job[q])'
    <2>1. CASE q = p
        <3>1. pc'[q] = loc /\ job'[q] = j
            BY <1>2, <2>1
        <3> QED
            BY <3>1, Zenon DEF Task
    <2>2. CASE q # p
        BY <1>2, <2>2 DEF Task, AloneLoc, Loc
    <2> QED
        BY <2>1, <2>2
<1>5. ASSUME NEW c \in Cart
      PROVE  Fits(c)' \/ \E q \in Requests : pc'[q] \in Dirty /\ job'[q].cart = c
    BY <1>2
<1> QED
    BY <1>3, <1>4, <1>5 DEF AloneInv

\* The request at work, or about to begin, is the only one.
LEMMA AloneFacts ==
    ASSUME TypeInv, AloneInv, mode = "alone", NEW p \in Requests
    PROVE  /\ pc[p] # "idle" => \A q \in Requests : q # p => pc[q] = "idle"
           /\ Task(pc[p], job[p]) /\ OrdersAddUp
           /\ \A c \in Cart : \/ Fits(c)
                              \/ \E q \in Requests : pc[q] \in Dirty /\ job[q].cart = c
           /\ (\A q \in Requests : q # p => pc[q] = "idle") =>
                 \A c \in Cart : Fits(c) \/ (pc[p] \in Dirty /\ job[p].cart = c)
BY DEF AloneInv, OneAtWork, Dirty

LEMMA AloneReady ==
    ASSUME mode = "alone", NEW p \in Requests, NEW family, Ready(p, family)
    PROVE  family \in {"add", "cart", "sale"} /\ \A q \in Requests : pc[q] = "idle"
BY DEF Ready, Together, Apart, Quiet

\* A step that reads, or begins, leaves every sum as it is.
LEMMA AloneReads ==
    ASSUME TypeInv, TypeInv', AloneInv, mode = "alone", NEW p \in Requests, NEW loc, NEW j,
           Goto(p, loc, j), \A q \in Requests : q # p => pc[q] = "idle",
           UNCHANGED <<mode, goods, basket, coupon, order>>, Task(loc, j),
           pc[p] \in Dirty => loc \in Dirty /\ j.cart = job[p].cart
    PROVE  AloneInv'
<1>1. Task(loc, j)'
    BY Zenon DEF Task, Available, goods, basket
<1>2. OrdersAddUp'
    BY AloneFacts DEF OrdersAddUp
<1>3. ASSUME NEW c \in Cart PROVE Fits(c)' \/ (loc \in Dirty /\ j.cart = c)
    <2>1. Fits(c) \/ (pc[p] \in Dirty /\ job[p].cart = c)
        BY AloneFacts
    <2>2. Fits(c) => Fits(c)'
        BY DEF Fits, basket
    <2> QED
        BY <2>1, <2>2
<1> QED
    BY <1>1, <1>2, <1>3, AloneMoves

LEMMA AloneAsks ==
    ASSUME TypeInv, TypeInv', AloneInv, mode = "alone", NEW p \in Requests,
           \/ FindCart(p)
           \/ \E c \in Cart : \/ \E i \in Items, q \in Quantities : AddToCart(p, c, i, q)
                              \/ ApplyCoupon(p, c)
                              \/ Checkout(p, c)
           \/ \E l \in Line, q \in Quantities \cup {0} : UpdateCartItem(p, l, q)
    PROVE  AloneInv'
<1>0. RowsTyped /\ Quantities \subseteq Nat
    BY ShopAssumption DEF TypeInv
<1>1. ASSUME NEW f, Ready(p, f), NEW loc, NEW j, Goto(p, loc, j), Task(loc, j),
             UNCHANGED <<mode, goods, basket, coupon, order>>
      PROVE  AloneInv'
    <2>1. pc[p] \notin Dirty /\ \A q \in Requests : q # p => pc[q] = "idle"
        BY <1>1, AloneReady DEF Dirty
    <2> QED
        BY <1>1, <2>1, AloneReads
<1>2. CASE FindCart(p)
    <2>1. Task("cart", NoJob)
        BY DEF Task, AloneLoc, Loc
    <2> QED
        BY <1>1, <1>2, <2>1 DEF FindCart
<1>3. ASSUME NEW c \in Cart, NEW i \in Items, NEW q \in Quantities, AddToCart(p, c, i, q)
      PROVE  AloneInv'
    <2>1. PICK v, a, j :
             /\ v = item[i].price /\ a = Available(i) /\ j = Adding(c, i, q, v, a)
             /\ Goto(p, "line", j) /\ UNCHANGED <<mode, goods, basket, coupon, order>>
        BY <1>3 DEF AddToCart, Adding
    <2>2. v \in Nat /\ a \in Int /\ q \in Nat
        BY <1>0, <2>1 DEF RowsTyped, ItemRow, Available
    <2>3. j.item = i /\ j.qty = q /\ j.row = 0
        BY <2>1, <2>2, AddJob
    <2>4. Available(i) >= q /\ Ready(p, "add")
        BY <1>3 DEF AddToCart
    <2>5. Task("line", j)
        BY <2>3, <2>4 DEF Task, AloneLoc, Loc
    <2> QED
        BY <1>1, <2>1, <2>4, <2>5
<1>4. ASSUME NEW c \in Cart, ApplyCoupon(p, c) PROVE AloneInv'
    <2>1. \A j : Task("apply", j)
        BY DEF Task, AloneLoc, Loc
    <2> QED
        BY <1>1, <1>4, <2>1 DEF ApplyCoupon
<1>5. ASSUME NEW c \in Cart, Checkout(p, c) PROVE AloneInv'
    <2>1. PICK b, m, t, k, j :
             /\ b = cart[c].code /\ m = cart[c].subtotal /\ t = cart[c].total /\ k = LinesTotal(c)
             /\ j = Buying(c, b, m, t, k)
             /\ Goto(p, "order", j) /\ UNCHANGED <<mode, goods, basket, coupon, order>>
        BY <1>5 DEF Checkout, Buying
    <2>2. b \in BOOLEAN /\ m \in Nat /\ t \in Nat /\ k \in Nat
        BY <1>0, <2>1, LinesTotalType DEF RowsTyped, CartRow
    <2>3. j.sum = m /\ j.lines = k
        BY <2>1, <2>2, CheckoutJob
    <2>4. Ready(p, "sale")
        BY <1>5 DEF Checkout
    <2>5. Fits(c)
        BY <2>4, AloneReady, AloneFacts DEF Dirty
    <2>6. m = k
        BY <2>1, <2>5, SumOfLines DEF Fits
    <2>7. Task("order", j)
        BY <2>3, <2>6 DEF Task, AloneLoc, Loc
    <2> QED
        BY <1>1, <2>1, <2>4, <2>7
<1>6. ASSUME NEW l \in Line, NEW q \in Quantities \cup {0}, UpdateCartItem(p, l, q)
      PROVE  AloneInv'
    <2>1. PICK c, v, j :
             /\ c = line[l].cart /\ v = line[l].price /\ j = Changing(c, l, q, v)
             /\ Goto(p, "change", j) /\ UNCHANGED <<mode, goods, basket, coupon, order>>
        BY <1>6 DEF UpdateCartItem, Changing
    <2>2. c \in Cart \cup {0} /\ v \in Nat /\ q \in Nat /\ l \in Nat
        BY <1>0, <2>1 DEF RowsTyped, LineRow, Line
    <2>3. j \in Job /\ j.cart = c /\ j.row = l
        <3>1. PICK n : n = l
            OBVIOUS
        <3>2. j = Changing(c, n, q, v) /\ n \in Nat
            BY <2>1, <2>2, <3>1
        <3>3. j \in Job /\ j.cart = c /\ j.row = n
            BY <2>2, <3>2, ChangeJob, Z3
        <3> QED
            BY <3>1, <3>3
    <2>4. Task("change", j) /\ Ready(p, "cart")
        BY <1>6, <2>1, <2>3 DEF Task, AloneLoc, Loc, UpdateCartItem
    <2> QED
        BY <1>1, <2>1, <2>4
<1> QED
    BY <1>2, <1>3, <1>4, <1>5, <1>6

\* Changes made while nothing is at work: of a product, of the coupon.
LEMMA AloneChanges ==
    ASSUME TypeInv, TypeInv', AloneInv, mode = "alone", NEW p \in Requests,
           \/ \E i \in Items, v \in Prices, n \in 0 .. MaxStock : UpdateProduct(p, i, v, n)
           \/ \E t \in Terms, a \in BOOLEAN : EditCoupon(p, t, a)
    PROVE  AloneInv'
<1>1. \A q \in Requests : pc[q] = "idle"
    BY AloneReady DEF UpdateProduct, EditCoupon
<1>2. UNCHANGED <<pc, job, line, order>>
    BY DEF UpdateProduct, EditCoupon, basket
<1>3. OneAtWork' /\ OrdersAddUp'
    BY <1>1, <1>2, AloneFacts DEF OneAtWork, OrdersAddUp
<1>4. ASSUME NEW q \in Requests PROVE Task(pc[q], job[q])'
    BY <1>1, <1>2 DEF Task, AloneLoc, Loc
<1>5. ASSUME NEW c \in Cart PROVE Fits(c)'
    <2>1. Fits(c)
        BY <1>1, AloneFacts DEF Dirty
    <2>2. CASE UNCHANGED <<cart, coupon>>
        BY <1>2, <2>1, <2>2 DEF Fits
    <2>3. ASSUME NEW t \in Terms, NEW a \in BOOLEAN, EditCoupon(p, t, a) PROVE Fits(c)'
        <3>1. PICK b, new : /\ b = (cart[c].stale \/ cart[c].code)
                            /\ new = [cart[c] EXCEPT !.stale = b]
            OBVIOUS
        <3>2. cart'[c] = new /\ cart[c] \in CartRow
            BY <2>3, <3>1 DEF EditCoupon, TypeInv, RowsTyped
        <3>3. /\ new.subtotal = cart[c].subtotal /\ new.total = cart[c].total
              /\ new.code = cart[c].code /\ new.stale = b
            BY <3>1, <3>2 DEF CartRow
        <3> QED
            BY <1>2, <2>1, <3>1, <3>2, <3>3 DEF Fits
    <2> QED
        BY <2>2, <2>3 DEF UpdateProduct, basket
<1> QED
    BY <1>3, <1>4, <1>5 DEF AloneInv

\* The steps of a request that read.
LEMMA AloneLooks ==
    ASSUME TypeInv, TypeInv', AloneInv, mode = "alone", NEW p \in Requests,
           FindLine(p) \/ ReadLines(p) \/ ReadCoupon(p) \/ CheckStock(p)
    PROVE  AloneInv'
<1>0. RowsTyped /\ job[p] \in Job
    BY DEF TypeInv
<1>1. PICK j : j = job[p]
    OBVIOUS
<1>2. j \in Job /\ j.item \in Items /\ j.qty \in Nat /\ j.row \in Nat
    BY <1>0, <1>1, JobFields
<1>3. pc[p] # "idle" /\ UNCHANGED <<mode, goods, basket, coupon, order>>
    BY DEF FindLine, ReadLines, ReadCoupon, CheckStock
<1>4. Task(pc[p], j) /\ \A q \in Requests : q # p => pc[q] = "idle"
    BY <1>1, <1>3, AloneFacts
<1>5. ASSUME NEW loc, NEW k, Goto(p, loc, k), Task(loc, k),
             pc[p] \in Dirty => loc \in Dirty /\ k.cart = j.cart
      PROVE  AloneInv'
    BY <1>1, <1>3, <1>4, <1>5, AloneReads
<1>6. CASE FindLine(p)
    <2>1. pc[p] = "line" /\ pc[p] \notin Dirty
        BY <1>6 DEF FindLine, Dirty
    <2>2. Available(j.item) >= j.qty
        BY <1>4, <2>1 DEF Task
    <2>3. \/ Done(p)
          \/ Goto(p, "store", [j EXCEPT !.total = j.qty])
          \/ \E l \in Line : /\ line[l].cart = j.cart
                             /\ Goto(p, "store", [j EXCEPT !.row = l, !.total = line[l].qty + j.qty])
        BY <1>1, <1>6 DEF FindLine, Lines
    <2>4. Task("idle", NoJob)
        BY DEF Task, AloneLoc, Loc
    <2>5. CASE Goto(p, "store", [j EXCEPT !.total = j.qty])
        <3>1. PICK m, k : m = j.qty /\ k = [j EXCEPT !.total = m]
            OBVIOUS
        <3>2. k.row = j.row /\ k.cart = j.cart /\ k.item = j.item /\ k.qty = j.qty
            BY <1>2, <3>1, NewJob
        <3>3. j.row = 0
            BY <1>4, <2>1 DEF Task
        <3>4. Task("store", k)
            BY <2>2, <3>2, <3>3 DEF Task, AloneLoc, Loc
        <3> QED
            BY <1>5, <2>1, <2>5, <3>1, <3>4
    <2>6. ASSUME NEW l \in Line, line[l].cart = j.cart,
                 Goto(p, "store", [j EXCEPT !.row = l, !.total = line[l].qty + j.qty])
          PROVE  AloneInv'
        <3>1. PICK m, k : m = line[l].qty + j.qty /\ k = [j EXCEPT !.row = l, !.total = m]
            OBVIOUS
        <3>2. m \in Nat /\ l \in Nat
            BY <1>0, <1>2, <3>1 DEF RowsTyped, LineRow, Line
        <3>3. k \in Job /\ k.row = l /\ k.cart = j.cart /\ k.item = j.item /\ k.qty = j.qty
            <4>1. PICK n : n = l
                OBVIOUS
            <4>2. k = [j EXCEPT !.row = n, !.total = m] /\ n \in Nat
                BY <3>1, <3>2, <4>1
            <4>3. k \in Job /\ k.row = n /\ k.cart = j.cart /\ k.item = j.item /\ k.qty = j.qty
                BY <1>2, <3>2, <4>2 DEF Job
            <4> QED
                BY <4>1, <4>3
        <3>4. Task("store", k)
            BY <2>2, <2>6, <3>3 DEF Task, AloneLoc, Loc
        <3> QED
            BY <1>5, <2>1, <2>6, <3>1, <3>4
    <2> QED
        BY <1>5, <2>1, <2>3, <2>4, <2>5, <2>6 DEF Done
<1>7. CASE ReadLines(p)
    <2>1. PICK n, k : n = LinesTotal(j.cart) /\ k = [j EXCEPT !.sum = n]
        OBVIOUS
    <2>2. k.sum = n /\ k.cart = j.cart
        BY <1>0, <1>2, <2>1, LinesTotalType, SumJob
    <2>3. Goto(p, "coupon", k)
        BY <1>1, <1>7, <2>1 DEF ReadLines
    <2>4. n = SumOf(line, j.cart)
        BY <2>1, SumOfLines
    <2>5. Task("coupon", k) /\ "coupon" \in Dirty
        BY <2>2, <2>4 DEF Task, AloneLoc, Loc, Dirty
    <2> QED
        BY <1>5, <2>2, <2>3, <2>5
<1>8. CASE ReadCoupon(p)
    <2>0. PICK b, t : b = (cart[j.cart].code /\ coupon.active) /\ t = coupon.terms
        OBVIOUS
    <2>1. PICK k : k = Known(j, b, t)
        OBVIOUS
    <2>2. b \in BOOLEAN /\ t \in Terms
        BY <1>0, <2>0 DEF RowsTyped, CouponRow
    <2>3. k.sum = j.sum /\ k.cart = j.cart
        BY <1>2, <2>1, <2>2, CodeJob
    <2>4. k.code = b /\ k.terms = t
        BY <1>2, <2>1, <2>2, CodeJob
    <2>5. Goto(p, "totals", k)
        BY <1>1, <1>8, <2>0, <2>1, Zenon DEF ReadCoupon, Known
    <2>6. j.sum = SumOf(line, j.cart)
        BY <1>4, <1>8 DEF Task, ReadCoupon
    <2>7. k.code = (cart[k.cart].code /\ coupon.active) /\ k.terms = coupon.terms
        BY <2>0, <2>3, <2>4
    <2>8. Task("totals", k) /\ "totals" \in Dirty
        BY <2>3, <2>6, <2>7, Zenon DEF Task, AloneLoc, Loc, Dirty
    <2> QED
        BY <1>5, <2>3, <2>5, <2>8
<1>9. CASE CheckStock(p)
    <2>1. pc[p] = "reserve"
        BY <1>9 DEF CheckStock
    <2>2. Available(j.item) >= j.qty
        BY <1>4, <2>1 DEF Task
    <2>3. Goto(p, "create", j)
        BY <1>1, <1>9, <2>2 DEF CheckStock
    <2>4. Task("create", j) /\ "create" \in Dirty
        BY DEF Task, AloneLoc, Loc, Dirty
    <2> QED
        BY <1>5, <2>3, <2>4
<1> QED
    BY <1>6, <1>7, <1>8, <1>9

LEMMA TaskFree ==
    ASSUME NEW at \in {"idle", "cart", "create", "hold", "apply", "lines", "close", "count"}, NEW j
    PROVE  Task(at, j) /\ Task(at, j)'
BY DEF Task, AloneLoc, Loc

\* What the totals of a cart are compared with stays.
LEMMA FitsSame ==
    ASSUME NEW c, Fits(c), SumOf(line', c) = SumOf(line, c),
           coupon'.active = coupon.active, coupon'.terms = coupon.terms,
           /\ cart'[c].subtotal = cart[c].subtotal /\ cart'[c].total = cart[c].total
           /\ cart'[c].code = cart[c].code /\ cart'[c].stale = cart[c].stale
    PROVE  Fits(c)'
BY DEF Fits

\* The facts the writing steps start from.
LEMMA AloneAt ==
    ASSUME TypeInv, AloneInv, mode = "alone", NEW p \in Requests, pc[p] # "idle"
    PROVE  /\ RowsTyped /\ job[p] \in Job /\ Task(pc[p], job[p]) /\ OrdersAddUp
           /\ \A q \in Requests : q # p => pc[q] = "idle"
           /\ \A c \in Cart : Fits(c) \/ (pc[p] \in Dirty /\ job[p].cart = c)
<1>1. RowsTyped /\ job[p] \in Job
    BY DEF TypeInv
<1> QED
    BY <1>1, AloneFacts

\* The steps that lead back to recalculateCart, or to the end.
LEMMA RecalculatesTo ==
    ASSUME TypeInv, NEW p \in Requests, Recalculate(p)
    PROVE  \E j : Goto(p, "lines", j) /\ j.cart = job[p].cart
<1>1. job[p].cart \in Cart \cup {0}
    BY JobFields DEF TypeInv
<1>2. PICK c, j : c = job[p].cart /\ j = [NoJob EXCEPT !.cart = c]
    OBVIOUS
<1>3. j.cart = c
    BY <1>1, <1>2, CartJob
<1>4. Goto(p, "lines", j)
    BY <1>2 DEF Recalculate
<1> QED
    BY <1>2, <1>3, <1>4

\* Stock steps write no basket: the cart of the request stays to be refreshed.
LEMMA AloneStock ==
    ASSUME TypeInv, TypeInv', AloneInv, mode = "alone", NEW p \in Requests,
           CreateReservation(p) \/ Hold(p)
    PROVE  AloneInv'
<1>1. pc[p] \in {"create", "hold"} /\ UNCHANGED <<mode, basket, coupon, order>>
    BY DEF CreateReservation, Hold
<1>2. /\ OrdersAddUp /\ (\A q \in Requests : q # p => pc[q] = "idle")
      /\ \A c \in Cart : Fits(c) \/ (pc[p] \in Dirty /\ job[p].cart = c)
    BY <1>1, AloneAt
<1>3. OrdersAddUp' /\ \A c \in Cart : Fits(c) => Fits(c)'
    BY <1>1, <1>2 DEF OrdersAddUp, Fits, basket
<1>4. ASSUME NEW at \in {"idle", "hold", "lines"}, NEW j, Goto(p, at, j),
             at = "idle" => job[p].cart = 0, at # "idle" => j.cart = job[p].cart
      PROVE  AloneInv'
    <2>1. Task(at, j)'
        BY TaskFree
    <2>2. \A c \in Cart : Fits(c)' \/ (at \in Dirty /\ j.cart = c)
        BY <1>2, <1>3, <1>4 DEF Dirty, Cart
    <2> QED
        BY <1>2, <1>3, <1>4, <2>1, <2>2, AloneMoves
<1>5. CASE CreateReservation(p)
    BY <1>4, <1>5 DEF CreateReservation
<1>6. CASE Hold(p)
    <2>1. CASE job[p].cart = 0
        BY <1>4, <1>6, <2>1 DEF Hold, Done
    <2>2. CASE job[p].cart # 0
        <3>1. PICK j : Goto(p, "lines", j) /\ j.cart = job[p].cart
            BY <1>6, <2>2, RecalculatesTo DEF Hold
        <3> QED
            BY <1>4, <3>1
    <2> QED
        BY <2>1, <2>2
<1> QED
    BY <1>5, <1>6

\* Carts that are made or closed, and uses that are counted, keep every total.
LEMMA AloneKeepsTotals ==
    ASSUME TypeInv, TypeInv', AloneInv, mode = "alone", NEW p \in Requests,
           CreateCart(p) \/ CloseCart(p) \/ CountCoupon(p)
    PROVE  AloneInv'
<1>1. pc[p] \in {"cart", "close", "count"} /\ UNCHANGED <<mode, goods, line, order>>
    BY DEF CreateCart, CloseCart, CountCoupon, basket
<1>2. /\ RowsTyped /\ OrdersAddUp /\ (\A q \in Requests : q # p => pc[q] = "idle")
      /\ \A c \in Cart : Fits(c)
    BY <1>1, AloneAt DEF Dirty
<1>3. coupon'.active = coupon.active /\ coupon'.terms = coupon.terms
    BY <1>2 DEF CreateCart, CloseCart, CountCoupon, RowsTyped, CouponRow
<1>4. \A c \in Cart : /\ cart'[c].subtotal = cart[c].subtotal /\ cart'[c].total = cart[c].total
                      /\ cart'[c].code = cart[c].code /\ cart'[c].stale = cart[c].stale
    <2>1. \/ cart' = cart
          \/ \E c, s : cart' = [cart EXCEPT ![c].status = s]
        BY DEF CreateCart, CloseCart, CountCoupon, basket
    <2>2. ASSUME NEW c, NEW s, cart' = [cart EXCEPT ![c].status = s]
          PROVE  \A x \in Cart : /\ cart'[x].subtotal = cart[x].subtotal
                                 /\ cart'[x].total = cart[x].total
                                 /\ cart'[x].code = cart[x].code /\ cart'[x].stale = cart[x].stale
        <3>1. PICK new : new = [cart[c] EXCEPT !.status = s]
            OBVIOUS
        <3>2. cart' = [cart EXCEPT ![c] = new]
            BY <1>2, <2>2, <3>1 DEF RowsTyped
        <3>3. c \in Cart => /\ new.subtotal = cart[c].subtotal /\ new.total = cart[c].total
                            /\ new.code = cart[c].code /\ new.stale = cart[c].stale
            BY <1>2, <3>1 DEF RowsTyped, CartRow
        <3> QED
            BY <1>2, <3>2, <3>3 DEF RowsTyped
    <2> QED
        BY <2>1, <2>2
<1>5. \A c \in Cart : Fits(c)'
    BY <1>1, <1>2, <1>3, <1>4, FitsSame
<1>6. PICK at \in {"idle", "count"} : \E j : Goto(p, at, j)
    BY DEF CreateCart, CloseCart, CountCoupon, Done
<1>7. PICK j : Goto(p, at, j)
    BY <1>6
<1>8. Task(at, j)' /\ OrdersAddUp'
    BY <1>1, <1>2, TaskFree DEF OrdersAddUp
<1> QED
    BY <1>2, <1>5, <1>7, <1>8, AloneMoves

\* A new order charges for the lines it copied.
LEMMA AloneOrder ==
    ASSUME TypeInv, TypeInv', AloneInv, mode = "alone", NEW p \in Requests, CreateOrder(p)
    PROVE  AloneInv'
<1>0. PICK j : j = job[p]
    OBVIOUS
<1>1. pc[p] = "order" /\ UNCHANGED <<mode, basket, coupon>>
    BY DEF CreateOrder
<1>2. /\ RowsTyped /\ OrdersAddUp /\ (\A q \in Requests : q # p => pc[q] = "idle")
      /\ Task("order", j) /\ \A c \in Cart : Fits(c)
    BY <1>0, <1>1, AloneAt DEF Dirty
<1>3. \A c \in Cart : Fits(c)'
    BY <1>1, <1>2 DEF Fits, basket
<1>4. j.sum = j.lines
    BY <1>2 DEF Task
<1>5. PICK o \in Fresh(Orders, Order) :
         order' = [order EXCEPT ![o] =
                      [status |-> "pending_payment", cart |-> j.cart, paid |-> FALSE,
                       lines |-> j.lines, subtotal |-> j.sum, total |-> j.total,
                       code |-> j.code]]
    BY <1>0 DEF CreateOrder
<1>6. OrdersAddUp'
    <2>1. PICK new : new = [status |-> "pending_payment", cart |-> j.cart, paid |-> FALSE,
                            lines |-> j.lines, subtotal |-> j.sum, total |-> j.total,
                            code |-> j.code]
        OBVIOUS
    <2>2. new.subtotal = new.lines
        BY <1>4, <2>1
    <2>3. order' = [order EXCEPT ![o] = new] /\ DOMAIN order = Order
        BY <1>2, <1>5, <2>1 DEF RowsTyped
    <2> QED
        BY <1>2, <2>2, <2>3 DEF OrdersAddUp
<1>7. PICK k : Goto(p, "close", k)
    BY DEF CreateOrder
<1>8. Task("close", k)'
    BY TaskFree
<1> QED
    BY <1>2, <1>3, <1>6, <1>7, <1>8, AloneMoves

\* Writing a line of its cart, a request changes the sum of that cart alone, and
\* goes on to refresh it.
LEMMA AloneLine ==
    ASSUME TypeInv, TypeInv', AloneInv, mode = "alone", NEW p \in Requests,
           pc[p] \in {"store", "change"}, UNCHANGED <<mode, cart, coupon, order>>,
           \/ UNCHANGED line
           \/ \E l \in Line : /\ \A x \in Line : x # l => line'[x] = line[x]
                              /\ line[l].cart \in {0, job[p].cart} /\ line'[l].cart = job[p].cart,
           NEW at, NEW k, Goto(p, at, k), Task(at, k)',
           line' = line \/ (at \in Dirty /\ k.cart = job[p].cart)
    PROVE  AloneInv'
<1>1. /\ OrdersAddUp /\ (\A q \in Requests : q # p => pc[q] = "idle")
      /\ \A c \in Cart : Fits(c)
    BY AloneAt DEF Dirty
<1>2. OrdersAddUp'
    BY <1>1 DEF OrdersAddUp
<1>3. ASSUME NEW c \in Cart PROVE Fits(c)' \/ (at \in Dirty /\ k.cart = c)
    <2>1. CASE line' = line
        BY <1>1, <2>1 DEF Fits
    <2>2. CASE job[p].cart = c
        BY <2>2, <1>1 DEF Fits
    <2>3. CASE line' # line /\ job[p].cart # c
        <3>1. c # 0
            BY DEF Cart
        <3>2. \A x \in Line : line'[x] = line[x] \/ (line[x].cart # c /\ line'[x].cart # c)
            BY <2>3, <3>1
        <3>3. SumOf(line', c) = SumOf(line, c)
            BY <3>2, SumOfSame
        <3> QED
            BY <1>1, <3>3, FitsSame
    <2> QED
        BY <2>1, <2>2, <2>3
<1> QED
    BY <1>1, <1>2, <1>3, AloneMoves

LEMMA AloneStore ==
    ASSUME TypeInv, TypeInv', AloneInv, mode = "alone", NEW p \in Requests, StoreLine(p)
    PROVE  AloneInv'
<1>0. PICK j : j = job[p]
    OBVIOUS
<1>1. pc[p] = "store" /\ UNCHANGED <<mode, goods, cart, coupon, order>>
    BY DEF StoreLine
<1>2. /\ RowsTyped /\ j \in Job /\ Task("store", j) /\ j.cart \in Cart \cup {0}
      /\ j.item \in Items /\ j.qty \in Nat
    BY <1>0, <1>1, AloneAt, JobFields
<1>3. /\ Available(j.item) >= j.qty
      /\ j.row # 0 => j.row \in Line /\ line[j.row].cart = j.cart
    BY <1>2 DEF Task
<1>4. DOMAIN line = Line
    BY <1>2 DEF RowsTyped
<1>5. PICK c, i, q, k : c = j.cart /\ i = j.item /\ q = j.qty /\ k = Reserving(c, i, q)
    OBVIOUS
<1>6. k.cart = j.cart /\ k.item = j.item /\ k.qty = j.qty
    BY <1>2, <1>5, ReserveJob, Z3
<1>7. Task("reserve", k)'
    <2>1. (Available(k.item) >= k.qty)'
        BY <1>1, <1>3, <1>6 DEF Available, goods
    <2> QED
        BY <2>1 DEF Task, AloneLoc, Loc
<1>8. CASE j.row = 0
    <2>1. PICK l \in Fresh(Stored, Line) :
             line' = [line EXCEPT ![l] = [cart |-> j.cart, here |-> TRUE, item |-> j.item,
                                          qty |-> j.total, price |-> j.price,
                                          total |-> j.price * j.total]]
        BY <1>0, <1>8 DEF StoreLine
    <2>2. l \in Line /\ line[l].cart = 0
        BY DEF Fresh, Stored
    <2>3. line'[l].cart = j.cart /\ \A x \in Line : x # l => line'[x] = line[x]
        BY <1>4, <2>1, <2>2
    <2>4. Goto(p, "reserve", k)
        BY <1>0, <1>5, <1>8 DEF StoreLine, Reserving
    <2>5. "reserve" \in Dirty
        BY DEF Dirty
    <2> QED
        BY <1>0, <1>1, <1>6, <1>7, <2>2, <2>3, <2>4, <2>5, AloneLine
<1>9. CASE j.row # 0 /\ line[j.row].here
    <2>1. line' = [line EXCEPT ![j.row].qty = j.total, ![j.row].total = j.price * j.total]
        BY <1>0, <1>9 DEF StoreLine
    <2>2. j.row \in Line /\ line[j.row].cart = j.cart /\ line[j.row] \in LineRow
        BY <1>2, <1>3, <1>9 DEF RowsTyped
    <2>3. line'[j.row].cart = j.cart /\ \A x \in Line : x # j.row => line'[x] = line[x]
        <3>1. PICK n, m, mid, new : /\ n = j.total /\ m = j.price * j.total
                                    /\ mid = [line[j.row] EXCEPT !.qty = n]
                                    /\ new = [mid EXCEPT !.total = m]
            OBVIOUS
        <3>2. line' = [line EXCEPT ![j.row] = new]
            BY <1>4, <2>1, <2>2, <3>1
        <3>3. new.cart = j.cart
            BY <2>2, <3>1 DEF LineRow
        <3> QED
            BY <1>4, <2>2, <3>2, <3>3
    <2>4. Goto(p, "reserve", k)
        BY <1>0, <1>5, <1>9 DEF StoreLine, Reserving
    <2>5. "reserve" \in Dirty
        BY DEF Dirty
    <2> QED
        BY <1>0, <1>1, <1>6, <1>7, <2>2, <2>3, <2>4, <2>5, AloneLine
<1>10. CASE j.row # 0 /\ ~ line[j.row].here
    <2>1. UNCHANGED line /\ Goto(p, "idle", NoJob)
        BY <1>0, <1>10 DEF StoreLine, Done
    <2>2. Task("idle", NoJob)'
        BY TaskFree
    <2> QED
        BY <1>1, <2>1, <2>2, AloneLine
<1> QED
    BY <1>8, <1>9, <1>10

LEMMA AloneChange ==
    ASSUME TypeInv, TypeInv', AloneInv, mode = "alone", NEW p \in Requests, ChangeLine(p)
    PROVE  AloneInv'
<1>0. PICK j : j = job[p]
    OBVIOUS
<1>1. pc[p] = "change" /\ UNCHANGED <<mode, goods, cart, coupon, order>>
    BY DEF ChangeLine
<1>2. RowsTyped /\ j.row \in Line /\ line[j.row].cart = j.cart /\ line[j.row] \in LineRow
    <2>1. RowsTyped /\ Task("change", j)
        BY <1>0, <1>1, AloneAt
    <2>2. j.row \in Line /\ line[j.row].cart = j.cart
        BY <2>1 DEF Task
    <2> QED
        BY <2>1, <2>2 DEF RowsTyped
<1>3. DOMAIN line = Line
    BY <1>2 DEF RowsTyped
<1>4. CASE line[j.row].here
    <2>1. \/ line' = [line EXCEPT ![j.row].here = FALSE]
          \/ line' = [line EXCEPT ![j.row].qty = j.qty, ![j.row].total = j.price * j.qty]
        BY <1>0, <1>4 DEF ChangeLine
    <2>2. PICK k : Goto(p, "lines", k) /\ k.cart = j.cart
        BY <1>0, <1>4, RecalculatesTo DEF ChangeLine
    <2>3. line'[j.row].cart = j.cart /\ \A x \in Line : x # j.row => line'[x] = line[x]
        <3>1. CASE line' = [line EXCEPT ![j.row].here = FALSE]
            <4>1. PICK off, new : off = FALSE /\ new = [line[j.row] EXCEPT !.here = off]
                OBVIOUS
            <4>2. line' = [line EXCEPT ![j.row] = new] /\ new.cart = j.cart
                BY <1>2, <1>3, <3>1, <4>1 DEF LineRow
            <4> QED
                BY <1>2, <1>3, <4>2
        <3>2. CASE line' = [line EXCEPT ![j.row].qty = j.qty, ![j.row].total = j.price * j.qty]
            <4>1. PICK n, m, mid, new : /\ n = j.qty /\ m = j.price * j.qty
                                        /\ mid = [line[j.row] EXCEPT !.qty = n]
                                        /\ new = [mid EXCEPT !.total = m]
                OBVIOUS
            <4>2. line' = [line EXCEPT ![j.row] = new]
                BY <1>2, <1>3, <3>2, <4>1
            <4>3. new.cart = j.cart
                BY <1>2, <4>1 DEF LineRow
            <4> QED
                BY <1>2, <1>3, <4>2, <4>3
        <3> QED
            BY <2>1, <3>1, <3>2
    <2>4. Task("lines", k)' /\ "lines" \in Dirty
        BY TaskFree DEF Dirty
    <2> QED
        BY <1>0, <1>1, <1>2, <2>2, <2>3, <2>4, AloneLine
<1>5. CASE ~ line[j.row].here
    <2>1. UNCHANGED line /\ Goto(p, "idle", NoJob)
        BY <1>0, <1>5 DEF ChangeLine, Done
    <2>2. Task("idle", NoJob)'
        BY TaskFree
    <2> QED
        BY <1>1, <2>1, <2>2, AloneLine
<1> QED
    BY <1>4, <1>5

\* A coupon set or taken off: the cart is refreshed.
LEMMA AloneCode ==
    ASSUME TypeInv, TypeInv', AloneInv, mode = "alone", NEW p \in Requests, NEW c,
           NEW b, cart' = [cart EXCEPT ![c].code = b], UNCHANGED <<mode, goods, line, coupon, order>>,
           pc[p] \in {"idle", "apply"}, \A q \in Requests : q # p => pc[q] = "idle",
           NEW j, Goto(p, "lines", j), j.cart = c
    PROVE  AloneInv'
<1>1. OrdersAddUp /\ \A x \in Cart : Fits(x)
    BY AloneFacts DEF Dirty
<1>2. OrdersAddUp' /\ Task("lines", j)'
    BY <1>1, TaskFree DEF OrdersAddUp
<1>3. \A x \in Cart : x # c => cart'[x] = cart[x]
    BY DEF TypeInv, RowsTyped
<1>4. ASSUME NEW x \in Cart PROVE Fits(x)' \/ ("lines" \in Dirty /\ j.cart = x)
    <2>1. CASE x = c
        BY <2>1 DEF Dirty
    <2>2. CASE x # c
        BY <1>1, <1>3, <2>2, FitsSame
    <2> QED
        BY <2>1, <2>2
<1> QED
    BY <1>2, <1>4, AloneMoves

LEMMA AloneCoupons ==
    ASSUME TypeInv, TypeInv', AloneInv, mode = "alone", NEW p \in Requests,
           SetCoupon(p) \/ \E c \in Cart : RemoveCoupon(p, c)
    PROVE  AloneInv'
<1>1. CASE SetCoupon(p)
    <2>1. /\ pc[p] = "apply" /\ cart' = [cart EXCEPT ![job[p].cart].code = TRUE]
          /\ UNCHANGED <<mode, goods, line, coupon, order>>
        BY <1>1 DEF SetCoupon
    <2>2. \A q \in Requests : q # p => pc[q] = "idle"
        BY <2>1, AloneAt
    <2>3. PICK j : Goto(p, "lines", j) /\ j.cart = job[p].cart
        BY <1>1, RecalculatesTo DEF SetCoupon
    <2> QED
        BY <2>1, <2>2, <2>3, AloneCode
<1>2. ASSUME NEW c \in Cart, RemoveCoupon(p, c) PROVE AloneInv'
    <2>1. PICK j : j = [NoJob EXCEPT !.cart = c]
        OBVIOUS
    <2>2. j.cart = c
        BY <2>1, CartJob
    <2>3. /\ cart' = [cart EXCEPT ![c].code = FALSE] /\ Goto(p, "lines", j)
          /\ UNCHANGED <<mode, goods, line, coupon, order>> /\ Ready(p, "sale")
        BY <1>2, <2>1 DEF RemoveCoupon
    <2>4. pc[p] = "idle" /\ \A q \in Requests : q # p => pc[q] = "idle"
        BY <2>3, AloneReady
    <2> QED
        BY <2>2, <2>3, <2>4, AloneCode
<1> QED
    BY <1>1, <1>2

\* Refreshed, the cart fits again.
LEMMA AloneTotals ==
    ASSUME TypeInv, TypeInv', AloneInv, mode = "alone", NEW p \in Requests, WriteTotals(p)
    PROVE  AloneInv'
<1>0. PICK j : j = job[p]
    OBVIOUS
<1>1. pc[p] = "totals" /\ UNCHANGED <<mode, goods, line, coupon, order>> /\ Goto(p, "idle", NoJob)
    BY DEF WriteTotals, Done
<1>2. /\ RowsTyped /\ OrdersAddUp /\ (\A q \in Requests : q # p => pc[q] = "idle")
      /\ Task("totals", j) /\ \A c \in Cart : Fits(c) \/ j.cart = c
    BY <1>0, <1>1, AloneAt
<1>3. OrdersAddUp' /\ Task("idle", NoJob)'
    BY <1>1, <1>2, TaskFree DEF OrdersAddUp
<1>4. PICK c, n, m, no, new :
         /\ c = j.cart /\ n = j.sum /\ no = FALSE
         /\ m = IF j.code THEN Discounted(j.sum, j.terms) ELSE j.sum
         /\ new = [cart[c] EXCEPT !.subtotal = n, !.total = m, !.stale = no]
    OBVIOUS
<1>5. cart' = [cart EXCEPT ![c] = new]
    BY <1>0, <1>2, <1>4 DEF WriteTotals, RowsTyped
<1>6. \A x \in Cart : x # c => cart'[x] = cart[x]
    BY <1>2, <1>5 DEF RowsTyped
<1>7. ASSUME c \in Cart PROVE Fits(c)'
    <2>1. cart'[c] = new /\ cart[c] \in CartRow
        BY <1>2, <1>5, <1>7 DEF RowsTyped
    <2>2. new.subtotal = n /\ new.total = m /\ new.code = cart[c].code
        BY <1>4, <2>1 DEF CartRow
    <2>3. n = SumOf(line', c)
        BY <1>1, <1>2, <1>4 DEF Task
    <2>4. j.code = (cart[c].code /\ coupon.active) /\ j.terms = coupon.terms
        BY <1>2, <1>4, <1>7, Zenon DEF Task
    <2>5. new.total = IF new.code /\ coupon'.active THEN Discounted(n, coupon'.terms) ELSE n
        BY <1>1, <1>4, <2>2, <2>4
    <2> QED
        BY <2>1, <2>2, <2>3, <2>5 DEF Fits
<1>8. ASSUME NEW x \in Cart PROVE Fits(x)'
    <2>1. CASE x = c
        BY <1>7, <2>1
    <2>2. CASE x # c
        BY <1>1, <1>2, <1>4, <1>6, <2>2, FitsSame
    <2> QED
        BY <2>1, <2>2
<1> QED
    BY <1>1, <1>2, <1>3, <1>8, AloneMoves

LEMMA TotalInit == Init => TotalInv
<1> SUFFICES ASSUME Init PROVE TotalInv
    OBVIOUS
<1>1. OneAtWork /\ OrdersAddUp
    BY DEF Init, OneAtWork, OrdersAddUp
<1>2. \A q \in Requests : Task(pc[q], job[q])
    BY TaskFree DEF Init
<1>3. ASSUME NEW c \in Cart PROVE Fits(c)
    <2>1. {l \in Line : line[l].cart = c /\ line[l].here} = {}
        BY DEF Init
    <2>2. SumOf(line, c) = 0
        BY <2>1, SumTakes, FS_EmptySet DEF SumOf
    <2>3. cart[c].subtotal = 0 /\ cart[c].total = 0 /\ ~cart[c].code
        BY DEF Init
    <2> QED
        BY <2>2, <2>3 DEF Fits
<1> QED
    BY <1>1, <1>2, <1>3, TypeInit DEF TotalInv, AloneInv

LEMMA NotAlone ==
    ASSUME TypeInv, AloneInv, mode = "alone", NEW p \in Requests
    PROVE  /\ ~Full(p) /\ ~Unhold(p) /\ ~MarkReservation(p) /\ ~SetStock(p) /\ ~SetOrderStatus(p)
           /\ \A i, q : ~ReserveInventory(p, i, q)
           /\ \A i, d : ~AdjustStock(p, i, d)
           /\ \A r : ~ReleaseReservation(p, r) /\ ~ConfirmReservation(p, r)
           /\ \A o, s : ~UpdateOrderStatus(p, o, s)
<1>1. pc[p] \notin {"unhold", "unheld", "adjust", "status"}
    BY AloneFacts DEF Task, AloneLoc
<1>2. ~Ready(p, "stock") /\ ~Ready(p, "orders")
    BY AloneReady
<1> QED
    BY <1>1, <1>2 DEF Full, Unhold, MarkReservation, SetStock, SetOrderStatus, ReserveInventory,
       AdjustStock, ReleaseReservation, ConfirmReservation, UpdateOrderStatus

LEMMA TotalStep == TotalInv /\ [Next]_vars => TotalInv'
<1> SUFFICES ASSUME TotalInv, [Next]_vars PROVE TotalInv'
    OBVIOUS
<1>0. TypeInv /\ TypeInv' /\ AloneInv /\ UNCHANGED mode
    BY TypeStep, ModeStays DEF TotalInv
<1>1. CASE mode # "alone"
    BY <1>0, <1>1 DEF TotalInv, AloneInv
<1>2. CASE UNCHANGED vars
    BY <1>0, <1>2 DEF TotalInv, AloneInv, OneAtWork, OrdersAddUp, Task, Available, Fits, vars,
       goods, basket
<1>3. ASSUME mode = "alone", NEW p \in Requests, Stock(p) PROVE AloneInv'
    BY <1>0, <1>3, NotAlone, AloneChanges, AloneLooks, AloneStock DEF Stock
<1>4. ASSUME mode = "alone", NEW p \in Requests, Basket(p) PROVE AloneInv'
    BY <1>0, <1>4, AloneAsks, AloneChanges, AloneLooks, AloneKeepsTotals, AloneStore, AloneChange,
       AloneCoupons, AloneTotals DEF Basket
<1>5. ASSUME mode = "alone", NEW p \in Requests, Sale(p) PROVE AloneInv'
    BY <1>0, <1>5, NotAlone, AloneAsks, AloneKeepsTotals, AloneOrder DEF Sale
<1>6. ASSUME mode = "alone", NEW p \in Requests, Full(p) PROVE AloneInv'
    BY <1>0, <1>6, NotAlone
<1> QED
    BY <1>0, <1>1, <1>2, <1>3, <1>4, <1>5, <1>6 DEF Next, TotalInv

\* Between requests that do not overlap, orders add up, and carts do for their
\* items and for their coupon as it is, unless it was edited since they were
\* last recalculated.
THEOREM CartsAddUp == Spec => []TotalsAddUp
<1>1. TotalInv => TotalsAddUp
    <2> SUFFICES ASSUME TotalInv, mode = "alone"
                 PROVE  /\ Quiet => \A c \in Carts : CartAddsUp(c)
                        /\ \A o \in Orders : order[o].subtotal = order[o].lines
        BY DEF TotalsAddUp
    <2>1. ASSUME Quiet, NEW c \in Carts PROVE CartAddsUp(c)
        <3>1. c \in Cart /\ \A q \in Requests : pc[q] \notin Dirty
            BY <2>1 DEF Carts, Quiet, Dirty
        <3>2. Fits(c)
            BY <3>1 DEF TotalInv, AloneInv
        <3> QED
            BY <2>1, <3>2, SumOfLines DEF Fits, CartAddsUp
    <2>2. \A o \in Orders : order[o].subtotal = order[o].lines
        BY DEF TotalInv, AloneInv, OrdersAddUp, Orders
    <2> QED
        BY <2>1, <2>2
<1> QED
    BY <1>1, TotalInit, TotalStep, PTL DEF Spec
===============================================================================
