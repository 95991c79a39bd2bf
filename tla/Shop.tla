-------------------------------- MODULE Shop --------------------------------
(***************************************************************************)
(* Carts, stock reservations, coupons and orders of one tenant, as the     *)
(* commerce service keeps them: concurrent requests over the products,     *)
(* inventory_reservations, carts, cart_items, coupons and orders tables.   *)
(* Nothing here runs in a transaction: every await is a step of a request. *)
(***************************************************************************)
EXTENDS Integers, FiniteSets, FiniteSetsExt

CONSTANTS
    Requests,         \* request slots: customers, staff
    Items,            \* products and variants: what carries a stock of its own
    Prices,           \* prices an item may be given
    Quantities,       \* quantities asked for
    Terms,            \* what a coupon may give: Coupon.type and value
    MaxUses,          \* Coupon.maxUses
    MinSpend,         \* Coupon.minSpend
    MaxStock,         \* bound: stock and reserved stock, in either direction
    MaxCarts, MaxLines, MaxReservations, MaxOrders  \* bounds: rows of the tables

Cart == 1 .. MaxCarts
Line == 1 .. MaxLines
Reservation == 1 .. MaxReservations
Order == 1 .. MaxOrders

ASSUME ShopAssumption ==
    /\ IsFiniteSet(Requests) /\ Items # {}
    /\ Prices \subseteq Nat /\ Prices # {}
    /\ Quantities \subseteq Nat \ {0}
    /\ Terms \subseteq [type : {"percentage", "fixed"}, value : Nat] /\ Terms # {}
    /\ MaxUses \in Nat /\ MinSpend \in Nat
    /\ {MaxStock, MaxCarts, MaxLines, MaxReservations, MaxOrders} \subseteq Nat

VARIABLES
    mode,    \* the operations that run at the same time (fixed)
    item,    \* Product/ProductVariant: price, stock, reservedStock
    resv,    \* InventoryReservation
    cart,    \* Cart of one customer; "closed" once expiresAt is set; stale when
             \* its coupon was edited after its totals were written
    line,    \* CartItem; in no cart (0) before it is created
    coupon,  \* Coupon: isActive, usedCount, type and value
    order,   \* Order
    pc,      \* where each request is
    job      \* what it has read

goods == <<item, resv>>
basket == <<cart, line>>
vars == <<mode, goods, basket, coupon, order, pc, job>>

NoJob == [cart |-> 0, item |-> CHOOSE i \in Items : TRUE, row |-> 0, qty |-> 0,
          price |-> 0, avail |-> 0, code |-> FALSE, sum |-> 0, total |-> 0,
          lines |-> 0, to |-> "none", terms |-> CHOOSE t \in Terms : TRUE]

\* An order status and those updateOrderStatus accepts after it.
After == [pending_payment  |-> {"paid", "cancelled"},
          paid             |-> {"processing", "refunded"},
          processing       |-> {"shipped", "ready_for_pickup", "cancelled"},
          shipped          |-> {"delivered", "cancelled"},
          ready_for_pickup |-> {"completed", "cancelled"},
          delivered        |-> {"completed"},
          completed        |-> {"refunded"},
          cancelled        |-> {},
          refunded         |-> {}]
OrderStatus == DOMAIN After

\* The families of operations that overlap, and those that run when nothing else does.
Together == [alone |-> {}, stock |-> {"stock", "add"}, cart |-> {"add", "cart"},
             sale |-> {"sale"}, orders |-> {"orders"}]
Apart == [alone |-> {"add", "cart", "sale"}, stock |-> {}, cart |-> {},
          sale |-> {"add"}, orders |-> {"add", "sale"}]

Init ==
    /\ mode \in DOMAIN Together
    /\ item \in [Items -> [price : Prices, stock : {MaxStock}, reserved : {0}]]
    /\ resv = [r \in Reservation |-> [status |-> "absent", item |-> NoJob.item, qty |-> 0]]
    /\ cart = [c \in Cart |-> [status |-> "absent", code |-> FALSE,
                               subtotal |-> 0, total |-> 0, stale |-> FALSE]]
    /\ line = [l \in Line |-> [cart |-> 0, here |-> FALSE, item |-> NoJob.item,
                               qty |-> 0, price |-> 0, total |-> 0]]
    /\ coupon \in [active : {TRUE}, used : {0}, terms : Terms]
    /\ order = [o \in Order |-> [status |-> "absent", cart |-> 0, lines |-> 0,
                                 subtotal |-> 0, total |-> 0, code |-> FALSE,
                                 paid |-> FALSE]]
    /\ pc = [p \in Requests |-> "idle"]
    /\ job = [p \in Requests |-> NoJob]

Orders == {o \in Order : order[o].status # "absent"}
Quiet == \A p \in Requests : pc[p] = "idle"
\* A request for an operation of a family begins; with "orders" one order is made.
Ready(p, family) ==
    /\ pc[p] = "idle"
    /\ \/ family \in Together[mode]
       \/ family \in Apart[mode] /\ Quiet /\ (mode = "orders" => Orders = {})
Goto(p, loc, j) == pc' = [pc EXCEPT ![p] = loc] /\ job' = [job EXCEPT ![p] = j]
Done(p) == Goto(p, "idle", NoJob)
NoRecalculation(p) == Done(p)            \* mutant: the totals are not refreshed
Recalculate(p) == Goto(p, "lines", [NoJob EXCEPT !.cart = job[p].cart])

\* The next id of a table whose rows in use are S.
Fresh(S, Ids) == {r \in Ids \ S : \A q \in Ids : q < r => q \in S}
Carts == {c \in Cart : cart[c].status # "absent"}
Lines(c) == {l \in Line : line[l].cart = c /\ line[l].here}
LinesTotal(c) == SumFunctionOnSet([l \in Line |-> line[l].total], Lines(c))
Reserved == {r \in Reservation : resv[r].status # "absent"}
Stored == {l \in Line : line[l].cart # 0}
\* Bound: requests that run alone begin only with room for the rows they insert.
Room(S, Ids) == mode # "alone" \/ S # Ids

Unclipped(s, t) == s - t.value            \* mutant: a fixed discount not clipped
Discounted(s, t) ==
    Max({0, s - (IF t.type = "percentage" THEN (s * t.value) \div 100
                 ELSE Min({t.value, s}))})

-----------------------------------------------------------------------------
(* Stock: getAvailableStock, reserve, release, confirm, adjust.            *)

\* getAvailableStock (clipped at 0, which no quantity asked for tells apart).
Available(i) == item[i].stock - item[i].reserved

ReserveInventory(p, i, q) ==
    /\ Ready(p, "stock")
    /\ Room(Reserved, Reservation)
    /\ Available(i) >= q
    /\ Goto(p, "create", [NoJob EXCEPT !.item = i, !.qty = q])
    /\ UNCHANGED <<mode, goods, basket, coupon, order>>

\* The same check inside addToCart, after the cart item was written.
CheckStock(p) ==
    /\ pc[p] = "reserve"
    /\ IF Available(job[p].item) >= job[p].qty THEN Goto(p, "create", job[p]) ELSE Done(p)
    /\ UNCHANGED <<mode, goods, basket, coupon, order>>

CreateReservation(p) ==
    /\ pc[p] = "create"
    /\ \E r \in Fresh(Reserved, Reservation) :
          resv' = [resv EXCEPT ![r] = [status |-> "active", item |-> job[p].item,
                                       qty |-> job[p].qty]]
    /\ Goto(p, "hold", job[p])
    /\ UNCHANGED <<mode, item, basket, coupon, order>>

Hold(p) ==
    /\ pc[p] = "hold"
    /\ item' = [item EXCEPT ![job[p].item].reserved = @ + job[p].qty]
    /\ IF job[p].cart = 0 THEN Done(p) ELSE Recalculate(p)
    /\ UNCHANGED <<mode, resv, basket, coupon, order>>

ReleaseReservation(p, r) ==
    /\ Ready(p, "stock")
    /\ resv[r].status = "active"
    /\ Goto(p, "unhold", [NoJob EXCEPT !.row = r, !.item = resv[r].item,
                                       !.qty = resv[r].qty, !.to = "released"])
    /\ UNCHANGED <<mode, goods, basket, coupon, order>>

\* confirmReservation takes a reservation in any state.
ConfirmReservation(p, r) ==
    /\ Ready(p, "stock")
    /\ r \in Reserved
    /\ item[resv[r].item].stock > -MaxStock /\ item[resv[r].item].reserved > -MaxStock
    /\ Goto(p, "unhold", [NoJob EXCEPT !.row = r, !.item = resv[r].item,
                                       !.qty = resv[r].qty, !.to = "confirmed"])
    /\ UNCHANGED <<mode, goods, basket, coupon, order>>

DeductOnly(p) ==                         \* mutant: confirming keeps reservedStock
    /\ pc[p] = "unhold"
    /\ item' = [item EXCEPT ![job[p].item] =
                  IF job[p].to = "confirmed" THEN [@ EXCEPT !.stock = @ - job[p].qty]
                  ELSE [@ EXCEPT !.reserved = @ - job[p].qty]]
    /\ Goto(p, "unheld", job[p])
    /\ UNCHANGED <<mode, resv, basket, coupon, order>>

\* The counters first (relative writes) ...
Unhold(p) ==
    /\ pc[p] = "unhold"
    /\ LET j == job[p] IN
       item' = [item EXCEPT ![j.item].reserved = @ - j.qty,
                            ![j.item].stock = IF j.to = "confirmed" THEN @ - j.qty ELSE @]
    /\ Goto(p, "unheld", job[p])
    /\ UNCHANGED <<mode, resv, basket, coupon, order>>

\* ... then the reservation's status.
MarkReservation(p) ==
    /\ pc[p] = "unheld"
    /\ resv' = [resv EXCEPT ![job[p].row].status = job[p].to]
    /\ Done(p)
    /\ UNCHANGED <<mode, item, basket, coupon, order>>

\* adjustStock writes the sum it computed from its read.
AdjustStock(p, i, d) ==
    /\ Ready(p, "stock")
    /\ item[i].stock + d \in 0 .. MaxStock
    /\ Goto(p, "adjust", [NoJob EXCEPT !.item = i, !.qty = item[i].stock + d])
    /\ UNCHANGED <<mode, goods, basket, coupon, order>>

SetStock(p) ==
    /\ pc[p] = "adjust"
    /\ item' = [item EXCEPT ![job[p].item].stock = job[p].qty]
    /\ Done(p)
    /\ UNCHANGED <<mode, resv, basket, coupon, order>>

\* updateProduct, updateVariant: a new price, a new stock.  (Variants sent with
\* updateProduct are rows of their own, new ids included: that part is left out.)
UpdateProduct(p, i, v, n) ==
    /\ Ready(p, "cart")
    /\ item' = [item EXCEPT ![i].price = v, ![i].stock = n]
    /\ UNCHANGED <<mode, resv, basket, coupon, order, pc, job>>

-----------------------------------------------------------------------------
(* Carts.                                                                  *)

\* getOrCreateCart: an open cart is returned, otherwise one is created.
FindCart(p) ==
    /\ Ready(p, "add")
    /\ Room(Carts, Cart)
    /\ \A c \in Carts : cart[c].status = "closed"
    /\ Goto(p, "cart", NoJob)
    /\ UNCHANGED <<mode, goods, basket, coupon, order>>

CreateCart(p) ==
    /\ pc[p] = "cart"
    /\ \E c \in Fresh(Carts, Cart) : cart' = [cart EXCEPT ![c].status = "open"]
    /\ Done(p)
    /\ UNCHANGED <<mode, goods, line, coupon, order>>

\* addToCart takes any cart there is, checks the stock ...
AddToCart(p, c, i, q) ==
    /\ Ready(p, "add")
    /\ c \in Carts /\ Room(Stored, Line) /\ Room(Reserved, Reservation)
    /\ Available(i) >= q
    /\ Goto(p, "line", [NoJob EXCEPT !.cart = c, !.item = i, !.qty = q,
                                     !.price = item[i].price, !.avail = Available(i)])
    /\ UNCHANGED <<mode, goods, basket, coupon, order>>

\* ... looks for the item in the cart (total: the quantity it will have) ...
FindLine(p) ==
    /\ pc[p] = "line"
    /\ LET found == {l \in Lines(job[p].cart) : line[l].item = job[p].item} IN
       \/ /\ found = {}
          /\ Goto(p, "store", [job[p] EXCEPT !.total = job[p].qty])
       \/ \E l \in found :
             LET newQty == line[l].qty + job[p].qty IN
             IF newQty > job[p].avail
             THEN Done(p)
             ELSE Goto(p, "store", [job[p] EXCEPT !.row = l, !.total = newQty])
    /\ UNCHANGED <<mode, goods, basket, coupon, order>>

\* ... and creates its row or updates the one it found, whose unit price stays.
StoreLine(p) ==
    /\ pc[p] = "store"
    /\ LET j == job[p] IN
       \/ /\ j.row = 0
          /\ \E l \in Fresh(Stored, Line) :
                line' = [line EXCEPT ![l] = [cart |-> j.cart, here |-> TRUE, item |-> j.item,
                                             qty |-> j.total, price |-> j.price,
                                             total |-> j.price * j.total]]
       \/ /\ j.row # 0 /\ line[j.row].here
          /\ line' = [line EXCEPT ![j.row].qty = j.total, ![j.row].total = j.price * j.total]
       \/ /\ j.row # 0 /\ ~ line[j.row].here
          /\ UNCHANGED line
    /\ IF job[p].row # 0 => line[job[p].row].here
       THEN Goto(p, "reserve", [NoJob EXCEPT !.cart = job[p].cart, !.item = job[p].item,
                                             !.qty = job[p].qty])
       ELSE Done(p)
    /\ UNCHANGED <<mode, goods, cart, coupon, order>>

\* updateCartItem, and removeFromCart (q = 0).
UpdateCartItem(p, l, q) ==
    /\ Ready(p, "cart")
    /\ line[l].here
    /\ Goto(p, "change", [NoJob EXCEPT !.cart = line[l].cart, !.row = l, !.qty = q,
                                       !.price = line[l].price])
    /\ UNCHANGED <<mode, goods, basket, coupon, order>>

ChangeLine(p) ==
    /\ pc[p] = "change"
    /\ LET j == job[p] IN
       IF line[j.row].here
       THEN /\ line' = IF j.qty = 0
                       THEN [line EXCEPT ![j.row].here = FALSE]
                       ELSE [line EXCEPT ![j.row].qty = j.qty, ![j.row].total = j.price * j.qty]
            /\ Recalculate(p)
       ELSE Done(p) /\ UNCHANGED line
    /\ UNCHANGED <<mode, goods, cart, coupon, order>>

ApplyCoupon(p, c) ==
    /\ Ready(p, "sale")
    /\ c \in Carts
    /\ coupon.active /\ coupon.used < MaxUses /\ cart[c].subtotal >= MinSpend
    /\ Goto(p, "apply", [NoJob EXCEPT !.cart = c])
    /\ UNCHANGED <<mode, goods, basket, coupon, order>>

SetCouponOnly(p) ==                      \* mutant: the totals stay
    /\ pc[p] = "apply"
    /\ cart' = [cart EXCEPT ![job[p].cart].code = TRUE]
    /\ Done(p)
    /\ UNCHANGED <<mode, goods, line, coupon, order>>

SetCoupon(p) ==
    /\ pc[p] = "apply"
    /\ cart' = [cart EXCEPT ![job[p].cart].code = TRUE]
    /\ Recalculate(p)
    /\ UNCHANGED <<mode, goods, line, coupon, order>>

RemoveCoupon(p, c) ==
    /\ Ready(p, "sale")
    /\ c \in Carts
    /\ cart' = [cart EXCEPT ![c].code = FALSE]
    /\ Goto(p, "lines", [NoJob EXCEPT !.cart = c])
    /\ UNCHANGED <<mode, goods, line, coupon, order>>

\* updateCoupon writes what it is sent (the limits, which no property reads,
\* are left out), deleteCoupon takes the coupon back; no cart is recalculated.
EditCoupon(p, terms, active) ==
    /\ Ready(p, "sale")
    /\ coupon' = [coupon EXCEPT !.active = active, !.terms = terms]
    /\ cart' = [c \in Cart |-> [cart[c] EXCEPT !.stale = @ \/ cart[c].code]]
    /\ UNCHANGED <<mode, goods, line, order, pc, job>>

\* recalculateCart: the items, then the cart and its coupon, then the totals.
ReadLines(p) ==
    /\ pc[p] = "lines"
    /\ Goto(p, "coupon", [job[p] EXCEPT !.sum = LinesTotal(job[p].cart)])
    /\ UNCHANGED <<mode, goods, basket, coupon, order>>

ReadCoupon(p) ==
    /\ pc[p] = "coupon"
    /\ Goto(p, "totals", [job[p] EXCEPT !.code = cart[job[p].cart].code /\ coupon.active,
                                        !.terms = coupon.terms])
    /\ UNCHANGED <<mode, goods, basket, coupon, order>>

WriteTotals(p) ==
    /\ pc[p] = "totals"
    /\ LET j == job[p] IN
       cart' = [cart EXCEPT ![j.cart].subtotal = j.sum,
                            ![j.cart].total = IF j.code THEN Discounted(j.sum, j.terms)
                                              ELSE j.sum,
                            ![j.cart].stale = FALSE]
    /\ Done(p)
    /\ UNCHANGED <<mode, goods, line, coupon, order>>

-----------------------------------------------------------------------------
(* Checkout and orders.                                                    *)

\* checkout reads the cart, expired or not, with its items ...
Checkout(p, c) ==
    /\ Ready(p, "sale")
    /\ c \in Carts /\ Lines(c) # {} /\ Room(Orders, Order)
    /\ Goto(p, "order", [NoJob EXCEPT !.cart = c, !.code = cart[c].code,
                                      !.sum = cart[c].subtotal, !.total = cart[c].total,
                                      !.lines = LinesTotal(c)])
    /\ UNCHANGED <<mode, goods, basket, coupon, order>>

CreateOrder(p) ==
    /\ pc[p] = "order"
    /\ \E o \in Fresh(Orders, Order) :
          order' = [order EXCEPT ![o] =
                      [status |-> "pending_payment", cart |-> job[p].cart, paid |-> FALSE,
                       lines |-> job[p].lines, subtotal |-> job[p].sum,
                       total |-> job[p].total, code |-> job[p].code]]
    /\ Goto(p, "close", [NoJob EXCEPT !.cart = job[p].cart, !.code = job[p].code])
    /\ UNCHANGED <<mode, goods, basket, coupon>>

CloseCounting(p) ==                      \* mutant: every checkout counts a use
    /\ pc[p] = "close"
    /\ cart' = [cart EXCEPT ![job[p].cart].status = "closed"]
    /\ Goto(p, "count", [NoJob EXCEPT !.code = TRUE])
    /\ UNCHANGED <<mode, goods, line, coupon, order>>

CloseCart(p) ==
    /\ pc[p] = "close"
    /\ cart' = [cart EXCEPT ![job[p].cart].status = "closed"]
    /\ IF job[p].code THEN Goto(p, "count", [NoJob EXCEPT !.code = TRUE]) ELSE Done(p)
    /\ UNCHANGED <<mode, goods, line, coupon, order>>

CountCoupon(p) ==
    /\ pc[p] = "count"
    /\ coupon' = [coupon EXCEPT !.used = @ + 1]
    /\ Done(p)
    /\ UNCHANGED <<mode, goods, basket, order>>

AnyTransition(p, o, s) ==                \* mutant: the table is not consulted
    /\ Ready(p, "orders")
    /\ o \in Orders
    /\ Goto(p, "status", [NoJob EXCEPT !.row = o, !.to = s])
    /\ UNCHANGED <<mode, goods, basket, coupon, order>>

\* updateOrderStatus: the transition is checked on the status read ...
UpdateOrderStatus(p, o, s) ==
    /\ Ready(p, "orders")
    /\ o \in Orders /\ s \in After[order[o].status]
    /\ Goto(p, "status", [NoJob EXCEPT !.row = o, !.to = s])
    /\ UNCHANGED <<mode, goods, basket, coupon, order>>

\* ... and the new status written by id.
SetOrderStatus(p) ==
    /\ pc[p] = "status"
    /\ order' = [order EXCEPT ![job[p].row].status = job[p].to,
                              ![job[p].row].paid = @ \/ job[p].to = "paid"]
    /\ Done(p)
    /\ UNCHANGED <<mode, goods, basket, coupon>>

-----------------------------------------------------------------------------
\* An insert into a table at its bound fails. (A request that dies anywhere else
\* is one that takes no further step, which the specification allows.)
Full(p) ==
    /\ pc[p] \in {"create", "cart", "store", "order"} /\ mode # "alone"
    /\ Done(p)
    /\ UNCHANGED <<mode, goods, basket, coupon, order>>

Stock(p) ==
    \/ \E i \in Items : \/ \E q \in Quantities : ReserveInventory(p, i, q)
                        \/ \E d \in {-1, 1} : AdjustStock(p, i, d)
                        \/ \E v \in Prices, n \in 0 .. MaxStock : UpdateProduct(p, i, v, n)
    \/ \E r \in Reservation : ReleaseReservation(p, r) \/ ConfirmReservation(p, r)
    \/ CheckStock(p) \/ CreateReservation(p) \/ Hold(p) \/ Unhold(p) \/ MarkReservation(p)
    \/ SetStock(p)

Basket(p) ==
    \/ FindCart(p) \/ CreateCart(p)
    \/ \E c \in Cart : \/ \E i \in Items, q \in Quantities : AddToCart(p, c, i, q)
                       \/ ApplyCoupon(p, c) \/ RemoveCoupon(p, c)
    \/ \E l \in Line, q \in Quantities \cup {0} : UpdateCartItem(p, l, q)
    \/ FindLine(p) \/ StoreLine(p) \/ ChangeLine(p) \/ SetCoupon(p)
    \/ \E t \in Terms, active \in BOOLEAN : EditCoupon(p, t, active)
    \/ ReadLines(p) \/ ReadCoupon(p) \/ WriteTotals(p)

Sale(p) ==
    \/ \E c \in Cart : Checkout(p, c)
    \/ CreateOrder(p) \/ CloseCart(p) \/ CountCoupon(p)
    \/ \E o \in Order, s \in OrderStatus : UpdateOrderStatus(p, o, s)
    \/ SetOrderStatus(p)

Next == \E p \in Requests : Stock(p) \/ Basket(p) \/ Sale(p) \/ Full(p)

Spec == Init /\ [][Next]_vars

-----------------------------------------------------------------------------
Loc == {"idle", "reserve", "create", "hold", "unhold", "unheld", "adjust", "cart", "line",
        "store", "change", "apply", "lines", "coupon", "totals", "order", "close", "count",
        "status"}
Job == [cart : Cart \cup {0}, item : Items, row : Nat, qty : Nat, price : Nat, avail : Int,
        code : BOOLEAN, sum : Nat, total : Nat, lines : Nat,
        to : OrderStatus \cup {"none", "released", "confirmed"}, terms : Terms]

\* Every column and every local of a request holds a value of its type; stock
\* and reserved stock may fall below zero, as the columns can.
TypeOK ==
    /\ mode \in DOMAIN Together
    /\ item \in [Items -> [price : Nat, stock : Int, reserved : Int]]
    /\ resv \in [Reservation -> [status : {"absent", "active", "released", "confirmed"},
                                 item : Items, qty : Nat]]
    /\ cart \in [Cart -> [status : {"absent", "open", "closed"}, code : BOOLEAN,
                          subtotal : Nat, total : Nat, stale : BOOLEAN]]
    /\ line \in [Line -> [cart : Cart \cup {0}, here : BOOLEAN, item : Items,
                          qty : Nat, price : Nat, total : Nat]]
    /\ coupon \in [active : BOOLEAN, used : Nat, terms : Terms]
    /\ order \in [Order -> [status : OrderStatus \cup {"absent"}, cart : Cart \cup {0},
                            lines : Nat, subtotal : Nat, total : Nat, code : BOOLEAN,
                            paid : BOOLEAN]]
    /\ pc \in [Requests -> Loc]
    /\ job \in [Requests -> Job]

\* Stock is never held that no active reservation accounts for: the counter
\* stays at or below the active reservations, whatever overlaps or dies between
\* the two writes of a reserve, a release or a confirmation.
ReservedIsBacked ==
    \A i \in Items :
        item[i].reserved <= SumFunctionOnSet([r \in Reservation |-> resv[r].qty],
            {r \in Reservation : resv[r].status = "active" /\ resv[r].item = i})

\* Between requests that do not overlap a cart's subtotal is that of its items,
\* and its total is what its coupon leaves of it: the coupon as it is now, unless
\* the merchant edited it after the cart was last recalculated (updateCoupon and
\* deleteCoupon refresh no cart).  Every order charges for the items it copied.
CartAddsUp(c) ==
    LET sum == LinesTotal(c) IN
    /\ cart[c].subtotal = sum
    /\ ~cart[c].stale =>
          cart[c].total = IF cart[c].code /\ coupon.active
                          THEN Discounted(sum, coupon.terms) ELSE sum
TotalsAddUp ==
    mode = "alone" =>
        /\ Quiet => \A c \in Carts : CartAddsUp(c)
        /\ \A o \in Orders : order[o].subtotal = order[o].lines

\* A coupon's use count is at most the orders that carry it, and falls behind
\* only while a checkout is at work or after one died.
CouponCounted ==
    LET counting == {p \in Requests : pc[p] \in {"close", "count"} /\ job[p].code}
        spent == {o \in Orders : order[o].code}
    IN  /\ coupon.used + Cardinality(counting) <= Cardinality(spent)
        /\ mode = "alone" => coupon.used + Cardinality(counting) = Cardinality(spent)

\* No interleaving of status updates lets an order be worked on, delivered or
\* refunded that was never paid.
PaidBeforeFulfilled ==
    \A o \in Orders : order[o].status \notin {"pending_payment", "cancelled"} => order[o].paid
=============================================================================
