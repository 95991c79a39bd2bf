------------------------------- MODULE Reports -------------------------------
(* What the dashboards compute from orders, payments, bookings and members:  *)
(* the merchant's analytics and widgets (analytics.service.ts,               *)
(* dashboards.service.ts), the platform's (business-dashboard-bff), the      *)
(* merchant's summary (tenant-dashboard-bff), and how lists are cut in pages.*)
EXTENDS Integers, Sequences, FiniteSets, FiniteSetsExt

CONSTANTS
    Requests,      \* requests in flight at most
    Orders,        \* ids of orders
    Bookings,      \* ids of bookings
    Widgets,       \* ids of widgets of the one dashboard
    Amounts,       \* totals of orders
    Days,          \* the days on which something happens
    Month,         \* length of a month
    Take           \* orders the merchant's summary reads (10 in the code)

VARIABLES
    today,         \* a member of Days
    order,         \* Order rows: created, total, paid and when
    event,         \* FinancialEvent rows of PaymentsService
    booking,       \* Booking rows: created and status
    dashboard,     \* the dashboard exists
    widget,        \* widgets of the dashboard and their metric
    call           \* what each request read and has still to write

orderVars == <<order, event, booking>>
dashboardVars == <<dashboard, widget, call>>

Idle == [op |-> "idle"]

-----------------------------------------------------------------------------
(* What is reported on *)

Never == -1
NoOrder == [created |-> Never, total |-> 0, paidAt |-> Never]
Is(o) == order[o].created # Never
Paid(o) == order[o].paidAt # Never

CreateOrder(o, total) ==
    /\ ~Is(o)
    /\ order' = [order EXCEPT ![o] = [created |-> today, total |-> total,
                                      paidAt |-> Never]]
    /\ UNCHANGED <<event, booking>>
\* updateOrderStatus to paid; the payment is recorded by PaymentsService.
PayOrder(o) ==
    /\ Is(o) /\ ~Paid(o)
    /\ order' = [order EXCEPT ![o].paidAt = today]
    /\ event' = event \cup {[type |-> "payment_received", order |-> o,
                             amount |-> order[o].total, at |-> today]}
    /\ UNCHANGED booking
\* A refund leaves the paymentStatus of the order "paid".
RefundPayment(o) ==
    /\ Paid(o) /\ \A e \in event : e.order = o => e.type # "refund_issued"
    /\ event' = event \cup {[type |-> "refund_issued", order |-> o,
                             amount |-> 0 - order[o].total, at |-> today]}
    /\ UNCHANGED <<order, booking>>
Statuses == {"requested", "confirmed", "cancelled", "completed"}
BookOrMove(b, status) ==
    /\ booking' = [booking EXCEPT ![b] =
                     [created |-> IF @.created = Never THEN today ELSE @.created,
                      status |-> status]]
    /\ UNCHANGED <<order, event>>
Tick ==
    /\ \E d \in Days : d > today
    /\ today' = Min({d \in Days : d > today})
    /\ UNCHANGED <<orderVars, dashboardVars>>

-----------------------------------------------------------------------------
(* Periods.  Day 0 is a Sunday. *)

Within(t, from, to) == t # Never /\ from <= t /\ t <= to
DayOfWeek(t) == t % 7
\* The Monday on or before the day; Sunday belongs to the week that ends.
NextMonday(t) == t - DayOfWeek(t) + 1
WeekKey(t) == t - DayOfWeek(t) + (IF DayOfWeek(t) = 0 THEN -6 ELSE 1)
PeriodKey(t, groupBy) ==
    CASE groupBy = "week" -> WeekKey(t)
      [] groupBy = "month" -> t \div Month
      [] groupBy = "day" -> t

SumOver(S, f) == SumFunctionOnSet(f, S)
\* groupByPeriod: one bucket per key, in the order of the rows.
GroupByPeriod(S, f, groupBy) ==
    LET keys == {PeriodKey(order[o].created, groupBy) : o \in S}
    IN  [k \in keys |->
           SumOver({o \in S : PeriodKey(order[o].created, groupBy) = k}, f)]

-----------------------------------------------------------------------------
(* The reports *)

Total == [o \in Orders |-> order[o].total]
One == [o \in Orders |-> 1]
CreatedIn(from, to) == {o \in Orders : Is(o) /\ Within(order[o].created, from, to)}
PaidCreatedIn(from, to) == {o \in CreatedIn(from, to) : Paid(o)}
PaidIn(from, to) == {o \in Orders : Within(order[o].paidAt, from, to)}

\* analytics.service.ts getRevenueReport: revenue by the day of payment,
\* refunds by the type of the event.
RevenueReport(from, to) ==
    LET revenue == SumOver(PaidIn(from, to), Total)
        refunds == SumOver({e \in event : e.type = "refund" /\ Within(e.at, from, to)},
                           [e \in event |-> e.amount])
    IN  [totalRevenue |-> revenue, totalRefunds |-> refunds,
         netRevenue |-> revenue - refunds,
         orderCount |-> Cardinality(PaidIn(from, to))]
RevenueTrend(groupBy, from, to) ==
    GroupByPeriod(PaidCreatedIn(from, to), Total, groupBy)
OrderVolume(groupBy, from, to) == GroupByPeriod(CreatedIn(from, to), One, groupBy)
BookingAnalytics(from, to) ==
    LET in == {b \in Bookings : Within(booking[b].created, from, to)}
        with(s) == Cardinality({b \in in : booking[b].status = s})
    IN  [total |-> Cardinality(in), confirmed |-> with("confirmed"),
         cancelled |-> with("cancelled"), completed |-> with("completed")]

\* business-dashboard-bff getAnalytics and getRevenueReport: by creation.
PlatformAnalytics(groupBy, from, to) ==
    LET paid == PaidCreatedIn(from, to)
    IN  [revenueTrend |-> GroupByPeriod(paid, Total, groupBy),
         orderVolume |-> GroupByPeriod(paid, One, groupBy),
         gmv |-> SumOver(paid, Total)]
PlatformRevenue(from, to) ==
    [revenue |-> SumOver(PaidCreatedIn(from, to), Total),
     transactionCount |-> Cardinality(PaidCreatedIn(from, to))]
\* getMerchantAnalytics counts orders whether or not they were paid.
MerchantAnalytics(from, to) ==
    [revenue |-> SumOver(CreatedIn(from, to), Total),
     orderCount |-> Cardinality(CreatedIn(from, to))]
\* tenant-dashboard-bff getAnalyticsSummary looks at the latest orders only.
Recent(from, to) ==
    LET in == CreatedIn(from, to)
    IN  {S \in SUBSET in :
           /\ Cardinality(S) = Min({Take, Cardinality(in)})
           /\ \A o \in S : \A p \in in \ S : order[o].created >= order[p].created}
AnalyticsSummary(S) ==
    [ordersCount |-> Cardinality(S),
     totalRevenue |-> SumOver({o \in S : Paid(o)}, Total)]

Metrics == {"revenue", "order_count", "booking_count", "revenue_trend", "order_volume"}
\* resolveWidgetData: one metric of one widget; a metric may be unknown.
SumOfValues(f) == SumOver(DOMAIN f, f)
WidgetValue(metric, groupBy, from, to) ==
    CASE metric = "revenue" -> RevenueReport(from, to).totalRevenue
      [] metric = "order_count" -> Cardinality(CreatedIn(from, to))
      [] metric = "booking_count" -> BookingAnalytics(from, to).total
      [] metric = "revenue_trend" -> SumOfValues(RevenueTrend(groupBy, from, to))
      [] metric = "order_volume" -> SumOfValues(OrderVolume(groupBy, from, to))
      [] OTHER -> 0

-----------------------------------------------------------------------------
(* Pages.  The platform's lists normalise what the client asks for. *)

SafePage(page) == Max({1, page})
SafeLimit(limit) == Min({100, Max({1, limit})})
Skip(page, limit) == (SafePage(page) - 1) * SafeLimit(limit)
PageOf(list, page, limit) ==
    LET from == Skip(page, limit) + 1
        to == Min({Len(list), Skip(page, limit) + SafeLimit(limit)})
    IN  SubSeq(list, from, to)
TotalPages(total, limit) == (total + SafeLimit(limit) - 1) \div SafeLimit(limit)

-----------------------------------------------------------------------------
(* The dashboard and its widgets *)

CreateDashboard ==
    /\ ~dashboard /\ dashboard' = TRUE
    /\ UNCHANGED <<widget, call>>
KeepWidgets ==
    /\ dashboard /\ dashboard' = FALSE
    /\ UNCHANGED <<widget, call>>
RemoveDashboard ==
    /\ dashboard /\ dashboard' = FALSE
    /\ widget' = [w \in Widgets |-> "none"]
    /\ UNCHANGED call
FindDashboard(q, w, metric) ==
    /\ dashboard /\ widget[w] = "none" /\ call[q] = Idle
    /\ call' = [call EXCEPT ![q] = [op |-> "add", w |-> w, metric |-> metric]]
    /\ UNCHANGED <<dashboard, widget>>
\* A dashboard that is gone by now is refused by the foreign key.
AddWidget(q) ==
    LET c == call[q] IN
    /\ c.op = "add"
    /\ widget' = IF dashboard /\ widget[c.w] = "none"
                 THEN [widget EXCEPT ![c.w] = c.metric] ELSE widget
    /\ call' = [call EXCEPT ![q] = Idle]
    /\ UNCHANGED dashboard
UpdateWidget(w, metric) ==
    /\ widget[w] # "none"
    /\ widget' = [widget EXCEPT ![w] = metric]
    /\ UNCHANGED <<dashboard, call>>
RemoveWidget(w) ==
    /\ dashboard /\ widget[w] # "none"
    /\ widget' = [widget EXCEPT ![w] = "none"]
    /\ UNCHANGED <<dashboard, call>>

-----------------------------------------------------------------------------
Init ==
    /\ today = Min(Days)
    /\ order = [o \in Orders |-> NoOrder]
    /\ event = {}
    /\ booking = [b \in Bookings |-> [created |-> Never, status |-> "none"]]
    /\ dashboard = FALSE
    /\ widget = [w \in Widgets |-> "none"]
    /\ call = [q \in Requests |-> Idle]

HistoryNext ==
    \/ /\ \/ \E o \in Orders : \E n \in Amounts : CreateOrder(o, n)
          \/ \E o \in Orders : PayOrder(o) \/ RefundPayment(o)
          \/ \E b \in Bookings : \E s \in Statuses : BookOrMove(b, s)
       /\ UNCHANGED <<today, dashboardVars>>
    \/ Tick
DashboardNext ==
    /\ \/ CreateDashboard \/ RemoveDashboard
       \/ \E q \in Requests : \E w \in Widgets : \E m \in Metrics \cup {"unknown"} :
             FindDashboard(q, w, m)
       \/ \E q \in Requests : AddWidget(q)
       \/ \E w \in Widgets : \E m \in Metrics : UpdateWidget(w, m)
       \/ \E w \in Widgets : RemoveWidget(w)
    /\ UNCHANGED <<today, orderVars>>
ReportsNext == HistoryNext \/ DashboardNext
Spec == Init /\ [][ReportsNext]_<<today, orderVars, dashboardVars>>

-----------------------------------------------------------------------------
TypeOK ==
    /\ today \in Days
    /\ \A o \in Orders : Is(o) => /\ order[o].created \in Days
                                  /\ order[o].paidAt \in Days \cup {Never}
                                  /\ order[o].total \in Amounts
    /\ \A e \in event : Paid(e.order) /\ e.at >= order[e.order].paidAt
    /\ dashboard \in BOOLEAN
    /\ \A w \in Widgets : widget[w] # "none" => dashboard

\* The reports agree with each other: buckets add up to the totals of their
\* range whatever they are grouped by, a week's bucket starts on the Monday on
\* or before its days, the views of merchant and platform count the same
\* orders, and over the whole history revenue is the same by day of payment
\* and by day of creation; the merchant's summary, which looks at Take orders,
\* never claims more than they took (analytics.service.ts:93-148,
\* dashboards.service.ts:197-257, business-dashboard-bff.service.ts:268-371).
ReportsAgree ==
    LET first == Min(Days)
        last == Max(Days)
    IN
    /\ \A from \in Days : \A groupBy \in {"day", "week", "month"} :
         LET all == PlatformAnalytics(groupBy, from, last) IN
         /\ SumOfValues(all.revenueTrend) = all.gmv
         /\ all.gmv = PlatformRevenue(from, last).revenue
         /\ all.revenueTrend = RevenueTrend(groupBy, from, last)
         /\ SumOfValues(OrderVolume(groupBy, from, last))
              = MerchantAnalytics(from, last).orderCount
         /\ WidgetValue("revenue_trend", groupBy, from, last) = all.gmv
    /\ \A o \in {p \in Orders : Is(p)} :
         LET t == order[o].created IN
         WeekKey(t) % 7 = 1 /\ WeekKey(t) <= t /\ t < WeekKey(t) + 7
    /\ RevenueReport(first, last).totalRevenue = PlatformRevenue(first, last).revenue
    /\ LET b == BookingAnalytics(first, last)
       IN  b.confirmed + b.cancelled + b.completed <= b.total
    /\ \A S \in Recent(first, last) :
         LET short == AnalyticsSummary(S) IN
         /\ short.ordersCount = Min({Take, MerchantAnalytics(first, last).orderCount})
         /\ short.totalRevenue <= PlatformRevenue(first, last).revenue

\* Read page after page, a list shows every row once, whatever page size is
\* asked for (business-dashboard-bff.service.ts:85-88).
PagesCoverTheList ==
    LET list == [i \in 1..Cardinality({o \in Orders : Is(o)}) |-> i]
    IN  \A limit \in -1..3 :
          LET pages == TotalPages(Len(list), limit) IN
          /\ \A i \in DOMAIN list : Cardinality({p \in 1..pages :
                \E j \in DOMAIN PageOf(list, p, limit) : PageOf(list, p, limit)[j] = i}) = 1
          /\ PageOf(list, pages + 1, limit) = <<>>
          /\ PageOf(list, 0, limit) = PageOf(list, 1, limit)
=============================================================================
