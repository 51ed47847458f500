---------------------------- MODULE OrderInsights ---------------------------
(* The reports computed from the orders on request: the profit summary of  *)
(* AnalyticsService, the retention report of SubscriptionsService and the  *)
(* insights of EmailMarketingService.  Each reads the orders of            *)
(* OrderReports at one moment; here they are operators on a set H of       *)
(* orders and a time t, used with the orders synced and the clock.         *)
EXTENDS OrderReports

CONSTANTS
    ReportDays,     \* the report's `days`
    ChurnDays       \* churnDays of the retention report (90 by default)

ASSUME InsightsAssumption == ReportDays \in Int /\ ChurnDays \in Int

Net(o) == Price[o].subtotal - Price[o].discount - order[o].refund
NetOf(S) == MapThenSumSet(Net, S)
Start(t) == t - ReportDays * DayLen
PrevStart(t) == Start(t) - ReportDays * DayLen

-----------------------------------------------------------------------------
(* profit: the window up to now, and the one of equal length before it.    *)
ProfitCurrent(H, t) == {o \in H : Start(t) <= order[o].at /\ order[o].at <= t}
ProfitPrevious(H, t) == {o \in H : PrevStart(t) <= order[o].at /\ order[o].at < Start(t)}

(* retention: only orders that have a customer, in order of time; equal    *)
(* times come in the database's order.                                     *)
Bought(H) == {o \in H : order[o].customer # None}
OrdersBy(H, c) == {o \in H : order[o].customer = c}
Buyers(H) == {order[o].customer : o \in Bought(H)}
NotEarlier(p, o) ==
    \/ order[p].at > order[o].at
    \/ order[p].at = order[o].at /\ p <= o
NotLater(p, o) ==
    \/ order[p].at < order[o].at
    \/ order[p].at = order[o].at /\ p <= o
SeqOf(H, o) == Cardinality({p \in OrdersBy(H, order[o].customer) : NotLater(p, o)})
LastOrder(H, c) == Max({order[o].at : o \in OrdersBy(H, c)})

(* aggWindow: the orders of [from, to), new when first of their customer.  *)
AggWindow(H, from, to) ==
    LET inside == {o \in Bought(H) : ~(order[o].at < from \/ order[o].at >= to)}
        first == {o \in inside : SeqOf(H, o) = 1}
    IN [newSales        |-> NetOf(first),
        recurringSales  |-> NetOf(inside \ first),
        newOrders       |-> Cardinality(first),
        recurringOrders |-> Cardinality(inside \ first),
        active          |-> {order[o].customer : o \in inside},
        fresh           |-> {order[o].customer : o \in first}]

RetentionCurrent(H, t) == AggWindow(H, Start(t), t + 1)
RetentionPrevious(H, t) == AggWindow(H, PrevStart(t), Start(t))

Churned(H, t) == {c \in Buyers(H) : LastOrder(H, c) < t - ChurnDays * DayLen}
PrevChurnedAsOfNow(H, t) ==
    {c \in Buyers(H) : LastOrder(H, c) < t - ChurnDays * DayLen /\ LastOrder(H, c) < Start(t)}
PrevChurned(H, t) ==
    {c \in Buyers(H) :
        LastOrder(H, c) < Start(t) - ChurnDays * DayLen /\ LastOrder(H, c) < Start(t)}

(* The daily series: new and recurring sales of each day with an order.    *)
Daily(H, t) ==
    LET inside == {o \in Bought(H) : ~(order[o].at < Start(t) \/ order[o].at >= t + 1)}
        on(d) == {o \in inside : DayOf(order[o].at) = d}
    IN [d \in {DayOf(order[o].at) : o \in inside} |->
          [newSales       |-> NetOf({o \in on(d) : SeqOf(H, o) = 1}),
           recurringSales |-> NetOf({o \in on(d) : SeqOf(H, o) # 1})]]

-----------------------------------------------------------------------------
(* insights of e-mail marketing: revenue, and the next order expected of   *)
(* each customer from the mean gap between the orders so far.              *)
EmailRevenueAfterStart(H, t) ==
    {o \in Bought(H) : ~(order[o].at <= Start(t) \/ order[o].at > t)}
EmailRevenue(H, t) == {o \in Bought(H) : ~(order[o].at < Start(t) \/ order[o].at > t)}

Rounded(n, d) == (2 * n + d) \div (2 * d)      \* Math.round(n / d), d > 0
DaySpan(H, c) == LastOrder(H, c) - Min({order[o].at : o \in OrdersBy(H, c)})

(* The gaps add up to the time from the first order to the last.           *)
AvgGapDays(H, c) ==
    LET n == Cardinality(OrdersBy(H, c))
    IN IF n >= 2 THEN Max({1, Rounded(DaySpan(H, c), (n - 1) * DayLen)}) ELSE 45

DaysUntil(H, c, t) ==
    Rounded(LastOrder(H, c) + AvgGapDays(H, c) * DayLen - t, DayLen)

StatusOverdueToday(H, c, t) ==
    IF DaysUntil(H, c, t) <= 0 THEN "overdue"
    ELSE IF DaysUntil(H, c, t) <= 7 THEN "due_soon" ELSE "upcoming"
Status(H, c, t) ==
    IF DaysUntil(H, c, t) < 0 THEN "overdue"
    ELSE IF DaysUntil(H, c, t) <= 7 THEN "due_soon" ELSE "upcoming"

-----------------------------------------------------------------------------
(* Properties                                                              *)

(* Three endpoints read the orders each by a query and a loop of its own   *)
(* and agree: the retention report's sales are the profit report's net     *)
(* sales less those of orders without a customer, in both windows; they    *)
(* are the e-mail report's revenue, and the daily series adds up to them.  *)
Sales(agg) == agg.newSales + agg.recurringSales
SalesAgree ==
    LET cur == RetentionCurrent(Synced, now)
        daily == Daily(Synced, now)
    IN /\ Sales(cur) = NetOf(Bought(ProfitCurrent(Synced, now)))
       /\ Sales(RetentionPrevious(Synced, now)) = NetOf(Bought(ProfitPrevious(Synced, now)))
       /\ Sales(cur) = NetOf(EmailRevenue(Synced, now))
       /\ cur.newOrders + cur.recurringOrders = Cardinality(EmailRevenue(Synced, now))
       /\ Sales(cur) = MapThenSumSet(LAMBDA d : Sales(daily[d]), DOMAIN daily)

(* Nobody with two orders or more is called overdue before the mean gap    *)
(* of those orders has passed since the last one, though the gap and the   *)
(* days left are both rounded.                                             *)
OverdueIsLate ==
    \A c \in Buyers(Synced) :
        LET n == Cardinality(OrdersBy(Synced, c))
        IN n >= 2 /\ Status(Synced, c, now) = "overdue" =>
              (n - 1) * (now - LastOrder(Synced, c)) > DaySpan(Synced, c)

(* Both: what the reports say of the same orders is consistent, and the    *)
(* prediction beside them follows from those orders.                       *)
ReportsAgree == SalesAgree /\ OverdueIsLate

(* The preceding window, shown for the deltas, is what the report itself   *)
(* would have shown ReportDays ago, had it known the orders of that time   *)
(* as they are known now: later orders of a customer do not turn an old    *)
(* order from new into recurring.  (Orders of the very instant the windows *)
(* share aside: the old report would have had them, the preceding window   *)
(* does not.)                                                              *)
PreviousIsPast ==
    LET past == {o \in Synced : order[o].at < Start(now)}
    IN RetentionPrevious(Synced, now) = RetentionCurrent(past, Start(now))

(* A customer churned as of the preceding window is one who was churned    *)
(* then and has not bought since: those who came back drop out of the      *)
(* count that the delta compares with.                                     *)
PrevChurnedStayedAway ==
    LET past == {o \in Synced : order[o].at < Start(now)}
    IN PrevChurned(Synced, now) =
          {c \in Churned(past, Start(now)) :
              \A o \in OrdersBy(Synced, c) : order[o].at < Start(now)}

(* Both: what is shown for the preceding window is what was true then, as  *)
(* far as it is still true of the customers who stayed away.               *)
PastIsKept == PreviousIsPast /\ PrevChurnedStayedAway
=============================================================================
