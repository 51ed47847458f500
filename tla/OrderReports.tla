---------------------------- MODULE OrderReports ----------------------------
(* The orders of one store and the numbers derived from them: the rollup   *)
(* of AnalyticsService, which writes a row per day and a KPI snapshot.     *)
(*                                                                         *)
(* Time is counted in ticks, DayLen to a UTC day; tick 0 is a midnight.    *)
(* `now` moves by itself, so a window that starts some days before now     *)
(* starts anywhere in a day.  An order's money is fixed by its identity    *)
(* (Price) but for the refund, which a later sync may bring; an order      *)
(* names its customer once the customer is synced.  Tax and shipping are   *)
(* summed as the discount is and left out.                                 *)
EXTENDS Integers, FiniteSets, FiniteSetsExt

CONSTANTS
    Orders,         \* order numbers; also the database's order among equals
    Customers,
    None,
    Price,          \* of an order: [subtotal, discount, total]
    DayLen,         \* ticks in a day
    LastTick,       \* bound: the clock stops here
    Rollups,        \* rollups that may be running at once
    RollupDays,     \* values of the rollup's `days` (90 by default)
    KpiDays         \* the days of the KPI snapshot (30)

ASSUME ReportsAssumption ==
    /\ Orders \subseteq Nat /\ IsFiniteSet(Orders)
    /\ DayLen \in Nat \ {0} /\ LastTick \in Nat /\ KpiDays \in Nat
    /\ RollupDays \subseteq Nat
    /\ None \notin Customers
    /\ None \notin [at : Nat, customer : Customers \cup {None}, refund : Nat]
    /\ \A o \in Orders :
          Price[o].subtotal \in Nat /\ Price[o].discount \in Nat /\ Price[o].total \in Nat

VARIABLES
    now,            \* the clock of the server
    order,          \* orders: the row of an order, None when it is not synced
    metric,         \* daily_sales_metrics: the row of a day, None without one
    kpi,            \* the latest row of kpi_snapshots
    roll            \* of a rollup that has read: the rows it will write

reportVars == <<now, order, metric, kpi, roll>>

-----------------------------------------------------------------------------
DayOf(t) == t \div DayLen
Days == 0 .. DayOf(LastTick)
RangeStart(days) == now - days * DayLen

Synced == {o \in Orders : order[o] # None}

(* The row of a bucket of orders; net and average follow from these.       *)
RowOf(bucket) ==
    [orders   |-> Cardinality(bucket),
     gross    |-> MapThenSumSet(LAMBDA o : Price[o].total, bucket),
     discount |-> MapThenSumSet(LAMBDA o : Price[o].discount, bucket),
     refund   |-> MapThenSumSet(LAMBDA o : order[o].refund, bucket)]

OrdersOf(day, since) ==
    {o \in Synced : DayOf(order[o].at) = day /\ order[o].at >= since}

(* One bucket for each day that has an order of the window.                *)
Buckets(since) ==
    [d \in Days |-> IF OrdersOf(d, since) = {} THEN None ELSE RowOf(OrdersOf(d, since))]

OrderRows == [at : 0 .. LastTick, customer : Customers \cup {None}, refund : Nat]
MetricRows == [orders : Nat, gross : Nat, discount : Nat, refund : Nat]
Snapshots == [at : 0 .. LastTick, orders : Nat, gross : Nat, refund : Nat]

ReportsTypeOK ==
    /\ now \in 0 .. LastTick
    /\ order \in [Orders -> OrderRows \cup {None}]
    /\ metric \in [Days -> MetricRows \cup {None}]
    /\ kpi \in Snapshots \cup {None}
    /\ roll \in [Rollups -> [Days -> MetricRows \cup {None}] \cup {None}]

ReportsInit ==
    /\ now = 0
    /\ order = [o \in Orders |-> None]
    /\ metric = [d \in Days |-> None]
    /\ kpi = None
    /\ roll = [r \in Rollups |-> None]

-----------------------------------------------------------------------------
(* Time passes between requests: a rollup is one transaction, which Prisma *)
(* ends after seconds, so none is open across a tick.                      *)
Tick ==
    /\ now < LastTick
    /\ \A r \in Rollups : roll[r] = None
    /\ now' = now + 1
    /\ UNCHANGED <<order, metric, kpi, roll>>

(* A sync brings an order, new or old, with its customer if that one is    *)
(* synced already.                                                         *)
SyncNewOrder(o) ==
    /\ order[o] = None
    /\ \E t \in 0 .. now, c \in Customers \cup {None} :
          order' = [order EXCEPT ![o] = [at |-> t, customer |-> c, refund |-> 0]]
    /\ UNCHANGED <<now, metric, kpi, roll>>

(* The sync comes by the order again: it is refunded, or its customer is   *)
(* known by now.                                                           *)
SyncOrderAgain(o) ==
    /\ order[o] # None
    /\ \/ order' = [order EXCEPT ![o].refund = Price[o].total]
       \/ /\ order[o].customer = None
          /\ \E c \in Customers : order' = [order EXCEPT ![o].customer = c]
    /\ UNCHANGED <<now, metric, kpi, roll>>

-----------------------------------------------------------------------------
(* rollup: one transaction at read committed, so another rollup, or a      *)
(* sync, may commit between its read of the orders and its own commit.     *)
RollupRead(r) ==
    /\ roll[r] = None
    /\ \E days \in RollupDays :
          roll' = [roll EXCEPT ![r] = Buckets(RangeStart(days))]
    /\ UNCHANGED <<now, order, metric, kpi>>

(* The buckets of the snapshot: their midnight is in the last KpiDays.     *)
Recent(buckets) ==
    {d \in Days : buckets[d] # None /\ d * DayLen >= RangeStart(KpiDays)}

Snapshot(buckets) ==
    [at     |-> now,
     orders |-> MapThenSumSet(LAMBDA d : buckets[d].orders, Recent(buckets)),
     gross  |-> MapThenSumSet(LAMBDA d : buckets[d].gross, Recent(buckets)),
     refund |-> MapThenSumSet(LAMBDA d : buckets[d].refund, Recent(buckets))]

(* An upsert overwrites the row of its day; other days keep theirs.        *)
AddedTo(old, row) ==
    IF row = None THEN old
    ELSE IF old = None THEN row
    ELSE [f \in DOMAIN row |-> old[f] + row[f]]
Upserted(old, row) == IF row = None THEN old ELSE row

(* The upserts and the snapshot become visible together.                   *)
RollupCommit(r) ==
    /\ roll[r] # None
    /\ metric' = [d \in Days |-> Upserted(metric[d], roll[r][d])]
    /\ kpi' = Snapshot(roll[r])
    /\ roll' = [roll EXCEPT ![r] = None]
    /\ UNCHANGED <<now, order>>

(* The transaction is rolled back: an error, a deadlock, or its time limit. *)
RollupFails(r) ==
    /\ roll[r] # None
    /\ roll' = [roll EXCEPT ![r] = None]
    /\ UNCHANGED <<now, order, metric, kpi>>

ReportsNext ==
    \/ Tick
    \/ \E o \in Orders : SyncNewOrder(o) \/ SyncOrderAgain(o)
    \/ \E r \in Rollups : RollupRead(r) \/ RollupCommit(r) \/ RollupFails(r)

ReportsSpec == ReportsInit /\ [][ReportsNext]_reportVars

-----------------------------------------------------------------------------
(* Properties                                                              *)

AtMost(row, true) ==
    /\ row.orders <= true.orders /\ row.gross <= true.gross
    /\ row.discount <= true.discount /\ row.refund <= true.refund

(* A day's row never shows more than the day's orders: not after a window  *)
(* that cut the day in two, not when an older rollup commits last.         *)
MetricNeverInvents ==
    \A d \in Days : metric[d] # None => AtMost(metric[d], RowOf(OrdersOf(d, 0)))

(* The snapshot counts only orders of the KpiDays before it was taken,     *)
(* whatever `days` the rollup was given and whoever committed meanwhile.   *)
KpiWithinWindow ==
    kpi # None =>
        LET window == {o \in Synced :
                         order[o].at >= kpi.at - KpiDays * DayLen /\ order[o].at <= kpi.at}
        IN /\ kpi.orders <= Cardinality(window)
           /\ kpi.gross <= RowOf(window).gross
           /\ kpi.refund <= RowOf(window).refund

(* Overlapping rollups, refunds and changing windows may leave the rows    *)
(* and the snapshot short of what the orders say, never beyond it.         *)
RollupNeverInvents == MetricNeverInvents /\ KpiWithinWindow

(* The comment on rollup calls it idempotent: running it again leaves a    *)
(* row that is right, no order having changed, as it is.                   *)
RightRowsStay ==
    [][\A d \in Days :
          /\ order' = order
          /\ metric[d] # None
          /\ metric[d] = RowOf(OrdersOf(d, 0))
          => metric'[d] = metric[d]]_reportVars
=============================================================================
