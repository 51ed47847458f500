---------------------------- MODULE Segmentation ----------------------------
(* The RFM segments of storeStats, computed from the customers of a store. *)
EXTENDS Naturals, FiniteSets, FiniteSetsExt

CONSTANTS
    Recencies,      \* days since the last order; 999 without one
    Frequencies,    \* numberOfOrders
    Spends,         \* amountSpent
    MostCustomers   \* bound: the size of the store

ASSUME SegmentationAssumption ==
    /\ Recencies \subseteq Nat /\ Frequencies \subseteq Nat /\ Spends \subseteq Nat
    /\ MostCustomers \in Nat

VARIABLE buyers     \* customers; `twin` tells those apart that are alike

Buyer(r, f, s, n) == [recency |-> r, frequency |-> f, spend |-> s, twin |-> n]
Count(P(_)) == Cardinality({k \in buyers : P(k)})
Total == Cardinality(buyers)

SegmentationInit == buyers = {}

CustomerSynced(r, f, s) ==
    /\ Total < MostCustomers
    /\ \E n \in 1 .. MostCustomers :
          /\ {m \in 1 .. MostCustomers : Buyer(r, f, s, m) \in buyers} = 1 .. n - 1
          /\ buyers' = buyers \cup {Buyer(r, f, s, n)}

SegmentationNext ==
    \E r \in Recencies, f \in Frequencies, s \in Spends : CustomerSynced(r, f, s)

-----------------------------------------------------------------------------
(* pctile: the element at p percent of the sorted spends, 0 without any.   *)
Pctile(p) ==
    LET at == (Total * p) \div 100
        lower(s) == Count(LAMBDA k : k.spend < s)
        upTo(s) == Count(LAMBDA k : k.spend <= s)
    IN IF Total = 0 THEN 0
       ELSE CHOOSE s \in Spends : lower(s) <= at /\ at < upTo(s)

(* rfmScores: 1, and one more for each bound that is passed.               *)
Score(passed) == 1 + Cardinality({i \in DOMAIN passed : passed[i]})
RScore(k) == Score([i \in 1 .. 4 |-> k.recency <= <<90, 60, 30, 7>>[i]])
FScore(k) == Score([i \in 1 .. 4 |-> k.frequency >= <<2, 4, 7, 11>>[i]])
Reaches(spend, bound) == spend >= bound
Passes(spend, bound) == spend > bound
MScore(k) == Score([i \in 1 .. 4 |-> Passes(k.spend, Pctile(20 * i))])

(* aov < globalAov * 0.6, with both sides times 10 * frequency * Total.    *)
TotalSpend == MapThenSumSet(LAMBDA k : k.spend, buyers)
SpendsLittlePerOrder(k) ==
    IF k.frequency = 0 THEN 0 < TotalSpend
    ELSE 10 * k.spend * Total < 6 * TotalSpend * k.frequency

(* classifySegment: the first of the rules that fits.                      *)
Fits(k, segment) ==
    LET r == RScore(k)  f == FScore(k)  m == MScore(k) IN
    CASE segment = "vip" -> r >= 4 /\ f >= 4 /\ m >= 4
      [] segment = "loyal" -> r >= 3 /\ f >= 3 /\ m >= 3
      [] segment = "at-risk" -> r <= 2 /\ (f >= 3 \/ m >= 3)
      [] segment = "new" -> f <= 2 /\ r >= 4
      [] segment = "high-intent" -> r >= 3 /\ f >= 2 /\ m >= 2
      [] segment = "discount-driven" -> f >= 3 /\ SpendsLittlePerOrder(k)
      [] segment = "window-shopper" -> TRUE

DiscountBeforeIntent ==
    <<"vip", "loyal", "at-risk", "new", "discount-driven", "high-intent", "window-shopper">>
RuleOrder ==
    <<"vip", "loyal", "at-risk", "new", "high-intent", "discount-driven", "window-shopper">>

Segment(k) == RuleOrder[Min({i \in DOMAIN RuleOrder : Fits(k, RuleOrder[i])})]

-----------------------------------------------------------------------------
(* Properties                                                              *)

(* Ties never push customers up: fewer than two fifths of a store's        *)
(* customers are "vip", and fewer than a fifth get the best score for what *)
(* they spent, also when many of them have spent the same.                 *)
VipsAreFew ==
    Total > 0 =>
        /\ 5 * Count(LAMBDA k : Segment(k) = "vip") < 2 * Total
        /\ 5 * Count(LAMBDA k : MScore(k) = 5) < Total

(* The rule for "discount-driven" looks at the value of an order, but the  *)
(* rules before it leave only customers whose whole spending is not above  *)
(* the 20th percentile, who have ordered at least four times and within    *)
(* the last 60 days.                                                       *)
DiscountDrivenSpentLeast ==
    \A k \in buyers : Segment(k) = "discount-driven" =>
        k.spend <= Pctile(20) /\ k.frequency >= 4 /\ k.recency <= 60

(* Both: the fixed bounds, the percentiles and the order of the rules      *)
(* together put the segments where their names say.                        *)
SegmentsFollowSpending == VipsAreFew /\ DiscountDrivenSpentLeast
=============================================================================
