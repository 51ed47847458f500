------------------------------- MODULE Baskets ------------------------------
(* What storeStats derives from the lines of the orders: the products that *)
(* are bought together and the ones that customers come back for.          *)
EXTENDS Naturals, Sequences, FiniteSets, FiniteSetsExt

CONSTANTS
    Baskets,        \* orders
    Goods,          \* products
    Shoppers,       \* customers
    Guest,          \* an order with no customer, or older than 90 days
    MostLines       \* bound: order lines in all

ASSUME BasketsAssumption == Guest \notin Shoppers

VARIABLES
    shopper,        \* of an order: its customer, or Guest
    lines           \* order_items that name a product, in the order read

basketVars == <<shopper, lines>>

Lines == [basket : Baskets, good : Goods]

BasketsInit ==
    /\ shopper \in [Baskets -> Shoppers \cup {Guest}]
    /\ lines = <<>>

(* A sync brings a line; two variants of a product are two lines with it.  *)
(* (It replaces the lines of an order, which leads to no other states.)    *)
LineSynced(l) ==
    /\ Len(lines) < MostLines
    /\ lines' = Append(lines, l)
    /\ UNCHANGED shopper

BasketsNext == \E l \in Lines : LineSynced(l)

-----------------------------------------------------------------------------
(* coPurchase: every pair of lines of an order counts for both products,   *)
(* so a product on two lines of an order is a pair with itself.            *)
LineNos == DOMAIN lines
OneWay(i, j) == i < j
EitherWay(i, j) == i # j
Together(a, b) ==
    Cardinality({p \in LineNos \X LineNos :
        /\ EitherWay(p[1], p[2])
        /\ lines[p[1]] = [lines[p[2]] EXCEPT !.good = a]
        /\ lines[p[2]].good = b})

(* custProductCount: the lines of a customer's orders with the product.    *)
LinesOf(c, g) ==
    Cardinality({i \in DOMAIN lines :
                    shopper[lines[i].basket] = c /\ lines[i].good = g})
BoughtBy(g) == {c \in Shoppers : LinesOf(c, g) > 0}
OftenBy(g) == {c \in Shoppers : LinesOf(c, g) > 2}
RepeatedBy(g) == {c \in Shoppers : LinesOf(c, g) >= 2}

(* reorderCandidates: the repeat rate in percent, rounded.                 *)
RepeatRate(g) ==
    (200 * Cardinality(RepeatedBy(g)) + Cardinality(BoughtBy(g)))
        \div (2 * Cardinality(BoughtBy(g)))
ReorderCandidates == {g \in Goods : RepeatedBy(g) # {}}

-----------------------------------------------------------------------------
(* Properties                                                              *)

OrdersWith(S) == {b \in Baskets :
    \A g \in S : \E i \in DOMAIN lines : lines[i] = [basket |-> b, good |-> g]}

(* Two products count as bought together in at least as many orders as     *)
(* have both, from whichever side of the pair the count is taken, and in   *)
(* exactly as many when no order has either on two lines.                  *)
TogetherCountsOrders ==
    \A a, b \in Goods : a # b =>
        /\ Together(a, b) = Together(b, a)
        /\ Together(a, b) >= Cardinality(OrdersWith({a, b}))
        /\ (\A i, j \in DOMAIN lines : i # j => lines[i] # lines[j])
           => Together(a, b) = Cardinality(OrdersWith({a, b}))

(* A product that a customer has in two orders is a candidate for reorder  *)
(* with a rate of at most 100, which is 0 only by rounding, when fewer     *)
(* than one buyer in 200 came back; guests make no candidate.              *)
ComingBackCounts ==
    \A g \in Goods :
        /\ (\E b \in OrdersWith({g}), d \in OrdersWith({g}) :
               b # d /\ shopper[b] = shopper[d] /\ shopper[b] # Guest)
           => g \in ReorderCandidates
        /\ g \in ReorderCandidates =>
              /\ RepeatRate(g) \in 0 .. 100
              /\ RepeatRate(g) = 0 =>
                    200 * Cardinality(RepeatedBy(g)) < Cardinality(BoughtBy(g))

(* Both: counting lines instead of orders never loses an order.            *)
OrdersAreCounted == TogetherCountsOrders /\ ComingBackCounts
=============================================================================
