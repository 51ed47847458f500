----------------------------- MODULE MCReports ------------------------------
(* Instances of OrderReports and OrderInsights for TLC.                    *)
EXTENDS OrderInsights

(* Amounts that tell sums apart: no two sets of orders add up alike.       *)
MCPrice == [o \in Orders |-> [subtotal |-> 9 * 4^o, discount |-> 4^o, total |-> 10 * 4^o]]
=============================================================================
