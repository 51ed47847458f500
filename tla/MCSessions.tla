----------------------------- MODULE MCSessions -----------------------------
(* Instances of Sessions for TLC.                                          *)
EXTENDS Sessions, TLC

CONSTANTS laptop, phone, tab1, tab2

(* One tab in each of two browsers, or a single tab.                        *)
MCOneTabEach == (tab1 :> laptop) @@ (tab2 :> phone)
MCOneTab == (tab1 :> laptop)
MCSymmetry == Permutations(Tokens) \cup Permutations(Sessions)
=============================================================================
