---------------------------- MODULE ReportsProofs ---------------------------
(***************************************************************************)
(* Proofs about what is derived from the orders and customers: a           *)
(* customer's last order (ShopBootstrap), the stores of a forecast         *)
(* (ForecastRuns) and its points (Forecast), the segments (Segmentation),  *)
(* and the rollup and the reports (OrderReports, OrderInsights), for any   *)
(* orders, customers, windows and number of rollups, requests and jobs at  *)
(* once.  They rest on a small theory of sums over finite sets.            *)
(***************************************************************************)
EXTENDS OrderInsights, ForecastRuns, ShopBootstrap, Segmentation, Forecast,
        FiniteSetTheorems, WellFoundedInduction, TLAPS

ForecastRunsSpec == ForecastRunsInit /\ [][ForecastRunsNext]_runVars
BootstrapSpec == BootstrapInit /\ [][BootstrapNext]_bootVars
SegmentationSpec == SegmentationInit /\ [][SegmentationNext]_buyers
ForecastSpec == ForecastInit /\ [][ForecastNext]_forecastVars

-----------------------------------------------------------------------------
(* Sums over finite sets.  The library's MapThenSumSet is a recursive      *)
(* function that takes out a chosen element at a time; what it computes    *)
(* is proved by looking at a smallest set for which a claim would fail.    *)

(* A claim that holds of a set when it holds of all smaller ones, given as *)
(* the set of those it holds of.                                           *)
LEMMA SmallerSetsFirst ==
    ASSUME NEW D, IsFiniteSet(D), NEW Good,
           ASSUME NEW s \in SUBSET D, \A t \in SUBSET s : t # s => t \in Good
           PROVE  s \in Good
    PROVE  \A s \in SUBSET D : s \in Good
<1> DEFINE R == StrictSubsetOrdering(D)
           Bad == {s \in SUBSET D : s \notin Good}
<1>1. IsWellFoundedOn(R, SUBSET D)
  BY FS_StrictSubsetOrderingWellFounded, FS_FiniteSubsetsOfFinite
<1>2. ASSUME Bad # {} PROVE FALSE
  <2>0. Bad \subseteq SUBSET D
    OBVIOUS
  <2> HIDE DEF R, Bad
  <2>1. PICK s \in Bad : \A t \in Bad : <<t, s>> \notin R
    BY <1>1, <1>2, <2>0, WFMin
  <2>2. ASSUME NEW t \in SUBSET s, t # s PROVE t \in Good
    <3>1. t \in SUBSET D /\ <<t, s>> \in R
      BY <2>0, <2>1, <2>2 DEF R, StrictSubsetOrdering
    <3> QED BY <2>1, <3>1 DEF Bad
  <2> QED BY <2>0, <2>1, <2>2 DEF Bad
<1> QED
  BY <1>2

(* Finitely many numbers have a largest among them.                        *)
LEMMA LargestOfFinite ==
    ASSUME NEW T, IsFiniteSet(T), T \subseteq Int, T # {}
    PROVE  \E x \in T : \A y \in T : y <= x
<1> DEFINE Good == {S \in SUBSET T : S # {} => \E x \in S : \A y \in S : y <= x}
<1>1. ASSUME NEW S \in SUBSET T, \A R \in SUBSET S : R # S => R \in Good
      PROVE  S \in Good
  <2>1. ASSUME NEW a \in S PROVE \E x \in S : \A y \in S : y <= x
    <3>1. S \ {a} \in Good /\ a \in Int /\ S \subseteq Int
      BY <1>1
    <3>2. CASE S \ {a} = {}
      BY <3>1, <3>2
    <3>3. CASE S \ {a} # {}
      <4>1. PICK x \in S \ {a} : \A y \in S \ {a} : y <= x
        BY <3>1, <3>3
      <4>2. CASE a <= x
        BY <4>1, <4>2
      <4>3. CASE ~(a <= x)
        BY <3>1, <4>1, <4>3
      <4> QED BY <4>2, <4>3
    <3> QED BY <3>2, <3>3
  <2> QED BY <2>1
<1> HIDE DEF Good
<1>2. T \in Good
  BY <1>1, SmallerSetsFirst
<1> QED
  BY <1>2 DEF Good

LEMMA LargestExists ==
    ASSUME NEW m \in Nat, NEW T \in SUBSET (0 .. m), T # {}
    PROVE  \E x \in T : \A y \in T : y <= x
<1>1. IsFiniteSet(0 .. m)
  BY FS_Interval
<1>2. IsFiniteSet(T)
  BY <1>1, FS_Subset
<1>3. \A x \in T : x \in 0 .. m
  OBVIOUS
<1>4. T \subseteq Int
  BY <1>3
<1> QED
  BY <1>2, <1>4, LargestOfFinite

(* And a smallest.                                                         *)
LEMMA SmallestOfFinite ==
    ASSUME NEW T, IsFiniteSet(T), T \subseteq Int, T # {}
    PROVE  \E x \in T : \A y \in T : x <= y
<1> DEFINE S == {0 - x : x \in T}
           f == [x \in T |-> 0 - x]
<1>1. IsFiniteSet(S)
  <2>1. f \in Surjection(T, S)
    BY DEF Surjection
  <2> HIDE DEF f, S
  <2> QED BY <2>1, FS_Surjection
<1>2. S \subseteq Int /\ S # {}
  <2>1. \A x \in T : x \in Int /\ 0 - x \in Int
    OBVIOUS
  <2> QED BY <2>1
<1>3. PICK z \in S : \A y \in S : y <= z
  <2> HIDE DEF S
  <2> QED BY <1>1, <1>2, LargestOfFinite
<1>4. PICK x \in T : z = 0 - x
  OBVIOUS
<1>5. ASSUME NEW y \in T PROVE x <= y
  <2>1. 0 - y <= z /\ x \in Int /\ y \in Int
    BY <1>3
  <2> QED BY <1>4, <2>1
<1> QED
  BY <1>5

LEMMA SmallestExists ==
    ASSUME NEW m \in Nat, NEW T \in SUBSET (0 .. m), T # {}
    PROVE  \E x \in T : \A y \in T : x <= y
<1>1. IsFiniteSet(0 .. m)
  BY FS_Interval
<1>2. IsFiniteSet(T)
  BY <1>1, FS_Subset
<1>3. \A x \in T : x \in 0 .. m
  OBVIOUS
<1>4. T \subseteq Int
  BY <1>3
<1> QED
  BY <1>2, <1>4, SmallestOfFinite

Chosen(s) == CHOOSE x \in s : TRUE
SumStep(v, g, S) ==
    [s \in SUBSET S |-> IF s = {} THEN 0 ELSE v[Chosen(s)] + g[s \ {Chosen(s)}]]
SumIter(v, S) == CHOOSE g : g = SumStep(v, g, S)
SumOf(v, S) == SumIter(v, S)[S]

LEMMA ChosenIn == \A s : s # {} => Chosen(s) \in s
BY DEF Chosen

(* Two such functions agree where both are defined.                        *)
LEMMA SumsAgree ==
    ASSUME NEW D, IsFiniteSet(D), NEW v, NEW S \in SUBSET D, NEW T \in SUBSET D,
           NEW g, g = SumStep(v, g, S), NEW h, h = SumStep(v, h, T)
    PROVE  \A u \in SUBSET (S \cap T) : g[u] = h[u]
<1> DEFINE Good == {u \in SUBSET (S \cap T) : g[u] = h[u]}
<1>1. ASSUME NEW u \in SUBSET (S \cap T), \A t \in SUBSET u : t # u => t \in Good
      PROVE  u \in Good
  <2>1. CASE u = {}
    BY <2>1 DEF SumStep
  <2>2. CASE u # {}
    <3>1. Chosen(u) \in u
      BY <2>2, ChosenIn
    <3>2. g[u \ {Chosen(u)}] = h[u \ {Chosen(u)}]
      BY <1>1, <3>1
    <3>3. g[u] = v[Chosen(u)] + g[u \ {Chosen(u)}] /\ h[u] = v[Chosen(u)] + h[u \ {Chosen(u)}]
      <4>1. SumStep(v, g, S)[u] = v[Chosen(u)] + g[u \ {Chosen(u)}]
        BY <2>2 DEF SumStep
      <4>2. SumStep(v, h, T)[u] = v[Chosen(u)] + h[u \ {Chosen(u)}]
        BY <2>2 DEF SumStep
      <4> QED BY <4>1, <4>2
    <3> QED BY <3>2, <3>3
  <2> QED BY <2>1, <2>2
<1>2. IsFiniteSet(S \cap T)
  BY FS_Subset
<1> HIDE DEF Good
<1>3. \A u \in SUBSET (S \cap T) : u \in Good
  BY <1>1, <1>2, SmallerSetsFirst
<1> QED
  BY <1>3 DEF Good

LEMMA SumsExist ==
    ASSUME NEW D, IsFiniteSet(D), NEW v
    PROVE  \A S \in SUBSET D : SumIter(v, S) = SumStep(v, SumIter(v, S), S)
<1> DEFINE Good == {S \in SUBSET D : SumIter(v, S) = SumStep(v, SumIter(v, S), S)}
<1>1. ASSUME NEW S \in SUBSET D, \A T \in SUBSET S : T # S => T \in Good
      PROVE  S \in Good
  <2>0. ASSUME NEW T \in SUBSET S, T # S
        PROVE  SumIter(v, T) = SumStep(v, SumIter(v, T), T)
    BY <1>1, <2>0
  <2> DEFINE g == [u \in SUBSET S |-> IF u = {} THEN 0
                      ELSE v[Chosen(u)] + SumIter(v, u \ {Chosen(u)})[u \ {Chosen(u)}]]
  <2>1. ASSUME NEW w \in SUBSET S, w # S PROVE g[w] = SumIter(v, w)[w]
    <3>1. SumIter(v, w)[w] = SumStep(v, SumIter(v, w), w)[w]
      BY <2>0, <2>1
    <3>2. CASE w = {}
      BY <3>1, <3>2 DEF SumStep
    <3>3. CASE w # {}
      <4> DEFINE y == w \ {Chosen(w)}
      <4>1. y \in SUBSET w /\ y # w /\ y \in SUBSET S /\ y # S
        BY <2>1, <3>3, ChosenIn
      <4>2. SumIter(v, w) = SumStep(v, SumIter(v, w), w)
            /\ SumIter(v, y) = SumStep(v, SumIter(v, y), y)
        BY <2>0, <2>1, <4>1
      <4>3. SumIter(v, w)[y] = SumIter(v, y)[y]
        <5>1. w \in SUBSET D /\ y \in SUBSET D /\ y \in SUBSET (w \cap y)
          BY <4>1
        <5> QED BY <4>2, <5>1, SumsAgree
      <4>4. g[w] = v[Chosen(w)] + SumIter(v, y)[y]
        BY <3>3
      <4>5. SumIter(v, w)[w] = v[Chosen(w)] + SumIter(v, w)[y]
        BY <3>1, <3>3 DEF SumStep
      <4> QED BY <4>3, <4>4, <4>5
    <3> QED BY <3>2, <3>3
  <2>2. ASSUME NEW u \in SUBSET S, u # {}
        PROVE  g[u] = v[Chosen(u)] + g[u \ {Chosen(u)}]
    <3>1. u \ {Chosen(u)} \in SUBSET S /\ u \ {Chosen(u)} # S
      BY <2>2, ChosenIn
    <3>2. g[u] = v[Chosen(u)] + SumIter(v, u \ {Chosen(u)})[u \ {Chosen(u)}]
      BY <2>2
    <3> HIDE DEF g
    <3> QED BY <2>1, <3>1, <3>2
  <2>3. g = SumStep(v, g, S)
    <3>1. g = [u \in SUBSET S |-> g[u]]
      OBVIOUS
    <3>2. \A u \in SUBSET S : g[u] = IF u = {} THEN 0 ELSE v[Chosen(u)] + g[u \ {Chosen(u)}]
      BY <2>2
    <3> HIDE DEF g
    <3> QED BY <3>1, <3>2 DEF SumStep
  <2> HIDE DEF g
  <2>4. SumIter(v, S) = SumStep(v, SumIter(v, S), S)
    BY <2>3 DEF SumIter
  <2> QED BY <2>4
<1> HIDE DEF Good
<1>2. \A S \in SUBSET D : S \in Good
  BY <1>1, SmallerSetsFirst
<1> QED
  BY <1>2 DEF Good

LEMMA SumChosen ==
    ASSUME NEW D, IsFiniteSet(D), NEW v, NEW S \in SUBSET D
    PROVE  /\ S = {} => SumOf(v, S) = 0
           /\ S # {} => SumOf(v, S) = v[Chosen(S)] + SumOf(v, S \ {Chosen(S)})
<1>1. SumIter(v, S) = SumStep(v, SumIter(v, S), S)
  BY SumsExist
<1>2. SumIter(v, S)[S] = SumStep(v, SumIter(v, S), S)[S]
  BY <1>1
<1>3. CASE S = {}
  BY <1>2, <1>3 DEF SumStep, SumOf
<1>4. CASE S # {}
  <2> DEFINE y == S \ {Chosen(S)}
  <2>1. y \in SUBSET D /\ y \in SUBSET (S \cap y)
    OBVIOUS
  <2>2. SumIter(v, y) = SumStep(v, SumIter(v, y), y)
    BY <2>1, SumsExist
  <2>3. SumIter(v, S)[y] = SumIter(v, y)[y]
    BY <1>1, <2>1, <2>2, SumsAgree
  <2>4. SumIter(v, S)[S] = v[Chosen(S)] + SumIter(v, S)[y]
    BY <1>2, <1>4 DEF SumStep
  <2> QED BY <1>4, <2>3, <2>4 DEF SumOf
<1> QED
  BY <1>3, <1>4

(* A sum of integers is one, and of naturals too.                          *)
LEMMA SumType ==
    ASSUME NEW D, IsFiniteSet(D), NEW v \in [D -> Int]
    PROVE  \A S \in SUBSET D :
              /\ SumOf(v, S) \in Int
              /\ (\A x \in S : v[x] >= 0) => SumOf(v, S) >= 0
<1> DEFINE Good == {S \in SUBSET D : /\ SumOf(v, S) \in Int
                                     /\ (\A x \in S : v[x] >= 0) => SumOf(v, S) >= 0}
<1>1. ASSUME NEW S \in SUBSET D, \A T \in SUBSET S : T # S => T \in Good
      PROVE  S \in Good
  <2>1. CASE S = {}
    <3>1. SumOf(v, S) = 0
      BY <2>1, SumChosen
    <3> QED BY <3>1
  <2>2. CASE S # {}
    <3>1. /\ Chosen(S) \in S /\ v[Chosen(S)] \in Int
          /\ S \ {Chosen(S)} \in Good
      BY <1>1, <2>2, ChosenIn
    <3>2. SumOf(v, S) = v[Chosen(S)] + SumOf(v, S \ {Chosen(S)})
      BY <2>2, SumChosen
    <3> QED BY <3>1, <3>2
  <2> QED BY <2>1, <2>2
<1> HIDE DEF Good
<1>2. \A S \in SUBSET D : S \in Good
  BY <1>1, SmallerSetsFirst
<1> QED
  BY <1>2 DEF Good

(* Any element may be taken out first, not only the chosen one.            *)
LEMMA SumRemove ==
    ASSUME NEW D, IsFiniteSet(D), NEW v \in [D -> Int]
    PROVE  \A S \in SUBSET D : \A a \in S : SumOf(v, S) = v[a] + SumOf(v, S \ {a})
<1> DEFINE Good == {S \in SUBSET D : \A a \in S : SumOf(v, S) = v[a] + SumOf(v, S \ {a})}
<1>1. ASSUME NEW S \in SUBSET D, \A T \in SUBSET S : T # S => T \in Good
      PROVE  S \in Good
  <2> SUFFICES ASSUME NEW a \in S PROVE SumOf(v, S) = v[a] + SumOf(v, S \ {a})
    OBVIOUS
  <2> DEFINE b == Chosen(S)
  <2>1. b \in S /\ SumOf(v, S) = v[b] + SumOf(v, S \ {b})
    BY SumChosen, ChosenIn
  <2> HIDE DEF b
  <2>2. CASE a # b
    <3>1. /\ S \ {b} \in Good /\ a \in S \ {b} /\ S \ {a} \in Good /\ b \in S \ {a}
          /\ (S \ {b}) \ {a} = (S \ {a}) \ {b} /\ (S \ {a}) \ {b} \in SUBSET D
      BY <1>1, <2>1, <2>2
    <3>2. SumOf(v, S \ {b}) = v[a] + SumOf(v, (S \ {a}) \ {b})
      BY <3>1
    <3>3. SumOf(v, S \ {a}) = v[b] + SumOf(v, (S \ {a}) \ {b})
      BY <3>1
    <3>4. v[a] \in Int /\ v[b] \in Int /\ SumOf(v, (S \ {a}) \ {b}) \in Int
      BY <2>1, <3>1, SumType
    <3> QED BY <2>1, <3>2, <3>3, <3>4
  <2> QED BY <2>1, <2>2
<1> HIDE DEF Good
<1>2. \A S \in SUBSET D : S \in Good
  BY <1>1, SmallerSetsFirst
<1> QED
  BY <1>2 DEF Good

(* The sum over two sets that share nothing.                               *)
LEMMA SumUnion ==
    ASSUME NEW D, IsFiniteSet(D), NEW v \in [D -> Int], NEW T \in SUBSET D
    PROVE  \A S \in SUBSET (D \ T) : SumOf(v, S \cup T) = SumOf(v, S) + SumOf(v, T)
<1> DEFINE E == D \ T
           Good == {S \in SUBSET E : SumOf(v, S \cup T) = SumOf(v, S) + SumOf(v, T)}
<1>0. IsFiniteSet(E)
  BY FS_Subset
<1>1. ASSUME NEW S \in SUBSET E, \A R \in SUBSET S : R # S => R \in Good
      PROVE  S \in Good
  <2>1. CASE S = {}
    <3>1. SumOf(v, S) = 0 /\ SumOf(v, T) \in Int /\ S \cup T = T
      BY <2>1, SumChosen, SumType
    <3>2. SumOf(v, S \cup T) = SumOf(v, T)
      BY <3>1
    <3> QED BY <3>1, <3>2
  <2>2. CASE S # {}
    <3>1. PICK a \in S : TRUE
      BY <2>2
    <3>2. /\ S \ {a} \in Good /\ (S \cup T) \ {a} = (S \ {a}) \cup T
          /\ S \in SUBSET D /\ S \cup T \in SUBSET D /\ a \in S \cup T /\ S \ {a} \in SUBSET D
      BY <1>1, <3>1
    <3>3. SumOf(v, S \cup T) = v[a] + SumOf(v, (S \ {a}) \cup T)
      BY <3>2, SumRemove
    <3>4. SumOf(v, S) = v[a] + SumOf(v, S \ {a})
      BY <3>2, SumRemove
    <3>5. v[a] \in Int /\ SumOf(v, S \ {a}) \in Int /\ SumOf(v, T) \in Int
      BY <3>2, SumType
    <3>6. SumOf(v, (S \ {a}) \cup T) = SumOf(v, S \ {a}) + SumOf(v, T)
      BY <3>2
    <3> QED BY <3>3, <3>4, <3>5, <3>6
  <2> QED BY <2>1, <2>2
<1> HIDE DEF Good, E
<1>2. \A S \in SUBSET E : S \in Good
  BY <1>0, <1>1, SmallerSetsFirst
<1> QED
  BY <1>2 DEF Good, E

(* More and larger terms, none of them negative, make a larger sum.        *)
LEMMA SumMono ==
    ASSUME NEW D, IsFiniteSet(D), NEW v \in [D -> Int], NEW w \in [D -> Int],
           NEW T \in SUBSET D, \A x \in T : v[x] >= 0 /\ v[x] <= w[x]
    PROVE  \A S \in SUBSET T : SumOf(v, S) <= SumOf(w, T)
<1> DEFINE Good == {S \in SUBSET T : SumOf(v, S) <= SumOf(w, S)}
<1>0. IsFiniteSet(T)
  BY FS_Subset
<1>1. ASSUME NEW S \in SUBSET T, \A R \in SUBSET S : R # S => R \in Good
      PROVE  S \in Good
  <2>1. CASE S = {}
    <3>1. SumOf(v, S) = 0 /\ SumOf(w, S) = 0
      BY <2>1, SumChosen
    <3> QED BY <3>1
  <2>2. CASE S # {}
    <3>1. PICK a \in S : TRUE
      BY <2>2
    <3>2. S \ {a} \in Good /\ S \in SUBSET D /\ S \ {a} \in SUBSET D /\ a \in D
      BY <1>1, <3>1
    <3>3. SumOf(v, S) = v[a] + SumOf(v, S \ {a}) /\ SumOf(w, S) = w[a] + SumOf(w, S \ {a})
      BY <3>2, SumRemove
    <3>4. /\ v[a] \in Int /\ SumOf(v, S \ {a}) \in Int /\ w[a] \in Int
          /\ SumOf(w, S \ {a}) \in Int /\ v[a] <= w[a]
      BY <3>2, SumType
    <3>5. SumOf(v, S \ {a}) <= SumOf(w, S \ {a})
      BY <3>2
    <3> QED BY <3>3, <3>4, <3>5
  <2> QED BY <2>1, <2>2
<1> HIDE DEF Good
<1>2. \A S \in SUBSET T : S \in Good
  BY <1>0, <1>1, SmallerSetsFirst
<1>3. ASSUME NEW S \in SUBSET T PROVE SumOf(v, S) <= SumOf(w, T)
  <2>1. SumOf(v, S) <= SumOf(w, S)
    BY <1>2 DEF Good
  <2>2. /\ T \ S \in SUBSET (D \ S) /\ (T \ S) \cup S = T
        /\ S \in SUBSET D /\ T \ S \in SUBSET D
    OBVIOUS
  <2>3. SumOf(w, T) = SumOf(w, T \ S) + SumOf(w, S)
    BY <2>2, SumUnion
  <2>4. \A x \in T \ S : w[x] >= 0
    <3> SUFFICES ASSUME NEW x \in T \ S PROVE w[x] >= 0
      OBVIOUS
    <3>1. v[x] \in Int /\ w[x] \in Int /\ v[x] >= 0 /\ v[x] <= w[x]
      OBVIOUS
    <3> QED BY <3>1
  <2>5. /\ SumOf(w, T \ S) \in Int /\ SumOf(w, T \ S) >= 0
        /\ SumOf(v, S) \in Int /\ SumOf(w, S) \in Int
    BY <2>2, <2>4, SumType
  <2> QED BY <2>1, <2>3, <2>5
<1> QED
  BY <1>3

(* Only the terms of the set count.                                        *)
LEMMA SumSame ==
    ASSUME NEW D, IsFiniteSet(D), NEW v \in [D -> Int], NEW w \in [D -> Int],
           NEW S \in SUBSET D, \A x \in S : v[x] = w[x]
    PROVE  SumOf(v, S) = SumOf(w, S)
<1> DEFINE Good == {R \in SUBSET S : SumOf(v, R) = SumOf(w, R)}
<1>0. IsFiniteSet(S)
  BY FS_Subset
<1>1. ASSUME NEW R \in SUBSET S, \A Q \in SUBSET R : Q # R => Q \in Good
      PROVE  R \in Good
  <2>1. CASE R = {}
    BY <2>1, SumChosen
  <2>2. CASE R # {}
    <3>1. PICK a \in R : TRUE
      BY <2>2
    <3>2. R \ {a} \in Good /\ R \in SUBSET D
      BY <1>1, <3>1
    <3>3. SumOf(v, R) = v[a] + SumOf(v, R \ {a}) /\ SumOf(w, R) = w[a] + SumOf(w, R \ {a})
      BY <3>2, SumRemove
    <3> QED BY <3>2, <3>3
  <2> QED BY <2>1, <2>2
<1> HIDE DEF Good
<1>2. \A R \in SUBSET S : R \in Good
  BY <1>0, <1>1, SmallerSetsFirst
<1> QED
  BY <1>2 DEF Good

(* As many ones as elements.                                               *)
LEMMA SumOnes ==
    ASSUME NEW D, IsFiniteSet(D)
    PROVE  \A S \in SUBSET D : SumOf([x \in D |-> 1], S) = Cardinality(S)
<1> DEFINE v == [x \in D |-> 1]
           Good == {S \in SUBSET D : SumOf(v, S) = Cardinality(S)}
<1>0. v \in [D -> Int] /\ \A x \in D : v[x] = 1
  OBVIOUS
<1> HIDE DEF v
<1>1. ASSUME NEW S \in SUBSET D, \A R \in SUBSET S : R # S => R \in Good
      PROVE  S \in Good
  <2>1. CASE S = {}
    <3>1. SumOf(v, S) = 0 /\ Cardinality(S) = 0
      BY <2>1, SumChosen, FS_EmptySet
    <3> QED BY <3>1
  <2>2. CASE S # {}
    <3>1. PICK a \in S : TRUE
      BY <2>2
    <3>2. S \ {a} \in Good /\ a \in D /\ IsFiniteSet(S)
      BY <1>1, <3>1, FS_Subset
    <3>3. SumOf(v, S) = 1 + SumOf(v, S \ {a})
      BY <1>0, <3>1, <3>2, SumRemove
    <3>4. Cardinality(S \ {a}) = Cardinality(S) - 1 /\ Cardinality(S) \in Nat
      BY <3>1, <3>2, FS_RemoveElement, FS_CardinalityType
    <3> QED BY <3>2, <3>3, <3>4
  <2> QED BY <2>1, <2>2
<1> HIDE DEF Good
<1>2. \A S \in SUBSET D : S \in Good
  BY <1>1, SmallerSetsFirst
<1> QED
  BY <1>2 DEF Good, v

(* Adding up part by part.                                                 *)
PartsIn(p, R) == UNION {p[i] : i \in R}
LEMMA SumParts ==
    ASSUME NEW D, IsFiniteSet(D), NEW v \in [D -> Int], NEW I, IsFiniteSet(I),
           NEW p \in [I -> SUBSET D], \A i, j \in I : i # j => p[i] \cap p[j] = {}
    PROVE  \A R \in SUBSET I :
              SumOf([i \in I |-> SumOf(v, p[i])], R) = SumOf(v, PartsIn(p, R))
<1> DEFINE w == [i \in I |-> SumOf(v, p[i])]
           Good == {R \in SUBSET I : SumOf(w, R) = SumOf(v, PartsIn(p, R))}
<1>0. w \in [I -> Int] /\ \A i \in I : w[i] = SumOf(v, p[i])
  BY SumType
<1> HIDE DEF w
<1>1. ASSUME NEW R \in SUBSET I, \A Q \in SUBSET R : Q # R => Q \in Good
      PROVE  R \in Good
  <2>1. CASE R = {}
    <3>1. PartsIn(p, R) = {} /\ {} \in SUBSET D
      BY <2>1 DEF PartsIn
    <3>2. SumOf(w, R) = 0 /\ SumOf(v, PartsIn(p, R)) = 0
      BY <2>1, <3>1, SumChosen
    <3> QED BY <3>2
  <2>2. CASE R # {}
    <3>1. PICK a \in R : TRUE
      BY <2>2
    <3> DEFINE rest == PartsIn(p, R \ {a})
    <3>2. R \ {a} \in Good /\ a \in I /\ p[a] \in SUBSET D
      BY <1>1, <3>1
    <3>3. /\ PartsIn(p, R) = p[a] \cup rest
          /\ rest \in SUBSET D /\ p[a] \in SUBSET (D \ rest)
      BY <3>1 DEF PartsIn
    <3> HIDE DEF rest
    <3>4. SumOf(v, p[a] \cup rest) = SumOf(v, p[a]) + SumOf(v, rest)
      BY <3>3, SumUnion
    <3>5. SumOf(w, R) = w[a] + SumOf(w, R \ {a})
      BY <1>0, <3>1, SumRemove
    <3>6. SumOf(w, R \ {a}) = SumOf(v, rest)
      BY <3>2 DEF rest
    <3> QED BY <1>0, <3>2, <3>3, <3>4, <3>5, <3>6
  <2> QED BY <2>1, <2>2
<1> HIDE DEF Good
<1>2. \A R \in SUBSET I : R \in Good
  BY <1>1, SmallerSetsFirst
<1> QED
  BY <1>2 DEF Good, w

-----------------------------------------------------------------------------
(* ForecastRuns.  What a run has read is settled by the store it names and *)
(* the scope it has read with, which is not always the asker's.            *)

RunRow == [store : RunStores \cup {AnyStore}, over : SUBSET RunStores, at : 1 .. MostRuns,
           asker : StoreScopes]
RunCallRecord == [step : {"idle", "waiting", "read", "stamped", "committed"},
                  asked : RunStores \cup {AnyStore}, scope : StoreScopes, left : 0 .. RunAttempts,
                  over : SUBSET RunStores, at : 0 .. MostRuns]

(* A run over the stores of the one it names, or over all when it names    *)
(* none and reads without a scope.                                         *)
MadeOf(asked, asker, over) ==
    /\ asked # AnyStore => over = {asked}
    /\ asked = AnyStore /\ (redis \/ asker = {}) => over = RunStores

RunCallOK(c) ==
    /\ c.step = "waiting" => c.left > 0
    /\ c.step \in {"read", "stamped"} => MadeOf(c.asked, c.scope, c.over)
    /\ c.step = "stamped" => c.at > 0

RunsFoundInv ==
    /\ ForecastRunsTypeOK
    /\ \A x \in RunCalls : RunCallOK(runCall[x])
    /\ \A r \in runRows : MadeOf(r.store, r.asker, r.over)

LEMMA RunTypes ==
    ASSUME ForecastRunsTypeOK
    PROVE  /\ runCall \in [RunCalls -> RunCallRecord] /\ runRows \in SUBSET RunRow
           /\ stamps \in 0 .. MostRuns /\ redis \in BOOLEAN /\ MostRuns \in Nat
           /\ \A x \in RunCalls : runCall[x] \in RunCallRecord
BY ForecastRunsAssumption DEF ForecastRunsTypeOK, RunCallRecord, RunRow

LEMMA NoRunCallIsOne == NoRunCall \in RunCallRecord /\ NoRunCall.step = "idle"
BY ForecastRunsAssumption DEF NoRunCall, RunCallRecord, StoreScopes

LEMMA RunsFoundInit == ForecastRunsInit => RunsFoundInv
<1> SUFFICES ASSUME ForecastRunsInit PROVE RunsFoundInv
  OBVIOUS
<1>1. runCall \in [RunCalls -> RunCallRecord] /\ \A x \in RunCalls : runCall[x] = NoRunCall
  BY NoRunCallIsOne DEF ForecastRunsInit
<1>2. redis \in BOOLEAN /\ runRows = {} /\ stamps \in 0 .. MostRuns
  BY ForecastRunsAssumption DEF ForecastRunsInit
<1>3. ForecastRunsTypeOK
  BY <1>1, <1>2 DEF ForecastRunsTypeOK, RunCallRecord
<1> QED
  BY <1>1, <1>2, <1>3, NoRunCallIsOne DEF RunsFoundInv, RunCallOK

(* A call moves, and no row is written.                                    *)
LEMMA RunCallMoves ==
    ASSUME RunsFoundInv, NEW x \in RunCalls, NEW c \in RunCallRecord,
           runCall' = [runCall EXCEPT ![x] = c], RunCallOK(c),
           UNCHANGED <<redis, runRows>>, stamps' \in 0 .. MostRuns
    PROVE  RunsFoundInv'
<1>1. /\ runCall' \in [RunCalls -> RunCallRecord]
      /\ \A y \in RunCalls : runCall'[y] = IF y = x THEN c ELSE runCall[y]
  BY RunTypes DEF RunsFoundInv
<1>2. ForecastRunsTypeOK'
  BY <1>1 DEF RunsFoundInv, ForecastRunsTypeOK, RunCallRecord
<1>3. (\A y \in RunCalls : RunCallOK(runCall[y]))'
  BY <1>1 DEF RunsFoundInv, RunCallOK, MadeOf
<1> QED
  BY <1>2, <1>3 DEF RunsFoundInv, MadeOf

LEMMA RunsFoundNext == RunsFoundInv /\ [ForecastRunsNext]_runVars => RunsFoundInv'
<1> SUFFICES ASSUME RunsFoundInv, [ForecastRunsNext]_runVars PROVE RunsFoundInv'
  OBVIOUS
<1>0. /\ runCall \in [RunCalls -> RunCallRecord] /\ runRows \in SUBSET RunRow
      /\ stamps \in 0 .. MostRuns /\ redis \in BOOLEAN /\ MostRuns \in Nat
      /\ \A x \in RunCalls : runCall[x] \in RunCallRecord /\ RunCallOK(runCall[x])
  BY RunTypes DEF RunsFoundInv
<1>1. ASSUME NEW x \in RunCalls, NEW scope \in StoreScopes,
             NEW asked \in RunStores \cup {AnyStore}, AskRun(x, scope, asked)
      PROVE  RunsFoundInv'
  <2> DEFINE a == IF redis THEN RunAttempts ELSE 1
             c == [NoRunCall EXCEPT !.step = "waiting", !.asked = asked, !.scope = scope,
                                    !.left = a]
  <2>1. a \in 0 .. RunAttempts /\ a > 0
    BY ForecastRunsAssumption
  <2>2. runCall' = [runCall EXCEPT ![x] = c]
    BY <1>1 DEF AskRun, RunStep
  <2> HIDE DEF a
  <2>3. c \in RunCallRecord /\ c.step = "waiting" /\ c.left = a
    BY <2>1, NoRunCallIsOne DEF RunCallRecord
  <2> HIDE DEF c
  <2>4. RunCallOK(c) /\ UNCHANGED <<redis, runRows>> /\ stamps' \in 0 .. MostRuns
    BY <1>0, <1>1, <2>1, <2>3 DEF RunCallOK, AskRun, RunStep
  <2> QED BY <2>2, <2>3, <2>4, RunCallMoves
<1>2. ASSUME NEW x \in RunCalls, RunReads(x) PROVE RunsFoundInv'
  <2> DEFINE o == StoresOf(ContextScope(runCall[x]), runCall[x].asked)
             c == [runCall[x] EXCEPT !.step = "read", !.left = @ - 1, !.over = o]
  <2>1. /\ runCall[x] \in RunCallRecord /\ runCall[x].step = "waiting"
        /\ runCall[x].left - 1 \in 0 .. RunAttempts
    BY <1>0, <1>2, ForecastRunsAssumption DEF RunReads, RunStep, RunCallOK, RunCallRecord
  <2>2. o \in SUBSET RunStores /\ MadeOf(runCall[x].asked, runCall[x].scope, o)
    BY <2>1 DEF StoresOf, Reach, ContextScope, MadeOf, RunCallRecord, StoreScopes
  <2>3. runCall' = [runCall EXCEPT ![x] = c]
    BY <1>2 DEF RunReads, RunStep
  <2> HIDE DEF o
  <2>4. /\ c \in RunCallRecord /\ c.step = "read" /\ c.over = o
        /\ c.asked = runCall[x].asked /\ c.scope = runCall[x].scope
    BY <2>1, <2>2 DEF RunCallRecord
  <2> HIDE DEF c
  <2>5. RunCallOK(c) /\ UNCHANGED <<redis, runRows>> /\ stamps' \in 0 .. MostRuns
    BY <1>0, <1>2, <2>2, <2>4 DEF RunCallOK, RunReads, RunStep
  <2> QED BY <2>3, <2>4, <2>5, RunCallMoves
<1>3. ASSUME NEW x \in RunCalls, RunRefused(x) \/ JobCompletes(x) PROVE RunsFoundInv'
  <2>1. /\ runCall' = [runCall EXCEPT ![x] = NoRunCall]
        /\ UNCHANGED <<redis, runRows>> /\ stamps' \in 0 .. MostRuns
    BY <1>0, <1>3 DEF RunRefused, JobCompletes, RunStep
  <2>2. RunCallOK(NoRunCall)
    BY NoRunCallIsOne DEF RunCallOK
  <2> QED BY <2>1, <2>2, NoRunCallIsOne, RunCallMoves
<1>4. ASSUME NEW x \in RunCalls, RunStamps(x) PROVE RunsFoundInv'
  <2> DEFINE c == [runCall[x] EXCEPT !.step = "stamped", !.at = stamps + 1]
  <2>1. /\ runCall[x] \in RunCallRecord /\ runCall[x].step = "read" /\ RunCallOK(runCall[x])
        /\ stamps + 1 \in 0 .. MostRuns /\ stamps + 1 > 0
    BY <1>0, <1>4 DEF RunStamps, RunStep
  <2>2. runCall' = [runCall EXCEPT ![x] = c]
    BY <1>4 DEF RunStamps, RunStep
  <2>3. /\ c \in RunCallRecord /\ c.step = "stamped" /\ c.at = stamps + 1
        /\ c.over = runCall[x].over /\ c.asked = runCall[x].asked
        /\ c.scope = runCall[x].scope
    BY <2>1 DEF RunCallRecord
  <2> HIDE DEF c
  <2>4. RunCallOK(c) /\ UNCHANGED <<redis, runRows>> /\ stamps' \in 0 .. MostRuns
    BY <1>0, <1>4, <2>1, <2>3 DEF RunCallOK, RunStamps, RunStep
  <2> QED BY <2>2, <2>3, <2>4, RunCallMoves
<1>5. ASSUME NEW x \in RunCalls, RunCommits(x) PROVE RunsFoundInv'
  <2> DEFINE row == [store |-> runCall[x].asked, over |-> runCall[x].over,
                     at |-> runCall[x].at, asker |-> runCall[x].scope]
  <2>1. /\ runCall[x] \in RunCallRecord /\ runCall[x].step = "stamped"
        /\ runCall[x].at \in 1 .. MostRuns
        /\ MadeOf(runCall[x].asked, runCall[x].scope, runCall[x].over)
    BY <1>0, <1>5 DEF RunCommits, RunStep, RunCallOK, RunCallRecord
  <2>2. row \in RunRow /\ MadeOf(row.store, row.asker, row.over)
    BY <2>1 DEF RunRow, RunCallRecord
  <2>3. PICK c \in RunCallRecord :
           runCall' = [runCall EXCEPT ![x] = c] /\ c.step \in {"idle", "committed"}
    <3>1. CASE redis
      <4> DEFINE c == [runCall[x] EXCEPT !.step = "committed"]
      <4>1. c \in RunCallRecord /\ c.step = "committed"
        BY <2>1 DEF RunCallRecord
      <4> QED BY <1>5, <3>1, <4>1 DEF RunCommits, RunStep
    <3>2. CASE ~redis
      BY <1>5, <3>2, NoRunCallIsOne DEF RunCommits, RunStep
    <3> QED BY <3>1, <3>2
  <2>4. /\ runRows' = runRows \cup {row} /\ UNCHANGED <<redis, stamps>>
    BY <1>5 DEF RunCommits, RunStep
  <2> HIDE DEF row
  <2>5. /\ runCall' \in [RunCalls -> RunCallRecord]
        /\ \A y \in RunCalls : runCall'[y] = IF y = x THEN c ELSE runCall[y]
    BY <1>0, <2>3
  <2>6. ForecastRunsTypeOK'
    BY <1>0, <2>2, <2>4, <2>5 DEF ForecastRunsTypeOK, RunCallRecord, RunRow
  <2>7. (\A y \in RunCalls : RunCallOK(runCall[y]))'
    BY <1>0, <2>3, <2>4, <2>5 DEF RunCallOK, MadeOf
  <2>8. (\A q \in runRows : MadeOf(q.store, q.asker, q.over))'
    BY <2>2, <2>4 DEF RunsFoundInv, MadeOf
  <2> QED BY <2>6, <2>7, <2>8 DEF RunsFoundInv
<1>6. ASSUME NEW x \in RunCalls, RunDies(x) PROVE RunsFoundInv'
  <2>1. PICK c \in RunCallRecord :
           runCall' = [runCall EXCEPT ![x] = c] /\ RunCallOK(c)
    <3>1. CASE redis /\ runCall[x].left > 0
      <4> DEFINE c == [runCall[x] EXCEPT !.step = "waiting", !.over = {}, !.at = 0]
      <4>0. runCall[x] \in RunCallRecord /\ 0 \in 0 .. MostRuns
        BY <1>0
      <4>1. c \in RunCallRecord /\ c.step = "waiting" /\ c.left = runCall[x].left
        BY <4>0 DEF RunCallRecord
      <4>2. runCall' = [runCall EXCEPT ![x] = c]
        BY <1>6, <3>1 DEF RunDies, RunStep
      <4> HIDE DEF c
      <4>3. RunCallOK(c)
        BY <3>1, <4>1 DEF RunCallOK
      <4> QED BY <4>1, <4>2, <4>3
    <3>2. CASE ~(redis /\ runCall[x].left > 0)
      <4>1. RunCallOK(NoRunCall)
        BY NoRunCallIsOne DEF RunCallOK
      <4>2. runCall' = [runCall EXCEPT ![x] = NoRunCall]
        BY <1>6, <3>2 DEF RunDies, RunStep
      <4> QED BY <4>1, <4>2, NoRunCallIsOne
    <3> QED BY <3>1, <3>2
  <2>2. UNCHANGED <<redis, runRows, stamps>>
    BY <1>6 DEF RunDies, RunStep
  <2> QED BY <1>0, <2>1, <2>2, RunCallMoves
<1>7. CASE UNCHANGED runVars
  BY <1>7 DEF runVars, RunsFoundInv, ForecastRunsTypeOK, RunCallOK, MadeOf
<1> QED
  BY <1>1, <1>2, <1>3, <1>4, <1>5, <1>6, <1>7 DEF ForecastRunsNext

LEMMA RunsInvIsFound == RunsFoundInv => RunsAreFound
<1> SUFFICES ASSUME RunsFoundInv PROVE RunsAreFound
  OBVIOUS
<1>0. /\ runRows \in SUBSET RunRow /\ MostRuns \in Nat
      /\ \A r \in runRows : MadeOf(r.store, r.asker, r.over)
  BY RunTypes DEF RunsFoundInv
<1>1. ASSUME NEW r \in runRows, r.store # AnyStore, ~OutOfReach(r.asker, r.store)
      PROVE  \E q \in runRows : q.at >= r.at /\ IsLatest(q, r.asker, r.store)
  <2> DEFINE S == Shown(r.asker, r.store)
             T == {q.at : q \in S}
  <2>1. r \in S /\ S \subseteq runRows
    BY <1>1 DEF Shown
  <2>2. T \in SUBSET (0 .. MostRuns) /\ T # {}
    BY <1>0, <2>1 DEF RunRow
  <2>3. PICK t \in T : \A u \in T : u <= t
    BY <1>0, <2>2, LargestExists
  <2>4. PICK q \in S : q.at = t
    OBVIOUS
  <2>5. \A s \in S : s.at <= q.at
    BY <2>3, <2>4
  <2>6. r.at \in Nat /\ q.at \in Nat
    BY <1>0, <2>1 DEF RunRow
  <2> QED BY <2>1, <2>5, <2>6 DEF IsLatest
<1>2. ASSUME NEW scope \in StoreScopes \ {{}}, NEW asked \in RunStores \cup {AnyStore},
             NEW r \in runRows, IsLatest(r, scope, asked)
      PROVE  r.over \subseteq scope /\ Cardinality(r.over) = 1
  <2>1. scope \subseteq RunStores /\ scope # {} /\ r \in Shown(scope, asked)
    BY <1>2 DEF StoreScopes, IsLatest
  <2>2. r.store \in scope /\ r.store # AnyStore
    BY <2>1, ForecastRunsAssumption DEF Shown, OutOfReach, Reach
  <2>3. r.over = {r.store}
    BY <1>0, <2>2 DEF MadeOf
  <2> QED BY <2>2, <2>3, FS_Singleton
<1> QED
  BY <1>0, <1>1, <1>2 DEF RunsAreFound, MadeOf

(* For any stores, scopes and number of requests, attempts and runs: a     *)
(* forecast is kept under the store whose sales it is made of, and who may *)
(* see some stores only is shown forecasts of one of them, and finds the   *)
(* one they named or a later one (predictions run and latest).             *)
THEOREM ForecastsAreFound == ForecastRunsSpec => []RunsAreFound
BY RunsInvIsFound, RunsFoundInit, RunsFoundNext, PTL DEF ForecastRunsSpec

-----------------------------------------------------------------------------
(* ShopBootstrap.  An order's row names its customer or nobody, for good   *)
(* once it is there; and each step of a script left alone establishes what *)
(* the next one builds on.                                                 *)

ShopOrder == [at : Times, by : ShopCustomers, named : BOOLEAN]
CustomerRecord == [held : BOOLEAN, last : Times]
OrderRecord == [at : Times, by : ShopCustomers \cup {NoCustomer}]

(* A row is of an order placed, at its time; its customer placed it.       *)
RowTrue(o) ==
    /\ orderRow[o].at # 0 => orderRow[o].at = atShop[o].at
    /\ orderRow[o].by # NoCustomer => orderRow[o].at # 0 /\ orderRow[o].by = atShop[o].by

(* What a script that nobody disturbed has done so far.                    *)
HeldAll == \A c \in ShopCustomers : Named(c) # {} => customerRow[c].held
RowsCurrent ==
    \A o \in ShopOrders : IF o \in Placed THEN orderRow[o] = OrderUpserted(o, customerRow)
                          ELSE orderRow[o].by = NoCustomer
LastsCurrent == \A c \in ShopCustomers : Linked(c) # {} => customerRow[c].last = LastAt(c)

BootInv ==
    /\ BootstrapTypeOK
    /\ \A o \in ShopOrders : RowTrue(o)
    /\ RecencyIsTheirs
    /\ bootAlone /\ boot \in {"orders", "backfill", "done"} => HeldAll
    /\ bootAlone /\ boot \in {"backfill", "done"} => RowsCurrent
    /\ bootAlone /\ boot = "done" => LastsCurrent

LEMMA TimesAreNat ==
    /\ Cardinality(ShopOrders) \in Nat /\ Times = 0 .. Cardinality(ShopOrders)
    /\ 0 \in Times /\ Times \subseteq Nat
BY BootstrapAssumption, FS_CardinalityType DEF Times

LEMMA MaxTimeIsLargest ==
    ASSUME NEW S \in SUBSET Times
    PROVE  /\ MaxTime(S) \in S \cup {0} /\ MaxTime(S) \in Times
           /\ \A x \in S : x <= MaxTime(S)
<1>1. S \cup {0} \in SUBSET (0 .. Cardinality(ShopOrders)) /\ S \cup {0} # {}
  BY TimesAreNat
<1>2. PICK x \in S \cup {0} : \A y \in S \cup {0} : y <= x
  BY <1>1, LargestExists, TimesAreNat
<1>3. \A y \in S \cup {0} : y \in Nat
  BY <1>1
<1>4. MaxTime(S) \in S \cup {0} /\ \A y \in S \cup {0} : MaxTime(S) >= y
  BY <1>2, <1>3 DEF MaxTime, Max
<1> QED
  BY <1>1, <1>3, <1>4, TimesAreNat

LEMMA LastAtIsTheirs ==
    ASSUME BootInv, NEW c \in ShopCustomers
    PROVE  /\ LastAt(c) \in Times
           /\ LastAt(c) # 0 =>
                 \E o \in ShopOrders : orderRow[o].at = LastAt(c) /\ atShop[o].by = c
<1> DEFINE S == {orderRow[o].at : o \in Linked(c)}
<1>1. S \in SUBSET Times
  BY DEF BootInv, BootstrapTypeOK, Linked
<1>2. LastAt(c) \in Times /\ LastAt(c) \in S \cup {0}
  BY <1>1, MaxTimeIsLargest DEF LastAt
<1>3. ASSUME LastAt(c) # 0
      PROVE  \E o \in ShopOrders : orderRow[o].at = LastAt(c) /\ atShop[o].by = c
  <2>1. PICK o \in Linked(c) : orderRow[o].at = LastAt(c)
    BY <1>2, <1>3
  <2> QED BY <2>1, BootstrapAssumption DEF Linked, BootInv, RowTrue
<1> QED
  BY <1>2, <1>3

(* A row as a sync writes it is true, and keeps the time that was there.   *)
LEMMA UpsertIsTrue ==
    ASSUME BootInv, NEW o \in Placed,
           NEW customers \in [ShopCustomers -> CustomerRecord],
           NEW row, row = OrderUpserted(o, customers)
    PROVE  /\ row \in OrderRecord /\ row.at # 0 /\ row.at = atShop[o].at
           /\ row.by # NoCustomer => row.by = atShop[o].by
           /\ orderRow[o].at # 0 => row.at = orderRow[o].at
<1>1. o \in ShopOrders /\ atShop[o] \in ShopOrder /\ atShop[o].at \in Times /\ atShop[o].at # 0
  BY TimesAreNat DEF Placed, BootInv, BootstrapTypeOK, ShopOrder
<1> DEFINE b == IF atShop[o].named /\ customers[atShop[o].by].held THEN atShop[o].by
                ELSE NoCustomer
<1>2. row = [at |-> atShop[o].at, by |-> b]
  BY DEF OrderUpserted
<1>3. b \in ShopCustomers \cup {NoCustomer} /\ (b # NoCustomer => b = atShop[o].by)
  BY <1>1 DEF ShopOrder
<1> HIDE DEF b
<1> QED
  BY <1>1, <1>2, <1>3 DEF OrderRecord, BootInv, RowTrue

LEMMA CustomersUpsertedType ==
    ASSUME BootInv
    PROVE  /\ customerRow \in [ShopCustomers -> CustomerRecord]
           /\ CustomersUpserted \in [ShopCustomers -> CustomerRecord]
           /\ \A c \in ShopCustomers :
                 /\ Named(c) # {} => CustomersUpserted[c].held
                 /\ CustomersUpserted[c].last \in {0, customerRow[c].last}
<1>1. customerRow \in [ShopCustomers -> CustomerRecord]
  BY DEF BootInv, BootstrapTypeOK, CustomerRecord
<1>2. [held |-> TRUE, last |-> 0] \in CustomerRecord
  BY TimesAreNat DEF CustomerRecord
<1> QED
  BY <1>1, <1>2 DEF CustomersUpserted

LEMMA BootInvInit == BootstrapInit => BootInv
<1> SUFFICES ASSUME BootstrapInit PROVE BootInv
  OBVIOUS
<1> DEFINE c0 == CHOOSE c \in ShopCustomers : TRUE
<1>0. c0 \in ShopCustomers
  BY BootstrapAssumption
<1> HIDE DEF c0
<1>1. atShop \in [ShopOrders -> ShopOrder]
  BY <1>0, TimesAreNat DEF BootstrapInit, ShopOrder, c0
<1>2. /\ customerRow \in [ShopCustomers -> CustomerRecord]
      /\ \A c \in ShopCustomers : customerRow[c].last = 0
  BY TimesAreNat DEF BootstrapInit, CustomerRecord
<1>3. /\ orderRow \in [ShopOrders -> OrderRecord]
      /\ \A o \in ShopOrders : orderRow[o].at = 0 /\ orderRow[o].by = NoCustomer
  BY TimesAreNat DEF BootstrapInit, OrderRecord
<1>4. boot \in BootSteps /\ bootAlone = FALSE
  BY DEF BootstrapInit, BootSteps
<1> QED
  BY <1>1, <1>2, <1>3, <1>4
     DEF BootInv, BootstrapTypeOK, RowTrue, RecencyIsTheirs, ShopOrder, CustomerRecord,
         OrderRecord

(* Rows of orders written by a sync, whoever runs it, keep every time and  *)
(* name nobody else, so no last order becomes somebody else's.             *)
LEMMA WritesKeepTruth ==
    ASSUME BootInv, UNCHANGED atShop,
           orderRow' \in [ShopOrders -> OrderRecord],
           \A o \in ShopOrders :
              \/ orderRow'[o] = orderRow[o]
              \/ /\ orderRow'[o].at # 0 /\ orderRow'[o].at = atShop[o].at
                 /\ orderRow'[o].by # NoCustomer => orderRow'[o].by = atShop[o].by
                 /\ orderRow[o].at # 0 => orderRow'[o].at = orderRow[o].at,
           customerRow' \in [ShopCustomers -> CustomerRecord],
           \A c \in ShopCustomers :
              customerRow'[c].last # 0 =>
                 \/ customerRow'[c].last = customerRow[c].last
                 \/ \E o \in ShopOrders :
                       orderRow[o].at = customerRow'[c].last /\ atShop[o].by = c,
           boot' \in BootSteps, bootAlone' \in BOOLEAN
    PROVE  BootstrapTypeOK' /\ (\A o \in ShopOrders : RowTrue(o))' /\ RecencyIsTheirs'
<1>1. BootstrapTypeOK'
  BY DEF BootInv, BootstrapTypeOK, OrderRecord, CustomerRecord
<1>2. (\A o \in ShopOrders : RowTrue(o))'
  BY DEF BootInv, RowTrue
<1>3. \A o \in ShopOrders : orderRow[o].at # 0 => orderRow'[o].at = orderRow[o].at
  OBVIOUS
<1>4. RecencyIsTheirs'
  <2> SUFFICES ASSUME NEW c \in ShopCustomers, customerRow'[c].last # 0
               PROVE  \E o \in ShopOrders : orderRow'[o].at = customerRow'[c].last /\ atShop'[o].by = c
    BY DEF RecencyIsTheirs
  <2>1. PICK o \in ShopOrders : orderRow[o].at = customerRow'[c].last /\ atShop[o].by = c
    BY DEF BootInv, RecencyIsTheirs
  <2> QED BY <1>3, <2>1
<1> QED
  BY <1>1, <1>2, <1>4

(* The same, when the writer is not a script that has been left alone.     *)
LEMMA NotAlone ==
    ASSUME BootstrapTypeOK', (\A o \in ShopOrders : RowTrue(o))', RecencyIsTheirs',
           bootAlone' = FALSE \/ boot' \in {"idle", "customers"}
    PROVE  BootInv'
BY DEF BootInv

LEMMA OrdersUpsertedRows ==
    ASSUME BootInv, NEW customers \in [ShopCustomers -> CustomerRecord],
           orderRow' = OrdersUpserted(customers)
    PROVE  /\ orderRow' \in [ShopOrders -> OrderRecord]
           /\ \A o \in ShopOrders :
                 \/ orderRow'[o] = orderRow[o]
                 \/ /\ orderRow'[o].at # 0 /\ orderRow'[o].at = atShop[o].at
                    /\ orderRow'[o].by # NoCustomer => orderRow'[o].by = atShop[o].by
                    /\ orderRow[o].at # 0 => orderRow'[o].at = orderRow[o].at
<1>1. orderRow \in [ShopOrders -> OrderRecord]
  BY DEF BootInv, BootstrapTypeOK, OrderRecord
<1>2. ASSUME NEW o \in ShopOrders
      PROVE  /\ o \in Placed => orderRow'[o] = OrderUpserted(o, customers)
             /\ o \notin Placed => orderRow'[o] = orderRow[o]
  BY DEF OrdersUpserted
<1>3. \A o \in ShopOrders : orderRow'[o] \in OrderRecord
  BY <1>1, <1>2, UpsertIsTrue
<1>4. orderRow' \in [ShopOrders -> OrderRecord]
  <2>1. orderRow' = [o \in ShopOrders |-> orderRow'[o]]
    BY DEF OrdersUpserted
  <2> QED BY <1>3, <2>1
<1> QED
  BY <1>2, <1>4, UpsertIsTrue

LEMMA BootInvNext == BootInv /\ [BootstrapNext]_bootVars => BootInv'
<1> SUFFICES ASSUME BootInv, [BootstrapNext]_bootVars PROVE BootInv'
  OBVIOUS
<1>0. /\ atShop \in [ShopOrders -> ShopOrder]
      /\ customerRow \in [ShopCustomers -> CustomerRecord]
      /\ orderRow \in [ShopOrders -> OrderRecord]
      /\ boot \in BootSteps /\ bootAlone \in BOOLEAN
      /\ \A o \in ShopOrders : RowTrue(o)
      /\ RecencyIsTheirs
  BY DEF BootInv, BootstrapTypeOK, ShopOrder, CustomerRecord, OrderRecord
<1>1. ASSUME NEW c \in ShopCustomers, ShopSells(c) PROVE BootInv'
  <2> DEFINE o == CHOOSE o \in ShopOrders : o \notin Placed
             s == [at |-> Cardinality(Placed) + 1, by |-> c, named |-> TRUE]
  <2>1. Placed # ShopOrders /\ atShop' = [atShop EXCEPT ![o] = s]
    BY <1>1 DEF ShopSells
  <2>2. o \in ShopOrders /\ o \notin Placed
    BY <2>1 DEF Placed
  <2>3. Cardinality(Placed) + 1 \in Times
    <3>1. Placed \in SUBSET ShopOrders
      BY DEF Placed
    <3>2. /\ Cardinality(Placed) <= Cardinality(ShopOrders)
          /\ Cardinality(Placed) # Cardinality(ShopOrders)
          /\ Cardinality(Placed) \in Nat
      BY <2>1, <3>1, BootstrapAssumption, FS_Subset, FS_CardinalityType
    <3> QED BY <3>2, TimesAreNat
  <2>4. s \in ShopOrder
    BY <2>3 DEF ShopOrder
  <2>5. PICK q \in ShopOrders : /\ q \notin Placed
                                /\ atShop' \in [ShopOrders -> ShopOrder]
                                /\ \A p \in ShopOrders \ {q} : atShop'[p] = atShop[p]
    <3> HIDE DEF o, s
    <3> QED BY <1>0, <2>1, <2>2, <2>4
  <2>6. UNCHANGED <<customerRow, orderRow, boot>> /\ bootAlone' = FALSE
    BY <1>1 DEF ShopSells
  <2>7. orderRow[q].at = 0 /\ orderRow[q].by = NoCustomer
    <3>1. atShop[q].at = 0
      BY <1>0, <2>5, TimesAreNat DEF Placed, ShopOrder
    <3> QED BY <1>0, <3>1 DEF RowTrue
  <2>8. BootstrapTypeOK'
    BY <2>5, <2>6 DEF BootInv, BootstrapTypeOK, ShopOrder
  <2>9. (\A p \in ShopOrders : RowTrue(p))'
    BY <1>0, <2>5, <2>6, <2>7 DEF RowTrue
  <2>10. RecencyIsTheirs'
    BY <1>0, <2>5, <2>6, <2>7 DEF RecencyIsTheirs
  <2> QED BY <2>6, <2>8, <2>9, <2>10, NotAlone
<1>2. ASSUME NEW c \in ShopCustomers, ShopRedacts(c) PROVE BootInv'
  <2>1. /\ atShop' \in [ShopOrders -> ShopOrder]
        /\ \A o \in ShopOrders : atShop'[o].at = atShop[o].at /\ atShop'[o].by = atShop[o].by
    BY <1>0, <1>2 DEF ShopRedacts, ShopOrder
  <2>2. UNCHANGED <<customerRow, orderRow, boot>> /\ bootAlone' = FALSE
    BY <1>2 DEF ShopRedacts
  <2>3. BootstrapTypeOK'
    BY <2>1, <2>2 DEF BootInv, BootstrapTypeOK, ShopOrder
  <2>4. (\A o \in ShopOrders : RowTrue(o))' /\ RecencyIsTheirs'
    BY <1>0, <2>1, <2>2 DEF RowTrue, RecencyIsTheirs
  <2> QED BY <2>2, <2>3, <2>4, NotAlone
<1>3. ASSUME NEW types \in {{"customers"}, {"orders"}, {"customers", "orders"}}, ApiSync(types)
      PROVE  BootInv'
  <2>1. PICK customers \in [ShopCustomers -> CustomerRecord] :
           /\ customerRow' = customers
           /\ \A c \in ShopCustomers : customers[c].last \in {0, customerRow[c].last}
           /\ orderRow' = IF "orders" \in types THEN OrdersUpserted(customers) ELSE orderRow
    BY <1>3, CustomersUpsertedType DEF ApiSync
  <2>2. UNCHANGED <<atShop, boot>> /\ bootAlone' = FALSE
    BY <1>3 DEF ApiSync
  <2>3. /\ orderRow' \in [ShopOrders -> OrderRecord]
        /\ \A o \in ShopOrders :
              \/ orderRow'[o] = orderRow[o]
              \/ /\ orderRow'[o].at # 0 /\ orderRow'[o].at = atShop[o].at
                 /\ orderRow'[o].by # NoCustomer => orderRow'[o].by = atShop[o].by
                 /\ orderRow[o].at # 0 => orderRow'[o].at = orderRow[o].at
    BY <1>0, <2>1, OrdersUpsertedRows
  <2>4. BootstrapTypeOK' /\ (\A o \in ShopOrders : RowTrue(o))' /\ RecencyIsTheirs'
    BY <1>0, <2>1, <2>2, <2>3, WritesKeepTruth
  <2> QED BY <2>2, <2>4, NotAlone
<1>4. ASSUME NEW o \in ShopOrders, ApiWebhook(o) PROVE BootInv'
  <2> DEFINE row == OrderUpserted(o, customerRow)
  <2>1. /\ row \in OrderRecord /\ row.at # 0 /\ row.at = atShop[o].at
        /\ row.by # NoCustomer => row.by = atShop[o].by
        /\ orderRow[o].at # 0 => row.at = orderRow[o].at
    BY <1>0, <1>4, UpsertIsTrue DEF ApiWebhook
  <2>2. orderRow' = [orderRow EXCEPT ![o] = row]
    BY <1>4 DEF ApiWebhook
  <2> HIDE DEF row
  <2>3. /\ orderRow' \in [ShopOrders -> OrderRecord]
        /\ \A p \in ShopOrders : orderRow'[p] = IF p = o THEN row ELSE orderRow[p]
    BY <1>0, <2>1, <2>2
  <2>4. UNCHANGED <<atShop, customerRow, boot>> /\ bootAlone' = FALSE
    BY <1>4 DEF ApiWebhook
  <2>5. BootstrapTypeOK' /\ (\A p \in ShopOrders : RowTrue(p))' /\ RecencyIsTheirs'
    BY <1>0, <2>1, <2>3, <2>4, WritesKeepTruth
  <2> QED BY <2>4, <2>5, NotAlone
<1>5. ASSUME BootStart \/ BootDies PROVE BootInv'
  <2>1. /\ UNCHANGED <<atShop, customerRow, orderRow>>
        /\ boot' \in {"idle", "customers"} /\ boot' \in BootSteps /\ bootAlone' \in BOOLEAN
    BY <1>0, <1>5 DEF BootStart, BootDies, StepAfter, BootSteps
  <2>2. BootstrapTypeOK' /\ (\A o \in ShopOrders : RowTrue(o))' /\ RecencyIsTheirs'
    BY <1>0, <2>1, WritesKeepTruth
  <2> QED BY <2>1, <2>2, NotAlone
<1>6. ASSUME BootCustomers PROVE BootInv'
  <2>1. UNCHANGED <<atShop, orderRow>> /\ boot' = "orders" /\ boot' \in BootSteps
    BY <1>6 DEF BootCustomers, StepAfter, BootSteps
  <2>2. CASE customerRow' = CustomersUpserted /\ UNCHANGED bootAlone
    <3>1. BootstrapTypeOK' /\ (\A o \in ShopOrders : RowTrue(o))' /\ RecencyIsTheirs'
      BY <1>0, <2>1, <2>2, CustomersUpsertedType, WritesKeepTruth
    <3>2. HeldAll'
      BY <2>1, <2>2, CustomersUpsertedType DEF HeldAll, Named, Placed
    <3> QED BY <2>1, <3>1, <3>2 DEF BootInv
  <2>3. CASE UNCHANGED customerRow /\ bootAlone' = FALSE
    <3>1. BootstrapTypeOK' /\ (\A o \in ShopOrders : RowTrue(o))' /\ RecencyIsTheirs'
      BY <1>0, <2>1, <2>3, WritesKeepTruth
    <3> QED BY <2>3, <3>1, NotAlone
  <2> QED BY <1>6, <2>2, <2>3 DEF BootCustomers
<1>7. ASSUME BootOrders PROVE BootInv'
  <2>1. /\ UNCHANGED <<atShop, customerRow>> /\ boot = "orders"
        /\ boot' = "backfill" /\ boot' \in BootSteps
    BY <1>7 DEF BootOrders, StepAfter, BootSteps
  <2>2. CASE orderRow' = OrdersUpserted(customerRow) /\ UNCHANGED bootAlone
    <3>1. /\ orderRow' \in [ShopOrders -> OrderRecord]
          /\ \A o \in ShopOrders :
                \/ orderRow'[o] = orderRow[o]
                \/ /\ orderRow'[o].at # 0 /\ orderRow'[o].at = atShop[o].at
                   /\ orderRow'[o].by # NoCustomer => orderRow'[o].by = atShop[o].by
                   /\ orderRow[o].at # 0 => orderRow'[o].at = orderRow[o].at
      BY <1>0, <2>2, OrdersUpsertedRows
    <3>2. BootstrapTypeOK' /\ (\A o \in ShopOrders : RowTrue(o))' /\ RecencyIsTheirs'
      BY <1>0, <2>1, <2>2, <3>1, WritesKeepTruth
    <3>3. bootAlone' => HeldAll'
      BY <2>1, <2>2 DEF BootInv, HeldAll, Named, Placed
    <3>4. RowsCurrent'
      <4> SUFFICES ASSUME NEW o \in ShopOrders
                   PROVE  IF o \in Placed THEN orderRow'[o] = OrderUpserted(o, customerRow)
                          ELSE orderRow'[o].by = NoCustomer
        BY <2>1 DEF RowsCurrent, Placed, OrderUpserted
      <4>1. CASE o \in Placed
        BY <2>2, <4>1 DEF OrdersUpserted
      <4>2. CASE o \notin Placed
        <5>1. atShop[o].at = 0 /\ orderRow'[o] = orderRow[o]
          BY <1>0, <2>2, <4>2, TimesAreNat DEF OrdersUpserted, Placed, ShopOrder
        <5> QED BY <1>0, <4>2, <5>1 DEF RowTrue
      <4> QED BY <4>1, <4>2
    <3> QED BY <2>1, <3>2, <3>3, <3>4 DEF BootInv
  <2>3. CASE UNCHANGED orderRow /\ bootAlone' = FALSE
    <3>1. BootstrapTypeOK' /\ (\A o \in ShopOrders : RowTrue(o))' /\ RecencyIsTheirs'
      BY <1>0, <2>1, <2>3, WritesKeepTruth
    <3> QED BY <2>3, <3>1, NotAlone
  <2> QED BY <1>7, <2>2, <2>3 DEF BootOrders
<1>8. ASSUME BootBackfill PROVE BootInv'
  <2>1. /\ UNCHANGED <<atShop, orderRow, bootAlone>> /\ boot = "backfill"
        /\ boot' = "done" /\ boot' \in BootSteps
    BY <1>8 DEF BootBackfill, StepAfter, BootSteps
  <2>2. /\ customerRow' \in [ShopCustomers -> CustomerRecord]
        /\ \A c \in ShopCustomers :
              /\ customerRow'[c].held = customerRow[c].held
              /\ customerRow'[c].last = IF Linked(c) # {} THEN LastAt(c) ELSE customerRow[c].last
    BY <1>0, <1>8, LastAtIsTheirs DEF BootBackfill, CustomerRecord
  <2>3. BootstrapTypeOK' /\ (\A o \in ShopOrders : RowTrue(o))' /\ RecencyIsTheirs'
    BY <1>0, <2>1, <2>2, LastAtIsTheirs, WritesKeepTruth
  <2>4. bootAlone' => HeldAll'
    BY <2>1, <2>2 DEF BootInv, HeldAll, Named, Placed
  <2>5. bootAlone' => RowsCurrent'
    <3> SUFFICES ASSUME bootAlone, NEW o \in ShopOrders
                 PROVE  IF o \in Placed THEN orderRow[o] = OrderUpserted(o, customerRow')
                        ELSE orderRow[o].by = NoCustomer
      BY <2>1 DEF RowsCurrent, Placed, OrderUpserted
    <3>1. RowsCurrent /\ atShop[o].by \in ShopCustomers
      BY <1>0, <2>1 DEF BootInv, ShopOrder
    <3>2. OrderUpserted(o, customerRow') = OrderUpserted(o, customerRow)
      BY <2>2, <3>1 DEF OrderUpserted
    <3> QED BY <3>1, <3>2 DEF RowsCurrent
  <2>6. LastsCurrent'
    BY <2>1, <2>2 DEF LastsCurrent, Linked, LastAt
  <2> QED BY <2>1, <2>3, <2>4, <2>5, <2>6 DEF BootInv
<1>9. CASE UNCHANGED bootVars
  BY <1>9
     DEF bootVars, BootInv, BootstrapTypeOK, RowTrue, RecencyIsTheirs, HeldAll, RowsCurrent,
         LastsCurrent, Named, Placed, OrderUpserted, Linked, LastAt
<1> QED
  BY <1>1, <1>2, <1>3, <1>4, <1>5, <1>6, <1>7, <1>8, <1>9 DEF BootstrapNext

(* After a script left alone, the orders linked to a customer are those    *)
(* the shop still names them for, at the same times.                       *)
LEMMA BootInvIsRight == BootInv => RecencyIsRight
<1> SUFFICES ASSUME BootInv PROVE RecencyIsRight
  OBVIOUS
<1>1. RecencyIsTheirs
  BY DEF BootInv
<1>2. ASSUME boot = "done", bootAlone, NEW c \in ShopCustomers, Named(c) # {}
      PROVE  /\ Named(c) \subseteq Linked(c)
             /\ customerRow[c].last = MaxTime({atShop[o].at : o \in Named(c)})
  <2>1. HeldAll /\ RowsCurrent /\ LastsCurrent
    BY <1>2 DEF BootInv
  <2>2. customerRow[c].held
    BY <1>2, <2>1 DEF HeldAll
  <2>3. ASSUME NEW o \in Named(c)
        PROVE  o \in Linked(c) /\ orderRow[o].at = atShop[o].at
    <3>1. o \in ShopOrders /\ o \in Placed /\ atShop[o].by = c /\ atShop[o].named
      BY DEF Named, Placed
    <3>2. orderRow[o] = OrderUpserted(o, customerRow)
      BY <2>1, <3>1 DEF RowsCurrent
    <3>3. orderRow[o].by = c /\ orderRow[o].at = atShop[o].at
      BY <2>2, <3>1, <3>2 DEF OrderUpserted
    <3> QED BY <3>1, <3>3 DEF Linked
  <2>4. ASSUME NEW o \in Linked(c) PROVE o \in Named(c)
    <3>1. o \in ShopOrders /\ orderRow[o].by = c /\ c # NoCustomer
      BY BootstrapAssumption DEF Linked
    <3>2. o \in Placed /\ orderRow[o] = OrderUpserted(o, customerRow)
      BY <2>1, <3>1 DEF RowsCurrent
    <3>3. atShop[o].named /\ atShop[o].by = c
      BY <3>1, <3>2 DEF OrderUpserted
    <3> QED BY <3>2, <3>3 DEF Named
  <2>5. Linked(c) = Named(c)
    BY <2>3, <2>4
  <2>6. {orderRow[o].at : o \in Linked(c)} = {atShop[o].at : o \in Named(c)}
    BY <2>3, <2>5
  <2>7. customerRow[c].last = LastAt(c)
    BY <1>2, <2>1, <2>5 DEF LastsCurrent
  <2> QED BY <2>5, <2>6, <2>7 DEF LastAt
<1> QED
  BY <1>1, <1>2 DEF RecencyIsRight, BootstrapIsComplete

(* For any orders and customers of the shop: a customer's last order is    *)
(* one they placed, whatever syncs, webhooks and scripts wrote the rows,   *)
(* and after a script that nobody disturbed it is the last the shop names  *)
(* them for (bootstrap-shopify.ts and SyncService).                        *)
THEOREM RecencyHolds == BootstrapSpec => []RecencyIsRight
BY BootInvIsRight, BootInvInit, BootInvNext, PTL DEF BootstrapSpec

-----------------------------------------------------------------------------
(* OrderInsights.  What comes after a window's end plays no part in what   *)
(* the report says of it: neither in an order's place among those of its   *)
(* customer nor, for a customer who stayed away, in the last one.          *)

OrdersInv == now \in 0 .. LastTick /\ order \in [Orders -> OrderRows \cup {None}]

LEMMA OrdersInvInit == ReportsInit => OrdersInv
BY ReportsAssumption DEF ReportsInit, OrdersInv

LEMMA OrdersInvNext == OrdersInv /\ [ReportsNext]_reportVars => OrdersInv'
<1> SUFFICES ASSUME OrdersInv, [ReportsNext]_reportVars PROVE OrdersInv'
  OBVIOUS
<1>1. CASE Tick
  BY <1>1, ReportsAssumption DEF Tick, OrdersInv
<1>2. ASSUME NEW o \in Orders, SyncNewOrder(o) PROVE OrdersInv'
  <2>1. PICK t \in 0 .. now, c \in Customers \cup {None} :
           order' = [order EXCEPT ![o] = [at |-> t, customer |-> c, refund |-> 0]]
    BY <1>2 DEF SyncNewOrder
  <2>2. [at |-> t, customer |-> c, refund |-> 0] \in OrderRows
    BY ReportsAssumption DEF OrderRows, OrdersInv
  <2> QED BY <1>2, <2>1, <2>2 DEF SyncNewOrder, OrdersInv
<1>3. ASSUME NEW o \in Orders, SyncOrderAgain(o) PROVE OrdersInv'
  <2>1. order[o] \in OrderRows
    BY <1>3 DEF SyncOrderAgain, OrdersInv
  <2>2. PICK row \in OrderRows : order' = [order EXCEPT ![o] = row]
    <3>1. CASE order' = [order EXCEPT ![o].refund = Price[o].total]
      <4>1. [order[o] EXCEPT !.refund = Price[o].total] \in OrderRows
        BY <2>1, ReportsAssumption DEF OrderRows
      <4> QED BY <3>1, <4>1
    <3>2. ASSUME NEW c \in Customers, order' = [order EXCEPT ![o].customer = c]
          PROVE  \E row \in OrderRows : order' = [order EXCEPT ![o] = row]
      <4>1. [order[o] EXCEPT !.customer = c] \in OrderRows
        BY <2>1 DEF OrderRows
      <4> QED BY <3>2, <4>1
    <3> QED BY <1>3, <3>1, <3>2 DEF SyncOrderAgain
  <2> QED BY <1>3, <2>2 DEF SyncOrderAgain, OrdersInv
<1>4. ASSUME NEW r \in Rollups, RollupRead(r) \/ RollupCommit(r) \/ RollupFails(r)
      PROVE  OrdersInv'
  BY <1>4 DEF RollupRead, RollupCommit, RollupFails, OrdersInv
<1>5. CASE UNCHANGED reportVars
  BY <1>5 DEF reportVars, OrdersInv
<1> QED
  BY <1>1, <1>2, <1>3, <1>4, <1>5 DEF ReportsNext

(* The orders of a window, and those of them that are a customer's first.  *)
Inside(H, from, to) == {o \in Bought(H) : ~(order[o].at < from \/ order[o].at >= to)}
FirstsIn(H, S) == {o \in S : SeqOf(H, o) = 1}

LEMMA WindowIsItsOrders ==
    ASSUME NEW H, NEW G, NEW from, NEW to, NEW start, NEW end,
           Inside(H, from, to) = Inside(G, start, end),
           FirstsIn(H, Inside(H, from, to)) = FirstsIn(G, Inside(G, start, end))
    PROVE  AggWindow(H, from, to) = AggWindow(G, start, end)
<1> DEFINE agg(S, F) ==
       [newSales |-> NetOf(F), recurringSales |-> NetOf(S \ F),
        newOrders |-> Cardinality(F), recurringOrders |-> Cardinality(S \ F),
        active |-> {order[o].customer : o \in S}, fresh |-> {order[o].customer : o \in F}]
<1>1. AggWindow(H, from, to) = agg(Inside(H, from, to), FirstsIn(H, Inside(H, from, to)))
  BY DEF AggWindow, Inside, FirstsIn
<1>2. AggWindow(G, start, end) = agg(Inside(G, start, end), FirstsIn(G, Inside(G, start, end)))
  BY DEF AggWindow, Inside, FirstsIn
<1> HIDE DEF agg
<1> QED
  BY <1>1, <1>2

LEMMA PreviousWasPast == OrdersInv => PreviousIsPast
<1> SUFFICES ASSUME OrdersInv PROVE PreviousIsPast
  OBVIOUS
<1> DEFINE past == {o \in Synced : order[o].at < Start(now)}
<1>0. /\ now \in Int /\ Start(now) \in Int /\ PrevStart(now) \in Int
      /\ PrevStart(now) = Start(Start(now))
      /\ \A o \in Synced : o \in Orders /\ order[o] \in OrderRows /\ order[o].at \in Int
  BY ReportsAssumption, InsightsAssumption DEF OrdersInv, Synced, OrderRows, Start, PrevStart
<1> DEFINE from == PrevStart(now)
           s == Start(now)
<1>1. Inside(Synced, from, s) = Inside(past, from, s + 1)
  <2>1. ASSUME NEW o \in Synced
        PROVE  (order[o].at < s /\ ~(order[o].at < from \/ order[o].at >= s + 1))
                  <=> ~(order[o].at < from \/ order[o].at >= s)
    BY <1>0
  <2> HIDE DEF from, s
  <2> QED BY <2>1 DEF Inside, Bought, s
<1>2. ASSUME NEW o \in Inside(Synced, from, s)
      PROVE  SeqOf(Synced, o) = SeqOf(past, o)
  <2>1. o \in Synced /\ order[o].at < s
    BY <1>0 DEF Inside, Bought
  <2>2. ASSUME NEW p \in Synced, NotLater(p, o) PROVE p \in past
    BY <1>0, <2>1, <2>2 DEF NotLater
  <2>3. {p \in OrdersBy(Synced, order[o].customer) : NotLater(p, o)}
          = {p \in OrdersBy(past, order[o].customer) : NotLater(p, o)}
    BY <2>2 DEF OrdersBy
  <2> QED BY <2>3 DEF SeqOf
<1>3. FirstsIn(Synced, Inside(Synced, from, s)) = FirstsIn(past, Inside(past, from, s + 1))
  BY <1>1, <1>2 DEF FirstsIn
<1>4. AggWindow(Synced, from, s) = AggWindow(past, from, s + 1)
  BY <1>1, <1>3, WindowIsItsOrders
<1> QED
  BY <1>0, <1>4 DEF PreviousIsPast, RetentionPrevious, RetentionCurrent

LEMMA LastIsLargest ==
    ASSUME OrdersInv, NEW H \in SUBSET Synced, NEW c, OrdersBy(H, c) # {}
    PROVE  /\ \E o \in OrdersBy(H, c) : LastOrder(H, c) = order[o].at
           /\ \A o \in OrdersBy(H, c) : order[o].at <= LastOrder(H, c)
           /\ LastOrder(H, c) \in Nat
<1> DEFINE T == {order[o].at : o \in OrdersBy(H, c)}
<1>1. T \in SUBSET (0 .. LastTick) /\ T # {} /\ LastTick \in Nat
  <2>1. ASSUME NEW o \in OrdersBy(H, c) PROVE order[o].at \in 0 .. LastTick
    <3>1. o \in Synced
      BY DEF OrdersBy
    <3>2. order[o] \in OrderRows
      BY <3>1 DEF OrdersInv, Synced
    <3> QED BY <3>2 DEF OrderRows
  <2> QED BY <2>1, ReportsAssumption
<1>2. PICK x \in T : \A y \in T : y <= x
  BY <1>1, LargestExists
<1>3. \A y \in T : y \in Nat
  BY <1>1
<1>4. Max(T) \in T /\ \A y \in T : Max(T) >= y
  BY <1>2, <1>3 DEF Max
<1>5. LastOrder(H, c) = Max(T)
  BY DEF LastOrder
<1> HIDE DEF T
<1>6. LastOrder(H, c) \in T /\ LastOrder(H, c) \in Nat /\ \A y \in T : y <= LastOrder(H, c)
  BY <1>3, <1>4, <1>5
<1> QED
  BY <1>6 DEF T

LEMMA PrevChurnedWas == OrdersInv => PrevChurnedStayedAway
<1> SUFFICES ASSUME OrdersInv PROVE PrevChurnedStayedAway
  OBVIOUS
<1> DEFINE past == {o \in Synced : order[o].at < Start(now)}
           away(c) == \A o \in OrdersBy(Synced, c) : order[o].at < Start(now)
           limit == Start(now) - ChurnDays * DayLen
<1>0. /\ now \in Int /\ Start(now) \in Int /\ limit \in Int
      /\ \A o \in Synced : order[o].at \in Int
  BY ReportsAssumption, InsightsAssumption DEF OrdersInv, Synced, OrderRows, Start
<1> HIDE DEF limit
<1>1. ASSUME NEW c, away(c) PROVE OrdersBy(past, c) = OrdersBy(Synced, c)
  BY <1>1 DEF OrdersBy
<1>2. ASSUME NEW c \in Buyers(Synced)
      PROVE  /\ OrdersBy(Synced, c) # {}
             /\ away(c) => c \in Buyers(past) /\ LastOrder(past, c) = LastOrder(Synced, c)
             /\ LastOrder(Synced, c) < Start(now) <=> away(c)
  <2>1. PICK o \in Synced : order[o].customer # None /\ order[o].customer = c
    BY DEF Buyers, Bought
  <2>2. o \in OrdersBy(Synced, c)
    BY <2>1 DEF OrdersBy
  <2>3. away(c) => c \in Buyers(past)
    BY <2>1, <2>2 DEF Buyers, Bought
  <2>4. away(c) => LastOrder(past, c) = LastOrder(Synced, c)
    BY <1>1 DEF LastOrder
  <2>5. /\ \E p \in OrdersBy(Synced, c) : LastOrder(Synced, c) = order[p].at
        /\ \A p \in OrdersBy(Synced, c) : order[p].at <= LastOrder(Synced, c)
        /\ LastOrder(Synced, c) \in Nat
    BY <2>2, LastIsLargest
  <2>6. \A p \in OrdersBy(Synced, c) : order[p].at \in Int
    BY <1>0 DEF OrdersBy
  <2>7. LastOrder(Synced, c) < Start(now) <=> away(c)
    BY <1>0, <2>5, <2>6
  <2> QED BY <2>2, <2>3, <2>4, <2>7
<1>3. Buyers(past) \subseteq Buyers(Synced)
  BY DEF Buyers, Bought
<1>4. PrevChurned(Synced, now) =
         {c \in Buyers(Synced) : LastOrder(Synced, c) < limit /\ LastOrder(Synced, c) < Start(now)}
  BY DEF PrevChurned, limit
<1>5. Churned(past, Start(now)) = {c \in Buyers(past) : LastOrder(past, c) < limit}
  BY DEF Churned, limit
<1> HIDE DEF past, away
<1>6. PrevChurned(Synced, now) = {c \in Churned(past, Start(now)) : away(c)}
  BY <1>2, <1>3, <1>4, <1>5
<1> QED
  BY <1>6 DEF PrevChurnedStayedAway, past, away

(* For any orders, clock and windows: what the retention report shows for  *)
(* the preceding window is what was true then, and its churned customers   *)
(* are those churned then who have stayed away                             *)
(* (SubscriptionsService.retention).                                       *)
THEOREM PastStays == ReportsSpec => []PastIsKept
<1>1. OrdersInv => PastIsKept
  BY PreviousWasPast, PrevChurnedWas DEF PastIsKept
<1> QED
  BY <1>1, OrdersInvInit, OrdersInvNext, PTL DEF ReportsSpec

-----------------------------------------------------------------------------
(* OrderReports.  A row, written or about to be, shows at most the day's   *)
(* orders as they are now: it was made of some of them, and since then     *)
(* they have only become more and their refunds larger.                    *)

Totals == [o \in Orders |-> Price[o].total]
Discounts == [o \in Orders |-> Price[o].discount]
Refunds == [o \in Orders |-> IF order[o] = None THEN 0 ELSE order[o].refund]

(* What the orders of each day, and of the snapshot's days, come to.       *)
Sums == [d \in Days |-> [orders   |-> Cardinality(OrdersOf(d, 0)),
                         gross    |-> SumOf(Totals, OrdersOf(d, 0)),
                         discount |-> SumOf(Discounts, OrdersOf(d, 0)),
                         refund   |-> SumOf(Refunds, OrdersOf(d, 0))]]
Window(t) == {o \in Synced : order[o].at >= t - KpiDays * DayLen /\ order[o].at <= t}

DayRows == [Days -> MetricRows \cup {None}]
RowsBelow(rows, sums) == \A d \in Days : rows[d] # None => AtMost(rows[d], sums[d])
KpiBelow ==
    kpi # None => /\ kpi.orders <= Cardinality(Window(kpi.at))
                  /\ kpi.gross <= SumOf(Totals, Window(kpi.at))
                  /\ kpi.refund <= SumOf(Refunds, Window(kpi.at))

OrdersKnown == \A o \in Synced : order[o].at <= now /\ order[o].refund <= Price[o].total

RollupInv ==
    /\ OrdersInv
    /\ OrdersKnown
    /\ metric \in DayRows
    /\ kpi \in Snapshots \cup {None}
    /\ roll \in [Rollups -> DayRows \cup {None}]
    /\ RowsBelow(metric, Sums)
    /\ \A r \in Rollups : roll[r] # None => RowsBelow(roll[r], Sums)
    /\ KpiBelow

OrderFacts ==
    /\ Totals \in [Orders -> Nat] /\ Discounts \in [Orders -> Nat]
    /\ Refunds \in [Orders -> Nat]
    /\ Synced \in SUBSET Orders /\ IsFiniteSet(Orders)
    /\ \A o \in Synced : /\ order[o].at \in Nat /\ order[o].refund \in Nat
                         /\ Refunds[o] = order[o].refund
                         /\ Price[o].total \in Nat /\ Totals[o] = Price[o].total

LEMMA OrderFactsHold == OrdersInv => OrderFacts
<1> SUFFICES ASSUME OrdersInv PROVE OrderFacts
  OBVIOUS
<1>1. \A o \in Synced : o \in Orders /\ order[o] \in OrderRows
  BY DEF OrdersInv, Synced
<1>2. Refunds \in [Orders -> Nat]
  BY <1>1 DEF Refunds, Synced, OrderRows
<1>3. ASSUME NEW o \in Synced
      PROVE  order[o].at \in Nat /\ order[o].refund \in Nat /\ Refunds[o] = order[o].refund
  <2>1. order[o].at \in 0 .. LastTick /\ order[o].refund \in Nat
    BY <1>1 DEF OrderRows
  <2>2. Refunds[o] = order[o].refund
    BY <1>1 DEF Refunds, Synced
  <2> QED BY <2>1, <2>2, ReportsAssumption
<1> QED
  BY <1>1, <1>2, <1>3, ReportsAssumption DEF OrderFacts, Totals, Discounts, Synced

LEMMA OrderFactsNext == OrdersInv' => OrderFacts'
BY OrderFactsHold, PTL

(* The sums of a row, as sums of functions.                                *)
LEMMA RowIs ==
    ASSUME OrdersInv, NEW B \in SUBSET Synced
    PROVE  RowOf(B) = [orders |-> Cardinality(B), gross |-> SumOf(Totals, B),
                       discount |-> SumOf(Discounts, B), refund |-> SumOf(Refunds, B)]
<1>0. B \in SUBSET Orders /\ \A o \in B : Refunds[o] = order[o].refund
  BY OrderFactsHold DEF OrderFacts
<1>1. \A s \in SUBSET B : s # {} => Chosen(s) \in s
  BY ChosenIn
<1>2. MapThenSumSet(LAMBDA o : Price[o].total, B) = SumOf(Totals, B)
  <2> DEFINE J == CHOOSE g : g = [s \in SUBSET B |-> IF s = {} THEN 0
                                    ELSE Price[Chosen(s)].total + g[s \ {Chosen(s)}]]
  <2>1. ASSUME NEW g
        PROVE  SumStep(Totals, g, B) = [s \in SUBSET B |-> IF s = {} THEN 0
                                          ELSE Price[Chosen(s)].total + g[s \ {Chosen(s)}]]
    BY <1>0, <1>1 DEF SumStep, Totals
  <2>2. SumIter(Totals, B) = J
    BY <2>1 DEF SumIter
  <2>3. MapThenSumSet(LAMBDA o : Price[o].total, B) = J[B]
    BY Zenon DEF MapThenSumSet, MapThenFoldSet, Chosen
  <2> QED BY <2>2, <2>3 DEF SumOf
<1>3. MapThenSumSet(LAMBDA o : Price[o].discount, B) = SumOf(Discounts, B)
  <2> DEFINE J == CHOOSE g : g = [s \in SUBSET B |-> IF s = {} THEN 0
                                    ELSE Price[Chosen(s)].discount + g[s \ {Chosen(s)}]]
  <2>1. ASSUME NEW g
        PROVE  SumStep(Discounts, g, B) = [s \in SUBSET B |-> IF s = {} THEN 0
                                             ELSE Price[Chosen(s)].discount + g[s \ {Chosen(s)}]]
    BY <1>0, <1>1 DEF SumStep, Discounts
  <2>2. SumIter(Discounts, B) = J
    BY <2>1 DEF SumIter
  <2>3. MapThenSumSet(LAMBDA o : Price[o].discount, B) = J[B]
    BY Zenon DEF MapThenSumSet, MapThenFoldSet, Chosen
  <2> QED BY <2>2, <2>3 DEF SumOf
<1>4. MapThenSumSet(LAMBDA o : order[o].refund, B) = SumOf(Refunds, B)
  <2> DEFINE J == CHOOSE g : g = [s \in SUBSET B |-> IF s = {} THEN 0
                                    ELSE order[Chosen(s)].refund + g[s \ {Chosen(s)}]]
  <2>1. ASSUME NEW g
        PROVE  SumStep(Refunds, g, B) = [s \in SUBSET B |-> IF s = {} THEN 0
                                           ELSE order[Chosen(s)].refund + g[s \ {Chosen(s)}]]
    BY <1>0, <1>1 DEF SumStep
  <2>2. SumIter(Refunds, B) = J
    BY <2>1 DEF SumIter
  <2>3. MapThenSumSet(LAMBDA o : order[o].refund, B) = J[B]
    BY Zenon DEF MapThenSumSet, MapThenFoldSet, Chosen
  <2> QED BY <2>2, <2>3 DEF SumOf
<1> QED
  BY <1>2, <1>3, <1>4 DEF RowOf

RowFacts ==
    \A B \in SUBSET Synced :
       /\ RowOf(B) \in MetricRows
       /\ RowOf(B).orders = Cardinality(B) /\ RowOf(B).gross = SumOf(Totals, B)
       /\ RowOf(B).discount = SumOf(Discounts, B) /\ RowOf(B).refund = SumOf(Refunds, B)

LEMMA RowFactsHold == OrdersInv => RowFacts
<1> SUFFICES ASSUME OrdersInv, NEW B \in SUBSET Synced
             PROVE  /\ RowOf(B) \in MetricRows
                    /\ RowOf(B).orders = Cardinality(B) /\ RowOf(B).gross = SumOf(Totals, B)
                    /\ RowOf(B).discount = SumOf(Discounts, B)
                    /\ RowOf(B).refund = SumOf(Refunds, B)
  BY DEF RowFacts
<1>1. /\ B \in SUBSET Orders /\ IsFiniteSet(Orders)
      /\ Totals \in [Orders -> Nat] /\ Discounts \in [Orders -> Nat]
      /\ Refunds \in [Orders -> Nat]
  BY OrderFactsHold DEF OrderFacts
<1>2. Cardinality(B) \in Nat
  BY <1>1, FS_Subset, FS_CardinalityType
<1>3. SumOf(Totals, B) \in Nat /\ SumOf(Discounts, B) \in Nat /\ SumOf(Refunds, B) \in Nat
  <2>1. ASSUME NEW v \in [Orders -> Nat] PROVE SumOf(v, B) \in Nat
    <3>1. v \in [Orders -> Int] /\ \A x \in B : v[x] >= 0
      BY <1>1
    <3> QED BY <1>1, <3>1, SumType
  <2> QED BY <1>1, <2>1
<1> QED
  BY <1>2, <1>3, RowIs DEF MetricRows

(* The row of some of a day's orders is at most that of all of them.       *)
LEMMA SumsAreRows ==
    ASSUME OrdersInv
    PROVE  /\ Sums \in [Days -> MetricRows]
           /\ \A d \in Days : Sums[d] = RowOf(OrdersOf(d, 0))
<1>1. ASSUME NEW d \in Days
      PROVE  RowOf(OrdersOf(d, 0)) \in MetricRows /\ Sums[d] = RowOf(OrdersOf(d, 0))
  <2>1. OrdersOf(d, 0) \in SUBSET Synced
    BY DEF OrdersOf
  <2>2. RowOf(OrdersOf(d, 0)) \in MetricRows
    BY <2>1, RowFactsHold DEF RowFacts
  <2>3. Sums[d] = RowOf(OrdersOf(d, 0))
    BY <2>1, RowIs DEF Sums
  <2> QED BY <2>2, <2>3
<1>2. Sums = [d \in Days |-> Sums[d]]
  BY DEF Sums
<1> QED
  BY <1>1, <1>2

SumsTyped == Sums \in [Days -> MetricRows]
LEMMA SumsTypedHold == OrdersInv => SumsTyped
BY SumsAreRows DEF SumsTyped
LEMMA SumsTypedNext == OrdersInv' => SumsTyped'
BY SumsTypedHold, PTL

(* More orders, with refunds at least as large, come to at least as much.  *)
OrdersGrow ==
    \A o \in Synced : /\ o \in Synced' /\ order'[o].at = order[o].at
                      /\ order'[o].refund >= order[o].refund

LEMMA SumsGrow ==
    ASSUME OrdersInv, OrdersInv', OrdersGrow, NEW B \in SUBSET Synced,
           NEW C \in SUBSET Synced', B \subseteq C
    PROVE  /\ Cardinality(B) <= Cardinality(C)
           /\ SumOf(Totals, B) <= SumOf(Totals, C)
           /\ SumOf(Discounts, B) <= SumOf(Discounts, C)
           /\ SumOf(Refunds, B) <= SumOf(Refunds', C)
<1>1. /\ Totals \in [Orders -> Int] /\ Discounts \in [Orders -> Int]
      /\ Refunds \in [Orders -> Int] /\ Refunds' \in [Orders -> Int]
      /\ Totals' = Totals /\ Discounts' = Discounts
      /\ IsFiniteSet(Orders) /\ C \in SUBSET Orders /\ B \in SUBSET C
      /\ \A o \in Orders : Totals[o] >= 0 /\ Discounts[o] >= 0 /\ Refunds[o] >= 0
      /\ \A o \in Orders : Refunds'[o] >= 0
  <2>1. OrderFacts /\ OrderFacts'
    BY OrderFactsHold, OrderFactsNext
  <2>2. Totals' = Totals /\ Discounts' = Discounts
    BY DEF Totals, Discounts
  <2> QED BY <2>1, <2>2 DEF OrderFacts
<1>2. \A o \in C : Refunds[o] <= Refunds'[o]
  <2>1. \A o \in Synced : Refunds[o] = order[o].refund /\ order[o].refund \in Nat
    BY OrderFactsHold DEF OrderFacts
  <2>2. \A o \in Synced' : Refunds'[o] = order'[o].refund /\ order'[o].refund \in Nat
    BY OrderFactsNext DEF OrderFacts
  <2>3. \A o \in Orders \ Synced : Refunds[o] = 0
    BY DEF Refunds, Synced
  <2> QED BY <1>1, <2>1, <2>2, <2>3 DEF OrdersGrow
<1>3. IsFiniteSet(C) /\ Cardinality(B) <= Cardinality(C)
  <2>1. IsFiniteSet(C)
    BY <1>1, FS_Subset
  <2> QED BY <1>1, <2>1, FS_Subset
<1>4. SumOf(Totals, B) <= SumOf(Totals, C) /\ SumOf(Discounts, B) <= SumOf(Discounts, C)
  <2>1. ASSUME NEW v \in [Orders -> Int], \A o \in Orders : v[o] >= 0
        PROVE  SumOf(v, B) <= SumOf(v, C)
    <3>1. \A o \in C : v[o] >= 0 /\ v[o] <= v[o]
      BY <1>1, <2>1
    <3> QED BY <1>1, <3>1, SumMono
  <2> QED BY <1>1, <2>1
<1>5. SumOf(Refunds, B) <= SumOf(Refunds', C)
  <2>1. \A o \in C : Refunds[o] >= 0 /\ Refunds[o] <= Refunds'[o]
    BY <1>1, <1>2
  <2> QED BY <1>1, <2>1, SumMono
<1> QED
  BY <1>3, <1>4, <1>5

LEMMA RowsStayBelow ==
    ASSUME OrdersInv, OrdersInv', OrdersGrow
    PROVE  \A rows \in DayRows : RowsBelow(rows, Sums) => RowsBelow(rows, Sums')
<1> SUFFICES ASSUME NEW rows \in DayRows, RowsBelow(rows, Sums), NEW d \in Days,
                    rows[d] # None
             PROVE  AtMost(rows[d], Sums'[d])
  BY DEF RowsBelow
<1>1. AtMost(Sums[d], Sums'[d])
  <2>1. PICK B : B = OrdersOf(d, 0)
    OBVIOUS
  <2>2. PICK C : C = (OrdersOf(d, 0))'
    OBVIOUS
  <2>3. B \in SUBSET Synced /\ C \in SUBSET Synced' /\ B \subseteq C
    BY <2>1, <2>2 DEF OrdersOf, OrdersGrow
  <2>4. Sums[d] = [orders |-> Cardinality(B), gross |-> SumOf(Totals, B),
                   discount |-> SumOf(Discounts, B), refund |-> SumOf(Refunds, B)]
    BY <2>1 DEF Sums
  <2>5. Sums'[d] = [orders |-> Cardinality(C), gross |-> SumOf(Totals, C),
                    discount |-> SumOf(Discounts, C), refund |-> SumOf(Refunds', C)]
    BY <2>2 DEF Sums, SumOf, SumIter, SumStep, Totals, Discounts
  <2>6. /\ Cardinality(B) <= Cardinality(C) /\ SumOf(Totals, B) <= SumOf(Totals, C)
        /\ SumOf(Discounts, B) <= SumOf(Discounts, C)
        /\ SumOf(Refunds, B) <= SumOf(Refunds', C)
    BY <2>3, SumsGrow
  <2> QED BY <2>4, <2>5, <2>6 DEF AtMost
<1>2. rows[d] \in MetricRows /\ Sums[d] \in MetricRows /\ Sums'[d] \in MetricRows
  BY SumsTypedHold, SumsTypedNext DEF DayRows, SumsTyped
<1>3. AtMost(rows[d], Sums[d])
  BY DEF RowsBelow
<1> QED
  BY <1>1, <1>2, <1>3 DEF AtMost, MetricRows

LEMMA KpiStaysBelow ==
    ASSUME RollupInv, OrdersInv', OrdersGrow, kpi' = kpi
    PROVE  KpiBelow'
<1> SUFFICES ASSUME kpi # None
             PROVE  /\ kpi.orders <= Cardinality((Window(kpi.at))')
                    /\ kpi.gross <= SumOf(Totals, (Window(kpi.at))')
                    /\ kpi.refund <= SumOf(Refunds', (Window(kpi.at))')
  BY DEF KpiBelow, SumOf, SumIter, SumStep, Totals
<1>1. PICK B : B = Window(kpi.at)
  OBVIOUS
<1>2. PICK C : C = (Window(kpi.at))'
  OBVIOUS
<1>3. B \in SUBSET Synced /\ C \in SUBSET Synced' /\ B \subseteq C
  BY <1>1, <1>2 DEF Window, OrdersGrow
<1>4. /\ Cardinality(B) <= Cardinality(C) /\ SumOf(Totals, B) <= SumOf(Totals, C)
      /\ SumOf(Refunds, B) <= SumOf(Refunds', C)
  BY <1>3, SumsGrow DEF RollupInv
<1>5. kpi.orders <= Cardinality(B) /\ kpi.gross <= SumOf(Totals, B) /\ kpi.refund <= SumOf(Refunds, B)
  BY <1>1 DEF RollupInv, KpiBelow
<1>6. /\ kpi.orders \in Int /\ kpi.gross \in Int /\ kpi.refund \in Int
      /\ Cardinality(B) \in Int /\ SumOf(Totals, B) \in Int /\ SumOf(Refunds, B) \in Int
  <2>1. kpi \in Snapshots
    BY DEF RollupInv
  <2>2. RowOf(B) \in MetricRows /\ RowOf(B).orders = Cardinality(B)
        /\ RowOf(B).gross = SumOf(Totals, B) /\ RowOf(B).refund = SumOf(Refunds, B)
    BY <1>3, RowFactsHold DEF RowFacts, RollupInv
  <2> QED BY <2>1, <2>2 DEF Snapshots, MetricRows
<1>7. Cardinality(C) \in Int /\ SumOf(Totals, C) \in Int /\ SumOf(Refunds', C) \in Int
  <2>1. /\ Totals \in [Orders -> Int] /\ Refunds' \in [Orders -> Int]
        /\ C \in SUBSET Orders /\ IsFiniteSet(Orders)
    BY <1>3, OrderFactsHold, OrderFactsNext DEF RollupInv, OrderFacts
  <2> QED BY <2>1, SumType, FS_Subset, FS_CardinalityType
<1> QED
  BY <1>2, <1>4, <1>5, <1>6, <1>7

(* A step that leaves rows, snapshot and rollups alone.                    *)
LEMMA RollupsKeep ==
    ASSUME RollupInv, OrdersInv', OrdersKnown', OrdersGrow, UNCHANGED <<metric, kpi, roll>>
    PROVE  RollupInv'
<1>1. \A rows \in DayRows : RowsBelow(rows, Sums) => RowsBelow(rows, Sums')
  BY RowsStayBelow DEF RollupInv
<1>2. KpiBelow'
  BY KpiStaysBelow
<1>3. RowsBelow(metric, Sums')
  BY <1>1 DEF RollupInv
<1>4. ASSUME NEW r \in Rollups, roll[r] # None PROVE RowsBelow(roll[r], Sums')
  <2>1. roll[r] \in DayRows
    BY <1>4 DEF RollupInv
  <2> QED BY <1>1, <1>4, <2>1 DEF RollupInv
<1> QED
  BY <1>2, <1>3, <1>4 DEF RollupInv, RowsBelow, DayRows, Days, DayOf, AtMost

(* What a rollup reads, of a window however long, is at most what is there. *)
LEMMA BucketsBelow ==
    ASSUME RollupInv, NEW since
    PROVE  Buckets(since) \in DayRows /\ RowsBelow(Buckets(since), Sums)
<1>1. ASSUME NEW d \in Days
      PROVE  RowOf(OrdersOf(d, since)) \in MetricRows
             /\ AtMost(RowOf(OrdersOf(d, since)), Sums[d])
  <2>1. PICK B : B = OrdersOf(d, since)
    OBVIOUS
  <2>2. PICK C : C = OrdersOf(d, 0)
    OBVIOUS
  <2>3. B \in SUBSET C /\ C \in SUBSET Synced /\ B \in SUBSET Synced
    <3>1. \A o \in Synced : order[o].at \in Nat
      BY OrderFactsHold DEF OrderFacts, RollupInv
    <3> QED BY <2>1, <2>2, <3>1 DEF OrdersOf
  <2>4. /\ Totals \in [Orders -> Int] /\ Discounts \in [Orders -> Int]
        /\ Refunds \in [Orders -> Int] /\ C \in SUBSET Orders /\ IsFiniteSet(Orders)
        /\ \A o \in C : Totals[o] >= 0 /\ Discounts[o] >= 0 /\ Refunds[o] >= 0
    BY <2>3, OrderFactsHold DEF RollupInv, OrderFacts
  <2>5. IsFiniteSet(C)
    BY <2>4, FS_Subset
  <2>6. Cardinality(B) <= Cardinality(C)
    BY <2>3, <2>5, FS_Subset
  <2>7. /\ SumOf(Totals, B) <= SumOf(Totals, C) /\ SumOf(Discounts, B) <= SumOf(Discounts, C)
        /\ SumOf(Refunds, B) <= SumOf(Refunds, C)
    <3>1. ASSUME NEW v \in [Orders -> Int], \A o \in C : v[o] >= 0
          PROVE  SumOf(v, B) <= SumOf(v, C)
      <4>1. \A o \in C : v[o] >= 0 /\ v[o] <= v[o]
        BY <2>4, <3>1
      <4> QED BY <2>3, <2>4, <4>1, SumMono
    <3> QED BY <2>4, <3>1
  <2>8. /\ RowOf(B) \in MetricRows
        /\ RowOf(B).orders = Cardinality(B) /\ RowOf(B).gross = SumOf(Totals, B)
        /\ RowOf(B).discount = SumOf(Discounts, B) /\ RowOf(B).refund = SumOf(Refunds, B)
    BY <2>3, RowFactsHold DEF RowFacts, RollupInv
  <2>9. Sums[d] = [orders |-> Cardinality(C), gross |-> SumOf(Totals, C),
                   discount |-> SumOf(Discounts, C), refund |-> SumOf(Refunds, C)]
    BY <2>2 DEF Sums
  <2> QED BY <2>1, <2>6, <2>7, <2>8, <2>9 DEF AtMost
<1>2. Buckets(since) = [d \in Days |-> IF OrdersOf(d, since) = {} THEN None
                                      ELSE RowOf(OrdersOf(d, since))]
  BY DEF Buckets
<1>3. \A d \in Days : Buckets(since)[d] = None \/ Buckets(since)[d] = RowOf(OrdersOf(d, since))
  BY <1>2
<1> QED
  BY <1>1, <1>2, <1>3 DEF DayRows, RowsBelow

(* Each day's orders are the day's alone.                                  *)
LEMMA DayStarts ==
    ASSUME NEW t \in Nat
    PROVE  DayOf(t) \in Nat /\ DayOf(t) * DayLen <= t
BY ReportsAssumption DEF DayOf

LEMMA DaysAreFinite == IsFiniteSet(Days) /\ Days \subseteq Nat
<1>1. DayOf(LastTick) \in Nat
  BY DayStarts, ReportsAssumption
<1> QED
  BY <1>1, FS_Interval DEF Days

(* Adding up, for the days that begin in the snapshot's window, at most    *)
(* what the orders of each come to, gives at most what the window's do.    *)
LEMMA RecentBelow ==
    ASSUME OrdersInv, OrdersKnown, NEW R \in SUBSET Days,
           \A d \in R : d * DayLen >= RangeStart(KpiDays),
           NEW t \in [Days -> Int], NEW v \in [Orders -> Int], \A o \in Orders : v[o] >= 0,
           \A d \in R : t[d] >= 0 /\ t[d] <= SumOf(v, OrdersOf(d, 0))
    PROVE  SumOf(t, R) \in Nat /\ SumOf(t, R) <= SumOf(v, Window(now))
<1> DEFINE p == [d \in Days |-> OrdersOf(d, 0)]
           w == [d \in Days |-> SumOf(v, p[d])]
           all == PartsIn(p, R)
<1>0. /\ IsFiniteSet(Orders) /\ IsFiniteSet(Days) /\ R \in SUBSET Days
      /\ \A d \in Days : OrdersOf(d, 0) \in SUBSET Orders
      /\ Window(now) \in SUBSET Orders
  BY OrderFactsHold, DaysAreFinite DEF OrderFacts, OrdersOf, Window
<1>1. /\ p \in [Days -> SUBSET Orders]
      /\ \A c, d \in Days : c # d => p[c] \cap p[d] = {}
  BY <1>0 DEF OrdersOf
<1>2. w \in [Days -> Int] /\ \A d \in Days : w[d] = SumOf(v, OrdersOf(d, 0))
  BY <1>0, SumType
<1>3. all \in SUBSET Window(now)
  <2>1. ASSUME NEW d \in R, NEW o \in OrdersOf(d, 0) PROVE o \in Window(now)
    <3>1. o \in Synced /\ DayOf(order[o].at) = d /\ order[o].at \in Nat /\ order[o].at <= now
      BY OrderFactsHold DEF OrdersOf, OrderFacts, OrdersKnown
    <3>2. d \in Nat /\ d * DayLen <= order[o].at /\ DayLen \in Nat /\ KpiDays \in Nat
          /\ d * DayLen \in Int
      BY <3>1, DayStarts, ReportsAssumption
    <3>3. now - KpiDays * DayLen \in Int /\ d * DayLen >= now - KpiDays * DayLen
      BY ReportsAssumption DEF RangeStart, OrdersInv
    <3>4. order[o].at >= now - KpiDays * DayLen
      BY <3>1, <3>2, <3>3
    <3> QED BY <3>1, <3>4 DEF Window
  <2> QED BY <2>1 DEF PartsIn
<1>4. SumOf(w, R) = SumOf(v, all)
  <2> HIDE DEF p
  <2> QED BY <1>0, <1>1, SumParts
<1> HIDE DEF p, w, all
<1>5. SumOf(t, R) <= SumOf(w, R)
  <2>1. \A d \in R : t[d] >= 0 /\ t[d] <= w[d]
    BY <1>2
  <2> QED BY <1>0, <1>2, <2>1, SumMono
<1>6. SumOf(v, all) <= SumOf(v, Window(now))
  <2>1. \A o \in Window(now) : v[o] >= 0 /\ v[o] <= v[o]
    BY <1>0
  <2> QED BY <1>0, <1>3, <2>1, SumMono
<1>7. SumOf(t, R) \in Nat
  <2>1. SumOf(t, R) \in Int /\ SumOf(t, R) >= 0
    BY <1>0, SumType
  <2> QED BY <2>1
<1>8. SumOf(v, all) \in Int /\ SumOf(v, Window(now)) \in Int
  <2>1. all \in SUBSET Orders
    BY <1>0, <1>3
  <2> QED BY <1>0, <2>1, SumType
<1> QED
  BY <1>4, <1>5, <1>6, <1>7, <1>8

(* A sum over days, as the sum of a function.                              *)
LEMMA SnapshotIs ==
    ASSUME NEW rows \in DayRows, NEW R \in SUBSET Days, \A d \in R : rows[d] # None
    PROVE  /\ MapThenSumSet(LAMBDA d : rows[d].orders, R)
                = SumOf([d \in Days |-> IF rows[d] = None THEN 0 ELSE rows[d].orders], R)
           /\ MapThenSumSet(LAMBDA d : rows[d].gross, R)
                = SumOf([d \in Days |-> IF rows[d] = None THEN 0 ELSE rows[d].gross], R)
           /\ MapThenSumSet(LAMBDA d : rows[d].refund, R)
                = SumOf([d \in Days |-> IF rows[d] = None THEN 0 ELSE rows[d].refund], R)
<1>0. \A s \in SUBSET R : s # {} => Chosen(s) \in s
  BY ChosenIn
<1>1. MapThenSumSet(LAMBDA d : rows[d].orders, R)
         = SumOf([d \in Days |-> IF rows[d] = None THEN 0 ELSE rows[d].orders], R)
  <2> DEFINE v == [d \in Days |-> IF rows[d] = None THEN 0 ELSE rows[d].orders]
             J == CHOOSE g : g = [s \in SUBSET R |-> IF s = {} THEN 0
                                    ELSE rows[Chosen(s)].orders + g[s \ {Chosen(s)}]]
  <2>1. ASSUME NEW g
        PROVE  SumStep(v, g, R) = [s \in SUBSET R |-> IF s = {} THEN 0
                                     ELSE rows[Chosen(s)].orders + g[s \ {Chosen(s)}]]
    <3>1. \A d \in R : v[d] = rows[d].orders
      OBVIOUS
    <3> HIDE DEF v
    <3> QED BY <1>0, <3>1 DEF SumStep
  <2> HIDE DEF v
  <2>2. SumIter(v, R) = J
    BY <2>1 DEF SumIter
  <2>3. MapThenSumSet(LAMBDA d : rows[d].orders, R) = J[R]
    BY Zenon DEF MapThenSumSet, MapThenFoldSet, Chosen
  <2>4. MapThenSumSet(LAMBDA d : rows[d].orders, R) = SumOf(v, R)
    BY <2>2, <2>3 DEF SumOf
  <2> QED BY <2>4 DEF v
<1>2. MapThenSumSet(LAMBDA d : rows[d].gross, R)
         = SumOf([d \in Days |-> IF rows[d] = None THEN 0 ELSE rows[d].gross], R)
  <2> DEFINE v == [d \in Days |-> IF rows[d] = None THEN 0 ELSE rows[d].gross]
             J == CHOOSE g : g = [s \in SUBSET R |-> IF s = {} THEN 0
                                    ELSE rows[Chosen(s)].gross + g[s \ {Chosen(s)}]]
  <2>1. ASSUME NEW g
        PROVE  SumStep(v, g, R) = [s \in SUBSET R |-> IF s = {} THEN 0
                                     ELSE rows[Chosen(s)].gross + g[s \ {Chosen(s)}]]
    <3>1. \A d \in R : v[d] = rows[d].gross
      OBVIOUS
    <3> HIDE DEF v
    <3> QED BY <1>0, <3>1 DEF SumStep
  <2> HIDE DEF v
  <2>2. SumIter(v, R) = J
    BY <2>1 DEF SumIter
  <2>3. MapThenSumSet(LAMBDA d : rows[d].gross, R) = J[R]
    BY Zenon DEF MapThenSumSet, MapThenFoldSet, Chosen
  <2>4. MapThenSumSet(LAMBDA d : rows[d].gross, R) = SumOf(v, R)
    BY <2>2, <2>3 DEF SumOf
  <2> QED BY <2>4 DEF v
<1>3. MapThenSumSet(LAMBDA d : rows[d].refund, R)
         = SumOf([d \in Days |-> IF rows[d] = None THEN 0 ELSE rows[d].refund], R)
  <2> DEFINE v == [d \in Days |-> IF rows[d] = None THEN 0 ELSE rows[d].refund]
             J == CHOOSE g : g = [s \in SUBSET R |-> IF s = {} THEN 0
                                    ELSE rows[Chosen(s)].refund + g[s \ {Chosen(s)}]]
  <2>1. ASSUME NEW g
        PROVE  SumStep(v, g, R) = [s \in SUBSET R |-> IF s = {} THEN 0
                                     ELSE rows[Chosen(s)].refund + g[s \ {Chosen(s)}]]
    <3>1. \A d \in R : v[d] = rows[d].refund
      OBVIOUS
    <3> HIDE DEF v
    <3> QED BY <1>0, <3>1 DEF SumStep
  <2> HIDE DEF v
  <2>2. SumIter(v, R) = J
    BY <2>1 DEF SumIter
  <2>3. MapThenSumSet(LAMBDA d : rows[d].refund, R) = J[R]
    BY Zenon DEF MapThenSumSet, MapThenFoldSet, Chosen
  <2>4. MapThenSumSet(LAMBDA d : rows[d].refund, R) = SumOf(v, R)
    BY <2>2, <2>3 DEF SumOf
  <2> QED BY <2>4 DEF v
<1> QED
  BY <1>1, <1>2, <1>3

LEMMA SnapshotBelow ==
    ASSUME OrdersInv, OrdersKnown, NEW rows \in DayRows, RowsBelow(rows, Sums)
    PROVE  /\ Snapshot(rows) \in Snapshots /\ Snapshot(rows).at = now
           /\ Snapshot(rows).orders <= Cardinality(Window(now))
           /\ Snapshot(rows).gross <= SumOf(Totals, Window(now))
           /\ Snapshot(rows).refund <= SumOf(Refunds, Window(now))
<1> DEFINE R == Recent(rows)
           os == [d \in Days |-> IF rows[d] = None THEN 0 ELSE rows[d].orders]
           gs == [d \in Days |-> IF rows[d] = None THEN 0 ELSE rows[d].gross]
           rs == [d \in Days |-> IF rows[d] = None THEN 0 ELSE rows[d].refund]
           ones == [o \in Orders |-> 1]
<1>1. /\ R \in SUBSET Days /\ \A d \in R : rows[d] # None /\ d * DayLen >= RangeStart(KpiDays)
  BY DEF Recent
<1>2. /\ Snapshot(rows).at = now
      /\ Snapshot(rows) = [at |-> now, orders |-> SumOf(os, R), gross |-> SumOf(gs, R),
                           refund |-> SumOf(rs, R)]
  <2> HIDE DEF os, gs, rs
  <2>1. Snapshot(rows) =
          [at |-> now, orders |-> MapThenSumSet(LAMBDA d : rows[d].orders, R),
           gross |-> MapThenSumSet(LAMBDA d : rows[d].gross, R),
           refund |-> MapThenSumSet(LAMBDA d : rows[d].refund, R)]
    BY Zenon DEF Snapshot
  <2> HIDE DEF R
  <2>2. /\ MapThenSumSet(LAMBDA d : rows[d].orders, R) = SumOf(os, R)
        /\ MapThenSumSet(LAMBDA d : rows[d].gross, R) = SumOf(gs, R)
        /\ MapThenSumSet(LAMBDA d : rows[d].refund, R) = SumOf(rs, R)
    BY <1>1, SnapshotIs DEF os, gs, rs
  <2> QED BY <2>1, <2>2
<1>3. ASSUME NEW d \in R
      PROVE  /\ os[d] = rows[d].orders /\ gs[d] = rows[d].gross /\ rs[d] = rows[d].refund
             /\ os[d] \in Nat /\ gs[d] \in Nat /\ rs[d] \in Nat
             /\ os[d] <= Cardinality(OrdersOf(d, 0))
             /\ gs[d] <= SumOf(Totals, OrdersOf(d, 0))
             /\ rs[d] <= SumOf(Refunds, OrdersOf(d, 0))
  <2>1. d \in Days /\ rows[d] # None
    BY <1>1
  <2>2. rows[d] \in MetricRows /\ AtMost(rows[d], Sums[d])
    BY <2>1 DEF DayRows, RowsBelow
  <2>3. Sums[d] = [orders |-> Cardinality(OrdersOf(d, 0)),
                   gross |-> SumOf(Totals, OrdersOf(d, 0)),
                   discount |-> SumOf(Discounts, OrdersOf(d, 0)),
                   refund |-> SumOf(Refunds, OrdersOf(d, 0))]
    BY <2>1 DEF Sums
  <2> QED BY <2>1, <2>2, <2>3 DEF AtMost, MetricRows
<1>4. os \in [Days -> Int] /\ gs \in [Days -> Int] /\ rs \in [Days -> Int]
  <2>1. ASSUME NEW d \in Days, rows[d] # None
        PROVE  rows[d].orders \in Int /\ rows[d].gross \in Int /\ rows[d].refund \in Int
    BY <2>1 DEF DayRows, MetricRows
  <2> QED BY <2>1
<1> HIDE DEF R, os, gs, rs
<1>5. /\ ones \in [Orders -> Int] /\ \A o \in Orders : ones[o] >= 0
      /\ \A B \in SUBSET Orders : SumOf(ones, B) = Cardinality(B)
  <2>1. IsFiniteSet(Orders)
    BY ReportsAssumption
  <2>2. \A B \in SUBSET Orders : SumOf(ones, B) = Cardinality(B)
    BY <2>1, SumOnes, Zenon
  <2> QED BY <2>2
<1> HIDE DEF ones
<1>6. /\ Totals \in [Orders -> Int] /\ Refunds \in [Orders -> Int]
      /\ \A o \in Orders : Totals[o] >= 0 /\ Refunds[o] >= 0
      /\ Window(now) \in SUBSET Orders
      /\ \A d \in Days : OrdersOf(d, 0) \in SUBSET Orders
  BY OrderFactsHold DEF OrderFacts, Window, OrdersOf
<1>7. SumOf(os, R) \in Nat /\ SumOf(os, R) <= Cardinality(Window(now))
  <2>1. \A d \in R : os[d] >= 0 /\ os[d] <= SumOf(ones, OrdersOf(d, 0))
    BY <1>1, <1>3, <1>5, <1>6
  <2>2. SumOf(os, R) \in Nat /\ SumOf(os, R) <= SumOf(ones, Window(now))
    BY <1>1, <1>4, <1>5, <2>1, RecentBelow
  <2> QED BY <1>5, <1>6, <2>2
<1>8. SumOf(gs, R) \in Nat /\ SumOf(gs, R) <= SumOf(Totals, Window(now))
  <2>1. \A d \in R : gs[d] >= 0 /\ gs[d] <= SumOf(Totals, OrdersOf(d, 0))
    BY <1>3
  <2> QED BY <1>1, <1>4, <1>6, <2>1, RecentBelow
<1>9. SumOf(rs, R) \in Nat /\ SumOf(rs, R) <= SumOf(Refunds, Window(now))
  <2>1. \A d \in R : rs[d] >= 0 /\ rs[d] <= SumOf(Refunds, OrdersOf(d, 0))
    BY <1>3
  <2> QED BY <1>1, <1>4, <1>6, <2>1, RecentBelow
<1> QED
  BY <1>2, <1>7, <1>8, <1>9 DEF Snapshots, OrdersInv

LEMMA RollupInvInit == ReportsInit => RollupInv
<1> SUFFICES ASSUME ReportsInit PROVE RollupInv
  OBVIOUS
<1>1. OrdersInv
  BY OrdersInvInit
<1>2. OrdersKnown
  BY DEF ReportsInit, OrdersKnown, Synced
<1>3. metric \in DayRows /\ RowsBelow(metric, Sums)
  BY DEF ReportsInit, DayRows, RowsBelow
<1>4. roll \in [Rollups -> DayRows \cup {None}] /\ \A r \in Rollups : roll[r] = None
  BY DEF ReportsInit
<1> QED
  BY <1>1, <1>2, <1>3, <1>4 DEF ReportsInit, RollupInv, KpiBelow

LEMMA OrdersKnownNext ==
    ASSUME OrdersInv, OrdersKnown, [ReportsNext]_reportVars
    PROVE  OrdersKnown' /\ OrdersGrow
<1>1. \A o \in Synced : o \in Orders /\ order[o] \in OrderRows /\ Price[o].total \in Nat
  BY ReportsAssumption DEF OrdersInv, Synced
<1>2. ASSUME UNCHANGED order, now' = now \/ now' = now + 1 PROVE OrdersKnown' /\ OrdersGrow
  <2>1. \A o \in Synced : order[o].at \in Int /\ order[o].refund \in Int
    BY <1>1 DEF OrderRows
  <2>2. now \in Int
    BY DEF OrdersInv
  <2> QED BY <1>2, <2>1, <2>2 DEF OrdersKnown, OrdersGrow, Synced
<1>3. ASSUME NEW o \in Orders, NEW row \in OrderRows, order' = [order EXCEPT ![o] = row],
             now' = now, row.at <= now, row.refund <= Price[o].total,
             order[o] # None => row.at = order[o].at /\ row.refund >= order[o].refund
      PROVE  OrdersKnown' /\ OrdersGrow
  <2>1. /\ row # None
        /\ \A p \in Orders : order'[p] = IF p = o THEN row ELSE order[p]
    <3>1. row # None
      <4>1. row \in [at : Nat, customer : Customers \cup {None}, refund : Nat]
        BY ReportsAssumption DEF OrderRows
      <4> QED BY <4>1, ReportsAssumption
    <3> QED BY <1>3, <3>1 DEF OrdersInv
  <2>2. OrdersKnown'
    BY <1>3, <2>1 DEF OrdersKnown, Synced
  <2>3. OrdersGrow
    <3>1. ASSUME NEW p \in Synced
          PROVE  p \in Synced' /\ order'[p].at = order[p].at
                 /\ order'[p].refund >= order[p].refund
      <4>1. p \in Orders /\ order[p] # None /\ order[p].refund \in Int
        BY <1>1 DEF Synced, OrderRows
      <4> QED BY <1>3, <2>1, <4>1 DEF Synced
    <3> QED BY <3>1 DEF OrdersGrow
  <2> QED BY <2>2, <2>3
<1>4. CASE Tick
  BY <1>2, <1>4 DEF Tick
<1>5. ASSUME NEW o \in Orders, SyncNewOrder(o) PROVE OrdersKnown' /\ OrdersGrow
  <2>1. PICK t \in 0 .. now, c \in Customers \cup {None} :
           order' = [order EXCEPT ![o] = [at |-> t, customer |-> c, refund |-> 0]]
    BY <1>5 DEF SyncNewOrder
  <2>2. [at |-> t, customer |-> c, refund |-> 0] \in OrderRows /\ t <= now
        /\ Price[o].total >= 0
    BY ReportsAssumption DEF OrderRows, OrdersInv
  <2> QED BY <1>3, <1>5, <2>1, <2>2 DEF SyncNewOrder
<1>6. ASSUME NEW o \in Orders, SyncOrderAgain(o) PROVE OrdersKnown' /\ OrdersGrow
  <2>1. o \in Synced /\ order[o] \in OrderRows /\ Price[o].total \in Nat
        /\ order[o].at <= now /\ order[o].refund <= Price[o].total
    BY <1>1, <1>6 DEF SyncOrderAgain, Synced, OrdersKnown
  <2>2. CASE order' = [order EXCEPT ![o].refund = Price[o].total]
    <3> DEFINE row == [order[o] EXCEPT !.refund = Price[o].total]
    <3>1. /\ row \in OrderRows /\ row.at = order[o].at /\ row.refund = Price[o].total
          /\ order' = [order EXCEPT ![o] = row]
      BY <2>1, <2>2 DEF OrderRows
    <3> HIDE DEF row
    <3>2. row.refund <= Price[o].total /\ row.at <= now
      BY <2>1, <3>1
    <3> QED BY <1>3, <1>6, <2>1, <3>1, <3>2 DEF SyncOrderAgain
  <2>3. ASSUME NEW c \in Customers, order' = [order EXCEPT ![o].customer = c]
        PROVE  OrdersKnown' /\ OrdersGrow
    <3> DEFINE row == [order[o] EXCEPT !.customer = c]
    <3>1. /\ row \in OrderRows /\ row.at = order[o].at /\ row.refund = order[o].refund
          /\ order' = [order EXCEPT ![o] = row]
      BY <2>1, <2>3 DEF OrderRows
    <3> HIDE DEF row
    <3>2. row.refund >= order[o].refund
      BY <2>1, <3>1 DEF OrderRows
    <3> QED BY <1>3, <1>6, <2>1, <3>1, <3>2 DEF SyncOrderAgain
  <2> QED BY <1>6, <2>2, <2>3 DEF SyncOrderAgain
<1>7. ASSUME NEW r \in Rollups, RollupRead(r) \/ RollupCommit(r) \/ RollupFails(r)
      PROVE  OrdersKnown' /\ OrdersGrow
  BY <1>2, <1>7 DEF RollupRead, RollupCommit, RollupFails
<1>8. CASE UNCHANGED reportVars
  BY <1>2, <1>8 DEF reportVars
<1> QED
  BY <1>4, <1>5, <1>6, <1>7, <1>8 DEF ReportsNext

LEMMA RollupInvNext == RollupInv /\ [ReportsNext]_reportVars => RollupInv'
<1> SUFFICES ASSUME RollupInv, [ReportsNext]_reportVars PROVE RollupInv'
  OBVIOUS
<1>0. OrdersInv' /\ OrdersKnown' /\ OrdersGrow
  BY OrdersInvNext, OrdersKnownNext DEF RollupInv
<1>a. \A rows \in DayRows : RowsBelow(rows, Sums) => RowsBelow(rows, Sums')
  BY <1>0, RowsStayBelow DEF RollupInv
<1>b. ASSUME roll' \in [Rollups -> DayRows \cup {None}],
             \A r \in Rollups : roll'[r] # None => RowsBelow(roll'[r], Sums')
      PROVE  (/\ roll \in [Rollups -> DayRows \cup {None}]
              /\ \A r \in Rollups : roll[r] # None => RowsBelow(roll[r], Sums))'
  BY <1>b DEF DayRows, Days, DayOf, RowsBelow, AtMost
<1>1. ASSUME UNCHANGED <<metric, kpi, roll>> PROVE RollupInv'
  BY <1>0, <1>1, RollupsKeep
<1>2. ASSUME NEW r \in Rollups, NEW rows \in DayRows \cup {None},
             roll' = [roll EXCEPT ![r] = rows], rows # None => RowsBelow(rows, Sums)
      PROVE  (/\ roll \in [Rollups -> DayRows \cup {None}]
              /\ \A q \in Rollups : roll[q] # None => RowsBelow(roll[q], Sums))'
  <2>1. /\ roll' \in [Rollups -> DayRows \cup {None}]
        /\ \A q \in Rollups : roll'[q] = IF q = r THEN rows ELSE roll[q]
    BY <1>2 DEF RollupInv
  <2>2. \A q \in Rollups : roll[q] # None => roll[q] \in DayRows /\ RowsBelow(roll[q], Sums)
    BY DEF RollupInv
  <2> QED BY <1>2, <1>a, <1>b, <2>1, <2>2
<1>3. ASSUME UNCHANGED <<metric, kpi>>
      PROVE  /\ KpiBelow' /\ (metric \in DayRows)' /\ (kpi \in Snapshots \cup {None})'
             /\ RowsBelow(metric, Sums)'
  <2>1. KpiBelow'
    BY <1>0, <1>3, KpiStaysBelow
  <2>2. RowsBelow(metric, Sums')
    BY <1>a DEF RollupInv
  <2> QED BY <1>3, <2>1, <2>2 DEF RollupInv, DayRows, Days, DayOf, RowsBelow, AtMost
<1>4. ASSUME NEW r \in Rollups, RollupRead(r) PROVE RollupInv'
  <2>1. PICK days \in RollupDays : roll' = [roll EXCEPT ![r] = Buckets(RangeStart(days))]
    BY <1>4 DEF RollupRead
  <2>2. PICK rows : rows = Buckets(RangeStart(days))
    OBVIOUS
  <2>3. rows \in DayRows /\ RowsBelow(rows, Sums)
    BY <2>2, BucketsBelow
  <2> QED BY <1>0, <1>2, <1>3, <1>4, <2>1, <2>2, <2>3 DEF RollupInv, RollupRead
<1>5. ASSUME NEW r \in Rollups, RollupFails(r) PROVE RollupInv'
  BY <1>0, <1>2, <1>3, <1>5 DEF RollupInv, RollupFails
<1>6. ASSUME NEW r \in Rollups, RollupCommit(r) PROVE RollupInv'
  <2>1. PICK rows \in DayRows : rows = roll[r] /\ RowsBelow(rows, Sums)
    BY <1>6 DEF RollupCommit, RollupInv
  <2>2. PICK rows1 : rows1 = metric'
    OBVIOUS
  <2>3. rows1 \in DayRows /\ RowsBelow(rows1, Sums)
    BY <1>6, <2>1, <2>2 DEF RollupCommit, RollupInv, Upserted, DayRows, RowsBelow
  <2>4. (metric \in DayRows)' /\ RowsBelow(metric, Sums)'
    BY <1>a, <2>2, <2>3 DEF DayRows, Days, DayOf, RowsBelow, AtMost
  <2>5. PICK s : s = Snapshot(rows)
    OBVIOUS
  <2>6. /\ s \in Snapshots /\ s.at = now /\ s.orders <= Cardinality(Window(now))
        /\ s.gross <= SumOf(Totals, Window(now)) /\ s.refund <= SumOf(Refunds, Window(now))
    BY <2>1, <2>5, SnapshotBelow DEF RollupInv
  <2>7. kpi' = s /\ UNCHANGED <<now, order>>
    BY <1>6, <2>1, <2>5 DEF RollupCommit
  <2>8. KpiBelow'
    <3>1. (Window(kpi.at))' = Window(now)
      BY <2>6, <2>7 DEF Window, Synced
    <3>2. Totals' = Totals /\ Refunds' = Refunds
      BY <2>7 DEF Totals, Refunds
    <3> QED BY <2>6, <2>7, <3>1, <3>2 DEF KpiBelow, SumOf, SumIter, SumStep
  <2>9. (kpi \in Snapshots \cup {None})'
    BY <2>6, <2>7 DEF Snapshots
  <2> QED BY <1>0, <1>2, <1>6, <2>4, <2>8, <2>9 DEF RollupInv, RollupCommit
<1>7. ASSUME Tick \/ UNCHANGED reportVars
             \/ \E o \in Orders : SyncNewOrder(o) \/ SyncOrderAgain(o)
      PROVE  RollupInv'
  BY <1>1, <1>7 DEF Tick, SyncNewOrder, SyncOrderAgain, reportVars
<1> QED
  BY <1>4, <1>5, <1>6, <1>7 DEF ReportsNext

LEMMA RollupInvents == RollupInv => RollupNeverInvents
<1> SUFFICES ASSUME RollupInv PROVE RollupNeverInvents
  OBVIOUS
<1>1. MetricNeverInvents
  <2>1. \A d \in Days : Sums[d] = RowOf(OrdersOf(d, 0))
    BY SumsAreRows DEF RollupInv
  <2>2. \A d \in Days : metric[d] # None => AtMost(metric[d], Sums[d])
    BY DEF RollupInv, RowsBelow
  <2> QED BY <2>1, <2>2 DEF MetricNeverInvents
<1>2. KpiWithinWindow
  <2>1. PICK W : W = Window(kpi.at)
    OBVIOUS
  <2>2. W \in SUBSET Synced
    BY <2>1 DEF Window
  <2>3. RowOf(W).gross = SumOf(Totals, W) /\ RowOf(W).refund = SumOf(Refunds, W)
    BY <2>2, RowFactsHold DEF RowFacts, RollupInv
  <2>4. W = {o \in Synced : order[o].at >= kpi.at - KpiDays * DayLen /\ order[o].at <= kpi.at}
    BY <2>1 DEF Window
  <2>5. kpi # None => /\ kpi.orders <= Cardinality(W)
                      /\ kpi.gross <= RowOf(W).gross /\ kpi.refund <= RowOf(W).refund
    BY <2>1, <2>3 DEF RollupInv, KpiBelow
  <2> QED BY <2>4, <2>5 DEF KpiWithinWindow
<1> QED
  BY <1>1, <1>2 DEF RollupNeverInvents

(* For any orders, prices, windows and number of rollups at once: no row   *)
(* of a day and no snapshot shows more than the orders it is about, though *)
(* rollups overlap, windows cut days in two and syncs come between a       *)
(* rollup's read and its commit (AnalyticsService.rollup).                 *)
THEOREM RollupsInventNothing == ReportsSpec => []RollupNeverInvents
BY RollupInvents, RollupInvInit, RollupInvNext, PTL DEF ReportsSpec

(* The tables and the open rollups keep their types.                       *)
THEOREM ReportsTypeCorrect == ReportsSpec => []ReportsTypeOK
<1>1. RollupInv => ReportsTypeOK
  BY DEF RollupInv, OrdersInv, DayRows, ReportsTypeOK
<1> QED
  BY <1>1, RollupInvInit, RollupInvNext, PTL DEF ReportsSpec

-----------------------------------------------------------------------------
(* ReportsAgree.  The reports select the same orders by tests of their     *)
(* own, and the parts they add up cover them without overlap; rounding     *)
(* moves neither the mean gap nor the days left by more than half a day.   *)

Nets == [o \in Orders |-> IF order[o] = None THEN 0 ELSE Net(o)]

LEMMA NetIs ==
    ASSUME OrdersInv
    PROVE  /\ Nets \in [Orders -> Int]
           /\ \A B \in SUBSET Synced : NetOf(B) = SumOf(Nets, B)
<1>1. Nets \in [Orders -> Int]
  <2>1. ASSUME NEW o \in Orders, order[o] # None PROVE Net(o) \in Int
    <3>1. order[o].refund \in Nat
      BY <2>1 DEF OrdersInv, OrderRows
    <3> QED BY <3>1, ReportsAssumption DEF Net
  <2> QED BY <2>1 DEF Nets
<1>2. ASSUME NEW B \in SUBSET Synced PROVE NetOf(B) = SumOf(Nets, B)
  <2> DEFINE J == CHOOSE g : g = [s \in SUBSET B |-> IF s = {} THEN 0
                                    ELSE Net(Chosen(s)) + g[s \ {Chosen(s)}]]
  <2>1. ASSUME NEW g
        PROVE  SumStep(Nets, g, B) = [s \in SUBSET B |-> IF s = {} THEN 0
                                        ELSE Net(Chosen(s)) + g[s \ {Chosen(s)}]]
    <3>1. \A s \in SUBSET B : s # {} => Nets[Chosen(s)] = Net(Chosen(s))
      BY ChosenIn DEF Nets, Synced
    <3> QED BY <3>1 DEF SumStep
  <2>2. SumIter(Nets, B) = J
    BY <2>1 DEF SumIter
  <2>3. MapThenSumSet(Net, B) = J[B]
    BY Zenon DEF MapThenSumSet, MapThenFoldSet, Chosen
  <2> QED BY <2>2, <2>3 DEF SumOf, NetOf
<1> QED
  BY <1>1, <1>2

(* Integer division, by what it leaves.                                    *)
LEMMA Divides ==
    ASSUME NEW a \in Int, NEW b \in Nat \ {0}
    PROVE  a \div b \in Int /\ (a \div b) * b <= a /\ a < (a \div b) * b + b
OBVIOUS

LEMMA RoundedIs ==
    ASSUME NEW n \in Int, NEW d \in Nat \ {0}
    PROVE  /\ Rounded(n, d) \in Int
           /\ 2 * n < 2 * (Rounded(n, d) * d) + d
           /\ Rounded(n, d) < 0 => 2 * n + d < 0
<1>1. PICK q : q = Rounded(n, d)
  OBVIOUS
<1>2. PICK m \in Int : m = 2 * n + d
  OBVIOUS
<1>3. PICK e \in Nat \ {0} : e = 2 * d
  OBVIOUS
<1>4. q = m \div e
  BY <1>1, <1>2, <1>3 DEF Rounded
<1>5. q \in Int /\ q * e <= m /\ m < q * e + e
  BY <1>4, Divides
<1>6. q * e = 2 * (q * d) /\ q * d \in Int
  BY <1>3, <1>5
<1>7. q < 0 => q * e <= 0 - e
  <2>1. ASSUME q < 0 PROVE (0 - q - 1) * e >= 0
    <3>1. 0 - q - 1 \in Nat
      BY <1>5, <2>1
    <3> QED BY <3>1
  <2>2. (0 - q - 1) * e = 0 - q * e - e
    BY <1>5
  <2> QED BY <1>5, <2>1, <2>2
<1>8. q < 0 => m < 0
  BY <1>5, <1>7
<1> QED
  BY <1>1, <1>2, <1>3, <1>5, <1>6, <1>8

LEMMA DaySpanType ==
    ASSUME OrdersInv, NEW c, OrdersBy(Synced, c) # {}
    PROVE  DaySpan(Synced, c) \in Int /\ LastOrder(Synced, c) \in Nat
<1> DEFINE T == {order[o].at : o \in OrdersBy(Synced, c)}
<1>1. T \in SUBSET (0 .. LastTick) /\ T # {} /\ LastTick \in Nat
  <2>1. ASSUME NEW o \in OrdersBy(Synced, c) PROVE order[o].at \in 0 .. LastTick
    <3>1. order[o] \in OrderRows
      BY DEF OrdersInv, Synced, OrdersBy
    <3> QED BY <3>1 DEF OrderRows
  <2> QED BY <2>1, ReportsAssumption
<1>2. PICK x \in T : \A y \in T : x <= y
  BY <1>1, SmallestExists
<1>3. Min(T) \in T
  BY <1>2 DEF Min
<1>4. Min(T) \in Int /\ DaySpan(Synced, c) = LastOrder(Synced, c) - Min(T)
  BY <1>1, <1>3 DEF DaySpan
<1>5. LastOrder(Synced, c) \in Nat
  BY LastIsLargest
<1> QED
  BY <1>4, <1>5

(* span is at most k mean gaps and half a day of each, and what is left is *)
(* less than half a day short of nothing.                                  *)
LEMMA LateByTheGap ==
    ASSUME NEW span \in Int, NEW since \in Int, NEW avg \in Int, NEW q \in Int,
           NEW k \in Nat \ {0}, NEW day \in Nat \ {0},
           2 * span < 2 * (q * (k * day)) + k * day, q <= avg,
           2 * (avg * day - since) + day < 0
    PROVE  k * since > span
<1>1. q * day <= avg * day
  <2>1. (avg - q) * day >= 0
    <3>1. avg - q \in Nat
      OBVIOUS
    <3> QED BY <3>1
  <2>2. (avg - q) * day = avg * day - q * day
    OBVIOUS
  <2> QED BY <2>1, <2>2
<1>2. PICK g \in Int : g = q * day
  OBVIOUS
<1>3. avg * day \in Int
  OBVIOUS
<1>4. 2 * since - 2 * g - day > 0
  BY <1>1, <1>2, <1>3
<1>5. k * (2 * since - 2 * g - day) > 0
  <2>1. 2 * since - 2 * g - day \in Nat \ {0}
    BY <1>4
  <2> QED BY <2>1
<1>6. k * (2 * since - 2 * g - day) = 2 * (k * since) - 2 * (k * g) - k * day
  OBVIOUS
<1>7. q * (k * day) = k * g
  BY <1>2
<1>8. k * g \in Int /\ k * day \in Int /\ k * since \in Int
  OBVIOUS
<1> QED
  BY <1>5, <1>6, <1>7, <1>8

LEMMA OverdueWaits == OrdersInv => OverdueIsLate
<1> SUFFICES ASSUME OrdersInv, NEW c \in Buyers(Synced),
                    Cardinality(OrdersBy(Synced, c)) >= 2, Status(Synced, c, now) = "overdue"
             PROVE  (Cardinality(OrdersBy(Synced, c)) - 1) * (now - LastOrder(Synced, c))
                       > DaySpan(Synced, c)
  BY DEF OverdueIsLate
<1>1. PICK n \in Int : n = Cardinality(OrdersBy(Synced, c))
  <2>1. OrdersBy(Synced, c) \in SUBSET Orders /\ IsFiniteSet(Orders)
    BY ReportsAssumption DEF OrdersBy, Synced
  <2> QED BY <2>1, FS_Subset, FS_CardinalityType
<1>2. PICK k \in Nat \ {0} : k = n - 1
  BY <1>1
<1>3. OrdersBy(Synced, c) # {}
  BY DEF Buyers, Bought, OrdersBy
<1>4. PICK last \in Nat : last = LastOrder(Synced, c)
  BY <1>3, DaySpanType
<1>5. PICK span \in Int : span = DaySpan(Synced, c)
  BY <1>3, DaySpanType
<1>6. PICK day \in Nat \ {0} : day = DayLen
  BY ReportsAssumption
<1>7. k * day \in Nat \ {0}
  OBVIOUS
<1>8. PICK q \in Int : /\ q = Rounded(span, k * day)
                       /\ 2 * span < 2 * (q * (k * day)) + k * day
  BY <1>7, RoundedIs
<1>9. PICK avg \in Int : avg = AvgGapDays(Synced, c) /\ q <= avg
  <2>1. AvgGapDays(Synced, c) = Max({1, q})
    BY <1>1, <1>2, <1>5, <1>6, <1>8 DEF AvgGapDays
  <2>2. Max({1, q}) \in {1, q} /\ Max({1, q}) >= q
    <3>1. \E x \in {1, q} : \A y \in {1, q} : x >= y
      <4>1. CASE q >= 1
        BY <4>1
      <4>2. CASE ~(q >= 1)
        BY <4>2
      <4> QED BY <4>1, <4>2
    <3>2. Max({1, q}) \in {1, q} /\ \A y \in {1, q} : Max({1, q}) >= y
      BY <3>1 DEF Max
    <3> QED BY <3>2
  <2> QED BY <2>1, <2>2
<1>10. PICK left \in Int : left = last + avg * day - now
  BY DEF OrdersInv
<1>11. DaysUntil(Synced, c, now) = Rounded(left, day)
  BY <1>4, <1>6, <1>9, <1>10 DEF DaysUntil
<1>12. Rounded(left, day) < 0
  BY <1>11 DEF Status
<1>13. 2 * left + day < 0
  BY <1>12, RoundedIs
<1>14. PICK since \in Int : since = now - last
  BY DEF OrdersInv
<1>15. 2 * (avg * day - since) + day < 0
  <2>1. avg * day \in Int /\ now \in Int
    BY DEF OrdersInv
  <2>2. left = avg * day - since
    BY <1>10, <1>14, <2>1
  <2> QED BY <1>13, <2>2
<1>16. k * since > span
  BY <1>8, <1>9, <1>15, LateByTheGap
<1> QED
  BY <1>1, <1>2, <1>4, <1>5, <1>14, <1>16

(* The orders of the daily series, and those of a day among them.          *)
InWindow == Inside(Synced, Start(now), now + 1)
SeriesDays == {DayOf(order[o].at) : o \in InWindow}
OnDay(d) == {o \in InWindow : DayOf(order[o].at) = d}

LEMMA FirstsAndOthers ==
    ASSUME OrdersInv, NEW B \in SUBSET Synced, NEW F \in SUBSET B
    PROVE  /\ NetOf(F) + NetOf(B \ F) = NetOf(B)
           /\ Cardinality(F) + Cardinality(B \ F) = Cardinality(B)
<1>1. /\ Nets \in [Orders -> Int] /\ IsFiniteSet(Orders)
      /\ NetOf(F) = SumOf(Nets, F) /\ NetOf(B \ F) = SumOf(Nets, B \ F)
      /\ NetOf(B) = SumOf(Nets, B)
  BY NetIs, ReportsAssumption
<1>2. B \ F \in SUBSET Orders /\ F \in SUBSET (Orders \ (B \ F)) /\ F \cup (B \ F) = B
  BY DEF Synced
<1>3. SumOf(Nets, B) = SumOf(Nets, F) + SumOf(Nets, B \ F)
  BY <1>1, <1>2, SumUnion
<1>4. Cardinality(F) + Cardinality(B \ F) = Cardinality(B)
  <2>1. IsFiniteSet(B) /\ B \cap F = F /\ B \in SUBSET Orders
    BY <1>1, FS_Subset DEF Synced
  <2>2. IsFiniteSet(F)
    BY <2>1, FS_Subset
  <2>3. Cardinality(B \ F) = Cardinality(B) - Cardinality(F)
    BY <2>1, FS_Difference
  <2>4. Cardinality(B) \in Nat /\ Cardinality(F) \in Nat
    BY <2>1, <2>2, FS_CardinalityType
  <2> QED BY <2>3, <2>4
<1> QED
  BY <1>1, <1>3, <1>4

LEMMA WindowSales ==
    ASSUME OrdersInv, NEW from, NEW to
    PROVE  /\ Sales(AggWindow(Synced, from, to)) = NetOf(Inside(Synced, from, to))
           /\ AggWindow(Synced, from, to).newOrders + AggWindow(Synced, from, to).recurringOrders
                 = Cardinality(Inside(Synced, from, to))
<1>1. PICK B : B = Inside(Synced, from, to)
  OBVIOUS
<1>2. PICK F : F = FirstsIn(Synced, B)
  OBVIOUS
<1>3. B \in SUBSET Synced /\ F \in SUBSET B
  BY <1>1, <1>2 DEF Inside, Bought, FirstsIn
<1>4. /\ AggWindow(Synced, from, to).newSales = NetOf(F)
      /\ AggWindow(Synced, from, to).recurringSales = NetOf(B \ F)
      /\ AggWindow(Synced, from, to).newOrders = Cardinality(F)
      /\ AggWindow(Synced, from, to).recurringOrders = Cardinality(B \ F)
  BY <1>1, <1>2 DEF AggWindow, Inside, FirstsIn
<1> QED
  BY <1>1, <1>3, <1>4, FirstsAndOthers DEF Sales

LEMMA SeriesAddsUp ==
    ASSUME OrdersInv
    PROVE  MapThenSumSet(LAMBDA d : Sales(Daily(Synced, now)[d]), DOMAIN Daily(Synced, now))
             = NetOf(InWindow)
<1>0. InWindow \in SUBSET Synced /\ Synced \in SUBSET Orders /\ IsFiniteSet(Orders)
      /\ \A o \in Synced : order[o].at \in 0 .. LastTick
  <2>1. \A o \in Synced : order[o] \in OrderRows
    BY DEF OrdersInv, Synced
  <2> QED BY <2>1, ReportsAssumption DEF InWindow, Inside, Bought, Synced, OrderRows
<1>1. DOMAIN Daily(Synced, now) = SeriesDays
  BY DEF Daily, SeriesDays, InWindow, Inside
<1>2. ASSUME NEW d \in SeriesDays
      PROVE  Sales(Daily(Synced, now)[d]) = SumOf(Nets, OnDay(d))
  <2>1. PICK B : B = OnDay(d)
    OBVIOUS
  <2>2. PICK F : F = {o \in B : SeqOf(Synced, o) = 1}
    OBVIOUS
  <2>3. B \in SUBSET Synced /\ F \in SUBSET B /\ B \ F = {o \in B : SeqOf(Synced, o) # 1}
    BY <1>0, <2>1, <2>2 DEF OnDay
  <2>4. Daily(Synced, now)[d] = [newSales |-> NetOf(F), recurringSales |-> NetOf(B \ F)]
    <3>1. Daily(Synced, now)[d] =
            [newSales |-> NetOf({o \in B : SeqOf(Synced, o) = 1}),
             recurringSales |-> NetOf({o \in B : SeqOf(Synced, o) # 1})]
      BY <1>0, <2>1 DEF Daily, SeriesDays, OnDay, InWindow, Inside
    <3> QED BY <2>2, <2>3, <3>1
  <2>5. NetOf(F) + NetOf(B \ F) = NetOf(B) /\ NetOf(B) = SumOf(Nets, B)
    BY <2>3, FirstsAndOthers, NetIs
  <2> QED BY <2>1, <2>4, <2>5 DEF Sales
<1>3. IsFiniteSet(SeriesDays)
  <2>1. ASSUME NEW o \in InWindow PROVE DayOf(order[o].at) \in Days
    <3>1. PICK t \in Nat : t = order[o].at /\ t <= LastTick
      BY <1>0, ReportsAssumption
    <3>2. PICK b \in Nat \ {0} : b = DayLen
      BY ReportsAssumption
    <3>3. PICK x \in Int : x = t \div b /\ x * b <= t
      BY Divides
    <3>4. PICK y \in Int : y = LastTick \div b /\ LastTick < y * b + b
      BY Divides, ReportsAssumption
    <3>5. x <= y
      <4>1. ASSUME ~(x <= y) PROVE FALSE
        <5>1. (x - y - 1) * b >= 0
          <6>1. x - y - 1 \in Nat
            BY <4>1
          <6> QED BY <6>1
        <5>2. (x - y - 1) * b = x * b - y * b - b
          OBVIOUS
        <5>3. x * b \in Int /\ y * b \in Int /\ LastTick \in Int
          BY ReportsAssumption
        <5> QED BY <3>1, <3>3, <3>4, <5>1, <5>2, <5>3
      <4> QED BY <4>1
    <3>6. x \in Nat
      BY <3>1, <3>2, <3>3, DayStarts DEF DayOf
    <3> QED BY <3>1, <3>2, <3>3, <3>4, <3>5, <3>6 DEF Days, DayOf
  <2>2. SeriesDays \subseteq Days
    BY <2>1 DEF SeriesDays
  <2> QED BY <2>2, DaysAreFinite, FS_Subset
<1> DEFINE p == [d \in SeriesDays |-> OnDay(d)]
           w == [d \in SeriesDays |-> SumOf(Nets, p[d])]
<1>4. /\ p \in [SeriesDays -> SUBSET Orders]
      /\ \A c, d \in SeriesDays : c # d => p[c] \cap p[d] = {}
  BY <1>0 DEF OnDay
<1>5. PartsIn(p, SeriesDays) = InWindow
  <2>1. PartsIn(p, SeriesDays) = UNION {OnDay(d) : d \in SeriesDays}
    <3>1. {p[d] : d \in SeriesDays} = {OnDay(d) : d \in SeriesDays}
      OBVIOUS
    <3> QED BY <3>1 DEF PartsIn
  <2>2. ASSUME NEW o \in InWindow PROVE \E d \in SeriesDays : o \in OnDay(d)
    BY DEF OnDay, SeriesDays
  <2>3. \A d \in SeriesDays : OnDay(d) \subseteq InWindow
    BY DEF OnDay
  <2>4. UNION {OnDay(d) : d \in SeriesDays} = InWindow
    BY <2>2, <2>3
  <2> QED BY <2>1, <2>4
<1>6. \A d \in SeriesDays : w[d] = Sales(Daily(Synced, now)[d])
  BY <1>2
<1>7. SumOf(w, SeriesDays) = SumOf(Nets, PartsIn(p, SeriesDays))
  <2> HIDE DEF p
  <2> QED BY <1>0, <1>3, <1>4, NetIs, SumParts
<1> HIDE DEF p, w
<1>8. MapThenSumSet(LAMBDA d : Sales(Daily(Synced, now)[d]), DOMAIN Daily(Synced, now))
        = SumOf(w, SeriesDays)
  <2> DEFINE R == DOMAIN Daily(Synced, now)
             J == CHOOSE g : g = [s \in SUBSET R |-> IF s = {} THEN 0
                                    ELSE Sales(Daily(Synced, now)[Chosen(s)])
                                           + g[s \ {Chosen(s)}]]
  <2>1. ASSUME NEW g
        PROVE  SumStep(w, g, R) = [s \in SUBSET R |-> IF s = {} THEN 0
                                     ELSE Sales(Daily(Synced, now)[Chosen(s)])
                                            + g[s \ {Chosen(s)}]]
    <3>1. \A s \in SUBSET R : s # {} =>
             w[Chosen(s)] = Sales(Daily(Synced, now)[Chosen(s)])
      BY <1>1, <1>6, ChosenIn
    <3> HIDE DEF R
    <3> QED BY <3>1 DEF SumStep
  <2>2. SumIter(w, R) = J
    BY <2>1 DEF SumIter
  <2>3. MapThenSumSet(LAMBDA d : Sales(Daily(Synced, now)[d]), R) = J[R]
    BY Zenon DEF MapThenSumSet, MapThenFoldSet, Chosen
  <2>4. SumIter(w, R) = SumIter(w, SeriesDays) /\ R = SeriesDays
    BY <1>1
  <2> QED BY <2>2, <2>3, <2>4 DEF SumOf
<1>9. NetOf(InWindow) = SumOf(Nets, InWindow)
  BY <1>0, NetIs
<1> QED
  BY <1>5, <1>7, <1>8, <1>9

LEMMA SalesAlwaysAgree == OrdersInv => SalesAgree
<1> SUFFICES ASSUME OrdersInv PROVE SalesAgree
  OBVIOUS
<1>0. /\ now \in Int /\ Start(now) \in Int /\ PrevStart(now) \in Int
      /\ \A o \in Synced : order[o].at \in Int
  BY ReportsAssumption, InsightsAssumption DEF OrdersInv, Synced, OrderRows, Start, PrevStart
<1>1. InWindow = Bought(ProfitCurrent(Synced, now))
  BY <1>0 DEF InWindow, Inside, Bought, ProfitCurrent
<1>2. Inside(Synced, PrevStart(now), Start(now)) = Bought(ProfitPrevious(Synced, now))
  BY <1>0 DEF Inside, Bought, ProfitPrevious
<1>3. InWindow = EmailRevenue(Synced, now)
  BY <1>0 DEF InWindow, Inside, Bought, EmailRevenue
<1>4. /\ Sales(RetentionCurrent(Synced, now)) = NetOf(InWindow)
      /\ RetentionCurrent(Synced, now).newOrders + RetentionCurrent(Synced, now).recurringOrders
            = Cardinality(InWindow)
  BY WindowSales DEF RetentionCurrent, InWindow
<1>5. Sales(RetentionPrevious(Synced, now))
         = NetOf(Inside(Synced, PrevStart(now), Start(now)))
  BY WindowSales DEF RetentionPrevious
<1>6. /\ Sales(RetentionCurrent(Synced, now)) = NetOf(Bought(ProfitCurrent(Synced, now)))
      /\ Sales(RetentionPrevious(Synced, now)) = NetOf(Bought(ProfitPrevious(Synced, now)))
      /\ Sales(RetentionCurrent(Synced, now)) = NetOf(EmailRevenue(Synced, now))
      /\ RetentionCurrent(Synced, now).newOrders + RetentionCurrent(Synced, now).recurringOrders
            = Cardinality(EmailRevenue(Synced, now))
  BY <1>1, <1>2, <1>3, <1>4, <1>5
<1>7. Sales(RetentionCurrent(Synced, now))
         = MapThenSumSet(LAMBDA d : Sales(Daily(Synced, now)[d]), DOMAIN Daily(Synced, now))
  BY <1>4, SeriesAddsUp
<1> QED
  BY <1>6, <1>7 DEF SalesAgree

(* For any orders, prices, clock and windows: three endpoints find the     *)
(* same net sales and orders, the daily series adds up to them, and no     *)
(* customer is called overdue before the mean gap has passed               *)
(* (AnalyticsService.profit, SubscriptionsService.retention and            *)
(* EmailMarketingService.insights).                                        *)
THEOREM EndpointsAgree == ReportsSpec => []ReportsAgree
<1>1. OrdersInv => ReportsAgree
  BY SalesAlwaysAgree, OverdueWaits DEF ReportsAgree
<1> QED
  BY <1>1, OrdersInvInit, OrdersInvNext, PTL DEF ReportsSpec

-----------------------------------------------------------------------------
(* Segmentation.  A percentile has a fifth, or more fifths, of the         *)
(* customers at or below it, and a score counts the bounds that are        *)
(* passed; the rules before "discount-driven" leave the lowest score.      *)

BuyerRows ==
    [recency : Recencies, frequency : Frequencies, spend : Spends, twin : 1 .. MostCustomers]
SegInv == buyers \in SUBSET BuyerRows /\ IsFiniteSet(buyers)

Below(s) == {k \in buyers : k.spend <= s}
Under(s) == {k \in buyers : k.spend < s}

LEMMA SegInvHolds == SegmentationSpec => []SegInv
<1>1. SegmentationInit => SegInv
  BY FS_EmptySet DEF SegmentationInit, SegInv
<1>2. SegInv /\ [SegmentationNext]_buyers => SegInv'
  <2> SUFFICES ASSUME SegInv, [SegmentationNext]_buyers PROVE SegInv'
    OBVIOUS
  <2>1. ASSUME NEW r \in Recencies, NEW f \in Frequencies, NEW s \in Spends,
               CustomerSynced(r, f, s)
        PROVE  SegInv'
    <3>1. PICK n \in 1 .. MostCustomers : buyers' = buyers \cup {Buyer(r, f, s, n)}
      BY <2>1 DEF CustomerSynced
    <3>2. Buyer(r, f, s, n) \in BuyerRows
      BY DEF Buyer, BuyerRows
    <3>3. IsFiniteSet(buyers \cup {Buyer(r, f, s, n)})
      BY FS_AddElement DEF SegInv
    <3> QED BY <3>1, <3>2, <3>3 DEF SegInv
  <2>2. CASE UNCHANGED buyers
    BY <2>2 DEF SegInv
  <2> QED BY <2>1, <2>2 DEF SegmentationNext
<1> QED
  BY <1>1, <1>2, PTL DEF SegmentationSpec

LEMMA CountsAre ==
    ASSUME SegInv, NEW s
    PROVE  /\ IsFiniteSet(Below(s)) /\ IsFiniteSet(Under(s))
           /\ Cardinality(Below(s)) \in Nat /\ Cardinality(Under(s)) \in Nat /\ Total \in Nat
<1>1. Below(s) \subseteq buyers /\ Under(s) \subseteq buyers /\ IsFiniteSet(buyers)
  BY DEF Below, Under, SegInv
<1> QED
  BY <1>1, FS_Subset, FS_CardinalityType DEF Total

LEMMA SpendsAreNumbers ==
    ASSUME SegInv
    PROVE  \A k \in buyers : /\ k.spend \in Spends /\ k.spend \in Nat
                            /\ k.recency \in Nat /\ k.frequency \in Nat
<1>1. \A k \in buyers : k \in BuyerRows
  BY DEF SegInv
<1>2. \A k \in buyers : k.spend \in Spends /\ k.recency \in Recencies /\ k.frequency \in Frequencies
  BY <1>1 DEF BuyerRows
<1> QED
  BY <1>2, SegmentationAssumption

(* The element at a place of the sorted spends exists.                     *)
LEMMA PlaceIsTaken ==
    ASSUME SegInv, NEW at \in Nat, at < Total
    PROVE  \E s \in Spends : Cardinality(Under(s)) <= at /\ at < Cardinality(Below(s))
<1> DEFINE U == {k.spend : k \in buyers}
           f == [k \in buyers |-> k.spend]
           V == {s \in U : at < Cardinality(Below(s))}
<1>1. IsFiniteSet(U)
  <2>1. f \in Surjection(buyers, U)
    BY DEF Surjection
  <2> HIDE DEF f, U
  <2> QED BY <2>1, FS_Surjection DEF SegInv
<1>2. U \subseteq Spends /\ U \subseteq Int
  BY SpendsAreNumbers, SegmentationAssumption
<1>3. \A k \in buyers : k.spend \in U
  OBVIOUS
<1>4. U # {}
  <2>1. buyers # {}
    BY FS_EmptySet DEF Total
  <2> QED BY <1>3, <2>1
<1> HIDE DEF U
<1>5. PICK top \in U : \A y \in U : y <= top
  BY <1>1, <1>2, <1>4, LargestOfFinite
<1>6. Below(top) = buyers
  BY <1>3, <1>5 DEF Below
<1>7. top \in V
  BY <1>6 DEF Total
<1>8. PICK s \in V : \A y \in V : s <= y
  <2>1. IsFiniteSet(V) /\ V \subseteq Int /\ V # {}
    BY <1>1, <1>2, <1>7, FS_Subset
  <2> HIDE DEF V
  <2> QED BY <2>1, SmallestOfFinite
<1>9. Cardinality(Under(s)) <= at
  <2> DEFINE W == {y \in U : y < s}
  <2>1. CASE W = {}
    <3>1. Under(s) = {}
      BY <1>3, <2>1 DEF Under
    <3> QED BY <3>1, FS_EmptySet
  <2>2. CASE W # {}
    <3>1. PICK t \in W : \A y \in W : y <= t
      <4>1. IsFiniteSet(W) /\ W \subseteq Int
        BY <1>1, <1>2, FS_Subset
      <4> HIDE DEF W
      <4> QED BY <2>2, <4>1, LargestOfFinite
    <3>2. t \in U /\ t < s /\ t \in Int /\ s \in Int
      BY <1>2
    <3>3. Under(s) = Below(t)
      <4>1. ASSUME NEW k \in buyers PROVE k.spend < s <=> k.spend <= t
        <5>1. k.spend \in U /\ k.spend \in Int
          BY <1>2, <1>3
        <5> QED BY <3>1, <3>2, <5>1
      <4> QED BY <4>1 DEF Under, Below
    <3>4. t \notin V
      BY <1>8, <3>2
    <3>5. ~(at < Cardinality(Below(t)))
      BY <3>2, <3>4
    <3>6. Cardinality(Below(t)) \in Nat
      BY CountsAre
    <3> QED BY <3>3, <3>5, <3>6
  <2> QED BY <2>1, <2>2
<1> QED
  BY <1>2, <1>8, <1>9

(* Of Total customers, fewer than (100 - p) in 100 spend more than the     *)
(* percentile p.                                                           *)
LEMMA FewSpendMore ==
    ASSUME SegInv, Total > 0, NEW p \in Nat, p < 100
    PROVE  /\ Pctile(p) \in Int
           /\ 100 * Cardinality({k \in buyers : k.spend > Pctile(p)}) < (100 - p) * Total
           /\ IsFiniteSet({k \in buyers : k.spend > Pctile(p)})
<1>1. PICK n \in Nat : n = Total /\ n > 0
  BY CountsAre
<1>2. PICK at \in Int : at = (Total * p) \div 100 /\ at * 100 <= n * p /\ n * p < at * 100 + 100
  BY <1>1, Divides
<1>3. at \in Nat /\ at < n
  <2>1. n * p \in Nat
    BY <1>1
  <2>2. n * (99 - p) \in Nat
    BY <1>1
  <2>3. n * (99 - p) = 99 * n - n * p
    BY <1>1
  <2> QED BY <1>1, <1>2, <2>1, <2>2, <2>3
<1>4. \E s \in Spends : Cardinality(Under(s)) <= at /\ at < Cardinality(Below(s))
  BY <1>1, <1>3, PlaceIsTaken
<1>5. PICK s : s = Pctile(p)
  OBVIOUS
<1>6. Pctile(p) = CHOOSE x \in Spends : Cardinality(Under(x)) <= at /\ at < Cardinality(Below(x))
  <2>1. Pctile(p) = IF Total = 0 THEN 0
                    ELSE CHOOSE x \in Spends : /\ Cardinality(Under(x)) <= (Total * p) \div 100
                                               /\ (Total * p) \div 100 < Cardinality(Below(x))
    BY Zenon DEF Pctile, Count, Under, Below
  <2>2. at = (Total * p) \div 100 /\ Total # 0
    BY <1>1, <1>2
  <2> QED BY <2>1, <2>2, Zenon
<1>7. s \in Spends /\ at < Cardinality(Below(s))
  BY <1>4, <1>5, <1>6
<1>8. s \in Int /\ \A k \in buyers : k.spend \in Int
  BY <1>7, SpendsAreNumbers, SegmentationAssumption
<1> DEFINE Above == {k \in buyers : k.spend > s}
<1>9. Above = buyers \ Below(s) /\ buyers \cap Below(s) = Below(s)
  BY <1>8 DEF Below
<1> HIDE DEF Above
<1>10. Cardinality(Above) = n - Cardinality(Below(s)) /\ IsFiniteSet(Above)
  BY <1>1, <1>9, FS_Difference DEF SegInv, Total
<1>11. PICK b \in Nat : b = Cardinality(Below(s))
  BY CountsAre
<1>12. 100 * (n - b) < (100 - p) * n
  <2>1. 100 * b >= at * 100 + 100
    BY <1>2, <1>7, <1>11
  <2>2. (100 - p) * n = 100 * n - n * p /\ n * p \in Int
    BY <1>1
  <2> QED BY <1>1, <1>2, <1>11, <2>1, <2>2
<1> QED
  BY <1>1, <1>5, <1>8, <1>10, <1>11, <1>12 DEF Above

(* How many of four bounds are passed, and what a score says of each.      *)
Bit(b) == IF b THEN 1 ELSE 0

LEMMA FourBits ==
    ASSUME NEW S \in SUBSET (1 .. 4)
    PROVE  Cardinality(S) = Bit(1 \in S) + Bit(2 \in S) + Bit(3 \in S) + Bit(4 \in S)
<1> DEFINE T(n) == S \cap (1 .. n)
<1>1. \A n \in 0 .. 4 : IsFiniteSet(T(n)) /\ Cardinality(T(n)) \in Nat
  <2>1. ASSUME NEW n \in 0 .. 4 PROVE IsFiniteSet(T(n))
    <3>1. T(n) \subseteq 1 .. n /\ n \in Int
      OBVIOUS
    <3>2. IsFiniteSet(1 .. n)
      BY <3>1, FS_Interval
    <3> QED BY <3>1, <3>2, FS_Subset
  <2> QED BY <2>1, FS_CardinalityType
<1>2. ASSUME NEW n \in 1 .. 4
      PROVE  Cardinality(T(n)) = Cardinality(T(n - 1)) + Bit(n \in S)
  <2>1. CASE n \in S
    <3>1. T(n) = T(n - 1) \cup {n} /\ n \notin T(n - 1)
      BY <2>1
    <3>2. IsFiniteSet(T(n - 1))
      <4>1. n - 1 \in 0 .. 4
        OBVIOUS
      <4> HIDE DEF T
      <4> QED BY <1>1, <4>1
    <3> HIDE DEF T
    <3> QED BY <2>1, <3>1, <3>2, FS_AddElement DEF Bit
  <2>2. CASE n \notin S
    <3>1. T(n) = T(n - 1)
      BY <2>2
    <3>2. Cardinality(T(n - 1)) \in Nat
      <4>1. n - 1 \in 0 .. 4
        OBVIOUS
      <4> HIDE DEF T
      <4> QED BY <1>1, <4>1
    <3> HIDE DEF T
    <3> QED BY <2>2, <3>1, <3>2 DEF Bit
  <2> QED BY <2>1, <2>2
<1>3. T(0) = {} /\ T(4) = S
  <2>1. \A x \in S : x \in 1 .. 4
    OBVIOUS
  <2>2. 1 .. 0 = {}
    OBVIOUS
  <2> QED BY <2>1, <2>2
<1> HIDE DEF T
<1>4. /\ Cardinality(T(0)) = 0
      /\ Cardinality(T(1)) = Cardinality(T(0)) + Bit(1 \in S)
      /\ Cardinality(T(2)) = Cardinality(T(1)) + Bit(2 \in S)
      /\ Cardinality(T(3)) = Cardinality(T(2)) + Bit(3 \in S)
      /\ Cardinality(T(4)) = Cardinality(T(3)) + Bit(4 \in S)
  <2>1. Cardinality(T(0)) = 0
    BY <1>3, FS_EmptySet
  <2>2. 1 - 1 = 0 /\ 2 - 1 = 1 /\ 3 - 1 = 2 /\ 4 - 1 = 3
    OBVIOUS
  <2>3. /\ Cardinality(T(1)) = Cardinality(T(1 - 1)) + Bit(1 \in S)
        /\ Cardinality(T(2)) = Cardinality(T(2 - 1)) + Bit(2 \in S)
        /\ Cardinality(T(3)) = Cardinality(T(3 - 1)) + Bit(3 \in S)
        /\ Cardinality(T(4)) = Cardinality(T(4 - 1)) + Bit(4 \in S)
    BY <1>2
  <2> QED BY <2>1, <2>2, <2>3
<1> QED
  BY <1>3, <1>4 DEF Bit

LEMMA ScoreSays ==
    ASSUME NEW P, DOMAIN P = 1 .. 4
    PROVE  Score(P) = 1 + Bit(P[1]) + Bit(P[2]) + Bit(P[3]) + Bit(P[4])
<1> DEFINE S == {i \in 1 .. 4 : P[i]}
<1>1. Score(P) = 1 + Cardinality(S)
  BY DEF Score
<1>2. (1 \in S <=> P[1]) /\ (2 \in S <=> P[2]) /\ (3 \in S <=> P[3]) /\ (4 \in S <=> P[4])
  OBVIOUS
<1>3. S \in SUBSET (1 .. 4)
  OBVIOUS
<1> HIDE DEF S
<1>4. /\ Bit(1 \in S) = Bit(P[1]) /\ Bit(2 \in S) = Bit(P[2])
      /\ Bit(3 \in S) = Bit(P[3]) /\ Bit(4 \in S) = Bit(P[4])
  BY <1>2 DEF Bit
<1>5. Cardinality(S) = Bit(P[1]) + Bit(P[2]) + Bit(P[3]) + Bit(P[4])
  BY <1>3, <1>4, FourBits
<1>6. Bit(P[1]) \in Int /\ Bit(P[2]) \in Int /\ Bit(P[3]) \in Int /\ Bit(P[4]) \in Int
  BY DEF Bit
<1> QED
  BY <1>1, <1>5, <1>6

LEMMA ScoresAre ==
    ASSUME SegInv, NEW k \in buyers
    PROVE  /\ RScore(k) = 1 + Bit(k.recency <= 90) + Bit(k.recency <= 60)
                            + Bit(k.recency <= 30) + Bit(k.recency <= 7)
           /\ FScore(k) = 1 + Bit(k.frequency >= 2) + Bit(k.frequency >= 4)
                            + Bit(k.frequency >= 7) + Bit(k.frequency >= 11)
           /\ MScore(k) = 1 + Bit(k.spend > Pctile(20)) + Bit(k.spend > Pctile(40))
                            + Bit(k.spend > Pctile(60)) + Bit(k.spend > Pctile(80))
<1>1. RScore(k) = 1 + Bit(k.recency <= 90) + Bit(k.recency <= 60)
                    + Bit(k.recency <= 30) + Bit(k.recency <= 7)
  <2> DEFINE B == <<90, 60, 30, 7>>
              P == [i \in 1 .. 4 |-> k.recency <= B[i]]
  <2>1. /\ P[1] <=> k.recency <= 90
        /\ P[2] <=> k.recency <= 60
        /\ P[3] <=> k.recency <= 30
        /\ P[4] <=> k.recency <= 7
    <3>1. B[1] = 90 /\ B[2] = 60 /\ B[3] = 30 /\ B[4] = 7
      OBVIOUS
    <3> HIDE DEF B
    <3>2. /\ P[1] = (k.recency <= B[1]) /\ P[2] = (k.recency <= B[2])
          /\ P[3] = (k.recency <= B[3]) /\ P[4] = (k.recency <= B[4])
      OBVIOUS
    <3> HIDE DEF P
    <3> QED BY <3>1, <3>2
  <2>2. DOMAIN P = 1 .. 4
    OBVIOUS
  <2>3. RScore(k) = Score(P)
    BY DEF RScore
  <2> HIDE DEF P
  <2> QED BY <2>1, <2>2, <2>3, ScoreSays DEF Bit
<1>2. FScore(k) = 1 + Bit(k.frequency >= 2) + Bit(k.frequency >= 4)
                    + Bit(k.frequency >= 7) + Bit(k.frequency >= 11)
  <2> DEFINE B == <<2, 4, 7, 11>>
              P == [i \in 1 .. 4 |-> k.frequency >= B[i]]
  <2>1. /\ P[1] <=> k.frequency >= 2
        /\ P[2] <=> k.frequency >= 4
        /\ P[3] <=> k.frequency >= 7
        /\ P[4] <=> k.frequency >= 11
    <3>1. B[1] = 2 /\ B[2] = 4 /\ B[3] = 7 /\ B[4] = 11
      OBVIOUS
    <3> HIDE DEF B
    <3>2. /\ P[1] = (k.frequency >= B[1]) /\ P[2] = (k.frequency >= B[2])
          /\ P[3] = (k.frequency >= B[3]) /\ P[4] = (k.frequency >= B[4])
      OBVIOUS
    <3> HIDE DEF P
    <3> QED BY <3>1, <3>2
  <2>2. DOMAIN P = 1 .. 4
    OBVIOUS
  <2>3. FScore(k) = Score(P)
    BY DEF FScore
  <2> HIDE DEF P
  <2> QED BY <2>1, <2>2, <2>3, ScoreSays DEF Bit
<1>3. MScore(k) = 1 + Bit(k.spend > Pctile(20)) + Bit(k.spend > Pctile(40))
                    + Bit(k.spend > Pctile(60)) + Bit(k.spend > Pctile(80))
  <2> DEFINE P == [i \in 1 .. 4 |-> Passes(k.spend, Pctile(20 * i))]
  <2>1. /\ P[1] <=> k.spend > Pctile(20)
        /\ P[2] <=> k.spend > Pctile(40)
        /\ P[3] <=> k.spend > Pctile(60)
        /\ P[4] <=> k.spend > Pctile(80)
    <3>1. 20 * 1 = 20 /\ 20 * 2 = 40 /\ 20 * 3 = 60 /\ 20 * 4 = 80
      OBVIOUS
    <3>2. /\ P[1] = Passes(k.spend, Pctile(20 * 1)) /\ P[2] = Passes(k.spend, Pctile(20 * 2))
          /\ P[3] = Passes(k.spend, Pctile(20 * 3)) /\ P[4] = Passes(k.spend, Pctile(20 * 4))
      OBVIOUS
    <3> HIDE DEF P
    <3> QED BY <3>1, <3>2 DEF Passes
  <2>2. DOMAIN P = 1 .. 4
    OBVIOUS
  <2>3. MScore(k) = Score(P)
    BY DEF MScore
  <2> HIDE DEF P
  <2> QED BY <2>1, <2>2, <2>3, ScoreSays DEF Bit
<1> QED
  BY <1>1, <1>2, <1>3

(* The rule that was chosen fits, and none before it does.                 *)
LEMMA FirstRule ==
    ASSUME NEW k
    PROVE  \E n \in 1 .. 7 : /\ Segment(k) = RuleOrder[n]
                             /\ Fits(k, RuleOrder[n])
                             /\ \A j \in 1 .. 7 : j < n => ~Fits(k, RuleOrder[j])
<1> DEFINE I == {i \in 1 .. 7 : Fits(k, RuleOrder[i])}
<1>1. DOMAIN RuleOrder = 1 .. 7 /\ RuleOrder[7] = "window-shopper"
  BY DEF RuleOrder
<1>2. Segment(k) = RuleOrder[Min(I)]
  BY <1>1, Zenon DEF Segment
<1>3. 7 \in I
  BY <1>1 DEF Fits
<1>4. \A i \in I : i \in 0 .. 7
  OBVIOUS
<1>5. \E x \in I : \A y \in I : x <= y
  <2>1. I \in SUBSET (0 .. 7) /\ I # {}
    BY <1>3, <1>4
  <2> HIDE DEF I
  <2> QED BY <2>1, SmallestExists
<1>6. Min(I) \in I /\ \A y \in I : Min(I) <= y
  BY <1>5, Zenon DEF Min
<1>7. PICK n : n = Min(I)
  OBVIOUS
<1>8. n \in I /\ \A y \in I : n <= y
  BY <1>6, <1>7
<1>9. ASSUME NEW j \in 1 .. 7, j < n PROVE ~Fits(k, RuleOrder[j])
  <2>1. n \in Int /\ j \in Int /\ ~(n <= j)
    BY <1>8, <1>9
  <2>2. j \notin I
    BY <1>8, <2>1
  <2> QED BY <2>2
<1> QED
  BY <1>2, <1>7, <1>8, <1>9

LEMMA DiscountLast ==
    ASSUME SegInv, Total > 0, NEW k \in buyers, Segment(k) = "discount-driven"
    PROVE  k.spend <= Pctile(20) /\ k.frequency >= 4 /\ k.recency <= 60
<1>1. PICK n \in 1 .. 7 : /\ Segment(k) = RuleOrder[n] /\ Fits(k, RuleOrder[n])
                          /\ \A j \in 1 .. 7 : j < n => ~Fits(k, RuleOrder[j])
  BY FirstRule
<1>2. n = 6
  BY <1>1 DEF RuleOrder
<1>3. /\ Fits(k, "discount-driven") /\ ~Fits(k, "loyal")
      /\ ~Fits(k, "at-risk") /\ ~Fits(k, "high-intent")
  <2>1. /\ RuleOrder[6] = "discount-driven" /\ RuleOrder[2] = "loyal"
        /\ RuleOrder[3] = "at-risk" /\ RuleOrder[5] = "high-intent"
    BY DEF RuleOrder
  <2>2. 2 < n /\ 3 < n /\ 5 < n /\ 2 \in 1 .. 7 /\ 3 \in 1 .. 7 /\ 5 \in 1 .. 7
    BY <1>2
  <2> QED BY <1>1, <1>2, <2>1, <2>2
<1>4. PICK r, f, m : r = RScore(k) /\ f = FScore(k) /\ m = MScore(k)
  OBVIOUS
<1>5. /\ f >= 3
      /\ ~(r >= 3 /\ f >= 3 /\ m >= 3)
      /\ ~(r <= 2 /\ (f >= 3 \/ m >= 3))
      /\ ~(r >= 3 /\ f >= 2 /\ m >= 2)
  BY <1>3, <1>4 DEF Fits
<1>6. /\ k.recency \in Nat /\ k.frequency \in Nat /\ k.spend \in Nat /\ Pctile(20) \in Int
  <2>1. 20 \in Nat /\ 20 < 100
    OBVIOUS
  <2>2. Pctile(20) \in Int
    BY <2>1, FewSpendMore
  <2> QED BY <2>2, SpendsAreNumbers
<1>7. /\ r = 1 + Bit(k.recency <= 90) + Bit(k.recency <= 60)
               + Bit(k.recency <= 30) + Bit(k.recency <= 7)
      /\ f = 1 + Bit(k.frequency >= 2) + Bit(k.frequency >= 4)
               + Bit(k.frequency >= 7) + Bit(k.frequency >= 11)
      /\ m = 1 + Bit(k.spend > Pctile(20)) + Bit(k.spend > Pctile(40))
               + Bit(k.spend > Pctile(60)) + Bit(k.spend > Pctile(80))
  BY <1>4, ScoresAre
<1>8. r \in Int /\ f \in Int /\ m \in Int
  BY <1>7 DEF Bit
<1>9. r >= 3 /\ m < 2
  BY <1>5, <1>8
<1>10. k.recency <= 60
  BY <1>6, <1>7, <1>9 DEF Bit
<1>11. k.frequency >= 4
  BY <1>5, <1>6, <1>7 DEF Bit
<1>12. ~(k.spend > Pctile(20))
  BY <1>7, <1>9 DEF Bit
<1> QED
  BY <1>6, <1>10, <1>11, <1>12

LEMMA BestScoresAreFew ==
    ASSUME SegInv, Total > 0
    PROVE  VipsAreFew
<1> DEFINE A(p) == {k \in buyers : k.spend > Pctile(p)}
           Vips == {k \in buyers : Segment(k) = "vip"}
           Best == {k \in buyers : MScore(k) = 5}
<1>1. /\ 100 * Cardinality(A(60)) < 40 * Total /\ IsFiniteSet(A(60)) /\ Pctile(60) \in Int
      /\ 100 * Cardinality(A(80)) < 20 * Total /\ IsFiniteSet(A(80)) /\ Pctile(80) \in Int
  <2>1. 100 - 60 = 40 /\ 100 - 80 = 20 /\ 60 < 100 /\ 80 < 100 /\ 60 \in Nat /\ 80 \in Nat
    OBVIOUS
  <2> QED BY <2>1, FewSpendMore
<1>2. ASSUME NEW k \in buyers
      PROVE  /\ MScore(k) = 5 => k \in A(80)
             /\ MScore(k) >= 4 => k \in A(60) \cup A(80)
  <2>1. PICK b20, b40 \in {0, 1} : MScore(k) = 1 + b20 + b40 + Bit(k.spend > Pctile(60))
                                                 + Bit(k.spend > Pctile(80))
    BY ScoresAre DEF Bit
  <2>2. MScore(k) = 5 => k.spend > Pctile(80)
    BY <2>1 DEF Bit
  <2>3. MScore(k) >= 4 => k.spend > Pctile(60) \/ k.spend > Pctile(80)
    BY <2>1 DEF Bit
  <2> QED BY <2>2, <2>3
<1>3. Best \subseteq A(80)
  BY <1>2
<1>4. Vips \subseteq A(60) \cup A(80)
  <2>1. ASSUME NEW k \in buyers, Segment(k) = "vip" PROVE MScore(k) >= 4
    <3>1. PICK n \in 1 .. 7 : Segment(k) = RuleOrder[n] /\ Fits(k, RuleOrder[n])
      BY FirstRule
    <3>2. Fits(k, "vip")
      BY <2>1, <3>1
    <3> QED BY <3>2 DEF Fits
  <2> QED BY <1>2, <2>1
<1>5. A(60) \cup A(80) = A(60) \/ A(60) \cup A(80) = A(80)
  <2>1. \A k \in buyers : k.spend \in Int
    BY SpendsAreNumbers
  <2>2. CASE Pctile(60) <= Pctile(80)
    <3>1. \A k \in buyers : k.spend > Pctile(80) => k.spend > Pctile(60)
      BY <1>1, <2>1, <2>2
    <3> QED BY <3>1
  <2>3. CASE Pctile(80) <= Pctile(60)
    <3>1. \A k \in buyers : k.spend > Pctile(60) => k.spend > Pctile(80)
      BY <1>1, <2>1, <2>3
    <3> QED BY <3>1
  <2> QED BY <1>1, <2>2, <2>3
<1>6. /\ 5 * Count(LAMBDA k : Segment(k) = "vip") = 5 * Cardinality(Vips)
      /\ 5 * Count(LAMBDA k : MScore(k) = 5) = 5 * Cardinality(Best)
  BY Zenon DEF Count
<1> HIDE DEF A, Vips, Best
<1>7. Cardinality(Best) <= Cardinality(A(80)) /\ Cardinality(Best) \in Nat
  BY <1>1, <1>3, FS_Subset, FS_CardinalityType
<1>8. /\ Cardinality(Vips) <= Cardinality(A(60)) \/ Cardinality(Vips) <= Cardinality(A(80))
      /\ Cardinality(Vips) \in Nat
  <2>1. Vips \subseteq A(60) \/ Vips \subseteq A(80)
    BY <1>4, <1>5
  <2> QED BY <1>1, <2>1, FS_Subset, FS_CardinalityType
<1>9. Cardinality(A(60)) \in Nat /\ Cardinality(A(80)) \in Nat /\ Total \in Nat
  BY <1>1, FS_CardinalityType, CountsAre
<1>10. 5 * Cardinality(Vips) < 2 * Total /\ 5 * Cardinality(Best) < Total
  BY <1>1, <1>7, <1>8, <1>9
<1> QED
  BY <1>6, <1>10 DEF VipsAreFew

(* For any customers, spends and store size: the best two scores for what  *)
(* was spent stay with fewer than two fifths, and fewer than a fifth, of   *)
(* the store, and "discount-driven" is left to the lowest spends           *)
(* (CustomersService.storeStats and classifySegment).                      *)
THEOREM SegmentsFollow == SegmentationSpec => []SegmentsFollowSpending
<1>1. SegInv => SegmentsFollowSpending
  <2> SUFFICES ASSUME SegInv PROVE SegmentsFollowSpending
    OBVIOUS
  <2>1. CASE Total > 0
    BY <2>1, BestScoresAreFew, DiscountLast DEF SegmentsFollowSpending, DiscountDrivenSpentLeast
  <2>2. CASE ~(Total > 0)
    <3>1. Cardinality(buyers) = 0 /\ IsFiniteSet(buyers)
      BY <2>2, CountsAre DEF Total, SegInv
    <3>2. buyers = {}
      BY <3>1, FS_EmptySet
    <3> QED
      BY <2>2, <3>2 DEF SegmentsFollowSpending, VipsAreFew, DiscountDrivenSpentLeast
  <2> QED BY <2>1, <2>2
<1> QED
  BY <1>1, SegInvHolds, PTL


-----------------------------------------------------------------------------
(* The forecast.  Sums are linear, the sums of 1 .. n and of their squares *)
(* have closed forms, so that the fit divides by a positive number, and    *)
(* the line through days that lie on one is that one.                      *)

Combines(D, u, v, w, a, b) ==
    /\ IsFiniteSet(D) /\ u \in [D -> Int] /\ v \in [D -> Int] /\ w \in [D -> Int]
    /\ a \in Int /\ b \in Int
    /\ \A x \in D : u[x] = a * v[x] + b * w[x]

LEMMA SumLinear ==
    ASSUME NEW D, NEW u, NEW v, NEW w, NEW a, NEW b, Combines(D, u, v, w, a, b)
    PROVE  SumOf(u, D) = a * SumOf(v, D) + b * SumOf(w, D)
<1> DEFINE Good == {S \in SUBSET D : SumOf(u, S) = a * SumOf(v, S) + b * SumOf(w, S)}
<1>0. /\ IsFiniteSet(D) /\ u \in [D -> Int] /\ v \in [D -> Int] /\ w \in [D -> Int]
      /\ a \in Int /\ b \in Int
  BY DEF Combines
<1>1. ASSUME NEW S \in SUBSET D, \A R \in SUBSET S : R # S => R \in Good
      PROVE  S \in Good
  <2>1. CASE S = {}
    <3>1. SumOf(u, S) = 0 /\ SumOf(v, S) = 0 /\ SumOf(w, S) = 0
      BY <1>0, <2>1, SumChosen
    <3> QED BY <1>0, <3>1
  <2>2. CASE S # {}
    <3>1. PICK x \in S : TRUE
      BY <2>2
    <3>2. S \ {x} \in Good
      BY <1>1, <3>1
    <3>3. PICK su, sv, sw \in Int : /\ su = SumOf(u, S \ {x}) /\ sv = SumOf(v, S \ {x})
                                    /\ sw = SumOf(w, S \ {x})
      <4>1. S \ {x} \in SUBSET D
        OBVIOUS
      <4> QED BY <1>0, <4>1, SumType
    <3>4. su = a * sv + b * sw
      BY <3>2, <3>3
    <3>5. /\ SumOf(u, S) = u[x] + su /\ SumOf(v, S) = v[x] + sv /\ SumOf(w, S) = w[x] + sw
      BY <1>0, <3>1, <3>3, SumRemove
    <3>6. PICK vx, wx \in Int : vx = v[x] /\ wx = w[x] /\ u[x] = a * vx + b * wx
      BY <1>0, <3>1 DEF Combines
    <3>7. a * (vx + sv) + b * (wx + sw) = (a * vx + b * wx) + (a * sv + b * sw)
      BY <1>0
    <3>8. u[x] + su = a * (v[x] + sv) + b * (w[x] + sw)
      BY <3>4, <3>6, <3>7
    <3> QED BY <3>5, <3>8
  <2> QED BY <2>1, <2>2
<1> HIDE DEF Good
<1>2. D \in Good
  BY <1>0, <1>1, SmallerSetsFirst
<1> QED
  BY <1>2 DEF Good

TakenOut(D, v, A, B, a) ==
    IsFiniteSet(D) /\ v \in [D -> Int] /\ A \in SUBSET D /\ a \in A /\ A \ {a} = B

LEMMA RemoveOne ==
    \A D, v, A, B, a : TakenOut(D, v, A, B, a) =>
        SumOf(v, A) = v[a] + SumOf(v, B) /\ SumOf(v, B) \in Int /\ v[a] \in Int
<1>1. ASSUME NEW D, IsFiniteSet(D), NEW v \in [D -> Int], NEW A \in SUBSET D, NEW a \in A,
             NEW B, A \ {a} = B
      PROVE  SumOf(v, A) = v[a] + SumOf(v, B) /\ SumOf(v, B) \in Int /\ v[a] \in Int
  <2>1. SumOf(v, A) = v[a] + SumOf(v, A \ {a})
    BY <1>1, SumRemove
  <2>2. SumOf(v, B) \in Int /\ v[a] \in Int
    BY <1>1, SumType
  <2> QED BY <1>1, <2>1, <2>2
<1> QED
  BY <1>1 DEF TakenOut

(* The last term of a sum over 1 .. j.                                     *)
LEMMA LastTerm ==
    ASSUME NEW D, IsFiniteSet(D), NEW v \in [D -> Int], NEW j \in Nat \ {0},
           1 .. j \subseteq D
    PROVE  /\ SumOf(v, 1 .. j) = v[j] + SumOf(v, 1 .. (j - 1))
           /\ SumOf(v, 1 .. (j - 1)) \in Int /\ v[j] \in Int
<1>1. (1 .. j) \ {j} = 1 .. (j - 1) /\ j \in 1 .. j
  <2>1. ASSUME NEW x PROVE x \in (1 .. j) \ {j} <=> x \in 1 .. (j - 1)
    OBVIOUS
  <2> QED BY <2>1
<1>2. PICK A : A = 1 .. j
  OBVIOUS
<1>3. PICK B : B = 1 .. (j - 1)
  OBVIOUS
<1>4. A \in SUBSET D /\ j \in A /\ A \ {j} = B
  BY <1>1, <1>2, <1>3
<1>5. TakenOut(D, v, A, B, j)
  BY <1>4 DEF TakenOut
<1>6. SumOf(v, A) = v[j] + SumOf(v, B)
  BY <1>5, RemoveOne
<1>7. SumOf(v, B) \in Int /\ v[j] \in Int
  BY <1>5, RemoveOne, Zenon
<1> QED
  BY <1>2, <1>3, <1>6, <1>7

LEMMA LastTermTo ==
    ASSUME NEW n \in Nat, NEW v \in [1 .. n -> Int], NEW j \in 1 .. n
    PROVE  /\ SumOf(v, 1 .. j) = v[j] + SumOf(v, 1 .. (j - 1))
           /\ SumOf(v, 1 .. (j - 1)) \in Int /\ v[j] \in Int
<1>1. PICK D : D = 1 .. n
  OBVIOUS
<1>2. IsFiniteSet(D) /\ v \in [D -> Int]
  BY <1>1, FS_Interval
<1>3. j \in Nat \ {0} /\ 1 .. j \subseteq D
  <2>1. \A i \in 1 .. j : i \in 1 .. n
    OBVIOUS
  <2> QED BY <1>1, <2>1
<1> QED
  BY <1>2, <1>3, LastTerm

(* A sum over 1 .. n, c times, is what adds up term by term.               *)
LEMMA SumTo ==
    ASSUME NEW n \in Nat, NEW v \in [1 .. n -> Int], NEW c \in Int, NEW g \in [0 .. n -> Int],
           g[0] = 0, \A j \in 1 .. n : g[j] = g[j - 1] + c * v[j]
    PROVE  c * SumOf(v, 1 .. n) = g[n]
<1>1. ASSUME NEW j \in 1 .. n, c * SumOf(v, 1 .. (j - 1)) = g[j - 1]
      PROVE  c * SumOf(v, 1 .. j) = g[j]
  <2>1. /\ SumOf(v, 1 .. j) = v[j] + SumOf(v, 1 .. (j - 1))
        /\ SumOf(v, 1 .. (j - 1)) \in Int /\ v[j] \in Int
    BY LastTermTo
  <2>2. PICK s, t \in Int : s = SumOf(v, 1 .. (j - 1)) /\ t = v[j]
    BY <2>1
  <2>3. c * (t + s) = c * t + c * s
    OBVIOUS
  <2>4. g[j] = g[j - 1] + c * t
    BY <2>2
  <2> QED BY <1>1, <2>1, <2>2, <2>3, <2>4
<1>2. c * SumOf(v, 1 .. 0) = g[0]
  <2>1. 1 .. 0 = {} /\ {} \in SUBSET (1 .. n) /\ IsFiniteSet(1 .. n)
    BY FS_Interval
  <2>2. SumOf(v, 1 .. 0) = 0
    BY <2>1, SumChosen
  <2> QED BY <2>2
<1> DEFINE Bad == {j \in 0 .. n : c * SumOf(v, 1 .. j) # g[j]}
<1>3. ASSUME Bad # {} PROVE FALSE
  <2>1. PICK j \in Bad : \A i \in Bad : j <= i
    <3>1. \A i \in Bad : i \in 0 .. n
      OBVIOUS
    <3> HIDE DEF Bad
    <3>2. Bad \in SUBSET (0 .. n)
      BY <3>1
    <3> QED BY <1>3, <3>2, SmallestExists
  <2>2. j \in 0 .. n /\ c * SumOf(v, 1 .. j) # g[j]
    OBVIOUS
  <2>3. j \in 1 .. n /\ j - 1 \in 0 .. n
    BY <1>2, <2>2
  <2>4. j - 1 \notin Bad
    <3>1. ~(j <= j - 1)
      BY <2>2
    <3> HIDE DEF Bad
    <3> QED BY <2>1, <3>1
  <2>5. c * SumOf(v, 1 .. (j - 1)) = g[j - 1]
    BY <2>3, <2>4
  <2> QED BY <1>1, <2>2, <2>3, <2>5
<1>4. n \in 0 .. n
  OBVIOUS
<1> QED
  BY <1>3, <1>4

Places(n) == [x \in 1 .. n |-> x]
Squares(n) == [x \in 1 .. n |-> x * x]
Moments(h) == [x \in 1 .. Len(h) |-> x * h[x]]

LEMMA SumOfPlaces ==
    ASSUME NEW n \in Nat
    PROVE  /\ SumOf(Places(n), 1 .. n) \in Int /\ SumOf(Squares(n), 1 .. n) \in Int
           /\ 2 * SumOf(Places(n), 1 .. n) = n * (n + 1)
           /\ 6 * SumOf(Squares(n), 1 .. n) = n * (n + 1) * (2 * n + 1)
<1>1. Places(n) \in [1 .. n -> Int] /\ Squares(n) \in [1 .. n -> Int] /\ IsFiniteSet(1 .. n)
  BY FS_Interval DEF Places, Squares
<1>2. 2 * SumOf(Places(n), 1 .. n) = n * (n + 1)
  <2> DEFINE g == [j \in 0 .. n |-> j * (j + 1)]
  <2>1. g \in [0 .. n -> Int] /\ g[0] = 0 /\ g[n] = n * (n + 1)
    OBVIOUS
  <2>2. ASSUME NEW j \in 1 .. n PROVE g[j] = g[j - 1] + 2 * Places(n)[j]
    <3>1. g[j] = j * (j + 1) /\ g[j - 1] = (j - 1) * (j - 1 + 1)
      OBVIOUS
    <3>2. j * (j + 1) = (j - 1) * (j - 1 + 1) + 2 * j
      OBVIOUS
    <3>3. Places(n)[j] = j
      BY DEF Places
    <3> QED BY <3>1, <3>2, <3>3
  <2> HIDE DEF g
  <2>3. PICK c \in Int : c = 2
    OBVIOUS
  <2>4. PICK v : v = Places(n)
    OBVIOUS
  <2>5. \A j \in 1 .. n : g[j] = g[j - 1] + c * v[j]
    BY <2>2, <2>3, <2>4
  <2>6. c * SumOf(v, 1 .. n) = g[n]
    BY <1>1, <2>1, <2>4, <2>5, SumTo
  <2> QED BY <2>1, <2>3, <2>4, <2>6
<1>3. 6 * SumOf(Squares(n), 1 .. n) = n * (n + 1) * (2 * n + 1)
  <2> DEFINE g == [j \in 0 .. n |-> j * (j + 1) * (2 * j + 1)]
  <2>1. g \in [0 .. n -> Int] /\ g[0] = 0 /\ g[n] = n * (n + 1) * (2 * n + 1)
    OBVIOUS
  <2>2. ASSUME NEW j \in 1 .. n PROVE g[j] = g[j - 1] + 6 * Squares(n)[j]
    <3>1. g[j] = j * (j + 1) * (2 * j + 1) /\ g[j - 1] = (j - 1) * (j - 1 + 1) * (2 * (j - 1) + 1)
      OBVIOUS
    <3>2. j * (j + 1) * (2 * j + 1) = (j - 1) * (j - 1 + 1) * (2 * (j - 1) + 1) + 6 * (j * j)
      OBVIOUS
    <3>3. Squares(n)[j] = j * j
      BY DEF Squares
    <3> QED BY <3>1, <3>2, <3>3
  <2> HIDE DEF g
  <2>3. PICK c \in Int : c = 6
    OBVIOUS
  <2>4. PICK v : v = Squares(n)
    OBVIOUS
  <2>5. \A j \in 1 .. n : g[j] = g[j - 1] + c * v[j]
    BY <2>2, <2>3, <2>4
  <2>6. c * SumOf(v, 1 .. n) = g[n]
    BY <1>1, <2>1, <2>4, <2>5, SumTo
  <2> QED BY <2>1, <2>3, <2>4, <2>6
<1> QED
  BY <1>1, <1>2, <1>3, SumType

(* What the four sums of a fit are.                                        *)
LEMMA FitSums ==
    ASSUME history \in Seq(DaySales)
    PROVE  /\ DOMAIN history = 1 .. HistoryDays /\ HistoryDays \in Nat
           /\ SumX = SumOf(Places(HistoryDays), 1 .. HistoryDays)
           /\ SumXX = SumOf(Squares(HistoryDays), 1 .. HistoryDays)
           /\ SumY = SumOf(history, 1 .. HistoryDays)
           /\ SumXY = SumOf(Moments(history), 1 .. HistoryDays)
<1> DEFINE S == 1 .. HistoryDays
<1>1. DOMAIN history = S /\ HistoryDays \in Nat
  BY DEF HistoryDays
<1> HIDE DEF S
<1>2. SumX = SumOf(Places(HistoryDays), S)
  <2> DEFINE J == CHOOSE g : g = [s \in SUBSET S |-> IF s = {} THEN 0
                                    ELSE Chosen(s) + g[s \ {Chosen(s)}]]
             v == Places(HistoryDays)
  <2>1. \A x \in S : v[x] = x
    BY DEF S, Places
  <2>2. ASSUME NEW g
        PROVE  SumStep(v, g, S) = [s \in SUBSET S |-> IF s = {} THEN 0
                                    ELSE Chosen(s) + g[s \ {Chosen(s)}]]
    <3>1. \A s \in SUBSET S : s # {} => v[Chosen(s)] = Chosen(s)
      BY <2>1, ChosenIn
    <3> HIDE DEF v
    <3> QED BY <3>1 DEF SumStep
  <2> HIDE DEF v
  <2>3. SumIter(v, S) = J
    BY <2>2 DEF SumIter
  <2>4. SumX = J[S]
    BY <1>1, Zenon DEF SumX, SumOver, MapThenSumSet, MapThenFoldSet, Chosen
  <2> QED BY <2>3, <2>4 DEF SumOf, v
<1>3. SumXX = SumOf(Squares(HistoryDays), S)
  <2> DEFINE J == CHOOSE g : g = [s \in SUBSET S |-> IF s = {} THEN 0
                                    ELSE Chosen(s) * Chosen(s) + g[s \ {Chosen(s)}]]
             v == Squares(HistoryDays)
  <2>1. \A x \in S : v[x] = x * x
    BY DEF S, Squares
  <2>2. ASSUME NEW g
        PROVE  SumStep(v, g, S) = [s \in SUBSET S |-> IF s = {} THEN 0
                                    ELSE Chosen(s) * Chosen(s) + g[s \ {Chosen(s)}]]
    <3>1. \A s \in SUBSET S : s # {} => v[Chosen(s)] = Chosen(s) * Chosen(s)
      BY <2>1, ChosenIn
    <3> HIDE DEF v
    <3> QED BY <3>1 DEF SumStep
  <2> HIDE DEF v
  <2>3. SumIter(v, S) = J
    BY <2>2 DEF SumIter
  <2>4. SumXX = J[S]
    BY <1>1, Zenon DEF SumXX, SumOver, MapThenSumSet, MapThenFoldSet, Chosen
  <2> QED BY <2>3, <2>4 DEF SumOf, v
<1>4. SumXY = SumOf(Moments(history), S)
  <2> DEFINE J == CHOOSE g : g = [s \in SUBSET S |-> IF s = {} THEN 0
                                    ELSE Chosen(s) * history[Chosen(s)] + g[s \ {Chosen(s)}]]
             v == Moments(history)
  <2>1. \A x \in S : v[x] = x * history[x]
    BY DEF S, Moments, HistoryDays
  <2>2. ASSUME NEW g
        PROVE  SumStep(v, g, S) = [s \in SUBSET S |-> IF s = {} THEN 0
                                    ELSE Chosen(s) * history[Chosen(s)] + g[s \ {Chosen(s)}]]
    <3>1. \A s \in SUBSET S : s # {} => v[Chosen(s)] = Chosen(s) * history[Chosen(s)]
      BY <2>1, ChosenIn
    <3> HIDE DEF v
    <3> QED BY <3>1 DEF SumStep
  <2> HIDE DEF v
  <2>3. SumIter(v, S) = J
    BY <2>2 DEF SumIter
  <2>4. SumXY = J[S]
    BY <1>1, Zenon DEF SumXY, SumOver, MapThenSumSet, MapThenFoldSet, Chosen
  <2> QED BY <2>3, <2>4 DEF SumOf, v
<1>5. SumY = SumOf(history, S)
  BY <1>1, Zenon DEF SumY, SumOver, MapThenSumSet, MapThenFoldSet, Chosen, SumOf, SumIter, SumStep
<1> QED
  BY <1>1, <1>2, <1>3, <1>4, <1>5 DEF S


LEMMA DenomIsPositive ==
    ASSUME NEW n \in Nat, n >= 2, NEW sx \in Int, NEW sxx \in Int,
           2 * sx = n * (n + 1), 6 * sxx = n * (n + 1) * (2 * n + 1)
    PROVE  n * sxx - sx * sx > 0
<1>1. PICK p \in Int : p = n * (n + 1)
  OBVIOUS
<1>2. 12 * (n * sxx) = 2 * n * (6 * sxx) /\ 12 * (sx * sx) = 3 * ((2 * sx) * (2 * sx))
  OBVIOUS
<1>3. 2 * n * (6 * sxx) = 2 * n * (p * (2 * n + 1))
  BY <1>1
<1>4. (2 * sx) * (2 * sx) = p * p
  BY <1>1
<1>5. 2 * n * (p * (2 * n + 1)) - 3 * (p * p) = p * (2 * n * (2 * n + 1) - 3 * p)
  OBVIOUS
<1>6. 2 * n * (2 * n + 1) - 3 * p = n * (n - 1)
  BY <1>1
<1>7. p >= 1 /\ n * (n - 1) >= 1
  <2>1. n * (n + 1) = n * n + n /\ n * n >= 2 * n /\ n * (n - 1) = n * n - n
    OBVIOUS
  <2> QED BY <1>1, <2>1
<1>8. p * (n * (n - 1)) >= 1
  <2>1. PICK q \in Int : q = n * (n - 1) /\ q >= 1 /\ p >= 1
    BY <1>7
  <2>2. p * q >= 1
    <3>1. (p - 1) * (q - 1) >= 0 /\ (p - 1) * (q - 1) = p * q - p - q + 1
      BY <2>1
    <3> QED BY <2>1, <3>1
  <2> QED BY <2>1, <2>2
<1>9. PICK u, w \in Int : u = n * sxx /\ w = sx * sx
  OBVIOUS
<1>10. 12 * u - 12 * w = p * (n * (n - 1))
  <2>1. 12 * u = 2 * n * (p * (2 * n + 1))
    BY <1>2, <1>3, <1>9
  <2>2. 12 * w = 3 * (p * p)
    BY <1>2, <1>4, <1>9
  <2>3. p * (2 * n * (2 * n + 1) - 3 * p) = p * (n * (n - 1))
    BY <1>6
  <2>4. 2 * n * (p * (2 * n + 1)) \in Int /\ p * p \in Int
    OBVIOUS
  <2> QED BY <1>5, <2>1, <2>2, <2>3, <2>4
<1> QED
  BY <1>8, <1>9, <1>10

(* Of days on a line with step d, the fit finds the step.                  *)
LEMMA LineIsFound ==
    ASSUME NEW n \in Int, NEW b \in Int, NEW d \in Int, NEW sx \in Int, NEW sxx \in Int,
           NEW sy \in Int, NEW sxy \in Int, sy = b * n + d * sx, sxy = b * sx + d * sxx
    PROVE  n * sxy - sx * sy = d * (n * sxx - sx * sx)
<1>1. n * sxy = n * (b * sx) + n * (d * sxx) /\ sx * sy = sx * (b * n) + sx * (d * sx)
  OBVIOUS
<1>2. n * (b * sx) = sx * (b * n) /\ n * (d * sxx) = d * (n * sxx) /\ sx * (d * sx) = d * (sx * sx)
  OBVIOUS
<1>3. d * (n * sxx - sx * sx) = d * (n * sxx) - d * (sx * sx)
  OBVIOUS
<1> QED
  BY <1>1, <1>2, <1>3

(* And goes on along it, mixed with the average.                           *)
LEMMA LineIsKept ==
    ASSUME NEW n \in Int, NEW a \in Int, NEW d \in Int, NEW sx \in Int, NEW e \in Int,
           NEW i \in Int, NEW sy \in Int, sy = (a - d) * n + d * sx, 2 * sx = n * (n + 1)
    PROVE  6 * (sy * e - (d * e) * sx + (d * e) * n * (n + i)) + 4 * (sy * e)
              = (6 * (a + (n + i - 1) * d) + 2 * (a + (a + (n - 1) * d))) * (n * e)
<1>1. PICK k \in Int : k = n * e
  OBVIOUS
<1>2. PICK z \in Int : z = d * e * sx
  OBVIOUS
<1>3. sy * e = (a - d) * k + z
  BY <1>1, <1>2
<1>4. (d * e) * sx = z /\ (d * e) * n * (n + i) = d * k * (n + i)
  BY <1>1, <1>2
<1>5. 2 * z = d * k * (n + 1)
  <2>1. 2 * z = d * e * (2 * sx)
    BY <1>2
  <2>2. 2 * z = d * e * (n * (n + 1))
    BY <2>1
  <2> QED BY <1>1, <2>2
<1>6. 6 * (sy * e - (d * e) * sx + (d * e) * n * (n + i)) + 4 * (sy * e)
         = 6 * ((a - d) * k + d * k * (n + i)) + 4 * ((a - d) * k) + 2 * (d * k * (n + 1))
  <2>1. sy * e - (d * e) * sx + (d * e) * n * (n + i) = (a - d) * k + d * k * (n + i)
    BY <1>3, <1>4
  <2>2. 4 * (sy * e) = 4 * ((a - d) * k) + 2 * (d * k * (n + 1))
    BY <1>3, <1>5
  <2> QED BY <2>1, <2>2
<1>7. 6 * ((a - d) * k + d * k * (n + i)) + 4 * ((a - d) * k) + 2 * (d * k * (n + 1))
         = (6 * (a + (n + i - 1) * d) + 2 * (a + (a + (n - 1) * d))) * k
  OBVIOUS
<1> QED
  BY <1>1, <1>6, <1>7

(* A run that finds no growth is below the average on every later day, one *)
(* that finds some is not; days without sales show no decline.             *)
LEMMA TrendTells ==
    ASSUME NEW n \in Nat, n >= 2, NEW sx \in Int, NEW sy \in Nat, NEW e \in Int, NEW sl \in Int,
           NEW i \in Nat, i >= 1, 2 * sx = n * (n + 1), e > 0, sy = 0 => sl = 0,
           NEW m, m = 6 * (sy * e - sl * sx + sl * n * (n + i)) + 4 * (sy * e),
           NEW p, p = IF m < 0 THEN 0 ELSE m
    PROVE  /\ p \in Nat
           /\ (p * n < 10 * (n * e) * sy) = (sl < 0)
<1>1. PICK k \in Int : k = sy * e
  OBVIOUS
<1>2. PICK g \in Int : g = n * (n + i) - sx
  OBVIOUS
<1>3. g > 0
  <2>1. 2 * g = 2 * (n * (n + i)) - n * (n + 1) /\ n * (n + i) = n * n + n * i
    BY <1>2
  <2>2. n * (n + 1) = n * n + n /\ n * n >= 2 * n /\ n * i >= n
    <3>1. n * (i - 1) >= 0 /\ n * (i - 1) = n * i - n
      OBVIOUS
    <3>2. n * (n - 2) >= 0 /\ n * (n - 2) = n * n - 2 * n
      OBVIOUS
    <3> QED BY <3>1, <3>2
  <2>3. n * n \in Int /\ n * i \in Int
    OBVIOUS
  <2> QED BY <2>1, <2>2, <2>3
<1>4. m = 10 * k + 6 * (sl * g)
  <2>1. sl * g = sl * n * (n + i) - sl * sx
    BY <1>2
  <2>2. sl * n * (n + i) \in Int /\ sl * sx \in Int
    OBVIOUS
  <2> QED BY <1>1, <2>1, <2>2
<1>5. PICK t \in Int : t = sl * g
  OBVIOUS
<1>6. (sl < 0 => t < 0) /\ (sl >= 0 => t >= 0)
  <2>1. sl < 0 => (0 - sl - 1) * g >= 0
    BY <1>3
  <2>2. (0 - sl - 1) * g = 0 - t - g
    BY <1>5
  <2>3. sl >= 0 => sl * g >= 0
    BY <1>3
  <2> QED BY <1>3, <1>5, <2>1, <2>2, <2>3
<1>7. k >= 0 /\ (sl < 0 => k > 0)
  <2>1. sy * e >= 0
    OBVIOUS
  <2>2. sl < 0 => sy >= 1
    OBVIOUS
  <2>3. sy >= 1 => (sy - 1) * e >= 0 /\ (sy - 1) * e = sy * e - e
    OBVIOUS
  <2> QED BY <1>1, <2>1, <2>2, <2>3
<1>8. p \in Nat /\ (sl < 0 => p < 10 * k) /\ (sl >= 0 => p >= 10 * k)
  BY <1>4, <1>5, <1>6, <1>7
<1>9. 10 * (n * e) * sy = (10 * k) * n
  BY <1>1
<1>10. ASSUME NEW x \in Int, NEW y \in Int PROVE (x < y => x * n < y * n) /\ (x >= y => x * n >= y * n)
  <2>1. x < y => (y - x - 1) * n >= 0
    OBVIOUS
  <2>2. x >= y => (x - y) * n >= 0
    OBVIOUS
  <2>3. (y - x - 1) * n = y * n - x * n - n /\ (x - y) * n = x * n - y * n
    OBVIOUS
  <2>4. x * n \in Int /\ y * n \in Int
    OBVIOUS
  <2> QED BY <2>1, <2>2, <2>3, <2>4
<1>11. (sl < 0 => p * n < (10 * k) * n) /\ (sl >= 0 => p * n >= (10 * k) * n)
  <2>1. PICK y \in Int : y = 10 * k
    OBVIOUS
  <2> QED BY <1>8, <1>10, <2>1
<1>12. p * n \in Int /\ (10 * k) * n \in Int
  BY <1>8
<1> QED
  BY <1>8, <1>9, <1>11, <1>12


LEMMA UpToIsFinite ==
    ASSUME NEW n \in Nat
    PROVE  IsFiniteSet(1 .. n) /\ Cardinality(1 .. n) = n
<1>1. Cardinality(1 .. n) = IF 1 > n THEN 0 ELSE n - 1 + 1
  BY FS_Interval
<1> QED
  BY <1>1, FS_Interval

LEMMA DaysAre ==
    ASSUME history \in Seq(DaySales)
    PROVE  \A x \in 1 .. Len(history) : history[x] \in Nat
<1>1. \A x \in 1 .. Len(history) : history[x] \in DaySales
  OBVIOUS
<1> QED
  BY <1>1, ForecastAssumption

(* What the fit of the history is made of.                                 *)
LEMMA FitIs ==
    ASSUME history \in Seq(DaySales)
    PROVE  /\ HistoryDays \in Nat /\ SumX \in Int /\ SumXX \in Int /\ SumXY \in Int
           /\ SumY \in Nat /\ (SumY = 0 => SumXY = 0)
           /\ 2 * SumX = HistoryDays * (HistoryDays + 1)
           /\ HistoryDays >= 2 => HistoryDays * SumXX - SumX * SumX > 0
           /\ HistoryDays = 1 => SumY = history[1]
<1>1. PICK n \in Nat : n = HistoryDays /\ DOMAIN history = 1 .. n
  BY FitSums
<1>2. PICK D : D = 1 .. n
  OBVIOUS
<1>3. IsFiniteSet(D)
  BY <1>2, FS_Interval
<1>4. \A x \in D : history[x] \in Nat
  BY <1>1, <1>2, DaysAre DEF HistoryDays
<1>5. history \in [D -> Int] /\ Moments(history) \in [D -> Int]
  <2>1. DOMAIN history = D /\ Len(history) = n /\ history = [x \in D |-> history[x]]
    BY <1>1, <1>2 DEF HistoryDays
  <2>2. \A x \in D : x \in Int /\ x * history[x] \in Int
    BY <1>2, <1>4
  <2> QED BY <1>2, <1>4, <2>1, <2>2 DEF Moments
<1>6. SumY \in Nat
  <2>1. SumOf(history, D) \in Int /\ SumOf(history, D) >= 0
    BY <1>3, <1>4, <1>5, SumType
  <2> QED BY <1>1, <1>2, <2>1, FitSums
<1>7. SumXY \in Int
  <2>1. SumOf(Moments(history), D) \in Int
    BY <1>3, <1>5, SumType
  <2> QED BY <1>1, <1>2, <2>1, FitSums
<1>8. SumY = 0 => SumXY = 0
  <2> DEFINE w == [x \in D |-> n * history[x]]
  <2>1. w \in [D -> Int] /\ \A x \in D : w[x] = n * history[x] + 0 * history[x]
    BY <1>4
  <2>2. \A x \in D : Moments(history)[x] >= 0 /\ Moments(history)[x] <= w[x]
    <3>1. ASSUME NEW x \in D PROVE Moments(history)[x] >= 0 /\ Moments(history)[x] <= w[x]
      <4>1. PICK y \in Nat : y = history[x]
        BY <1>4
      <4>2. x \in 1 .. n /\ Moments(history)[x] = x * y /\ w[x] = n * y
        BY <1>1, <1>2, <4>1 DEF Moments, HistoryDays
      <4>3. x * y >= 0 /\ (n - x) * y >= 0 /\ (n - x) * y = n * y - x * y
        BY <4>2
      <4>4. x * y \in Int /\ n * y \in Int
        BY <4>2
      <4> QED BY <4>2, <4>3, <4>4
    <3> QED BY <3>1
  <2> HIDE DEF w
  <2>3. SumOf(Moments(history), D) <= SumOf(w, D) /\ SumOf(Moments(history), D) >= 0
    BY <1>3, <1>5, <2>1, <2>2, SumMono, SumType
  <2>4. PICK a, b \in Int : a = n /\ b = 0
    OBVIOUS
  <2>5. \A x \in D : w[x] = a * history[x] + b * history[x]
    BY <2>1, <2>4
  <2>6. SumOf(w, D) = a * SumOf(history, D) + b * SumOf(history, D)
    <3>1. Combines(D, w, history, history, a, b)
      BY <1>3, <1>5, <2>1, <2>5 DEF Combines
    <3> QED BY <3>1, SumLinear
  <2>7. SumOf(history, D) = SumY /\ SumOf(Moments(history), D) = SumXY
    BY <1>1, <1>2, FitSums
  <2> QED BY <1>6, <1>7, <2>3, <2>4, <2>6, <2>7
<1>9. /\ SumX \in Int /\ SumXX \in Int /\ 2 * SumX = n * (n + 1)
      /\ 6 * SumXX = n * (n + 1) * (2 * n + 1)
  BY <1>1, FitSums, SumOfPlaces
<1>10. n >= 2 => n * SumXX - SumX * SumX > 0
  BY <1>9, DenomIsPositive
<1>11. n = 1 => SumY = history[1]
  <2>1. CASE n = 1
    <3>1. /\ SumOf(history, 1 .. 1) = history[1] + SumOf(history, 1 .. (1 - 1))
          /\ 1 .. 1 = D /\ 1 .. (1 - 1) = {} /\ history[1] \in Int
      <4>1. 1 \in Nat \ {0} /\ 1 .. 1 \subseteq D /\ 1 .. 1 = D /\ 1 .. (1 - 1) = {} /\ 1 \in D
        BY <1>2, <2>1
      <4> QED BY <1>3, <1>4, <1>5, <4>1, LastTerm
    <3>2. {} \in SUBSET D
      OBVIOUS
    <3>3. SumOf(history, {}) = 0
      BY <1>3, <3>2, SumChosen
    <3>4. SumY = SumOf(history, D)
      BY <1>1, <1>2, FitSums
    <3>5. PICK E : E = 1 .. (1 - 1)
      OBVIOUS
    <3>6. SumOf(history, D) = history[1] + SumOf(history, E) /\ E = {} /\ history[1] \in Int
      BY <3>1, <3>5
    <3> QED BY <3>3, <3>4, <3>6
  <2> QED BY <2>1
<1> QED
  BY <1>1, <1>6, <1>7, <1>8, <1>9, <1>10, <1>11

(* What a run says of the days it read.                                    *)
OnLine(of) == \A x \in 1 .. Len(of) : of[x] = of[1] + (x - 1) * (of[2] - of[1])
LineMixed(of, i) ==
    6 * (of[1] + (Len(of) + i - 1) * (of[2] - of[1])) + 2 * (of[1] + of[Len(of)])
LineOf(f) ==
    Len(f.of) >= 2 /\ OnLine(f.of) =>
        \A i \in DOMAIN f.points :
            f.points[i] = IF LineMixed(f.of, i) < 0 THEN 0 ELSE LineMixed(f.of, i) * f.scale
HeadlineOf(f) ==
    \A i \in DOMAIN f.points : Len(f.of) > 0 =>
        (f.insight = "warning")
            = (f.points[i] * Len(f.of) < 10 * f.scale * SumOf(f.of, DOMAIN f.of))

RunTypeOK(f) ==
    /\ f.of \in Seq(DaySales) /\ f.scale \in Nat \ {0} /\ f.points \in Seq(Nat)
    /\ f.insight \in {"none", "opportunity", "warning"}

ForecastInv ==
    /\ history \in Seq(DaySales) /\ Len(history) <= MostDays
    /\ RunTypeOK(forecast) /\ LineOf(forecast) /\ HeadlineOf(forecast)

LEMMA WhatRunsSay == ForecastInv => ForecastTypeOK /\ ForecastAgrees
<1> SUFFICES ASSUME ForecastInv PROVE ForecastTypeOK /\ ForecastAgrees
  OBVIOUS
<1>1. ForecastTypeOK
  BY DEF ForecastInv, RunTypeOK, ForecastTypeOK
<1>2. LineGoesOn
  BY DEF ForecastInv, LineOf, OnLine, LineMixed, LineGoesOn, LatestSeries
<1>3. HeadlineAgrees
  <2>1. MapThenSumSet(LAMBDA x : forecast.of[x], DOMAIN forecast.of)
           = SumOf(forecast.of, DOMAIN forecast.of)
    BY Zenon DEF MapThenSumSet, MapThenFoldSet, Chosen, SumOf, SumIter, SumStep
  <2>2. HeadlineOf(forecast)
    BY DEF ForecastInv
  <2> QED BY <2>1, <2>2 DEF HeadlineOf, HeadlineAgrees, LatestSeries
<1> QED
  BY <1>1, <1>2, <1>3 DEF ForecastAgrees

NewRun == [of |-> history, scale |-> Scale, insight |-> InsightType,
           points |-> [i \in 1 .. Horizon |-> Point(i)]]

(* Every point agrees with the insight, and is a number of cents.          *)
LEMMA PointsTell ==
    ASSUME history \in Seq(DaySales), NEW i \in 1 .. Horizon
    PROVE  /\ Point(i) \in Nat /\ Scale \in Nat \ {0} /\ Slope \in Int
           /\ HistoryDays > 0 =>
                 (Point(i) * HistoryDays < 10 * Scale * SumY) = (Slope < 0)
<1>1. PICK n \in Nat : n = HistoryDays
  BY FitIs
<1>2. PICK sx, sy, e, sl : sx = SumX /\ sy = SumY /\ e = Denom /\ sl = Slope
  OBVIOUS
<1>3. /\ sx \in Int /\ SumXX \in Int /\ SumXY \in Int /\ sy \in Nat
      /\ (sy = 0 => SumXY = 0) /\ 2 * sx = n * (n + 1)
  BY <1>1, <1>2, FitIs
<1>4. e \in Int /\ e > 0 /\ sl \in Int /\ (n < 2 => e = 1 /\ sl = 0)
  <2>1. CASE n < 2
    BY <1>1, <1>2, <2>1 DEF Denom, Slope
  <2>2. CASE ~(n < 2)
    <3>1. e = n * SumXX - sx * sx /\ sl = n * SumXY - sx * sy
      BY <1>1, <1>2, <2>2 DEF Denom, Slope
    <3>2. n * SumXX - sx * sx > 0
      BY <1>1, <1>2, <2>2, FitIs
    <3>3. n * SumXX \in Int /\ sx * sx \in Int /\ n * SumXY \in Int /\ sx * sy \in Int
      BY <1>3
    <3> QED BY <2>2, <3>1, <3>2, <3>3
  <2> QED BY <2>1, <2>2
<1>5. sy = 0 => sl = 0
  <2>1. CASE n < 2
    BY <1>4, <2>1
  <2>2. CASE ~(n < 2)
    <3>1. sl = n * SumXY - sx * sy
      BY <1>1, <1>2, <2>2 DEF Slope
    <3> QED BY <1>3, <3>1
  <2> QED BY <2>1, <2>2
<1>6. PICK m : m = Mixed(i)
  OBVIOUS
<1>7. m = 6 * (sy * e - sl * sx + sl * n * (n + i)) + 4 * (sy * e)
  BY <1>1, <1>2, <1>6 DEF Mixed, Trend, Average
<1>8. PICK p : p = Point(i)
  OBVIOUS
<1>9. p = IF m < 0 THEN 0 ELSE m
  BY <1>6, <1>8 DEF Point
<1>10. Scale = (IF n = 0 THEN 1 ELSE n * e) /\ Scale \in Nat \ {0}
  <2>1. Scale = IF n = 0 THEN 1 ELSE n * e
    BY <1>1, <1>2 DEF Scale
  <2>2. n > 0 => (n - 1) * (e - 1) >= 0 /\ (n - 1) * (e - 1) = n * e - n - e + 1
    BY <1>4
  <2>3. n * e \in Int
    BY <1>4
  <2> QED BY <1>4, <2>1, <2>2, <2>3
<1>11. CASE n >= 2
  <2>1. i \in Nat /\ i >= 1
    BY ForecastAssumption
  <2>2. p \in Nat /\ (p * n < 10 * (n * e) * sy) = (sl < 0)
    BY <1>3, <1>4, <1>5, <1>7, <1>9, <1>11, <2>1, TrendTells
  <2>3. Scale = n * e
    BY <1>10, <1>11
  <2> QED BY <1>1, <1>2, <1>4, <1>8, <1>10, <2>2, <2>3
<1>12. CASE n < 2
  <2>1. m = 10 * sy /\ p = 10 * sy
    BY <1>3, <1>4, <1>7, <1>9, <1>12
  <2>2. n = 1 => Scale = 1 /\ ~(p * n < 10 * Scale * sy)
    BY <1>3, <1>4, <1>10, <1>12, <2>1
  <2> QED BY <1>1, <1>2, <1>3, <1>4, <1>8, <1>10, <1>12, <2>1, <2>2
<1> QED
  BY <1>1, <1>11, <1>12

LEMMA LineRuns ==
    ASSUME history \in Seq(DaySales), HistoryDays >= 2, OnLine(history), NEW i \in 1 .. Horizon
    PROVE  Point(i) = IF LineMixed(history, i) < 0 THEN 0 ELSE LineMixed(history, i) * Scale
<1>1. PICK n \in Nat : n = HistoryDays /\ n = Len(history) /\ n >= 2 /\ DOMAIN history = 1 .. n
  BY FitSums DEF HistoryDays
<1>2. PICK D : D = 1 .. n
  OBVIOUS
<1>3. \A x \in D : history[x] \in Int
  BY <1>1, <1>2, DaysAre
<1>4. PICK a, d, b \in Int : a = history[1] /\ d = history[2] - history[1] /\ b = a - d
  <2>1. 1 \in D /\ 2 \in D
    BY <1>1, <1>2
  <2>2. PICK p, q \in Int : p = history[1] /\ q = history[2]
    BY <1>3, <2>1
  <2>3. q - p \in Int /\ p - (q - p) \in Int
    OBVIOUS
  <2> QED BY <2>2, <2>3
<1>5. \A x \in D : x \in Int /\ history[x] = b * 1 + d * x
  <2>1. ASSUME NEW x \in D PROVE x \in Int /\ history[x] = b * 1 + d * x
    <3>1. x \in Int /\ history[x] = a + (x - 1) * d
      BY <1>1, <1>2, <1>4 DEF OnLine
    <3> QED BY <1>4, <3>1
  <2> QED BY <2>1
<1>6. IsFiniteSet(D) /\ Cardinality(D) = n
  BY <1>2, UpToIsFinite
<1> DEFINE ones == [x \in D |-> 1]
<1>7. ones \in [D -> Int] /\ (\A x \in D : ones[x] = 1) /\ SumOf(ones, D) = n
  BY <1>6, SumOnes
<1> HIDE DEF ones
<1>8. Places(n) \in [D -> Int] /\ Squares(n) \in [D -> Int] /\ \A x \in D :
         Places(n)[x] = x /\ Squares(n)[x] = x * x
  BY <1>2 DEF Places, Squares
<1>9. /\ history \in [D -> Int] /\ Moments(history) \in [D -> Int]
      /\ \A x \in D : Moments(history)[x] = x * history[x]
  <2>1. DOMAIN history = D /\ Len(history) = n /\ history = [x \in D |-> history[x]]
    BY <1>1, <1>2
  <2>2. \A x \in D : x * history[x] \in Int
    BY <1>3, <1>5
  <2> QED BY <1>2, <1>3, <2>1, <2>2 DEF Moments
<1>10. /\ SumX = SumOf(Places(n), D) /\ SumXX = SumOf(Squares(n), D)
       /\ SumY = SumOf(history, D) /\ SumXY = SumOf(Moments(history), D)
  BY <1>1, <1>2, FitSums
<1>11. SumY = b * n + d * SumX
  <2>1. \A x \in D : history[x] = b * ones[x] + d * Places(n)[x]
    BY <1>5, <1>7, <1>8
  <2>2. SumOf(history, D) = b * SumOf(ones, D) + d * SumOf(Places(n), D)
    <3>1. Combines(D, history, ones, Places(n), b, d)
      BY <1>4, <1>6, <1>7, <1>8, <1>9, <2>1 DEF Combines
    <3> QED BY <3>1, SumLinear
  <2> QED BY <1>7, <1>10, <2>2
<1>12. SumXY = b * SumX + d * SumXX
  <2>1. ASSUME NEW x \in D
        PROVE  Moments(history)[x] = b * Places(n)[x] + d * Squares(n)[x]
    <3>1. x \in Int /\ history[x] = b * 1 + d * x
      BY <1>5
    <3>2. x * (b * 1 + d * x) = b * x + d * (x * x)
      BY <3>1
    <3> QED BY <1>8, <1>9, <3>1, <3>2
  <2>2. SumOf(Moments(history), D) = b * SumOf(Places(n), D) + d * SumOf(Squares(n), D)
    <3>1. Combines(D, Moments(history), Places(n), Squares(n), b, d)
      BY <1>4, <1>6, <1>8, <1>9, <2>1 DEF Combines
    <3> QED BY <3>1, SumLinear
  <2> QED BY <1>10, <2>2
<1>13. PICK sx, sxx, sy, sxy : sx = SumX /\ sxx = SumXX /\ sy = SumY /\ sxy = SumXY
  OBVIOUS
<1>14. /\ sx \in Int /\ sxx \in Int /\ sy \in Int /\ sxy \in Int /\ 2 * sx = n * (n + 1)
       /\ n * sxx - sx * sx > 0
  BY <1>1, <1>13, FitIs
<1>15. PICK e \in Int : e = n * sxx - sx * sx /\ e > 0
  <2>1. n * sxx \in Int /\ sx * sx \in Int
    BY <1>14
  <2> QED BY <1>14, <2>1
<1>16. Slope = d * e /\ Denom = e /\ Scale = n * e
  <2>1. n * sxy - sx * sy = d * (n * sxx - sx * sx)
    BY <1>11, <1>12, <1>13, <1>14, LineIsFound
  <2>2. Slope = n * sxy - sx * sy /\ Denom = n * sxx - sx * sx
    BY <1>1, <1>13 DEF Slope, Denom
  <2>3. Scale = n * Denom
    BY <1>1 DEF Scale
  <2> QED BY <1>15, <2>1, <2>2, <2>3
<1>17. i \in Int
  OBVIOUS
<1>18. PICK l \in Int : l = 6 * (a + (n + i - 1) * d) + 2 * (a + (a + (n - 1) * d))
  BY <1>17
<1>19. LineMixed(history, i) = l
  <2>1. history[n] = a + (n - 1) * d
    <3>1. n \in 1 .. Len(history)
      BY <1>1
    <3> QED BY <1>1, <1>4, <3>1 DEF OnLine
  <2> QED BY <1>1, <1>4, <1>18, <2>1 DEF LineMixed
<1>20. Mixed(i) = l * (n * e)
  <2>1. 6 * (sy * e - (d * e) * sx + (d * e) * n * (n + i)) + 4 * (sy * e) = l * (n * e)
    <3>1. sy = (a - d) * n + d * sx
      BY <1>4, <1>11, <1>13
    <3>2. n \in Int
      OBVIOUS
    <3>3. 2 * sx = n * (n + 1) /\ sx \in Int /\ sy \in Int
      BY <1>14
    <3>4. 6 * (sy * e - (d * e) * sx + (d * e) * n * (n + i)) + 4 * (sy * e)
             = (6 * (a + (n + i - 1) * d) + 2 * (a + (a + (n - 1) * d))) * (n * e)
      BY <1>17, <3>1, <3>2, <3>3, LineIsKept
    <3> QED BY <1>18, <3>4
  <2>2. Mixed(i) = 6 * (sy * e - (d * e) * sx + (d * e) * n * (n + i)) + 4 * (sy * e)
    BY <1>1, <1>13, <1>16 DEF Mixed, Trend, Average
  <2> QED BY <2>1, <2>2
<1>21. PICK s \in Int : s = n * e /\ s > 0
  <2>1. (n - 1) * (e - 1) >= 0 /\ (n - 1) * (e - 1) = n * e - n - e + 1 /\ n * e \in Int
    BY <1>1, <1>15
  <2> QED BY <1>1, <1>15, <2>1
<1>22. (l < 0 => l * s < 0) /\ (l >= 0 => l * s >= 0)
  <2>1. l < 0 => (0 - l - 1) * s >= 0 /\ (0 - l - 1) * s = 0 - l * s - s
    BY <1>21
  <2>2. l >= 0 => l * s >= 0
    BY <1>21
  <2>3. l * s \in Int
    BY <1>21
  <2> QED BY <1>21, <2>1, <2>2, <2>3
<1> QED
  BY <1>16, <1>19, <1>20, <1>21, <1>22 DEF Point

LEMMA NewRunSays ==
    ASSUME history \in Seq(DaySales)
    PROVE  RunTypeOK(NewRun) /\ LineOf(NewRun) /\ HeadlineOf(NewRun)
<1>1. PICK f : f = NewRun
  OBVIOUS
<1>2. /\ f.of = history /\ f.scale = Scale /\ f.insight = InsightType
      /\ f.points = [i \in 1 .. Horizon |-> Point(i)]
  BY <1>1 DEF NewRun
<1>3. DOMAIN f.points = 1 .. Horizon /\ \A i \in 1 .. Horizon : f.points[i] = Point(i)
  BY <1>2
<1>4. RunTypeOK(f)
  <2>1. Scale \in Nat \ {0}
    <3>1. CASE HistoryDays < 2
      <4>1. HistoryDays = 0 \/ HistoryDays = 1
        BY <3>1, FitIs
      <4> QED BY <4>1, <3>1 DEF Scale, Denom
    <3>2. CASE ~(HistoryDays < 2)
      <4>1. PICK n \in Nat : n = HistoryDays /\ n >= 2
        BY <3>2, FitIs
      <4>2. PICK e \in Int : e = Denom /\ e > 0
        <5>1. /\ Denom = n * SumXX - SumX * SumX /\ SumX \in Int /\ SumXX \in Int
              /\ n * SumXX - SumX * SumX > 0
          BY <3>2, <4>1, FitIs DEF Denom
        <5>2. n * SumXX \in Int /\ SumX * SumX \in Int
          BY <5>1
        <5> QED BY <5>1, <5>2
      <4>3. Scale = n * e
        BY <4>1, <4>2 DEF Scale
      <4>4. (n - 1) * (e - 1) >= 0 /\ (n - 1) * (e - 1) = n * e - n - e + 1 /\ n * e \in Int
        BY <4>1, <4>2
      <4> QED BY <4>1, <4>2, <4>3, <4>4
    <3> QED BY <3>1, <3>2
  <2>2. f.points \in Seq(Nat)
    <3>1. \A i \in 1 .. Horizon : Point(i) \in Nat
      BY PointsTell
    <3>2. f.points \in [1 .. Horizon -> Nat] /\ Horizon \in Nat
      BY <1>2, <3>1, ForecastAssumption
    <3> QED BY <3>2
  <2>3. f.insight \in {"opportunity", "warning"}
    BY <1>2 DEF InsightType
  <2> QED BY <1>2, <2>1, <2>2, <2>3 DEF RunTypeOK
<1>5. LineOf(f)
  <2> SUFFICES ASSUME Len(f.of) >= 2, OnLine(f.of), NEW i \in DOMAIN f.points
               PROVE  f.points[i] = IF LineMixed(f.of, i) < 0 THEN 0
                                    ELSE LineMixed(f.of, i) * f.scale
    BY DEF LineOf
  <2>1. i \in 1 .. Horizon /\ HistoryDays >= 2 /\ OnLine(history)
    BY <1>2, <1>3 DEF HistoryDays
  <2> QED BY <1>2, <1>3, <2>1, LineRuns
<1>6. HeadlineOf(f)
  <2> SUFFICES ASSUME NEW i \in DOMAIN f.points, Len(f.of) > 0
               PROVE  (f.insight = "warning")
                         = (f.points[i] * Len(f.of) < 10 * f.scale * SumOf(f.of, DOMAIN f.of))
    BY DEF HeadlineOf
  <2>1. i \in 1 .. Horizon /\ HistoryDays > 0 /\ HistoryDays = Len(f.of)
    BY <1>2, <1>3 DEF HistoryDays
  <2>2. /\ (Point(i) * HistoryDays < 10 * Scale * SumY) = (Slope < 0)
        /\ Slope \in Int
    BY <2>1, PointsTell
  <2>3. SumY = SumOf(f.of, DOMAIN f.of)
    BY <1>2, FitSums
  <2>4. (f.insight = "warning") = (Slope < 0)
    BY <1>2, <2>2 DEF InsightType
  <2> QED BY <1>2, <1>3, <2>1, <2>2, <2>3, <2>4
<1> QED
  BY <1>1, <1>4, <1>5, <1>6

LEMMA ForecastInvHolds == ForecastSpec => []ForecastInv
<1>1. ForecastInit => ForecastInv
  <2> SUFFICES ASSUME ForecastInit PROVE ForecastInv
    OBVIOUS
  <2>1. history = <<>> /\ Len(<<>>) = 0 /\ <<>> \in Seq(DaySales)
    BY DEF ForecastInit
  <2>2. /\ forecast.of = <<>> /\ forecast.scale = 1 /\ forecast.points = <<>>
        /\ forecast.insight = "none" /\ DOMAIN forecast.points = {}
    BY DEF ForecastInit, NoForecast
  <2> QED BY <2>1, <2>2, ForecastAssumption DEF ForecastInv, RunTypeOK, LineOf, HeadlineOf
<1>2. ForecastInv /\ [ForecastNext]_forecastVars => ForecastInv'
  <2> SUFFICES ASSUME ForecastInv, [ForecastNext]_forecastVars PROVE ForecastInv'
    OBVIOUS
  <2>1. ASSUME NEW v \in DaySales, DayRolledUp(v) PROVE ForecastInv'
    <3>1. /\ history' \in Seq(DaySales) /\ Len(history') = Len(history) + 1
          /\ Len(history) \in Nat /\ Len(history) < MostDays
      BY <2>1 DEF DayRolledUp, ForecastInv
    <3>2. Len(history') <= MostDays
      BY <3>1, ForecastAssumption
    <3>3. forecast' = forecast
      BY <2>1 DEF DayRolledUp
    <3> QED BY <3>1, <3>2, <3>3 DEF ForecastInv, RunTypeOK, LineOf, HeadlineOf
  <2>2. CASE PredictionRun
    <3>1. forecast' = NewRun /\ history' = history
      BY <2>2 DEF PredictionRun, NewRun
    <3>2. history \in Seq(DaySales) /\ Len(history) <= MostDays
      BY DEF ForecastInv
    <3>3. PICK f : f = NewRun
      OBVIOUS
    <3>4. RunTypeOK(f) /\ LineOf(f) /\ HeadlineOf(f)
      BY <3>2, <3>3, NewRunSays
    <3> QED BY <3>1, <3>2, <3>3, <3>4 DEF ForecastInv, RunTypeOK, LineOf, HeadlineOf
  <2>3. CASE UNCHANGED forecastVars
    BY <2>3 DEF forecastVars, ForecastInv, RunTypeOK, LineOf, HeadlineOf
  <2> QED BY <2>1, <2>2, <2>3 DEF ForecastNext
<1> QED
  BY <1>1, <1>2, PTL DEF ForecastSpec

(* For any daily sales, length of the history and horizon: days that lie   *)
(* on a line are continued on it, and the headline is "warning" exactly    *)
(* when the forecast is below the average (PredictionsService.run).        *)
THEOREM ForecastsAgree == ForecastSpec => []ForecastAgrees
<1> QED
  BY ForecastInvHolds, WhatRunsSay, PTL


=============================================================================
