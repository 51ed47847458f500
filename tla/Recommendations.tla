--------------------------- MODULE Recommendations --------------------------
(* RecommendationsService.runCustomerRecommendations for one customer: the *)
(* saved list is replaced by a delete and an insert in no transaction.     *)
EXTENDS Naturals, FiniteSets, Sequences, Functions

CONSTANTS
    Items,          \* products
    RecRuns,        \* calls that may run at once
    RecLimit        \* the `limit` of a run

ASSUME RecommendationsAssumption == RecLimit \in Nat \ {0} /\ IsFiniteSet(Items)

VARIABLES
    embedded,       \* the products with a row in product_embeddings
    recs,           \* product_recommendations: the customer's rows
    rec,            \* of a run: its next step, what it has read, what it will save
    overlap,        \* ghost: the last delete fell between another run's two writes
    everSaved,      \* ghost: a list has been saved
    cutOff          \* ghost: a run has died between its two writes

recVars == <<embedded, recs, rec, overlap, everSaved, cutOff>>

NoRun == [step |-> "idle", owned |-> {}, list |-> <<>>]

RecommendationsTypeOK ==
    /\ embedded \subseteq Items
    /\ recs \subseteq [run : RecRuns, rank : 1 .. RecLimit, product : Items]
    /\ \A r \in RecRuns :
          /\ rec[r].step \in {"idle", "score", "save", "insert"}
          /\ rec[r].owned \subseteq Items
          /\ rec[r].list \in Seq(Items) /\ Len(rec[r].list) <= RecLimit
    /\ overlap \in BOOLEAN /\ everSaved \in BOOLEAN /\ cutOff \in BOOLEAN

RecommendationsInit ==
    /\ embedded = {}
    /\ recs = {}
    /\ rec = [r \in RecRuns |-> NoRun]
    /\ overlap = FALSE /\ everSaved = FALSE /\ cutOff = FALSE

-----------------------------------------------------------------------------
(* An embed job only ever adds products.                                   *)
ItemEmbedded(i) ==
    /\ embedded' = embedded \cup {i}
    /\ UNCHANGED <<recs, rec, overlap, everSaved, cutOff>>

-----------------------------------------------------------------------------
(* The customer's last 20 orders name any of the products; then the        *)
(* provider embeds the profile.                                            *)
RunRead(r) ==
    /\ rec[r].step = "idle"
    /\ \E owned \in SUBSET Items :
          rec' = [rec EXCEPT ![r] = [NoRun EXCEPT !.step = "score", !.owned = owned]]
    /\ UNCHANGED <<embedded, recs, overlap, everSaved, cutOff>>

(* The best `limit` of the embedded products the customer has not bought;  *)
(* the vectors may rank them in any order.                                 *)
Candidates(r) == embedded \ rec[r].owned
Rankings(S) ==
    LET n == IF Cardinality(S) < RecLimit THEN Cardinality(S) ELSE RecLimit
    IN Injection(1 .. n, S)

(* With nothing to recommend the run returns, and the saved list stays.    *)
Always(r) == TRUE
WorthSaving(r) == Candidates(r) # {}
RunScore(r) ==
    /\ rec[r].step = "score"
    /\ IF WorthSaving(r)
       THEN \E list \in Rankings(Candidates(r)) :
               rec' = [rec EXCEPT ![r] = [step |-> "save", owned |-> {}, list |-> list]]
       ELSE rec' = [rec EXCEPT ![r] = NoRun]
    /\ UNCHANGED <<embedded, recs, overlap, everSaved, cutOff>>

SameProducts(r) == {x \in recs : \E i \in DOMAIN rec[r].list : x.product = rec[r].list[i]}
DeletedBy(r) == recs
RunDelete(r) ==
    /\ rec[r].step = "save"
    /\ recs' = recs \ DeletedBy(r)
    /\ rec' = [rec EXCEPT ![r].step = "insert"]
    /\ overlap' = (\E q \in RecRuns \ {r} : rec[q].step = "insert")
    /\ UNCHANGED <<embedded, everSaved, cutOff>>

RankIndex(i) == i - 1
Rank(i) == i
RunInsert(r) ==
    /\ rec[r].step = "insert"
    /\ recs' = recs \cup {[run |-> r, rank |-> Rank(i), product |-> rec[r].list[i]] :
                              i \in DOMAIN rec[r].list}
    /\ rec' = [rec EXCEPT ![r] = NoRun]
    /\ everSaved' = TRUE
    /\ UNCHANGED <<embedded, overlap, cutOff>>

(* The run dies, or the provider gives no vector for the profile.          *)
RunEnds(r) ==
    /\ rec[r].step # "idle"
    /\ rec' = [rec EXCEPT ![r] = NoRun]
    /\ cutOff' = (cutOff \/ rec[r].step = "insert")
    /\ UNCHANGED <<embedded, recs, overlap, everSaved>>

(* getCustomerRecommendations: the rows, in the order of their ranks.      *)
ShownAt(n) == {x \in recs : x.rank = n}

RecommendationsNext ==
    \/ \E i \in Items : ItemEmbedded(i)
    \/ \E r \in RecRuns :
          RunRead(r) \/ RunScore(r) \/ RunDelete(r) \/ RunInsert(r) \/ RunEnds(r)

-----------------------------------------------------------------------------
(* Properties                                                              *)

(* Unless two runs overlapped between their writes, the customer is shown  *)
(* the list of one run: a product at each rank from 1 on without a gap, no *)
(* product twice.                                                          *)
ListIsOneRuns ==
    ~overlap =>
        /\ \A x, y \in recs : x.run = y.run /\ (x.product = y.product => x = y)
        /\ \A n \in 1 .. RecLimit :
              Cardinality(ShownAt(n)) = IF n <= Cardinality(recs) THEN 1 ELSE 0

(* A customer who has had a list loses it only while a run is between its  *)
(* writes or after one has died there: never to a run that found nothing   *)
(* to recommend.                                                           *)
ListIsNotLost ==
    everSaved /\ recs = {} => cutOff \/ \E r \in RecRuns : rec[r].step = "insert"

(* Both, in spite of the delete and the insert being two transactions.     *)
ListsAreWhole == ListIsOneRuns /\ ListIsNotLost
=============================================================================
