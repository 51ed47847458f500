----------------------------- MODULE Embeddings -----------------------------
(* RecommendationsService.embedProducts: jobs that hold no transaction and *)
(* keep one vector for each product, of the text the product had when the  *)
(* job read it.                                                            *)
EXTENDS Naturals, FiniteSets

CONSTANTS
    Products,
    Texts,          \* what the text of a product may say; its hash tells them apart
    NoText,
    EmbedJobs       \* calls that may run at once

ASSUME EmbeddingsAssumption == NoText \notin Texts

VARIABLES
    text,           \* products: what the text of a product says now
    emb,            \* product_embeddings: the text a product's vector is of
    embed           \* of a job: the texts it read, the products left, the one
                    \* at the provider and its failed calls; ghosts: those the
                    \* provider refused, and whether no other job has been running

embedVars == <<text, emb, embed>>

NoJob == [read |-> [p \in Products |-> NoText], left |-> {}, at |-> {},
          tries |-> 0, missed |-> {}, alone |-> FALSE]

(* AiService.embed lets the provider fail once.                            *)
Attempts == 2

EmbeddingsTypeOK ==
    /\ text \in [Products -> Texts]
    /\ emb \in [Products -> Texts \cup {NoText}]
    /\ \A j \in EmbedJobs :
          /\ embed[j].read \in [Products -> Texts \cup {NoText}]
          /\ embed[j].left \subseteq Products /\ embed[j].missed \subseteq Products
          /\ embed[j].at \subseteq Products \ embed[j].left /\ Cardinality(embed[j].at) <= 1
          /\ embed[j].tries \in 0 .. Attempts - 1
          /\ embed[j].alone \in BOOLEAN

EmbeddingsInit ==
    /\ text \in [Products -> Texts]
    /\ emb = [p \in Products |-> NoText]
    /\ embed = [j \in EmbedJobs |-> NoJob]

-----------------------------------------------------------------------------
(* A sync rewrites a product.                                              *)
ProductChanges(p) ==
    /\ \E t \in Texts \ {text[p]} : text' = [text EXCEPT ![p] = t]
    /\ UNCHANGED <<emb, embed>>

Active(j) == embed[j].left # {} \/ embed[j].at # {}

(* The products are read once.                                             *)
EmbedRead(j) ==
    /\ ~Active(j)
    /\ embed' = [k \in EmbedJobs |->
                   IF k = j THEN [NoJob EXCEPT !.read = text, !.left = Products,
                                               !.alone = \A o \in EmbedJobs : ~Active(o)]
                   ELSE [embed[k] EXCEPT !.alone = FALSE]]
    /\ UNCHANGED <<text, emb>>

(* The hash of what was read, against the hash in the row.                 *)
HasRow(j, p) == emb[p] # NoText
UpToDate(j, p) == emb[p] = embed[j].read[p]

Remaining(j, p) == embed[j].left \ {p}

EmbedLookup(j, p) ==
    /\ embed[j].at = {}
    /\ p \in embed[j].left
    /\ embed' = [embed EXCEPT ![j].left = Remaining(j, p),
                              ![j].at = IF UpToDate(j, p) THEN {} ELSE {p}]
    /\ UNCHANGED <<text, emb>>

(* A vector is what the provider makes of the text it was sent; every try  *)
(* sends the same.                                                         *)
Vector(j, p) == embed[j].read[p]

(* It is saved with the hash of that text.                                 *)
EmbedUpsert(j, p) ==
    /\ p \in embed[j].at
    /\ emb' = [emb EXCEPT ![p] = Vector(j, p)]
    /\ embed' = [embed EXCEPT ![j].at = {}, ![j].tries = 0]
    /\ UNCHANGED text

(* A call fails on any status but 2xx, without a vector in the answer, or  *)
(* at its time limit: then it is aborted, and cannot answer any more.      *)
CallFails(j, p) ==
    /\ p \in embed[j].at
    /\ UNCHANGED <<text, emb>>

EmbedTriesAgain(j, p) ==
    /\ CallFails(j, p)
    /\ embed[j].tries + 1 < Attempts
    /\ embed' = [embed EXCEPT ![j].tries = @ + 1]

(* After the last try there is no vector, and the job goes on.             *)
EmbedRefused(j, p) ==
    /\ CallFails(j, p)
    /\ embed[j].tries + 1 = Attempts
    /\ embed' = [embed EXCEPT ![j].at = {}, ![j].tries = 0, ![j].missed = @ \cup {p}]

EmbedDies(j) ==
    /\ Active(j)
    /\ embed' = [embed EXCEPT ![j] = NoJob]
    /\ UNCHANGED <<text, emb>>

EmbeddingsNext ==
    \/ \E p \in Products : ProductChanges(p)
    \/ \E j \in EmbedJobs :
          \/ EmbedRead(j) \/ EmbedDies(j)
          \/ \E p \in Products : \/ EmbedLookup(j, p) \/ EmbedUpsert(j, p)
                                \/ EmbedTriesAgain(j, p) \/ EmbedRefused(j, p)

-----------------------------------------------------------------------------
(* Properties                                                              *)

(* "idempotent - skips unchanged products": a job that no other overlaps   *)
(* leaves every product it has handled with the vector of the text it read *)
(* for it, whatever the products say by now and whatever it skipped, but   *)
(* for the products the provider gave no vector for.                       *)
AloneJobIsExact ==
    \A j \in EmbedJobs : embed[j].alone =>
        \A p \in Products \ (embed[j].left \cup embed[j].at \cup embed[j].missed) :
            emb[p] = embed[j].read[p]
=============================================================================
