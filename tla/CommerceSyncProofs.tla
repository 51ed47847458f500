------------------------- MODULE CommerceSyncProofs -------------------------
(***************************************************************************)
(* Proofs about CommerceSync, for any number of products, orders, jobs and *)
(* webhook requests, any number of attempts and with or without faults.    *)
(*                                                                         *)
(* What makes links last is an argument about two transactions: the one    *)
(* that has written an order's row holds it until it commits, and looks    *)
(* the product up only then; nobody deletes a product.                     *)
(*                                                                         *)
(* Syncs and webhooks together implement ShopMirror: nothing of an attempt *)
(* is seen before the commit that shows all of it, and what that commit    *)
(* writes was listed after the sync was asked for.                         *)
(***************************************************************************)
EXTENDS MirroredSync, TLAPS

ListedBy(s) == {o \in Orders : s.listedO[o] # 0}

(* What a job counts on: it waits only with an attempt left, lists orders  *)
(* after products, links to what it sees, and commits no row without the   *)
(* link that the row has or that the job's own products call for.          *)
JobOK(s, rows, stored) ==
    /\ s.pc = "waiting" => s.attempts < MaxAttempts
    /\ s.pc \in {"products", "findProducts", "writeProducts", "orders"} => ListedBy(s) = {}
    /\ s.pc = "products" => s.linked = {}
    /\ \A o \in s.linked : ProductOf[o] \in stored \cup s.listedP
    /\ s.pc = "commit" =>
         \A o \in ListedBy(s) :
             ProductOf[o] \in s.listedP \/ rows[o].linked => o \in s.linked

LinksHaveProducts == \A o \in Orders : order[o].linked => ProductOf[o] \in product
HeldApart ==
    \A i, j \in Jobs :
        i # j /\ job[i].pc = "commit" /\ job[j].pc = "commit" => Listed(i) \cap Listed(j) = {}
HooksApplied == \A h \in Hooks : hook[h].pc = "processed" => hook[h].e \in applied

SyncInv ==
    /\ SyncTypeOK
    /\ \A j \in Jobs : JobOK(job[j], order, product)
    /\ LinksHaveProducts
    /\ HeldApart
    /\ HooksApplied
    /\ ProcessedWasApplied

-----------------------------------------------------------------------------
LEMMA HookFields ==
    ASSUME NEW c \in Hook
    PROVE  /\ c.pc # "idle" => c # NoHook /\ c.e \in Event
           /\ c.pc \in {"idle", "store", "find", "write", "processed", "failed"}
BY DEF Hook, NoHook

LEMMA HookShapes ==
    ASSUME NEW e \in Event, NEW b \in BOOLEAN
    PROVE  /\ NoHook \in Hook
           /\ [pc |-> "store", e |-> e, found |-> b] \in Hook
           /\ [pc |-> "write", e |-> e, fresh |-> b] \in Hook
           /\ \A pc \in {"find", "processed", "failed"} : [pc |-> pc, e |-> e] \in Hook
BY DEF Hook, NoHook

LEMMA NoJobTyped == NoJob \in JobState /\ ListedBy(NoJob) = {}
BY SyncAssumption DEF NoJob, JobState, Revs, ListedBy

LEMMA SyncInvInit == SyncInit => SyncInv
<1> SUFFICES ASSUME SyncInit PROVE SyncInv
  OBVIOUS
<1>1. SyncTypeOK
  BY NoJobTyped, SyncAssumption
  DEF SyncInit, SyncTypeOK, Revs, NoOrder, Hook, NoHook
<1>2. \A j \in Jobs : JobOK(job[j], order, product)
  BY NoJobTyped DEF SyncInit, JobOK, NoJob
<1> QED
  BY <1>1, <1>2 DEF SyncInit, SyncInv, LinksHaveProducts, HeldApart, HooksApplied,
                    ProcessedWasApplied, NoOrder, NoJob, NoHook

-----------------------------------------------------------------------------
(* A step of a job other than its commit moves that job and nothing else.  *)
OnlyJob(j, s) ==
    /\ SetJob(j, s)
    /\ UNCHANGED <<shop, status, product, order, event, run, hook, applied>>

LEMMA JobMoves ==
    ASSUME SyncInv, NEW j \in Jobs, NEW s \in JobState, OnlyJob(j, s),
           JobOK(s, order, product),
           s.pc = "commit" =>
               \A i \in Jobs \ {j} : job[i].pc = "commit" => Listed(i) \cap ListedBy(s) = {}
    PROVE  SyncInv'
<1>1. job' \in [Jobs -> JobState] /\ job'[j] = s /\ \A i \in Jobs \ {j} : job'[i] = job[i]
  BY DEF SyncInv, SyncTypeOK, OnlyJob, SetJob
<1>2. SyncTypeOK'
  BY <1>1 DEF SyncInv, SyncTypeOK, OnlyJob
<1>3. \A i \in Jobs : JobOK(job'[i], order', product')
  BY <1>1 DEF SyncInv, OnlyJob
<1>4. HeldApart'
  <2> SUFFICES ASSUME NEW i \in Jobs, NEW k \in Jobs, i # k,
                      job'[i].pc = "commit", job'[k].pc = "commit"
               PROVE  Listed(i)' \cap Listed(k)' = {}
    BY DEF HeldApart
  <2>1. Listed(j)' = ListedBy(s) /\ \A m \in Jobs \ {j} : Listed(m)' = Listed(m)
    BY <1>1 DEF Listed, ListedBy
  <2> QED BY <1>1, <2>1 DEF SyncInv, HeldApart
<1> QED
  BY <1>2, <1>3, <1>4 DEF OnlyJob, SyncInv, LinksHaveProducts, HooksApplied, ProcessedWasApplied

LEMMA ThrownOK ==
    ASSUME SyncInv, NEW j \in Jobs
    PROVE  Thrown(j) \in JobState /\ JobOK(Thrown(j), order, product)
           /\ Thrown(j).pc # "commit"
<1>1. job[j].attempts \in 0 .. MaxAttempts
  BY DEF SyncInv, SyncTypeOK, JobState
<1>2. Thrown(j) \in JobState
  BY <1>1, NoJobTyped DEF Thrown, NoJob, JobState
<1> QED
  BY <1>1, <1>2, SyncAssumption DEF Thrown, NoJob, JobOK

(* Each step of runSync leaves the job with what the next one counts on.   *)
LEMMA SyncStepInv ==
    ASSUME SyncInv, NEW j \in Jobs,
           SyncStep(j) \/ RequestSync(j) \/ ThrowSync(j) \/ ConnectorFails(j),
           ~CommitSync(j)
    PROVE  SyncInv'
<1>1. job[j] \in JobState /\ JobOK(job[j], order, product) /\ Listed(j) = ListedBy(job[j])
  BY DEF SyncInv, SyncTypeOK, Listed, ListedBy
<1>2. CASE RequestSync(j)
  <2> DEFINE s == [NoJob EXCEPT !.pc = "waiting"]
  <2>1. s \in JobState /\ s.pc = "waiting" /\ s.attempts = 0 /\ s.linked = {}
    BY NoJobTyped, SyncAssumption DEF NoJob, JobState
  <2>2. OnlyJob(j, s)
    BY <1>2 DEF RequestSync, OnlyJob
  <2> HIDE DEF s
  <2> QED BY <2>1, <2>2, SyncAssumption, JobMoves DEF JobOK
<1>3. CASE TakeJob(j)
  <2> DEFINE s == [NoJob EXCEPT !.pc = "products", !.attempts = job[j].attempts + 1]
  <2>1. job[j].attempts \in Nat /\ job[j].attempts + 1 \in 0 .. MaxAttempts
    BY <1>1, <1>3, SyncAssumption DEF TakeJob, Sees, JobOK, JobState
  <2>2. s \in JobState /\ s.pc = "products" /\ ListedBy(s) = {} /\ s.linked = {}
    BY <2>1, NoJobTyped DEF NoJob, JobState, ListedBy
  <2>3. OnlyJob(j, s)
    BY <1>3 DEF TakeJob, OnlyJob
  <2> HIDE DEF s
  <2> QED BY <2>2, <2>3, JobMoves DEF JobOK
<1>4. CASE ThrowSync(j)
  BY <1>4, ThrownOK, JobMoves DEF ThrowSync, OnlyJob
<1>5. CASE ListProducts(j)
  <2> DEFINE s == [job[j] EXCEPT !.pc = "findProducts", !.listedP = shop.products]
  <2>1. s \in JobState /\ s.pc = "findProducts" /\ ListedBy(s) = {} /\ s.linked = {}
    BY <1>1, <1>5 DEF ListProducts, Sees, SyncInv, SyncTypeOK, JobState, JobOK, ListedBy
  <2>2. OnlyJob(j, s)
    BY <1>5 DEF ListProducts, OnlyJob
  <2> HIDE DEF s
  <2> QED BY <2>1, <2>2, JobMoves DEF JobOK
<1>6. CASE FindProducts(j)
  <2> DEFINE s == [job[j] EXCEPT !.pc = "writeProducts", !.newP = job[j].listedP \ product]
  <2>1. s \in JobState /\ s.pc = "writeProducts" /\ ListedBy(s) = {}
        /\ s.linked = job[j].linked /\ s.listedP = job[j].listedP
    BY <1>1, <1>6 DEF FindProducts, Sees, JobState, JobOK, ListedBy
  <2>2. OnlyJob(j, s)
    BY <1>6 DEF FindProducts, OnlyJob
  <2> HIDE DEF s
  <2> QED BY <1>1, <2>1, <2>2, JobMoves DEF JobOK
<1>7. CASE WriteProducts(j)
  <2> DEFINE s == [job[j] EXCEPT !.pc = "orders"]
  <2>1. s \in JobState /\ s.pc = "orders" /\ ListedBy(s) = {}
        /\ s.linked = job[j].linked /\ s.listedP = job[j].listedP
    BY <1>1, <1>7 DEF WriteProducts, Sees, JobState, JobOK, ListedBy
  <2>2. OnlyJob(j, Thrown(j)) \/ OnlyJob(j, s)
    BY <1>7 DEF WriteProducts, OnlyJob
  <2> HIDE DEF s
  <2> QED BY <1>1, <2>1, <2>2, ThrownOK, JobMoves DEF JobOK
<1>8. CASE ListOrders(j)
  <2> DEFINE s == [job[j] EXCEPT !.pc = "findOrders", !.listedO = shop.orders]
  <2>1. s \in JobState /\ s.pc = "findOrders"
        /\ s.linked = job[j].linked /\ s.listedP = job[j].listedP
    BY <1>1 DEF SyncInv, SyncTypeOK, JobState
  <2>2. OnlyJob(j, s)
    BY <1>8 DEF ListOrders, OnlyJob
  <2> HIDE DEF s
  <2> QED BY <1>1, <2>1, <2>2, JobMoves DEF JobOK
<1>9. CASE FindOrders(j)
  <2> DEFINE s == [job[j] EXCEPT !.pc = "writeOrders",
                                 !.newO = {o \in Listed(j) : ~HasRow(o)}]
  <2>1. s \in JobState /\ s.pc = "writeOrders"
        /\ s.linked = job[j].linked /\ s.listedP = job[j].listedP
    BY <1>1 DEF JobState, Listed
  <2>2. OnlyJob(j, s)
    BY <1>9 DEF FindOrders, OnlyJob
  <2> HIDE DEF s
  <2> QED BY <1>1, <2>1, <2>2, JobMoves DEF JobOK
<1>10. CASE WriteOrders(j)
  <2> DEFINE s == [job[j] EXCEPT !.pc = "commit",
                     !.linked = {o \in Listed(j) : ProductOf[o] \in VisibleProducts(j)}]
  <2>1. s \in JobState /\ s.pc = "commit" /\ ListedBy(s) = Listed(j)
        /\ s.listedP = job[j].listedP
        /\ s.linked = {o \in Listed(j) : ProductOf[o] \in VisibleProducts(j)}
    BY <1>1 DEF JobState, Listed, ListedBy
  <2>2. OnlyJob(j, Thrown(j)) \/ OnlyJob(j, s)
    BY <1>10 DEF WriteOrders, OnlyJob
  <2> HIDE DEF s
  <2>3. JobOK(s, order, product)
    <3>1. \A o \in Listed(j) : o \in Orders
      BY DEF Listed
    <3> QED BY <2>1, <3>1 DEF SyncInv, LinksHaveProducts, JobOK, VisibleProducts
  <2>4. \A i \in Jobs \ {j} : job[i].pc = "commit" => Listed(i) \cap ListedBy(s) = {}
    BY <1>10, <2>1 DEF WriteOrders, HeldOrders
  <2> QED BY <2>1, <2>2, <2>3, <2>4, ThrownOK, JobMoves
<1>11. CASE ConnectorFails(j)
  <2> DEFINE s == [job[j] EXCEPT !.pc = "commit", !.failed = TRUE]
  <2>1. s \in JobState /\ s.pc = "commit" /\ ListedBy(s) = {}
        /\ s.linked = job[j].linked /\ s.listedP = job[j].listedP
    BY <1>1, <1>11 DEF ConnectorFails, JobState, JobOK, ListedBy
  <2>2. OnlyJob(j, s)
    BY <1>11 DEF ConnectorFails, OnlyJob
  <2> HIDE DEF s
  <2> QED BY <1>1, <2>1, <2>2, JobMoves DEF JobOK
<1> QED
  BY <1>2, <1>3, <1>4, <1>5, <1>6, <1>7, <1>8, <1>9, <1>10, <1>11 DEF SyncStep

LEMMA CommitInv ==
    ASSUME SyncInv, NEW j \in Jobs, CommitSync(j)
    PROVE  SyncInv'
<1>1. /\ job[j] \in JobState /\ JobOK(job[j], order, product)
      /\ job[j].pc = "commit" /\ Listed(j) = ListedBy(job[j])
  BY DEF SyncInv, SyncTypeOK, CommitSync, Sees, Listed, ListedBy
<1> DEFINE s == [job[j] EXCEPT !.pc = "completed"]
<1>2. s \in JobState /\ s.pc = "completed"
      /\ s.linked = job[j].linked /\ s.listedP = job[j].listedP
  BY <1>1 DEF JobState
<1>3. job' \in [Jobs -> JobState] /\ job'[j] = s /\ \A i \in Jobs \ {j} : job'[i] = job[i]
  BY <1>2 DEF SyncInv, SyncTypeOK, CommitSync, SetJob
<1> HIDE DEF s
<1>4. product' = product \cup job[j].listedP
  BY DEF CommitSync
<1>5. ASSUME NEW o \in Orders
      PROVE  /\ o \in ListedBy(job[j]) => order'[o].linked = (o \in job[j].linked)
             /\ o \notin ListedBy(job[j]) => order'[o] = order[o]
  BY <1>1 DEF CommitSync
<1>6. SyncTypeOK'
  <2>1. order' \in [Orders -> [rev : Revs, linked : BOOLEAN]]
    BY <1>1 DEF SyncInv, SyncTypeOK, CommitSync, JobState
  <2>2. product' \subseteq Products
    BY <1>1, <1>4 DEF SyncInv, SyncTypeOK, JobState
  <2>3. /\ run' \in [Jobs -> {"none", "success", "failed"}]
        /\ status' \in {"none", "connected", "error", "revoked"}
    BY DEF SyncInv, SyncTypeOK, CommitSync
  <2> QED
    BY <1>3, <2>1, <2>2, <2>3 DEF SyncInv, SyncTypeOK, CommitSync
<1>7. ASSUME NEW i \in Jobs PROVE JobOK(job'[i], order', product')
  <2>1. CASE i = j
    BY <1>1, <1>2, <1>3, <1>4, <2>1 DEF JobOK
  <2>2. CASE i # j
    <3>1. JobOK(job[i], order, product) /\ Listed(i) = ListedBy(job[i])
      BY DEF SyncInv, Listed, ListedBy
    <3>2. job[i].pc = "commit" => ListedBy(job[i]) \cap ListedBy(job[j]) = {}
      BY <1>1, <2>2, <3>1 DEF SyncInv, HeldApart
    <3>3. job[i].pc = "commit" => \A o \in ListedBy(job[i]) : order'[o] = order[o]
      BY <1>5, <3>2 DEF ListedBy
    <3> QED BY <1>3, <1>4, <2>2, <3>1, <3>3 DEF JobOK
  <2> QED BY <2>1, <2>2
<1>8. LinksHaveProducts'
  BY <1>1, <1>4, <1>5 DEF SyncInv, LinksHaveProducts, JobOK
<1>9. HeldApart'
  <2>1. \A i \in Jobs : job'[i].pc = "commit" => job[i].pc = "commit" /\ Listed(i)' = Listed(i)
    BY <1>2, <1>3 DEF Listed
  <2> QED BY <2>1 DEF SyncInv, HeldApart
<1> QED
  BY <1>6, <1>7, <1>8, <1>9
  DEF SyncInv, HooksApplied, ProcessedWasApplied, CommitSync

-----------------------------------------------------------------------------
(* A step of a webhook request rewrites at most an order that no job holds,*)
(* linked if its product is there, and marks an event as what it was.      *)
LEMMA HookStepInv ==
    ASSUME SyncInv, NEW h \in Hooks,
           HookStep(h) \/ WriteFails(h) \/ \E e \in Event : Deliver(h, e)
    PROVE  SyncInv'
<1>1. hook[h] \in Hook /\ (hook[h].pc # "idle" => hook[h].e \in Event)
  BY HookFields DEF SyncInv, SyncTypeOK
<1>2. \A j \in Jobs : JobOK(job[j], order, product)
  BY DEF SyncInv
<1>3. ASSUME NEW c \in Hook, SetHook(h, c),
             c.pc = "processed" => c.e \in applied', applied \subseteq applied'
      PROVE  hook' \in [Hooks -> Hook] /\ HooksApplied'
  BY <1>3 DEF SyncInv, SyncTypeOK, SetHook, HooksApplied
<1>4. ASSUME NEW c \in Hook, SetHook(h, c), c.pc # "processed",
             UNCHANGED <<shop, status, product, order, event, run, job, applied>>
      PROVE  SyncInv'
  BY <1>2, <1>3, <1>4 DEF SyncInv, SyncTypeOK, LinksHaveProducts, HeldApart, Listed,
                          ProcessedWasApplied
<1>5. CASE \E e \in Event : Deliver(h, e)
  BY <1>4, <1>5, HookShapes DEF Deliver
<1>6. CASE FindOrder(h)
  BY <1>1, <1>4, <1>6, HookShapes DEF FindOrder
<1>7. CASE WriteFails(h)
  BY <1>1, <1>4, <1>7, HookShapes DEF WriteFails
<1>8. CASE StoreEvent(h)
  <2>1. /\ event' \in [Event -> {"none", "received", "processed", "failed"}]
        /\ ProcessedWasApplied'
    BY <1>1, <1>8 DEF StoreEvent, SyncInv, SyncTypeOK, ProcessedWasApplied
  <2>2. hook' \in [Hooks -> Hook] /\ HooksApplied'
    <3>1. \E c \in Hook : SetHook(h, c) /\ c.pc # "processed"
      BY <1>1, <1>8, HookShapes DEF StoreEvent, NoHook
    <3> QED BY <1>3, <1>8, <3>1 DEF StoreEvent
  <2> QED
    BY <1>2, <1>8, <2>1, <2>2
    DEF StoreEvent, SyncInv, SyncTypeOK, LinksHaveProducts, HeldApart, Listed
<1>9. CASE MarkEvent(h)
  <2>1. /\ event' \in [Event -> {"none", "received", "processed", "failed"}]
        /\ ProcessedWasApplied'
    BY <1>1, <1>9 DEF MarkEvent, Outcome, SyncInv, SyncTypeOK, ProcessedWasApplied,
                      HooksApplied
  <2>2. hook' \in [Hooks -> Hook] /\ HooksApplied'
    <3>1. NoHook.pc # "processed" /\ NoHook \in Hook
      BY DEF NoHook, Hook
    <3> QED BY <1>3, <1>9, <3>1 DEF MarkEvent
  <2> QED
    BY <1>2, <1>9, <2>1, <2>2
    DEF MarkEvent, SyncInv, SyncTypeOK, LinksHaveProducts, HeldApart, Listed
<1>10. CASE WriteOrder(h)
  <2> DEFINE e == hook[h].e
  <2>1. e \in Event /\ e.o \in Orders /\ e.rev \in Revs
    BY <1>1, <1>10, SyncAssumption DEF WriteOrder, Event, Revs
  <2>2. CASE order' = order /\ applied' = applied /\ SetHook(h, [pc |-> "failed", e |-> e])
    BY <1>4, <1>10, <2>1, <2>2, HookShapes DEF WriteOrder
  <2>3. CASE /\ order' = [order EXCEPT ![e.o] = [rev |-> e.rev, linked |-> HasProduct(e.o)]]
             /\ applied' = applied \cup {e}
             /\ SetHook(h, [pc |-> "processed", e |-> e])
    <3> HIDE DEF e
    <3>1. hook' \in [Hooks -> Hook] /\ HooksApplied' /\ applied' \subseteq Event
      <4> DEFINE c == [pc |-> "processed", e |-> e]
      <4>1. c \in Hook /\ c.pc = "processed" /\ c.e = e
        BY <2>1, HookShapes
      <4> HIDE DEF c
      <4> QED BY <1>3, <2>1, <2>3, <4>1 DEF c, SyncInv, SyncTypeOK
    <3>2. /\ order' \in [Orders -> [rev : Revs, linked : BOOLEAN]]
          /\ order'[e.o].linked = (ProductOf[e.o] \in product)
          /\ \A o \in Orders \ {e.o} : order'[o] = order[o]
      BY <2>1, <2>3 DEF SyncInv, SyncTypeOK, HasProduct
    <3>3. ASSUME NEW j \in Jobs PROVE JobOK(job[j], order', product)
      <4>1. job[j].pc = "commit" => e.o \notin ListedBy(job[j])
        BY <1>10 DEF WriteOrder, HeldOrders, Listed, ListedBy, e
      <4> QED BY <1>2, <3>2, <4>1 DEF JobOK, ListedBy
    <3>4. LinksHaveProducts' /\ ProcessedWasApplied'
      BY <1>10, <2>3, <3>2
      DEF WriteOrder, SyncInv, LinksHaveProducts, ProcessedWasApplied
    <3> QED
      BY <1>10, <3>1, <3>2, <3>3, <3>4
      DEF WriteOrder, SyncInv, SyncTypeOK, HeldApart, Listed
  <2> QED BY <1>10, <2>2, <2>3 DEF WriteOrder
<1> QED
  BY <1>5, <1>6, <1>7, <1>8, <1>9, <1>10 DEF HookStep

LEMMA SyncInvNext == SyncInv /\ [SyncNext]_vars => SyncInv'
<1> SUFFICES ASSUME SyncInv, [SyncNext]_vars PROVE SyncInv'
  OBVIOUS
<1>1. CASE \/ \E p \in Products : AddProduct(p)
           \/ \E o \in Orders : ChangeOrder(o)
           \/ Connect \/ Disconnect
           \/ UNCHANGED vars
  <2>1. /\ shop' \in [products : SUBSET Products, orders : [Orders -> Revs]]
        /\ status' \in {"none", "connected", "error", "revoked"}
    BY <1>1, SyncAssumption
    DEF AddProduct, ChangeOrder, Connect, Disconnect, vars, SyncInv, SyncTypeOK, Revs
  <2>2. UNCHANGED <<product, order, event, run, job, hook, applied>>
    BY <1>1 DEF AddProduct, ChangeOrder, Connect, Disconnect, vars
  <2> QED
    BY <2>1, <2>2 DEF SyncInv, SyncTypeOK, LinksHaveProducts, HeldApart, Listed,
                      HooksApplied, ProcessedWasApplied
<1>2. ASSUME NEW j \in Jobs,
             RequestSync(j) \/ SyncStep(j) \/ ThrowSync(j) \/ ConnectorFails(j)
      PROVE  SyncInv'
  BY <1>2, SyncStepInv, CommitInv
<1>3. ASSUME NEW h \in Hooks,
             HookStep(h) \/ WriteFails(h) \/ \E e \in Event : Deliver(h, e)
      PROVE  SyncInv'
  BY <1>3, HookStepInv
<1> QED
  BY <1>1, <1>2, <1>3 DEF SyncNext

LEMMA SyncInvHolds == SyncSpec => []SyncInv
BY SyncInvInit, SyncInvNext, PTL DEF SyncSpec

(* Orders, products, jobs and requests keep their types; no job is tried   *)
(* more often than MaxAttempts.                                            *)
THEOREM SyncTypeCorrect == SyncSpec => []SyncTypeOK
<1>1. SyncInv => SyncTypeOK
  BY DEF SyncInv
<1> QED
  BY <1>1, SyncInvHolds, PTL

(* ProcessedWasApplied: whatever collides with a webhook's write, an event *)
(* is marked as processed only after its payload reached the orders table. *)
THEOREM ProcessedMeansApplied == SyncSpec => []ProcessedWasApplied
<1>1. SyncInv => ProcessedWasApplied
  BY DEF SyncInv
<1> QED
  BY <1>1, SyncInvHolds, PTL

-----------------------------------------------------------------------------
(* Only a commit and a webhook's write change orders, and only a commit    *)
(* records a run.                                                          *)
LEMMA OthersLeaveOrders ==
    ASSUME SyncInv, [SyncNext]_vars
    PROVE  \/ order' = order /\ run' = run
           \/ \E j \in Jobs : CommitSync(j)
           \/ \E h \in Hooks : WriteOrder(h)
BY DEF SyncNext, vars, AddProduct, ChangeOrder, RequestSync, SyncStep, TakeJob, ListProducts,
       FindProducts, WriteProducts, ListOrders, FindOrders, WriteOrders, ThrowSync,
       ConnectorFails, Deliver, HookStep, StoreEvent, FindOrder, MarkEvent, WriteFails,
       Connect, Disconnect

LEMMA CommitLinks ==
    ASSUME SyncInv, NEW j \in Jobs, CommitSync(j), NEW o \in Orders
    PROVE  /\ order[o].linked => order'[o].linked
           /\ o \in Listed(j) /\ ProductOf[o] \in job[j].listedP => order'[o].linked
<1>1. JobOK(job[j], order, product) /\ job[j].pc = "commit" /\ Listed(j) = ListedBy(job[j])
  BY DEF SyncInv, CommitSync, Sees, Listed, ListedBy
<1>2. order'[o] = IF o \in Listed(j)
                  THEN [rev |-> job[j].listedO[o], linked |-> o \in job[j].linked]
                  ELSE order[o]
  BY DEF CommitSync
<1>3. CASE o \in Listed(j)
  <2>1. order'[o].linked = (o \in job[j].linked)
    BY <1>2, <1>3
  <2>2. ProductOf[o] \in job[j].listedP \/ order[o].linked => o \in job[j].linked
    BY <1>1, <1>3 DEF JobOK
  <2> QED BY <1>3, <2>1, <2>2
<1>4. CASE o \notin Listed(j)
  BY <1>2, <1>4
<1> QED BY <1>3, <1>4

LEMMA WriteLinks ==
    ASSUME SyncInv, NEW h \in Hooks, WriteOrder(h), NEW o \in Orders, order[o].linked
    PROVE  order'[o].linked
<1>1. CASE order' = order
  BY <1>1
<1>2. CASE order' = [order EXCEPT ![hook[h].e.o] =
                        [rev |-> hook[h].e.rev, linked |-> HasProduct(hook[h].e.o)]]
  <2>1. CASE hook[h].e.o # o
    BY <1>2, <2>1 DEF SyncInv, SyncTypeOK
  <2>2. CASE hook[h].e.o = o
    BY <1>2, <2>2 DEF SyncInv, SyncTypeOK, LinksHaveProducts, HasProduct
  <2> QED BY <2>1, <2>2
<1> QED
  BY <1>1, <1>2 DEF WriteOrder

(* LinkNeverLost: no stale payload, of a webhook or a sync, takes the link *)
(* of an order's items to their product away.                              *)
THEOREM LinksLast == SyncSpec => LinkNeverLost
<1>1. ASSUME SyncInv, [SyncNext]_vars
      PROVE  \A o \in Orders : order[o].linked => order'[o].linked
  BY <1>1, OthersLeaveOrders, CommitLinks, WriteLinks
<1> QED
  BY <1>1, SyncInvHolds, PTL DEF SyncSpec, LinkNeverLost

(* SuccessLinks: a full sync that is recorded as a success has linked every*)
(* order it listed to the product it listed, retried or not, whatever      *)
(* webhooks and other syncs wrote in between.                              *)
THEOREM SuccessIsLinked == SyncSpec => SuccessLinks
<1>1. ASSUME SyncInv, [SyncNext]_vars
      PROVE  \A j \in Jobs :
                run[j] = "none" /\ run'[j] = "success" =>
                    \A o \in Orders :
                        job[j].listedO[o] # 0 /\ ProductOf[o] \in job[j].listedP =>
                            order'[o].linked
  <2> SUFFICES ASSUME NEW j \in Jobs, run[j] = "none", run'[j] = "success",
                      NEW o \in Orders, job[j].listedO[o] # 0,
                      ProductOf[o] \in job[j].listedP
               PROVE  order'[o].linked
    OBVIOUS
  <2>1. CommitSync(j)
    <3>1. run' # run
      OBVIOUS
    <3>2. ASSUME NEW i \in Jobs, CommitSync(i) PROVE i = j
      BY <3>2 DEF CommitSync, SyncInv, SyncTypeOK
    <3>3. ASSUME NEW h \in Hooks, WriteOrder(h) PROVE FALSE
      BY <3>1, <3>3 DEF WriteOrder
    <3> QED BY <1>1, <3>1, <3>2, <3>3, OthersLeaveOrders
  <2> QED BY <1>1, <2>1, CommitLinks DEF Listed
<1> QED
  BY <1>1, SyncInvHolds, PTL DEF SyncSpec, SuccessLinks

-----------------------------------------------------------------------------
(* The copy implements the mirror.  Of a sync in work: it was accepted by  *)
(* an integration that exists, and what it has listed is what the shop had *)
(* at some time between its request and now, unless it has failed; then it *)
(* keeps no orders.                                                        *)
ShopState == [products : SUBSET Products, orders : [Orders -> Revs]]

Before(a, b) == a.products \subseteq b.products /\ \A o \in Orders : a.orders[o] <= b.orders[o]

ListingOK(s, a, b) ==
    /\ s.listedP \subseteq b.products
    /\ \A o \in Orders : s.listedO[o] <= b.orders[o]
    /\ s.failed => s.pc = "commit" /\ ListedBy(s) = {}
    /\ s.pc \notin {"waiting", "products"} /\ ~s.failed => a.products \subseteq s.listedP
    /\ s.pc \in {"findOrders", "writeOrders", "commit"} /\ ~s.failed =>
         \A o \in Orders : a.orders[o] <= s.listedO[o]

ListingsOK == \A j \in InWork : Before(since[j], shop) /\ ListingOK(job[j], since[j], shop)
Existing == (InWork # {} \/ \E h \in Hooks : hook[h].pc # "idle") => status # "none"
HooksHeard == \A h \in Hooks : hook[h].pc # "idle" => hook[h].e.rev <= shop.orders[hook[h].e.o]

MirrorInv ==
    /\ SyncInv
    /\ since \in [Jobs -> ShopState]
    /\ ListingsOK
    /\ Existing
    /\ HooksHeard

LEMMA MirrorInvInit == MirroredInit => MirrorInv
<1> SUFFICES ASSUME MirroredInit PROVE MirrorInv
  OBVIOUS
<1>1. SyncInv
  BY SyncInvInit DEF MirroredInit
<1>2. since \in [Jobs -> ShopState]
  BY <1>1 DEF MirroredInit, SyncInv, SyncTypeOK, ShopState
<1> QED
  BY <1>1, <1>2
  DEF MirrorInv, MirroredInit, SyncInit, ListingsOK, Existing, HooksHeard, InWork, NoJob, NoHook

LEMMA RequestStarts ==
    ASSUME SyncInv, NEW j \in Jobs, RequestSync(j)
    PROVE  job[j].pc = "none" /\ job'[j].pc = "waiting"
BY NoJobTyped DEF RequestSync, SetJob, Sees, NoJob, SyncInv, SyncTypeOK

(* A step of a job other than its commit leaves the listing as it should   *)
(* be, and only a request brings a job into work.                          *)
JobAct(j) == RequestSync(j) \/ SyncStep(j) \/ ThrowSync(j) \/ ConnectorFails(j)

LEMMA ListingStep ==
    ASSUME MirrorInv, NEW j \in Jobs, JobAct(j), ~CommitSync(j)
    PROVE  /\ \A i \in Jobs \ {j} : job'[i] = job[i]
           /\ UNCHANGED <<shop, status, product, order, hook>>
           /\ RequestSync(j) => /\ j \notin InWork /\ j \in InWork'
                                /\ ListingOK(job'[j], shop, shop)
           /\ ~RequestSync(j) => /\ j \in InWork
                                 /\ j \in InWork' => ListingOK(job'[j], since[j], shop)
<1>1. /\ job \in [Jobs -> JobState] /\ job[j] \in JobState /\ JobOK(job[j], order, product)
      /\ Listed(j) = ListedBy(job[j]) /\ shop \in ShopState
  BY DEF MirrorInv, SyncInv, SyncTypeOK, Listed, ListedBy, ShopState
<1>2. UNCHANGED <<shop, status, product, order, hook>>
  BY DEF JobAct, SyncStep, RequestSync, TakeJob, ListProducts, FindProducts, WriteProducts,
         ListOrders, FindOrders, WriteOrders, ThrowSync, ConnectorFails
<1>3. ASSUME NEW s, SetJob(j, s)
      PROVE  job'[j] = s /\ \A i \in Jobs \ {j} : job'[i] = job[i]
  BY <1>1, <1>3 DEF SetJob
<1>4. \E s : SetJob(j, s)
  BY DEF JobAct, SyncStep, RequestSync, TakeJob, ListProducts, FindProducts, WriteProducts,
         ListOrders, FindOrders, WriteOrders, ThrowSync, ConnectorFails
<1>5. ASSUME NEW b, job'[j].pc \in {"waiting", "products"}, ~job'[j].failed,
             job'[j].listedP = {}, job'[j].listedO = [o \in Orders |-> 0]
      PROVE  ListingOK(job'[j], b, shop)
  <2>1. \A o \in Orders : 0 <= shop.orders[o]
    BY <1>1 DEF ShopState, Revs
  <2> QED BY <1>5, <2>1 DEF ListingOK
<1>6. CASE RequestSync(j)
  <2>1. /\ job'[j].pc = "waiting" /\ ~job'[j].failed
        /\ job'[j].listedP = {} /\ job'[j].listedO = [o \in Orders |-> 0]
    BY <1>1, <1>6 DEF RequestSync, SetJob, NoJob
  <2>2. j \notin InWork /\ j \in InWork'
    BY <1>6, RequestStarts DEF MirrorInv, InWork
  <2> QED BY <1>2, <1>3, <1>4, <1>5, <1>6, <2>1, <2>2
<1>7. CASE ~RequestSync(j)
  <2>1. j \in InWork
    BY <1>7 DEF JobAct, SyncStep, TakeJob, ListProducts, FindProducts, WriteProducts, ListOrders,
           FindOrders, WriteOrders, ThrowSync, ConnectorFails, Sees, InWork
  <2>2. Before(since[j], shop) /\ ListingOK(job[j], since[j], shop)
    BY <2>1 DEF MirrorInv, ListingsOK
  <2> DEFINE Good == j \in InWork' => ListingOK(job'[j], since[j], shop)
  <2>3. ASSUME job'[j] = Thrown(j) PROVE Good
    <3>1. CASE job[j].attempts < MaxAttempts
      BY <1>5, <2>3, <3>1 DEF Thrown, NoJob
    <3>2. CASE ~(job[j].attempts < MaxAttempts)
      <4>1. job'[j].pc = "dead"
        BY <2>3, <3>2 DEF Thrown, NoJob
      <4> QED BY <4>1 DEF InWork
    <3> QED BY <3>1, <3>2
  <2>4. ASSUME TakeJob(j) PROVE Good
    BY <1>1, <1>5, <2>4 DEF TakeJob, SetJob, NoJob
  <2>5. ASSUME ThrowSync(j) PROVE Good
    BY <1>3, <2>3, <2>5 DEF ThrowSync
  <2>6. ASSUME ListProducts(j) PROVE Good
    <3>1. /\ job'[j].pc = "findProducts" /\ job'[j].listedP = shop.products
          /\ job'[j].listedO = job[j].listedO /\ job'[j].failed = job[j].failed
      BY <1>1, <2>6 DEF ListProducts, SetJob, JobState
    <3> QED BY <2>2, <2>6, <3>1 DEF ListProducts, Sees, ListingOK, Before, ListedBy
  <2>7. ASSUME FindProducts(j) PROVE Good
    <3>1. /\ job'[j].pc = "writeProducts" /\ job'[j].listedP = job[j].listedP
          /\ job'[j].listedO = job[j].listedO /\ job'[j].failed = job[j].failed
      BY <1>1, <2>7 DEF FindProducts, SetJob, JobState
    <3> QED BY <2>2, <2>7, <3>1 DEF FindProducts, Sees, ListingOK, ListedBy
  <2>8. ASSUME WriteProducts(j) PROVE Good
    <3>1. job'[j] = Thrown(j) \/ job'[j] = [job[j] EXCEPT !.pc = "orders"]
      BY <1>3, <2>8 DEF WriteProducts
    <3>2. CASE job'[j] = [job[j] EXCEPT !.pc = "orders"]
      <4>1. /\ job'[j].pc = "orders" /\ job'[j].listedP = job[j].listedP
            /\ job'[j].listedO = job[j].listedO /\ job'[j].failed = job[j].failed
        BY <1>1, <3>2 DEF JobState
      <4> QED BY <2>2, <2>8, <4>1 DEF WriteProducts, Sees, ListingOK, ListedBy
    <3> QED BY <2>3, <3>1, <3>2
  <2>9. ASSUME ListOrders(j) PROVE Good
    <3>1. /\ job'[j].pc = "findOrders" /\ job'[j].listedP = job[j].listedP
          /\ job'[j].listedO = shop.orders /\ job'[j].failed = job[j].failed
      BY <1>1, <2>9 DEF ListOrders, SetJob, JobState
    <3>2. \A o \in Orders : shop.orders[o] <= shop.orders[o]
      BY <1>1 DEF ShopState, Revs
    <3> QED BY <2>2, <2>9, <3>1, <3>2 DEF ListOrders, Sees, ListingOK, Before
  <2>10. ASSUME FindOrders(j) PROVE Good
    <3>1. /\ job'[j].pc = "writeOrders" /\ job'[j].listedP = job[j].listedP
          /\ job'[j].listedO = job[j].listedO /\ job'[j].failed = job[j].failed
      BY <1>1, <2>10 DEF FindOrders, SetJob, JobState
    <3> QED BY <2>2, <2>10, <3>1 DEF FindOrders, Sees, ListingOK
  <2>11. ASSUME WriteOrders(j) PROVE Good
    <3> DEFINE L == {o \in Listed(j) : ProductOf[o] \in VisibleProducts(j)}
    <3>1. job'[j] = Thrown(j) \/ job'[j] = [job[j] EXCEPT !.pc = "commit", !.linked = L]
      BY <1>3, <2>11 DEF WriteOrders
    <3> HIDE DEF L
    <3>2. CASE job'[j] = [job[j] EXCEPT !.pc = "commit", !.linked = L]
      <4>1. /\ job'[j].pc = "commit" /\ job'[j].listedP = job[j].listedP
            /\ job'[j].listedO = job[j].listedO /\ job'[j].failed = job[j].failed
        BY <1>1, <3>2 DEF JobState
      <4> QED BY <2>2, <2>11, <4>1 DEF WriteOrders, Sees, ListingOK
    <3> QED BY <2>3, <3>1, <3>2
  <2>12. ASSUME ConnectorFails(j) PROVE Good
    <3>1. /\ job'[j].pc = "commit" /\ job'[j].listedP = job[j].listedP
          /\ job'[j].listedO = job[j].listedO /\ job'[j].failed
      BY <1>1, <2>12 DEF ConnectorFails, SetJob, JobState
    <3> QED BY <1>1, <2>2, <2>12, <3>1 DEF ConnectorFails, ListingOK, JobOK, ListedBy
  <2>13. Good
    BY <1>7, <2>4, <2>5, <2>6, <2>7, <2>8, <2>9, <2>10, <2>11, <2>12 DEF JobAct, SyncStep
  <2> QED BY <1>2, <1>3, <1>4, <1>7, <2>1, <2>13
<1> QED BY <1>6, <1>7

LEMMA MirrorInvNext ==
    ASSUME MirrorInv, [MirroredNext]_mirroredVars
    PROVE  MirrorInv'
<1>1. SyncInv' /\ SyncInv /\ shop \in ShopState
  BY SyncInvNext DEF MirrorInv, MirroredNext, mirroredVars, vars, SyncInv, SyncTypeOK, ShopState
<1>2. shop' \in ShopState
  BY <1>1 DEF SyncInv, SyncTypeOK, ShopState
<1>3. CASE UNCHANGED mirroredVars
  BY <1>1, <1>3 DEF mirroredVars, vars, MirrorInv, ListingsOK, Existing, HooksHeard, InWork
<1>4. CASE MirroredNext
  <2>1. since' = [j \in Jobs |-> IF RequestSync(j) THEN shop ELSE since[j]]
    BY <1>4 DEF MirroredNext
  <2>2. since' \in [Jobs -> ShopState]
    BY <1>1, <2>1 DEF MirrorInv
  <2>3. ASSUME NEW j \in Jobs, JobAct(j), ~CommitSync(j) PROVE MirrorInv'
    <3>1. /\ \A i \in Jobs \ {j} : job'[i] = job[i]
          /\ UNCHANGED <<shop, status, product, order, hook>>
          /\ RequestSync(j) => /\ j \notin InWork /\ j \in InWork'
                               /\ ListingOK(job'[j], shop, shop)
          /\ ~RequestSync(j) => /\ j \in InWork
                                /\ j \in InWork' => ListingOK(job'[j], since[j], shop)
      BY <2>3, ListingStep
    <3>2. \A i \in Jobs \ {j} : since'[i] = since[i]
      BY <1>1, <2>1, <3>1, RequestStarts
    <3>3. \A i \in Jobs \ {j} : i \in InWork' <=> i \in InWork
      BY <3>1 DEF InWork
    <3>4. Before(shop, shop)
      BY <1>1 DEF Before, ShopState, Revs
    <3>5. ListingsOK'
      <4> SUFFICES ASSUME NEW i \in Jobs, i \in InWork'
                   PROVE  Before(since'[i], shop') /\ ListingOK(job'[i], since'[i], shop')
        BY DEF ListingsOK, InWork
      <4>1. CASE i # j
        BY <3>1, <3>2, <3>3, <4>1 DEF MirrorInv, ListingsOK
      <4>2. CASE i = j
        BY <2>1, <3>1, <3>4, <4>2 DEF MirrorInv, ListingsOK
      <4> QED BY <4>1, <4>2
    <3>6. Existing'
      <4>1. RequestSync(j) => status # "none"
        BY DEF RequestSync
      <4> QED BY <3>1, <4>1 DEF MirrorInv, Existing, InWork
    <3> QED BY <1>1, <2>2, <3>1, <3>5, <3>6 DEF MirrorInv, HooksHeard
  <2>4. ASSUME \A j \in Jobs : ~RequestSync(j), InWork' \subseteq InWork,
               \A j \in InWork' : job'[j] = job[j],
               \/ UNCHANGED shop
               \/ /\ Before(shop, shop')
                  /\ UNCHANGED hook,
               status # "none" => status' # "none",
               \A h \in Hooks : hook'[h].pc # "idle" =>
                   /\ status' # "none"
                   /\ hook'[h].e.rev <= shop'.orders[hook'[h].e.o]
        PROVE  MirrorInv'
    <3>1. since' = since
      BY <2>1, <2>4 DEF MirrorInv
    <3>2. ASSUME NEW j \in InWork'
          PROVE  Before(since'[j], shop') /\ ListingOK(job'[j], since'[j], shop')
      <4>1. Before(since[j], shop) /\ ListingOK(job[j], since[j], shop) /\ job'[j] = job[j]
        BY <2>4 DEF MirrorInv, ListingsOK
      <4>2. job[j] \in JobState /\ since[j] \in ShopState
        BY <1>1 DEF MirrorInv, SyncInv, SyncTypeOK, InWork
      <4>3. CASE UNCHANGED shop
        BY <3>1, <4>1, <4>3
      <4>4. CASE Before(shop, shop')
        <5>1. Before(since[j], shop')
          BY <1>1, <1>2, <4>1, <4>2, <4>4 DEF Before, ShopState, Revs
        <5>2. ListingOK(job[j], since[j], shop')
          BY <1>1, <1>2, <4>1, <4>2, <4>4 DEF ListingOK, Before, ShopState, Revs, JobState
        <5> QED BY <3>1, <4>1, <5>1, <5>2
      <4> QED BY <2>4, <4>3, <4>4
    <3>3. Existing'
      BY <2>4 DEF MirrorInv, Existing
    <3> QED BY <1>1, <2>2, <2>4, <3>2, <3>3 DEF MirrorInv, ListingsOK, HooksHeard
  <2>5. ASSUME NEW j \in Jobs, CommitSync(j) PROVE MirrorInv'
    <3>1. job'[j].pc = "completed" /\ \A i \in Jobs \ {j} : job'[i] = job[i]
      BY <1>1, <2>5 DEF CommitSync, SetJob, SyncInv, SyncTypeOK, JobState
    <3>2. UNCHANGED <<shop, hook>> /\ status' # "none"
      BY <2>5 DEF CommitSync
    <3>3. InWork' \subseteq InWork /\ \A i \in InWork' : job'[i] = job[i]
      BY <3>1 DEF InWork
    <3>4. \A i \in Jobs : ~RequestSync(i)
      BY <1>1, <3>1, <2>5, RequestStarts DEF CommitSync, Sees
    <3> QED BY <2>4, <3>2, <3>3, <3>4 DEF MirrorInv, HooksHeard
  <2>6. ASSUME UNCHANGED job
        PROVE  /\ \A j \in Jobs : ~RequestSync(j)
               /\ InWork' = InWork
               /\ \A j \in InWork' : job'[j] = job[j]
    BY <1>1, <2>6, RequestStarts DEF InWork
  <2>7. ASSUME NEW h \in Hooks,
               HookStep(h) \/ WriteFails(h) \/ \E e \in Event : Deliver(h, e)
        PROVE  MirrorInv'
    <3>1. UNCHANGED <<job, shop, status>>
      BY <2>7 DEF HookStep, StoreEvent, FindOrder, WriteOrder, MarkEvent, WriteFails, Deliver
    <3>2. hook[h] \in Hook /\ hook \in [Hooks -> Hook]
      BY <1>1 DEF SyncInv, SyncTypeOK
    <3>3. \A g \in Hooks \ {h} : hook'[g] = hook[g]
      BY <2>7, <3>2 DEF HookStep, StoreEvent, FindOrder, WriteOrder, MarkEvent, WriteFails,
                        Deliver, SetHook
    <3>4. \/ hook'[h].pc = "idle"
          \/ hook[h].pc # "idle" /\ hook'[h].e = hook[h].e
          \/ status # "none" /\ hook'[h].e.rev <= shop.orders[hook'[h].e.o]
      BY <2>7, <3>2 DEF HookStep, StoreEvent, FindOrder, WriteOrder, MarkEvent, WriteFails,
                        Deliver, SetHook, NoHook
    <3>5. \A g \in Hooks : hook'[g].pc # "idle" =>
              /\ status' # "none"
              /\ hook'[g].e.rev <= shop'.orders[hook'[g].e.o]
      BY <3>1, <3>3, <3>4 DEF MirrorInv, Existing, HooksHeard
    <3> QED BY <2>4, <2>6, <3>1, <3>5
  <2>8. CASE \/ \E p \in Products : AddProduct(p)
             \/ \E o \in Orders : ChangeOrder(o)
             \/ Connect \/ Disconnect
    <3>1. UNCHANGED <<job, hook>>
      BY <2>8 DEF AddProduct, ChangeOrder, Connect, Disconnect
    <3>2. Before(shop, shop')
      BY <1>1, <1>2, <2>8
      DEF AddProduct, ChangeOrder, Connect, Disconnect, Before, ShopState, Revs
    <3>3. status # "none" => status' # "none"
      BY <2>8 DEF AddProduct, ChangeOrder, Connect, Disconnect
    <3>4. \A g \in Hooks : hook[g].pc # "idle" =>
              /\ status' # "none"
              /\ hook[g].e.rev <= shop'.orders[hook[g].e.o]
      <4> SUFFICES ASSUME NEW g \in Hooks, hook[g].pc # "idle"
                   PROVE  status' # "none" /\ hook[g].e.rev <= shop'.orders[hook[g].e.o]
        OBVIOUS
      <4>1. hook[g].e.rev \in Nat /\ hook[g].e.o \in Orders
        BY <1>1, HookFields, SyncAssumption DEF SyncInv, SyncTypeOK, Event
      <4> QED BY <1>1, <1>2, <3>2, <3>3, <4>1
              DEF MirrorInv, Existing, HooksHeard, Before, ShopState, Revs
    <3> QED BY <2>4, <2>6, <3>1, <3>2, <3>3, <3>4
  <2> QED BY <1>4, <2>3, <2>5, <2>7, <2>8 DEF MirroredNext, SyncNext, JobAct
<1> QED BY <1>3, <1>4

LEMMA MirrorInvHolds == MirroredSpec => []MirrorInv
BY MirrorInvInit, MirrorInvNext, PTL DEF MirroredSpec

-----------------------------------------------------------------------------
(* A commit is where the mirror sees a sync: it succeeds or fails.         *)
LEMMA CommitMirrors ==
    ASSUME MirrorInv, MirrorInv', NEW j \in Jobs, CommitSync(j), since' = since
    PROVE  Mirror!Succeed(j) \/ Mirror!Fail(j)
<1>1. /\ job[j] \in JobState /\ JobOK(job[j], order, product) /\ job[j].pc = "commit"
      /\ Listed(j) = ListedBy(job[j]) /\ j \in InWork
      /\ order \in [Orders -> [rev : Revs, linked : BOOLEAN]]
  BY DEF MirrorInv, SyncInv, SyncTypeOK, CommitSync, Sees, Listed, ListedBy, InWork
<1>2. ListingOK(job[j], since[j], shop)
  BY <1>1 DEF MirrorInv, ListingsOK
<1>3. job'[j].pc = "completed" /\ \A i \in Jobs \ {j} : job'[i] = job[i]
  BY <1>1 DEF CommitSync, SetJob, MirrorInv, SyncInv, SyncTypeOK, JobState
<1>4. Mirror!End(j)
  BY <1>1, <1>3 DEF Mirror!End, CommitSync, InWork
<1>5. /\ product' = product \cup job[j].listedP
      /\ job[j].listedP \in SUBSET Products
      /\ Mirror!CopyProducts(job[j].listedP)
  BY <1>1, <1>2 DEF CommitSync, JobState, ListingOK, Mirror!CopyProducts
<1>6. ASSUME NEW o \in Orders
      PROVE  order'[o] = IF o \in ListedBy(job[j])
                         THEN [rev |-> job[j].listedO[o], linked |-> o \in job[j].linked]
                         ELSE order[o]
  BY <1>1 DEF CommitSync
<1>7. CASE job[j].failed
  <2>1. ListedBy(job[j]) = {}
    BY <1>2, <1>7 DEF ListingOK
  <2>2. order' = order
    BY <1>1, <2>1 DEF CommitSync
  <2>3. status' = "error"
    BY <1>7 DEF CommitSync
  <2> QED BY <1>4, <1>5, <2>2, <2>3 DEF Mirror!Fail
<1>8. CASE ~job[j].failed
  <2>1. status' = "connected" /\ since[j].products \subseteq job[j].listedP
    BY <1>1, <1>2, <1>8 DEF CommitSync, ListingOK
  <2>2. ASSUME NEW o \in Orders
        PROVE  \/ Mirror!CopyOrder(j, job[j].listedP, o)
               \/ since[j].orders[o] = 0 /\ order'[o] = order[o]
    <3>1. since[j].orders[o] <= job[j].listedO[o] /\ job[j].listedO[o] <= shop.orders[o]
      BY <1>1, <1>2, <1>8 DEF ListingOK
    <3>2. /\ since[j].orders[o] \in Nat /\ job[j].listedO[o] \in Nat /\ shop.orders[o] \in Nat
      BY <1>1 DEF MirrorInv, SyncInv, SyncTypeOK, ShopState, JobState, Revs
    <3>3. CASE o \notin ListedBy(job[j])
      <4>1. job[j].listedO[o] = 0
        BY <3>3 DEF ListedBy
      <4>2. order'[o] = order[o]
        BY <1>6, <3>3
      <4>3. since[j].orders[o] = 0
        BY <3>1, <3>2, <4>1
      <4> QED BY <4>2, <4>3
    <3>4. CASE o \in ListedBy(job[j])
      <4>1. order'[o].rev = job[j].listedO[o] /\ order'[o].linked = (o \in job[j].linked)
        <5>1. order'[o] = [rev |-> job[j].listedO[o], linked |-> o \in job[j].linked]
          BY <1>6, <3>4
        <5> QED BY <5>1
      <4>2. job[j].listedO[o] # 0
        BY <3>4 DEF ListedBy
      <4>3. o \in job[j].linked => ProductOf[o] \in product'
        BY <1>1, <1>5 DEF JobOK
      <4>4. ProductOf[o] \in job[j].listedP \/ order[o].linked => o \in job[j].linked
        BY <1>1, <3>4 DEF JobOK
      <4>5. order'[o].rev \in 1 .. shop.orders[o] /\ since[j].orders[o] <= order'[o].rev
        BY <3>1, <3>2, <4>1, <4>2
      <4> QED BY <4>1, <4>3, <4>4, <4>5 DEF Mirror!CopyOrder
    <3> QED BY <3>3, <3>4
  <2>3. order' \in [Orders -> [rev : Nat, linked : BOOLEAN]]
    BY DEF MirrorInv, SyncInv, SyncTypeOK, Revs
  <2> QED BY <1>4, <1>5, <2>1, <2>2, <2>3 DEF Mirror!Succeed
<1> QED BY <1>7, <1>8

(* The other steps of a job are nothing to the mirror but its request and  *)
(* the attempt after which it is given up.                                 *)
LEMMA JobMirrors ==
    ASSUME MirrorInv, NEW j \in Jobs, JobAct(j), ~CommitSync(j),
           since' = [i \in Jobs |-> IF RequestSync(i) THEN shop ELSE since[i]]
    PROVE  Mirror!Ask(j) \/ Mirror!GiveUp(j) \/ UNCHANGED Mirror!mirrorVars
<1>1. /\ \A i \in Jobs \ {j} : job'[i] = job[i]
      /\ UNCHANGED <<shop, status, product, order, hook>>
      /\ RequestSync(j) => j \notin InWork /\ j \in InWork'
      /\ ~RequestSync(j) => j \in InWork
  BY ListingStep
<1>2. \A i \in Jobs \ {j} : ~RequestSync(i)
  BY <1>1, RequestStarts DEF MirrorInv
<1>3. \A i \in Jobs \ {j} : i \in InWork' <=> i \in InWork
  BY <1>1 DEF InWork
<1>4. since \in [Jobs -> ShopState] /\ InWork \subseteq Jobs /\ InWork' \subseteq Jobs
  BY DEF MirrorInv, InWork
<1>5. CASE RequestSync(j)
  <2>1. InWork' = InWork \cup {j}
    BY <1>1, <1>3, <1>4, <1>5
  <2>2. since' = [since EXCEPT ![j] = shop]
    BY <1>2, <1>4, <1>5
  <2> QED BY <1>1, <1>5, <2>1, <2>2 DEF RequestSync, Mirror!Ask
<1>6. CASE ~RequestSync(j)
  <2>1. since' = since
    BY <1>2, <1>4, <1>6
  <2>2. CASE j \in InWork'
    <3>1. InWork' = InWork
      BY <1>1, <1>3, <1>4, <1>6, <2>2
    <3> QED BY <1>1, <2>1, <3>1 DEF Mirror!mirrorVars
  <2>3. CASE j \notin InWork'
    <3>1. InWork' = InWork \ {j}
      BY <1>1, <1>3, <1>4, <2>3
    <3> QED BY <1>1, <1>6, <2>1, <3>1 DEF Mirror!GiveUp, Mirror!End
  <2> QED BY <2>2, <2>3
<1> QED BY <1>5, <1>6

LEMMA MirrorStep ==
    ASSUME MirrorInv, MirrorInv', [MirroredNext]_mirroredVars
    PROVE  [Mirror!MirrorNext]_(Mirror!mirrorVars)
<1>1. SyncInv /\ since \in [Jobs -> ShopState] /\ shop \in ShopState /\ shop' \in ShopState
  BY DEF MirrorInv, SyncInv, SyncTypeOK, ShopState
<1>2. CASE UNCHANGED mirroredVars
  BY <1>2 DEF mirroredVars, vars, Mirror!mirrorVars, InWork
<1>3. CASE MirroredNext
  <2>1. since' = [j \in Jobs |-> IF RequestSync(j) THEN shop ELSE since[j]]
    BY <1>3 DEF MirroredNext
  <2>2. ASSUME \A j \in Jobs : job'[j] = job[j] \/ job[j].pc # "none" PROVE since' = since
    BY <1>1, <2>1, <2>2, RequestStarts
  <2>3. ASSUME UNCHANGED job PROVE since' = since /\ InWork' = InWork
    BY <2>2, <2>3 DEF InWork
  <2>4. ASSUME NEW j \in Jobs, JobAct(j), ~CommitSync(j)
        PROVE  [Mirror!MirrorNext]_(Mirror!mirrorVars)
    BY <2>1, <2>4, JobMirrors DEF Mirror!MirrorNext
  <2>5. ASSUME NEW j \in Jobs, CommitSync(j) PROVE Mirror!MirrorNext
    <3>1. job[j].pc = "commit" /\ \A i \in Jobs \ {j} : job'[i] = job[i]
      BY <1>1, <2>5 DEF CommitSync, Sees, SetJob, SyncInv, SyncTypeOK
    <3> QED BY <2>2, <2>5, <3>1, CommitMirrors DEF Mirror!MirrorNext
  <2>6. ASSUME NEW h \in Hooks,
               HookStep(h) \/ WriteFails(h) \/ \E e \in Event : Deliver(h, e)
        PROVE  [Mirror!MirrorNext]_(Mirror!mirrorVars)
    <3>1. UNCHANGED <<job, shop, status, product>>
      BY <2>6 DEF HookStep, StoreEvent, FindOrder, WriteOrder, MarkEvent, WriteFails, Deliver
    <3>2. CASE order' = order
      BY <2>3, <3>1, <3>2 DEF Mirror!mirrorVars
    <3>3. CASE order' # order
      <4>1. /\ hook[h].pc = "write"
            /\ order' = [order EXCEPT ![hook[h].e.o] =
                           [rev |-> hook[h].e.rev, linked |-> HasProduct(hook[h].e.o)]]
        BY <2>6, <3>3
        DEF HookStep, StoreEvent, FindOrder, WriteOrder, MarkEvent, WriteFails, Deliver
      <4>2. hook[h].e.o \in Orders /\ hook[h].e.rev \in 1 .. MaxRev
        BY <1>1, <4>1, HookFields DEF SyncInv, SyncTypeOK, Event
      <4>3. status # "none" /\ hook[h].e.rev <= shop.orders[hook[h].e.o]
        BY <4>1 DEF MirrorInv, Existing, HooksHeard
      <4>4. hook[h].e.rev \in 1 .. shop.orders[hook[h].e.o]
        BY <1>1, <4>2, <4>3, SyncAssumption DEF ShopState, Revs
      <4>5. Mirror!Hear(hook[h].e.o, hook[h].e.rev)
        BY <2>3, <3>1, <4>1, <4>3, <4>4 DEF Mirror!Hear, HasProduct
      <4> QED BY <4>2, <4>4, <4>5 DEF Mirror!MirrorNext
    <3> QED BY <3>2, <3>3
  <2>7. ASSUME (\E p \in Products : AddProduct(p)) \/ \E o \in Orders : ChangeOrder(o)
        PROVE  Mirror!Grow
    <3>1. UNCHANGED <<status, product, order, job>>
      BY <2>7 DEF AddProduct, ChangeOrder
    <3>2. Before(shop, shop')
      BY <1>1, <2>7 DEF AddProduct, ChangeOrder, Before, ShopState, Revs
    <3>3. shop' \in [products : SUBSET Products, orders : [Orders -> Nat]]
      BY <1>1 DEF ShopState, Revs
    <3> QED BY <2>3, <3>1, <3>2, <3>3 DEF Mirror!Grow, Before
  <2>8. ASSUME Connect PROVE Mirror!Connect
    BY <2>3, <2>8 DEF Connect, Mirror!Connect
  <2>9. ASSUME Disconnect PROVE Mirror!Disconnect
    BY <2>3, <2>9 DEF Disconnect, Mirror!Disconnect
  <2> QED
    BY <1>3, <2>4, <2>5, <2>6, <2>7, <2>8, <2>9
    DEF MirroredNext, SyncNext, JobAct, Mirror!MirrorNext
<1> QED BY <1>2, <1>3

(* KeepsMirror: for any products, orders, jobs, attempts and requests, with*)
(* faults anywhere: queued or inline syncs and webhooks implement the      *)
(* mirror of the shop.                                                     *)
THEOREM SyncsKeepMirror == MirroredSpec => KeepsMirror
<1>1. MirroredInit => Mirror!MirrorInit
  BY DEF MirroredInit, SyncInit, Mirror!MirrorInit, InWork, NoJob, NoOrder
<1> QED
  BY <1>1, MirrorStep, MirrorInvHolds, PTL DEF MirroredSpec, KeepsMirror, Mirror!MirrorSpec

(* What the mirror promises includes that no order loses its link: a       *)
(* linked order has its product's row, and no step takes products away.    *)
LinkedHaveRows ==
    /\ order \in [Orders -> [rev : Nat, linked : BOOLEAN]]
    /\ \A o \in Orders : order[o].linked => ProductOf[o] \in product

LEMMA MirrorLinks ==
    ASSUME LinkedHaveRows, [Mirror!MirrorNext]_(Mirror!mirrorVars)
    PROVE  /\ LinkedHaveRows'
           /\ \A o \in Orders : order[o].linked => order'[o].linked
<1>1. ASSUME NEW j \in Jobs, Mirror!Succeed(j)
      PROVE  /\ LinkedHaveRows'
             /\ \A o \in Orders : order[o].linked => order'[o].linked
  <2>1. PICK P \in SUBSET Products :
           /\ Mirror!CopyProducts(P)
           /\ order' \in [Orders -> [rev : Nat, linked : BOOLEAN]]
           /\ \A o \in Orders : Mirror!CopyOrder(j, P, o) \/ order'[o] = order[o]
    BY <1>1 DEF Mirror!Succeed
  <2>2. product \subseteq product'
    BY <2>1 DEF Mirror!CopyProducts
  <2> QED BY <2>1, <2>2 DEF Mirror!CopyOrder, LinkedHaveRows
<1>2. ASSUME NEW j \in Jobs, Mirror!Fail(j) \/ Mirror!GiveUp(j) \/ Mirror!Ask(j)
      PROVE  order' = order /\ product \subseteq product'
  BY <1>2 DEF Mirror!Fail, Mirror!GiveUp, Mirror!Ask, Mirror!CopyProducts
<1>3. ASSUME NEW o \in Orders, NEW r \in 1 .. shop.orders[o], Mirror!Hear(o, r)
      PROVE  /\ LinkedHaveRows'
             /\ \A q \in Orders : order[q].linked => order'[q].linked
  <2>1. /\ order' = [order EXCEPT ![o] = [rev |-> r, linked |-> ProductOf[o] \in product]]
        /\ product' = product /\ r \in Nat
    BY <1>3 DEF Mirror!Hear
  <2>2. [rev |-> r, linked |-> ProductOf[o] \in product] \in [rev : Nat, linked : BOOLEAN]
    BY <2>1
  <2> QED BY <2>1, <2>2 DEF LinkedHaveRows
<1>4. CASE Mirror!Grow \/ Mirror!Connect \/ Mirror!Disconnect \/ UNCHANGED Mirror!mirrorVars
  BY <1>4 DEF Mirror!Grow, Mirror!Connect, Mirror!Disconnect, Mirror!mirrorVars, LinkedHaveRows
<1>5. ASSUME order' = order, product \subseteq product'
      PROVE  /\ LinkedHaveRows'
             /\ \A o \in Orders : order[o].linked => order'[o].linked
  BY <1>5 DEF LinkedHaveRows
<1> QED BY <1>1, <1>2, <1>3, <1>4, <1>5 DEF Mirror!MirrorNext

(* LinkNeverLost: whatever implements the mirror, the products of orders'  *)
(* lines stay (processOrderWebhook and upsertOrder).                       *)
THEOREM MirrorsKeepLinks == KeepsMirror => LinkNeverLost
<1>1. Mirror!MirrorInit => LinkedHaveRows
  BY DEF Mirror!MirrorInit, LinkedHaveRows
<1> QED
  BY <1>1, MirrorLinks, PTL DEF KeepsMirror, Mirror!MirrorSpec, LinkNeverLost
=============================================================================
