---------------------------- MODULE CommerceSync ----------------------------
(***************************************************************************)
(* The copy of a Shopify shop that an integration keeps: the queued (or    *)
(* inline) runSync jobs, the order webhooks, disconnect, and the orders    *)
(* with the products their items refer to.                                 *)
(*                                                                         *)
(* runSync is one transaction around several HTTP calls and all its        *)
(* writes; processOrderWebhook is one around a find and a write.  What a   *)
(* transaction finds, it finds before it writes; the rows it writes are    *)
(* locked until it commits.                                                *)
(***************************************************************************)
EXTENDS Naturals, FiniteSets

CONSTANTS
    Products, Orders,  \* external ids
    ProductOf,         \* the product an order's item names
    Jobs,              \* connector-sync jobs
    Hooks,             \* webhook requests that may run at the same time
    MaxAttempts,       \* of a job: 3 with Redis, 1 when it runs inline
    Faults,            \* may statements fail and processes die
    ConnectorFaults,   \* may the shop answer with an error
    MaxRev             \* bound: revisions of an order in the shop

ASSUME SyncAssumption ==
    /\ ProductOf \in [Orders -> Products]
    /\ MaxAttempts \in Nat \ {0}
    /\ Faults \in BOOLEAN /\ ConnectorFaults \in BOOLEAN
    /\ MaxRev \in Nat

VARIABLES
    shop,      \* external: the shop's products and the revision of each order
    status,    \* tenant_integrations.status; "none" is no row
    product,   \* the products with a row
    order,     \* the orders; rev 0 is no row
    event,     \* webhook_events.status by event
    run,       \* sync_runs.status by job: others never see "running"
    job,       \* the jobs
    hook,      \* the webhook requests
    applied    \* no program state: events whose payload has been written

vars == <<shop, status, product, order, event, run, job, hook, applied>>

Revs == 0 .. MaxRev
NoOrder == [rev |-> 0, linked |-> FALSE]

(* Shopify sends one event per change of an order, with the whole order.   *)
Event == [o: Orders, rev: 1 .. MaxRev]

NoHook == [pc |-> "idle"]
Hook == {NoHook}
    \cup [pc: {"store"}, e: Event, found: BOOLEAN]
    \cup [pc: {"find", "processed", "failed"}, e: Event]
    \cup [pc: {"write"}, e: Event, fresh: BOOLEAN]

(* listed* is what Shopify answered, new* what had no row at the find.     *)
JobState ==
    [pc: {"none", "waiting", "products", "findProducts", "writeProducts", "orders",
          "findOrders", "writeOrders", "commit", "completed", "dead"},
     attempts: 0 .. MaxAttempts, failed: BOOLEAN,
     listedP: SUBSET Products, newP: SUBSET Products,
     listedO: [Orders -> Revs], newO: SUBSET Orders, linked: SUBSET Orders]

NoJob == [pc |-> "none", attempts |-> 0, failed |-> FALSE,
          listedP |-> {}, newP |-> {},
          listedO |-> [o \in Orders |-> 0], newO |-> {}, linked |-> {}]

SyncTypeOK ==
    /\ shop \in [products: SUBSET Products, orders: [Orders -> Revs]]
    /\ status \in {"none", "connected", "error", "revoked"}
    /\ product \subseteq Products
    /\ order \in [Orders -> [rev: Revs, linked: BOOLEAN]]
    /\ event \in [Event -> {"none", "received", "processed", "failed"}]
    /\ run \in [Jobs -> {"none", "success", "failed"}]
    /\ job \in [Jobs -> JobState]
    /\ hook \in [Hooks -> Hook]
    /\ applied \subseteq Event

SyncInit ==
    /\ shop = [products |-> {}, orders |-> [o \in Orders |-> 0]]
    /\ status = "none"
    /\ product = {}
    /\ order = [o \in Orders |-> NoOrder]
    /\ event = [e \in Event |-> "none"]
    /\ run = [j \in Jobs |-> "none"]
    /\ job = [j \in Jobs |-> NoJob]
    /\ hook = [h \in Hooks |-> NoHook]
    /\ applied = {}

HasRow(o) == order[o].rev # 0
Listed(j) == {o \in Orders : job[j].listedO[o] # 0}

(* The rows a job has written and not committed.                           *)
HeldProducts == UNION {job[j].listedP : j \in {i \in Jobs :
                   job[i].pc \in {"orders", "findOrders", "writeOrders", "commit"}}}
HeldOrders == UNION {Listed(j) : j \in {i \in Jobs : job[i].pc = "commit"}}

-----------------------------------------------------------------------------
(* The shop, external                                                      *)

AddProduct(p) ==
    /\ p \notin shop.products
    /\ shop' = [shop EXCEPT !.products = @ \cup {p}]
    /\ UNCHANGED <<status, product, order, event, run, job, hook, applied>>

ChangeOrder(o) ==
    /\ ProductOf[o] \in shop.products
    /\ shop.orders[o] < MaxRev
    /\ shop' = [shop EXCEPT !.orders[o] = @ + 1]
    /\ UNCHANGED <<status, product, order, event, run, job, hook, applied>>

-----------------------------------------------------------------------------
(* The queue: runSync of the controller adds a job, the worker takes it    *)

Sees(j, pc) == job[j].pc = pc
SetJob(j, s) == job' = [job EXCEPT ![j] = s]

RequestSync(j) ==
    /\ status # "none"
    /\ Sees(j, "none")
    /\ SetJob(j, [NoJob EXCEPT !.pc = "waiting"])
    /\ UNCHANGED <<shop, status, product, order, event, run, hook, applied>>

(* The integration is read here, and only has to exist.                    *)
TakeJob(j) ==
    /\ Sees(j, "waiting")
    /\ SetJob(j, [NoJob EXCEPT !.pc = "products", !.attempts = job[j].attempts + 1])
    /\ UNCHANGED <<shop, status, product, order, event, run, hook, applied>>

(* An exception ends the attempt and rolls it back; BullMQ tries again.    *)
ThrownOnceMore(j) ==
    [NoJob EXCEPT !.pc = IF job[j].attempts <= MaxAttempts THEN "waiting" ELSE "dead",
                  !.attempts = job[j].attempts]
ThrownForever(j) == [NoJob EXCEPT !.pc = "waiting"]
Thrown(j) ==
    [NoJob EXCEPT !.pc = IF job[j].attempts < MaxAttempts THEN "waiting" ELSE "dead",
                  !.attempts = job[j].attempts]

ThrowSync(j) ==
    /\ Faults
    /\ job[j].pc \notin {"none", "waiting", "completed", "dead"}
    /\ SetJob(j, Thrown(j))
    /\ UNCHANGED <<shop, status, product, order, event, run, hook, applied>>

-----------------------------------------------------------------------------
(* SyncService.runSync, for syncType full                                  *)

ListProducts(j) ==
    /\ Sees(j, "products")
    /\ SetJob(j, [job[j] EXCEPT !.pc = "findProducts", !.listedP = shop.products])
    /\ UNCHANGED <<shop, status, product, order, event, run, hook, applied>>

FindProducts(j) ==
    /\ Sees(j, "findProducts")
    /\ SetJob(j, [job[j] EXCEPT !.pc = "writeProducts", !.newP = job[j].listedP \ product])
    /\ UNCHANGED <<shop, status, product, order, event, run, hook, applied>>

(* A create whose row has appeared since the find breaks a unique index:   *)
(* that aborts the transaction, and the catch block throws as well.        *)
WriteProducts(j) ==
    /\ Sees(j, "writeProducts")
    /\ job[j].listedP \cap HeldProducts = {}
    /\ SetJob(j, IF job[j].newP \cap product # {} THEN Thrown(j)
                 ELSE [job[j] EXCEPT !.pc = "orders"])
    /\ UNCHANGED <<shop, status, product, order, event, run, hook, applied>>

ListOrders(j) ==
    /\ Sees(j, "orders")
    /\ SetJob(j, [job[j] EXCEPT !.pc = "findOrders", !.listedO = shop.orders])
    /\ UNCHANGED <<shop, status, product, order, event, run, hook, applied>>

FindOrders(j) ==
    /\ Sees(j, "findOrders")
    /\ SetJob(j, [job[j] EXCEPT !.pc = "writeOrders",
                                !.newO = {o \in Listed(j) : ~HasRow(o)}])
    /\ UNCHANGED <<shop, status, product, order, event, run, hook, applied>>

CommittedOnly(j) == product
VisibleProducts(j) == product \cup job[j].listedP

(* The items are written after the order's row, and are linked to the      *)
(* products that are visible by then: committed ones and the job's own.    *)
WriteOrders(j) ==
    /\ Sees(j, "writeOrders")
    /\ Listed(j) \cap HeldOrders = {}
    /\ SetJob(j, IF \E o \in job[j].newO : HasRow(o) THEN Thrown(j)
                 ELSE [job[j] EXCEPT !.pc = "commit",
                         !.linked = {o \in Listed(j) :
                                       ProductOf[o] \in VisibleProducts(j)}])
    /\ UNCHANGED <<shop, status, product, order, event, run, hook, applied>>

ErrorSwallowed(j) ==
    /\ ConnectorFaults
    /\ job[j].pc \in {"products", "orders"}
    /\ SetJob(j, [job[j] EXCEPT !.pc = "commit"])
    /\ UNCHANGED <<shop, status, product, order, event, run, hook, applied>>

(* The connector throws: the catch block keeps what was written so far.    *)
ConnectorFails(j) ==
    /\ ConnectorFaults
    /\ job[j].pc \in {"products", "orders"}
    /\ SetJob(j, [job[j] EXCEPT !.pc = "commit", !.failed = TRUE])
    /\ UNCHANGED <<shop, status, product, order, event, run, hook, applied>>

CommitSync(j) ==
    /\ Sees(j, "commit")
    /\ product' = product \cup job[j].listedP
    /\ order' = [o \in Orders |->
                   IF o \in Listed(j)
                   THEN [rev |-> job[j].listedO[o], linked |-> o \in job[j].linked]
                   ELSE order[o]]
    /\ run' = [run EXCEPT ![j] = IF job[j].failed THEN "failed" ELSE "success"]
    /\ status' = IF job[j].failed THEN "error" ELSE "connected"
    /\ SetJob(j, [job[j] EXCEPT !.pc = "completed"])
    /\ UNCHANGED <<shop, event, hook, applied>>

-----------------------------------------------------------------------------
(* IntegrationsService.connect and disconnect                              *)

(* The row and its credentials are created together, once: the unique      *)
(* index over the credentials' shop domain refuses the same shop a second  *)
(* time, a revoked one included.                                           *)
Connect ==
    /\ status = "none"
    /\ status' = "connected"
    /\ UNCHANGED <<shop, product, order, event, run, job, hook, applied>>

Disconnect ==
    /\ status # "none"
    /\ status' = "revoked"
    /\ UNCHANGED <<shop, product, order, event, run, job, hook, applied>>

-----------------------------------------------------------------------------
(* IntegrationsController.webhook with a valid signature and an orders/    *)
(* topic.  Shopify delivers at least once and in any order, to a shop that *)
(* has been set up.                                                        *)

SetHook(h, s) == hook' = [hook EXCEPT ![h] = s]

Deliver(h, e) ==
    /\ status # "none"
    /\ hook[h] = NoHook
    /\ e.rev <= shop.orders[e.o]
    /\ SetHook(h, [pc |-> "store", e |-> e, found |-> status = "connected"])
    /\ UNCHANGED <<shop, status, product, order, event, run, job, applied>>

(* The upsert; without a connected integration nothing follows.            *)
StoreEvent(h) ==
    /\ hook[h].pc = "store"
    /\ event' = [event EXCEPT ![hook[h].e] = "received"]
    /\ SetHook(h, IF hook[h].found THEN [pc |-> "find", e |-> hook[h].e]
                  ELSE NoHook)
    /\ UNCHANGED <<shop, status, product, order, run, job, applied>>

FindOrder(h) ==
    /\ hook[h].pc = "find"
    /\ SetHook(h, [pc |-> "write", e |-> hook[h].e, fresh |-> ~HasRow(hook[h].e.o)])
    /\ UNCHANGED <<shop, status, product, order, event, run, job, applied>>

NeverLinked(o) == FALSE
HasProduct(o) == ProductOf[o] \in product

(* Like WriteOrders and its commit; here the exception of a collision is   *)
(* caught outside the transaction.                                         *)
WriteOrder(h) ==
    /\ hook[h].pc = "write"
    /\ hook[h].e.o \notin HeldOrders
    /\ LET e == hook[h].e IN
         IF hook[h].fresh /\ HasRow(e.o)
         THEN /\ SetHook(h, [pc |-> "failed", e |-> e])
              /\ UNCHANGED <<order, applied>>
         ELSE /\ order' = [order EXCEPT ![e.o] =
                             [rev |-> e.rev, linked |-> HasProduct(e.o)]]
              /\ applied' = applied \cup {e}
              /\ SetHook(h, [pc |-> "processed", e |-> e])
    /\ UNCHANGED <<shop, status, product, event, run, job>>

(* A statement of the transaction fails for any other reason.              *)
WriteFails(h) ==
    /\ Faults
    /\ hook[h].pc \in {"find", "write"}
    /\ SetHook(h, [pc |-> "failed", e |-> hook[h].e])
    /\ UNCHANGED <<shop, status, product, order, event, run, job, applied>>

Processed(h) == "processed"
Outcome(h) == hook[h].pc

MarkEvent(h) ==
    /\ hook[h].pc \in {"processed", "failed"}
    /\ event' = [event EXCEPT ![hook[h].e] = Outcome(h)]
    /\ SetHook(h, NoHook)
    /\ UNCHANGED <<shop, status, product, order, run, job, applied>>

-----------------------------------------------------------------------------
SyncStep(j) ==
    \/ TakeJob(j)
    \/ ListProducts(j) \/ FindProducts(j) \/ WriteProducts(j)
    \/ ListOrders(j) \/ FindOrders(j) \/ WriteOrders(j)
    \/ CommitSync(j)

HookStep(h) == StoreEvent(h) \/ FindOrder(h) \/ WriteOrder(h) \/ MarkEvent(h)

SyncNext ==
    \/ \E p \in Products : AddProduct(p)
    \/ \E o \in Orders : ChangeOrder(o)
    \/ \E j \in Jobs : RequestSync(j) \/ SyncStep(j) \/ ThrowSync(j) \/ ConnectorFails(j)
    \/ \E h \in Hooks : \/ \E e \in Event : Deliver(h, e)
                        \/ HookStep(h) \/ WriteFails(h)
    \/ Connect \/ Disconnect

SyncSpec == SyncInit /\ [][SyncNext]_vars

(* The worker and the event loop keep going.                               *)
SyncFairness ==
    /\ \A j \in Jobs : WF_vars(SyncStep(j))
    /\ \A h \in Hooks : WF_vars(HookStep(h))

-----------------------------------------------------------------------------
(* Properties                                                              *)

(* An event is "processed" only if its payload reached the orders table,   *)
(* whatever collided with its write; a redelivery does not undo that.      *)
ProcessedWasApplied == \A e \in Event : event[e] = "processed" => e \in applied

(* A successful full sync links the items of every order it listed to the  *)
(* product it listed: upsertOrder can only link what is there already.     *)
SuccessLinks ==
    [][\A j \in Jobs :
         run[j] = "none" /\ run'[j] = "success" =>
             \A o \in Orders :
                 job[j].listedO[o] # 0 /\ ProductOf[o] \in job[j].listedP =>
                     order'[o].linked]_vars

(* An order whose items are linked to their product stays linked: stale    *)
(* payloads of webhooks and syncs rewrite the items, but they look the     *)
(* product up after they have the order's row to themselves.  (ShopMirror  *)
(* promises it too, and more.)                                             *)
LinkNeverLost ==
    [][\A o \in Orders : order[o].linked => order'[o].linked]_vars

(* Every accepted sync ends, recorded or given up after its attempts, even *)
(* when it keeps colliding with webhooks and other syncs.                  *)
JobsEnd ==
    \A j \in Jobs : Sees(j, "waiting") ~> job[j].pc \in {"completed", "dead"}

(* The comment of webhook: it "then processes order topics into the        *)
(* canonical `Order` table".  A stored event of an integration that nobody *)
(* disconnected has been applied once no request is at work on it.         *)
WebhooksReachOrders ==
    \A e \in Event :
        /\ event[e] # "none"
        /\ status # "revoked"
        /\ \A h \in Hooks : hook[h] # NoHook => hook[h].e # e
        => e \in applied
=============================================================================
