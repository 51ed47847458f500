---------------------------- MODULE ForecastRuns ----------------------------
(* POST /predictions/run from the request to the row of prediction_runs,   *)
(* in the request itself or by a worker, and latest: which stores a run is *)
(* made of, under which store it is kept, and who is shown it.  Forecast   *)
(* has its numbers.                                                        *)
EXTENDS Naturals, FiniteSets

CONSTANTS
    RunStores,
    AnyStore,       \* no store is named; in a row, store_id is null
    RunCalls,       \* requests at once
    RunAttempts,    \* attempts of a job
    MostRuns        \* bound: runs that get a generated_at

ASSUME ForecastRunsAssumption ==
    AnyStore \notin RunStores /\ RunAttempts \in Nat \ {0} /\ MostRuns \in Nat

VARIABLES
    redis,          \* is REDIS_URL set?  Never changes.
    runCall,        \* of a request or its job: its step, the store it names,
                    \* the scope of who asks, attempts left, what it has read
    runRows,        \* prediction_runs; asker is no column
    stamps          \* generated_at, counted

runVars == <<redis, runCall, runRows, stamps>>

-----------------------------------------------------------------------------
(* The stores of a context: none listed means all.                         *)
StoreScopes == SUBSET RunStores
Reach(scope) == IF scope = {} THEN RunStores ELSE scope

(* storeScopeFilter.  For a store out of reach it asks for an id that is   *)
(* none, which a uuid column refuses: the query fails.                     *)
OutOfReach(scope, asked) == asked # AnyStore /\ asked \notin Reach(scope)
ScopeFirst(scope, asked) ==
    IF scope # {} \/ asked = AnyStore THEN Reach(scope) ELSE {asked}
StoresOf(scope, asked) == IF asked = AnyStore THEN Reach(scope) ELSE {asked}

(* ctxFromJob: the store of the job, not the scope of who asked.           *)
ContextScope(c) ==
    IF ~redis THEN c.scope ELSE IF c.asked = AnyStore THEN {} ELSE {c.asked}

NoRunCall == [step |-> "idle", asked |-> AnyStore, scope |-> {}, left |-> 0, over |-> {}, at |-> 0]

ForecastRunsTypeOK ==
    /\ redis \in BOOLEAN
    /\ runCall \in [RunCalls ->
           [step : {"idle", "waiting", "read", "stamped", "committed"},
            asked : RunStores \cup {AnyStore}, scope : StoreScopes, left : 0 .. RunAttempts,
            over : SUBSET RunStores, at : 0 .. MostRuns]]
    /\ runRows \subseteq
           [store : RunStores \cup {AnyStore}, over : SUBSET RunStores, at : 1 .. MostRuns,
            asker : StoreScopes]
    /\ stamps \in 0 .. MostRuns

ForecastRunsInit ==
    /\ redis \in BOOLEAN
    /\ runCall = [x \in RunCalls |-> NoRunCall]
    /\ runRows = {}
    /\ stamps = 0

-----------------------------------------------------------------------------
RunStep(x, from, c) ==
    /\ runCall[x].step = from
    /\ runCall' = [runCall EXCEPT ![x] = c]
    /\ UNCHANGED redis

(* The controller: a job, or the work itself.                              *)
AskRun(x, scope, asked) ==
    /\ stamps < MostRuns
    /\ RunStep(x, "idle", [NoRunCall EXCEPT !.step = "waiting", !.asked = asked, !.scope = scope,
                                            !.left = IF redis THEN RunAttempts ELSE 1])
    /\ UNCHANGED <<runRows, stamps>>

RunReads(x) ==
    LET c == runCall[x] IN
    /\ ~OutOfReach(ContextScope(c), c.asked)
    /\ RunStep(x, "waiting", [c EXCEPT !.step = "read", !.left = @ - 1,
                                       !.over = StoresOf(ContextScope(c), c.asked)])
    /\ UNCHANGED <<runRows, stamps>>

RunRefused(x) ==
    /\ OutOfReach(ContextScope(runCall[x]), runCall[x].asked)
    /\ RunStep(x, "waiting", NoRunCall)
    /\ UNCHANGED <<runRows, stamps>>

RunStamps(x) ==
    /\ stamps < MostRuns
    /\ stamps' = stamps + 1
    /\ RunStep(x, "read", [runCall[x] EXCEPT !.step = "stamped", !.at = stamps + 1])
    /\ UNCHANGED runRows

RunCommits(x) ==
    LET c == runCall[x] IN
    /\ RunStep(x, "stamped", IF redis THEN [c EXCEPT !.step = "committed"] ELSE NoRunCall)
    /\ runRows' = runRows \cup {[store |-> c.asked, over |-> c.over, at |-> c.at, asker |-> c.scope]}
    /\ UNCHANGED stamps

JobCompletes(x) ==
    /\ RunStep(x, "committed", NoRunCall)
    /\ UNCHANGED <<runRows, stamps>>

(* The process or the transaction ends.  A job is tried again, one that    *)
(* has committed without being marked as completed included.               *)
RunDies(x) ==
    LET c == runCall[x] IN
    /\ c.step # "idle"
    /\ RunStep(x, c.step, IF redis /\ c.left > 0
                          THEN [c EXCEPT !.step = "waiting", !.over = {}, !.at = 0]
                          ELSE NoRunCall)
    /\ UNCHANGED <<runRows, stamps>>

ForecastRunsNext ==
    \E x \in RunCalls :
       \/ \E scope \in StoreScopes, asked \in RunStores \cup {AnyStore} : AskRun(x, scope, asked)
       \/ RunReads(x) \/ RunRefused(x) \/ RunStamps(x) \/ RunCommits(x)
       \/ JobCompletes(x) \/ RunDies(x)

-----------------------------------------------------------------------------
(* latest: by the same filter, the row with the last generated_at.         *)
Shown(scope, asked) ==
    {r \in runRows :
        IF asked # AnyStore THEN r.store = asked /\ ~OutOfReach(scope, asked)
        ELSE scope = {} \/ r.store \in scope}
IsLatest(r, scope, asked) ==
    r \in Shown(scope, asked) /\ \A q \in Shown(scope, asked) : q.at <= r.at

(* A forecast kept under a store is made of that store's sales and of no   *)
(* other's, whether it was made in a request or, tried once or twice, by a *)
(* worker; one under no store is made of all, but for those that a member  *)
(* of some stores asked for and got at once.  So whoever is restricted to  *)
(* some stores is shown forecasts of one of them only, and finds the one   *)
(* they asked for, or a later one, if they named the store.                *)
RunsAreFound ==
    /\ \A r \in runRows :
          /\ r.store # AnyStore => r.over = {r.store}
          /\ r.store = AnyStore /\ (redis \/ r.asker = {}) => r.over = RunStores
          /\ r.store # AnyStore /\ ~OutOfReach(r.asker, r.store) =>
                \E q \in runRows : q.at >= r.at /\ IsLatest(q, r.asker, r.store)
    /\ \A scope \in StoreScopes \ {{}}, asked \in RunStores \cup {AnyStore}, r \in runRows :
          IsLatest(r, scope, asked) => r.over \subseteq scope /\ Cardinality(r.over) = 1
=============================================================================
