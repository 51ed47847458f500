# A verification project for the Nexora backend

TLA+ models of the Nexora backend (NestJS, Prisma, PostgreSQL with row-level
security, optional Redis queues), the TLC runs that check them, and theorems
about all of them that TLAPS checks. Every definition is translated from the
source; `PROJECT.json` maps each one to the lines it stands for.

## 1. The system

One API process (or several; nothing in the code assumes one) serves tenants.
A request passes `AuthGuard` and `PermissionsGuard`, becomes a `RequestContext`
and calls a service; a service does its tenant work in
`PrismaService.withTenantContext`, one interactive READ COMMITTED transaction
with `app.current_tenant_id` and `app.current_user_id` set for the row-level policies. Authentication works on
global tables outside such transactions. With `REDIS_URL` set, connector
syncs, predictions and rollups run in a worker; without it they run inline.

| Component | State it keeps | Operations | What makes it correct |
| --- | --- | --- | --- |
| IAM (`modules/iam`) | roles, role_permissions, role_assignments, `tenants.rbac_version` | create/update/delete role, set permissions (stored procedure), assign, unassign | assignments name live roles of their own tenant; what changes a permission bumps a version |
| Team (`modules/team`) | membership status, membership_permission_version | updateStatus, updateRoles, removeMember | the same, and a suspended member has no session left |
| Invitations | tenant_invitations | create, accept, resend, revoke, preview | an open invitation keeps its role alive and has a link that was mailed; accept gives exactly that role |
| Membership context, tokens, guards | the claims inside signed JWTs | resolve, signAccess, canActivate | a token that passes the version checks says nothing the tables do not |
| Sessions (`auth.service`) | user_sessions, refresh_tokens, cookies in browsers | login, refresh, logout, revokeSession | one usable refresh token per session, no one is logged out without a cause, a stale browser recovers |
| Signup (`auth.service`) | signup_verifications, users, tenants | startSignup, resend, verify | an account comes from a code that reached its address; limits hold up to overlap |
| Login lockout (`auth.service`) | failedLoginCount, lockedUntil | login | locked only by wrong passwords; logins that do not overlap are all counted |
| Database access (`prisma.service`, `setup.sql`) | settings of pooled connections, policies | withTenantContext, withUserContext | no request reads under another one's context; the policies hide nothing from it |
| Bootstrap script | last_order_at of customers | one sync per type, backfill | a customer shows the date of an order of theirs |
| Integrations, sync, webhooks | integrations, sync_runs, webhook_events, products, orders | connect, disconnect, runSync, webhook | processed means applied; links to products are kept; every job ends |
| Shopify connector | token cache | list*, normalize*, verify | a cached token outlives the listing that uses it |
| Queue and worker | BullMQ jobs | enqueue, retry | attempts are bounded |
| Analytics | daily metrics, KPI snapshots | rollup, profit, lists | a row never shows more than its day had, whoever commits last |
| Retention, profit and e-mail insights | none: computed from orders | retention, profit, insights | they agree with each other, and "before" is what was so before |
| Predictions | runs, points, insights | run, latest, patch | a line goes on as a line; the headline says what the points say |
| Recommendations | embeddings, saved recommendations | embedProducts, runCustomerRecommendations, storeStats | a vector belongs to its text; a list is one run's; segments and pairs count customers and orders |
| Files | files rows, objects in S3 | upload-url, complete, download, delete | offered means uploaded; deleted leaves nothing behind |
| Everything else | single rows | lists and single-statement writes | not modelled (section 9) |

The parts meet in the tables: IAM, team and invitations write what `resolve`
reads; `resolve` feeds login and refresh; the guard compares a token's versions
with the tables; `updateStatus` revokes sessions; a sync and a webhook write the
same orders, which analytics, predictions and retention read.

What is hard here: almost nothing locks. Handlers read, decide and write in
separate statements, the authentication code even in separate transactions, so
the interesting behaviour is what another request does in between. Crashes
matter where one handler makes several commits (sessions, webhooks), retries
where a queue or Shopify repeats a call, and time where a row or a token
expires. `PROJECT.json` lists each hazard at its line.

## 2. Modules

| Module | Models | Its state and the code's |
| --- | --- | --- |
| `Rbac` | IamService, TeamService, InvitationsService over the shared tables | one variable per column; `txn` is what a handler has read before its commit |
| `AccessTokens` (extends `Rbac`) | MembershipContextService.resolve, signAccess, AuthGuard, PermissionsGuard | `mint`, `request`: how far a resolve or a guard has read; `tokens`: signed claims |
| `Sessions` | login, refresh, logout, revokeSession, the cookie jar | rows of user_sessions and refresh_tokens; `call`: the next await of a tab's call |
| `CommerceSync` | connect, disconnect, runSync, processOrderWebhook, webhook, the queue | rows of products, orders, webhook_events, sync_runs; `job`, `hook`: work in flight |
| `Signup` | startSignup, resendSignupOtp, verifySignup | signup_verifications, users; `call`: what a call has read |
| `OrderReports` | AnalyticsService.rollup over the orders of a store | `order`, `metric`, `kpi`: rows; `roll`: the buckets a rollup has computed and not committed; `now` in ticks |
| `OrderInsights` (extends `OrderReports`) | profit, retention, the computed part of e-mail insights | operators on a set of orders and a time |
| `Files` | FilesService and the object store | `fileRow`, `object`, `uploadUrl`; `fileCall`: the next await of a request |
| `ShopToken` | resolveAccessToken and fetchAllItems of the connector | `cache`: when the cached token is thought to expire, and when it does; `listing` |
| `Embeddings` | embedProducts, AiService.embed with its retry | `text` of a product, `emb`: the text its vector is of, `embed`: the jobs |
| `Recommendations` | runCustomerRecommendations, the saved list of one customer | `recs`: rows; `rec`: what a run will save |
| `Segmentation` | rfmScores, pctile, classifySegment | `buyers`; the rest are operators |
| `Baskets` | co-purchases and repeat purchases of storeStats | `shopper`, `lines`; the rest are operators |
| `Forecast` | linearFit and PredictionsService.run | `history`: rows of daily metrics; `forecast`: the latest run |
| `ForecastRuns` | POST /predictions/run inline and by the worker, latest, storeScopeFilter | `runCall`: a request or its job; `runRows`: rows of prediction_runs with the stores they were made of |
| `LoginLockout` | login up to the session | `cred`: the columns; `login`: what a login has read before it verifies the hash |
| `TenantRows` | withTenantContext, withUserContext, the policies of setup.sql | `settings`, `inTx`: app.current_* of a connection, for its session and in its transaction; `serves`: the request it works for |
| `InvitationLinks` | create, resend, accept, revoke of InvitationsService, as far as links go | `invitation`: rows; `inviteCall`: a transaction in flight; `sent`: links in somebody's mail |
| `ShopBootstrap` | bootstrap-shopify.ts, the customers of runSync | `customerRow`, `orderRow`: rows; `boot`: the next step of the script; `atShop`: the shop |
| `SessionLedger` | abstract: what sessions and tokens may ever become | implemented by `Sessions` |
| `AccountRegistry` | abstract: what an account is made of | implemented by `Signup` |
| `ShopMirror` | abstract: what the copy of a shop promises | implemented by `CommerceSync` |
| `MirroredSync` (extends `CommerceSync`) | CommerceSync beside its promise | `since`, which no row keeps: what the shop had when each sync was asked for |
| `RbacProofs`, `AccessTokensProofs`, `SessionsProofs`, `SignupProofs`, `CommerceSyncProofs` | theorems about the module of that name, the last also about `MirroredSync` | |
| `RecordsProofs` | theorems about `LoginLockout`, `InvitationLinks`, `TenantRows`, `Files`, `ShopToken`, `Embeddings`, `Recommendations`, `Baskets` | |
| `ReportsProofs` | theorems about `OrderReports`, `OrderInsights`, `ShopBootstrap`, `ForecastRuns`, `Forecast`, `Segmentation` | |
| `ServicesProofs` | theorems about the services beside each other (`MCServices`) | |
| `MC*` | instances for TLC | |

Granularity. A handler inside one transaction is split only where another
transaction can change what it has read: PostgreSQL at READ COMMITTED gives each
statement its own snapshot, so a find and a later write are two steps, while a
write that re-checks (a foreign key, a unique index, a row lock) is decided when
it happens. `deleteRole`, `updateRoles`, `setRolePermissions` and the create and
accept of invitations therefore have a first and a last half. In `Sessions` and
`Signup`, which use no transaction across awaits, every await is a step.
Where a transaction has locked a row, `InvitationLinks` lets others wait for it
(`Unlocked`) and lets a statement miss what is not committed. `ShopBootstrap` takes
each sync as one step; their overlaps are `CommerceSync`'s subject. `TenantRows`
knows rows only by what a policy can tell apart: four kinds of table, the
tenant, the user. `Sessions` abstracts claims to a version number, because `AccessTokens` already
says what is behind it.

Numbers. Money, counts and times are small integers. `OrderReports` counts time in
ticks, some to a day, so that a window can begin anywhere in a day. `Forecast`
keeps the slope and the average as numerators over a common denominator, so
nothing is rounded that the code keeps as a fraction; `Segmentation` compares
averages by multiplying out. `ShopToken` counts in units of the 30 s after which
the transaction around a sync is aborted: the margin of the cache is two of them.

Abstract specifications. `SessionLedger` says what the two tables of sessions
promise without statements, calls or browsers: a session is opened once and
closed for good, a refresh token is issued once, to one session, and good only
while that session is active and the token has not been spent. `Sessions` maps
its tables to it by `INSTANCE SessionLedger WITH` (`KeepsLedger`): a rotation is
an issue and a spend, reuse detection spends the family and closes the session in
two steps, and no handler, however late its answer, reopens a session or makes a
token good again.
`AccountRegistry` keeps accounts and the codes that were mailed, with the address
and the password each was mailed for; an account is made once, with the password
behind a code of its own address and a slug nobody has, or by an invitation.
`Signup` maps users and mails to it (`KeepsRegistry`). This holds although the row may
be overwritten between the comparison and the insert, because the insert uses
the row as it was compared.
`ShopMirror` keeps the copy of a shop without statements, attempts, locks or a queue: a
sync that is asked for ends with everything the shop had by then (`Succeed`), with an
error and perhaps some products (`Fail`), or with nothing (`GiveUp`); its rows
appear all at once; a webhook may bring any revision the shop has had; an order that was
linked, or whose product the sync has listed, is linked after it; and a disconnected
integration comes back only by the end of a sync, which says connected together with the
copy, or error. Statements that collide, attempts that roll back and start over and
the runs they record are all stutters (`KeepsMirror`). The one thing
`CommerceSync` does not have that the promise speaks of is what the shop had when a sync was asked
for; `MirroredSync` adds it as a variable that no action reads.
"Everything the shop had" holds up to the 200 pages at which a listing stops in the
code, which is not modelled. The promise does not say that a copy is the newest:
a late webhook may put an older revision back, and so may a long sync.

Two places where a foreign key decides: `role_assignments.role_id` cascades, so
deleting a role silently removes assignments made after the count (`Cascade`);
`tenant_invitations.assigned_role_id` does not, so an invitation row, whatever
its status, keeps its role (`HeldByInvitation`).

## 3. Runs

| Run | Shows | Bounds |
| --- | --- | --- |
| `rbac` | `AssignmentsSound`, `InvitationsSound`, `ChangesAreVersioned` under two overlapping admins and two tenants | a member per tenant, a system role, a custom role of each tenant, all three scopes, 3 inserting operations, versions up to 2 |
| `tokens` | `CurrentTokenSound`, `GrantedWasHeld` | one member, a system and a custom role, one admin transaction, one resolve and one request in flight |
| `sessions` | `OneLiveToken`, `ActiveHasToken`, `ReuseWasLost`, `KeepsLedger` | two browsers, two sessions, four refresh tokens, two administrative changes, calls cut off anywhere |
| `sessions_live` | `StaleRecovers` | one browser, five tokens, three changes |
| `sync` | `ProcessedWasApplied`, `SuccessLinks`, `KeepsMirror`, `JobsEnd` | one order of one product, two jobs with two attempts, one webhook request; statements, shop and processes fail |
| `signup` | `KeepsRegistry`, `LimitsOvershoot`, `RowNotLost` | two addresses that want one slug, two overlapping calls, three codes, limits of 1 |
| `services` | each service with data of its own: the properties below | see `MCServices.cfg`, where each bound is named |
| `rbac_toggles`, `sessions_suspend`, `sync_webhook`, `signup_row`, `reports_rows` | the code departs from what a comment says (section 7) | the smallest that show it |

`services` checks thirteen parts in one run without multiplying their states:
`part` is chosen in the initial state and never changes, and only the component
it names moves. The components share no variable in the models, so nothing is
lost; what they share in the program (orders, products, daily metrics) each
model receives from its own environment actions (`SyncNewOrder`, `ItemEmbedded`,
`DayRolledUp`). What it checks:

- reports: `RollupNeverInvents` (rows and snapshot) under two overlapping
  rollups of different windows; `ReportsAgree` (profit, retention, its daily series
  and the e-mail revenue add up to one another), `PastIsKept` (the preceding
  window is what the report would have shown then, and the customers it counts
  as churned have stayed away). `ReportsAgree` also says that nobody is called
  overdue too early, rounded days or not. Two and a half days of two ticks,
  with windows of one day, are enough for an order before, on and after each
  bound of both windows;
- files: `OfferedWasUploaded`, `NoOrphanWithoutCause` for two requests on a file,
  with failing storage, late PUTs and requests that die;
- token: `TokenOutlivesListing`. It rests on the margin (60 s) being longer than a
  listing can last (30 s), and on tokens that live longer than that;
- embeddings: `AloneJobIsExact`, for jobs that die, are refused, and follow or
  overlap one another while products change;
- recommendations: `ListsAreWhole`: the delete and the insert are two commits,
  and the property says exactly when that shows (`ListIsOneRuns`, `ListIsNotLost`);
- segments and baskets: `SegmentsFollowSpending` (`VipsAreFew`,
  `DiscountDrivenSpentLeast`) and `OrdersAreCounted` (`TogetherCountsOrders`,
  `ComingBackCounts`) against counts made another way, on every store of up to
  five customers and every four order lines;
- forecast: `ForecastAgrees` (`LineGoesOn`, `HeadlineAgrees`) on every history of up
  to five days;
- rows: `NoRowOfOthers`, `PoliciesHideNothing` for two tenants, two users and one
  connection, since connections share nothing (the theorems are for any number):
  it serves one request after another, in any order, with a context, with the
  user's only, or with none, and is replaced now and then.
  The first rests on `set_config(..., true)` being local to the transaction, the
  second on the policies' null cases;
- bootstrap: `RecencyIsRight`: the date a customer shows is always one of an order
  of theirs (`RecencyIsTheirs`), and a script nobody disturbed leaves every
  customer with their last one (`BootstrapIsComplete`), with two customers who
  may be redacted, API syncs of any type, webhooks, and scripts that die;
- runs: `RunsAreFound` for two stores, two requests at once by members of any scope,
  inline or as jobs of two attempts, dying anywhere, the moment between commit
  and completion included: a forecast kept under a store is made of that store's
  sales only, one kept under none of all, and `latest` shows each member a
  forecast that fits their scope, their own or a later one if they named a store;
- login: `LockIsEarned` with two logins at once, a limit of two and a lock of two
  ticks, so that a lock runs out within the run: the count never exceeds the wrong
  passwords, a lock never comes without a full count, and logins that do not
  overlap are all counted;
- invitations: `PendingIsReachable` with two requests on three rows of one address:
  each pending invitation has a link of its own that was mailed, and there is one,
  unless two creates have overlapped.

Why these bounds are enough: every property is about two or three actors that
meet at one row. Two admins are the smallest number that can overlap, and a
third could only repeat what the second does; two tenants are needed for mixing;
the version bound of 2 leaves each counter one step, which is what "stale" and
"current" need. Two tabs, two calls, two jobs and a webhook play the same part.
The bound on inserted rows keeps the tables small; the theorems do not have it.
In `sync` the order has one revision, so a sync is behind its request when it misses the
order, not when it brings an older one; `SyncsKeepMirror` has no bound on revisions.
Every safety property of these runs is also a theorem, for every value of the
constants (section 5).

## 4. Fairness

`FairSessionSpec` assumes that a call that has reached the server gets its next
step (Node runs each continuation, PostgreSQL answers) and that a tab that was
told `token_stale` sends its refresh, as the README's client does. Nothing is
assumed of admins, users or logins. `SyncFairness` assumes the worker takes its
jobs and webhook requests go on; not that statements succeed.

## 5. What is proved

Each theorem holds for every value of the constants that the `ASSUME`s of the
modules allow, and without the bounds TLC needs (`MaxOps`, `MaxVersion` and the like
are any naturals). Every proof has the same shape: an inductive invariant, its
`...Init` and `...Next` lemmas with one step for each action, and the property from
the invariant.

`RbacProofs`:

- `RbacSafe`: `RbacTypeOK`, `AssignmentsSound` and `InvitationsSound` always hold
  (`RbacTypeCorrect` and `InvitationsKeepRoles` name two of them alone).
  `AssignmentsSound` is not inductive alone: a transaction in flight will write
  rows from what it read. `RbacInv` adds that (i) the roles a `replace` wants
  and the rows it holds stay in the member's tenant, (ii) an `invite` or
  `accept` in flight names a role of the member's tenant, (iii) every role named
  by a pending invitation is in `invited`, and (iv) every role in `invited` is
  live. (iv) is the foreign key: it is what keeps an accept, which never looks
  at the role again, from assigning a deleted one.
- `RbacVersions`: `ChangesAreVersioned`, from the same invariant.

`AccessTokensProofs`:

- `TokenTypeCorrect`, `TokensSound` (`CurrentTokenSound`) and `GrantsHeld`
  (`GrantedWasHeld`). The argument is the one made by hand: a resolve reads
  the counters before the assignments, so what it reads later is at least as new
  as the versions it signs; the invariant says, of every stage of a resolve,
  that if its counters are still the tables' then what it has read so far is
  still there. For requests it says what the guard has seen so far was held at
  its first read.

`SessionsProofs`:

- `SessionTypeCorrect`, and `SessionsKeepLedger` (`KeepsLedger`): the
  initial states map to initial states, and each await of each handler to a step of
  the ledger or to a stutter. The invariant (`SessionInv`) adds to the types that every
  token row is of a session that exists (`RowsOfSessions`), that cookie jars hold
  tokens there are rows for (`JarsHoldRows`), and, of each call in flight, that the
  session and the tokens it goes on with are such rows (`CallOK`); `Keeps` says what no
  step takes back.
- `ActiveCanRenew` (`ActiveHasToken`), for any tabs and calls. In a session that is
  active, where no call was cut off and none is closing it, some unspent token exists
  or a call at work holds the one that will replace it (`ActiveInv`). It needs to know
  what each call carries from one await to the next, that a token it has just
  inserted is nobody else's, and that a spent token has a child (`TokenInv`).
- `ReplaysWereLost` (`ReuseWasLost`) and `RotationKeepsOne` (`OneLiveToken`) have the
  hypothesis `OneCallEach`: every tab is a browser of its own, as in the run. Both
  are false without it: two tabs of one browser that refresh with the same cookie at
  once both pass the check before either spends the token, and TLC finds a session with
  two good tokens, and one that is closed although nothing was lost. The hypothesis
  is on the client, which is not in this repository; `refresh` does not enforce it.
  With it, a token a browser still uses has children that never arrived (`UsedOnce`),
  and two unspent tokens are those of one rotation between its insert and its
  update (`LiveInv`).

`SignupProofs`:

- `SignupTypeCorrect`, and `SignupKeepsRegistry` (`KeepsRegistry`). The
  invariant (`SignupInv`) says that codes are mailed in order, that whatever row the
  table holds (`RowsMailed`) or a call has compared (`CallsMailed`) has the password
  its code was mailed with, and that slugs stay in the range the search can reach.
  Distinct slugs come from the unique index at the insert, not from
  the search before it, which may be stale.
- `LimitsHold` (`LimitsOvershoot`): the counters are checked on a row read earlier.
  The invariant (`LimitInv`) adds to a counter the calls that have passed its check and
  not yet written; that sum stays below the limit plus the number of calls.
- `RowsAreKept` (`RowNotLost`).

`CommerceSyncProofs`: `SyncTypeCorrect`, `ProcessedMeansApplied` (`ProcessedWasApplied`),
`SuccessIsLinked` (`SuccessLinks`) and `LinksLast` (`LinkNeverLost`, which no run lists,
because it follows from `KeepsMirror`: `MirrorsKeepLinks`). `SyncInv` says that a
job lists orders after products and commits no row without the link that the row has or
that its own products call for (`JobOK`), that a linked order's product exists
(`LinksHaveProducts`), that whoever has written an order's row has it alone until the
commit (`HeldApart`), and that a webhook about to say "processed" has applied its
payload (`HooksApplied`).
`SyncsKeepMirror` (`KeepsMirror`) maps each step of a job or a request to a step of
`ShopMirror` or to a stutter. Its invariant (`MirrorInv`) goes on from `SyncInv`: what a job
has listed is from the shop after its request, so no older than `since`, and not ahead of the
shop (`ListingsOK`); the integration a job or a request works for has its row (`Existing`);
and a payload a request carries is a revision the shop has had (`HooksHeard`).
`CommitMirrors` is the one step where all the rows of a sync appear.

`RecordsProofs`:

- `LocksAreEarned` (`LockIsEarned`). What a login in flight has read never counts more
  than the wrong passwords there were, and a login that nothing overlaps has read
  the current row (`LoginInv`).
- `LinksReachable` (`PendingIsReachable`). `InviteInv`: links in rows and in flight are
  minted ones and apart from each other, and the link of a pending row, committed or
  about to be, was sent.
- `RequestsAreApart` (`NoRowOfOthers`) and `BackstopIsTransparent`
  (`PoliciesHideNothing`), for any number of tenants, users and connections. The
  invariant says that outside a transaction the settings of a connection are null or
  empty, and inside one either still those or the context of the request it serves.
- `OffersHold` (`OfferedWasUploaded`) and `RemovalsClean` (`NoOrphanWithoutCause`) from
  `FilesInv`: what a request that is about to set a row active, or to flag it as
  removed, has seen in the store is still true, or an erasure explains it.
- `TokensOutlive` (`TokenOutlivesListing`): the token a listing uses was handed out
  with more than a listing's time left. It needs of the constants that the margin is
  at least twice the limit of a listing, since the fetch of a token may take as
  long itself; the code's 60 s and 30 s are on that bound.
- `AloneJobsAreExact` (`AloneJobIsExact`): a job nothing overlaps has its products to
  itself, whichever of them are left, in an attempt or missed (`EmbedJobOK`).
- `SavedListsAreWhole` (`ListsAreWhole`): the rows are empty or one run's, at the ranks
  1 to n (`RowsInv`); a run between its commits has a list of its own
  (`RunsInv`). `RecommendationsTypeCorrect` and `EmbeddingsTypeCorrect` add the bounds: no rank
  beyond the limit even where runs have mixed their rows, one product of a job at the
  provider at a time.
- `PairsAreCounted` (`OrdersAreCounted`): two lines of an order with a pair of products
  map onto the orders that have both, so the count of pairs is no less than
  that of orders, and equal when no order has a product twice. The attempt corrected the
  model's property: it had claimed a repeat rate of at least 1, but a product whose
  buyers came back less often than one in 200 is listed with 0.

`ReportsProofs`. A library sum is a recursive function over finite sets that takes
out a chosen element; the module first proves what sums do (types, any element may be
taken out first, disjoint unions, monotonicity, parts, linear combinations), each
by a look at a smallest set for which the claim would fail (`SmallerSetsFirst`),
because the library's induction theorems cannot be instantiated here.

- `ForecastsAreFound` (`RunsAreFound`): every row and every call was made of the stores
  that its scope and its wish allow (`RunsFoundInv`).
- `RecencyHolds` (`RecencyIsRight`): every order row says what the shop says of it or
  has lost its customer, and while nobody disturbs the script each stage has
  what the next one reads (`BootInv`).
- `RollupsInventNothing` (`RollupNeverInvents`): a row, the snapshot and whatever a
  rollup holds uncommitted are at most the sums over all orders with that day
  (`RollupInv`), and those sums only grow (`SumsGrow`).
- `PastStays` (`PastIsKept`), and `EndpointsAgree` (`ReportsAgree`): the same window cuts
  out the same orders in three services, and a sum over days is the sum over their union.
  `ReportsTypeCorrect`.
- `SegmentsFollow` (`SegmentsFollowSpending`): the element at p percent has more than p
  percent of the customers at or below it (`PlaceIsTaken`, `FewSpendMore`), a score of 4
  or 5 passes one of the two upper bounds, and the six earlier rules leave nobody to
  "discount-driven" who has passed any bound for spending (`DiscountLast`).
- `ForecastsAgree` (`ForecastAgrees`): sums are linear, so the fit of days on a line finds
  its step (`LineIsFound`); n * SumXX - SumX^2 is positive from two days on
  (`DenomIsPositive`), so a point differs from the average in the direction of the slope
  (`TrendTells`), and a decline needs a day with sales.

`ServicesProofs`: a step of `MCServices` is a step of the service whose turn it is
and leaves the tables of the others alone (`EachMoves`), so a behaviour of them all is a
behaviour of each (`EachBehaves`). `ServicesTypeCorrect` (`ServicesTypeOK`) and
`ServicesKeepPromises`, the other properties of the run, follow from the theorems about
each service, and say of the run's own specification, at any size, what
TLC says of its instance.

Assumptions: the `ASSUME`s of the modules, and `OneCallEach` in the two theorems that
name it. TLC evaluates the `ASSUME`s in the runs. They give
the constants the types the schema gives them (null, the empty string, "no text"
and the anonymous shopper are no ids; prices, sales and counts are not negative), say
that there is something to do (a file, a row) and that the sets counted are finite,
and fix the one relation between the code's numbers that a proof needs: the margin of
the token cache is at least two listings long, and a token lives longer than one.

## 6. What is only model-checked

Liveness (`StaleRecovers`, `JobsEnd`): it rests on fairness and on what is ENABLED, which
the installed provers do not reach. The runs that expect a violation show their
counterexamples by TLC alone.

## 7. Where the code departs from its comments

See `findings` in `PROJECT.json`: permission toggles that merge, a session that
survives a suspension, webhooks that are dropped while an integration is in
error, a signup row that outlives its account, and a rollup that replaces a full
day by a part of it. The passing properties name two more as exceptions: `ChangesAreVersioned` and `CurrentTokenSound` except
roles deleted under an assignment that `deleteRole` had not counted (the
cascade bumps no version), and `ReuseWasLost` excepts a refresh whose `resolve`
throws after the rotation. In the reports, `TogetherCountsOrders` and
`ComingBackCounts` hold as stated because they allow for a product on two lines of
an order, which the code counts as a pair with itself and as a repeat. The comment
"churned as-of the previous window end" (`subscriptions.module.ts:117`) is meant
of today's last orders: who has come back since is not counted
(`PrevChurnedStayedAway` says which customers are).

Met while modelling, and not the subject of a run:

- `setup.sql:113` says that the application works under a role the policies bind
  as it does under one they do not. `PoliciesHideNothing` shows it for everything
  that runs within a context. Statements without one (`preview` and `accept` of an
  invitation, the memberships `verifySignup` writes, the receiver's search
  for an integration, the owner the bootstrap script looks for) would find or
  store nothing under such a role. `product_embeddings` and
  `product_recommendations` are in none of the lists of tables in `setup.sql`.
- A customer sync writes `last_order_at` with null, since Shopify does not
  tell it. The dates the bootstrap script derived are gone with the next sync until
  the script runs again; `RecencyIsTheirs` allows for null.
- A wrong password that read its row before others wrote theirs writes a lower
  count and no lock: `LockIsEarned` claims a lock only for logins that do not
  overlap.
- `audit.record` called inside a transaction uses another connection: its row stays
  when the transaction is rolled back.
- A queued prediction is made under the context `ctxFromJob` rebuilds, which does
  not know the scope of who asked: a member of some stores who names none gets a
  forecast of all stores from the worker and of theirs inline. Either is kept
  under no store, where `latest` never shows it to them; `RunsAreFound` excepts
  these runs. The comment of `storeScopeFilter` says that a store out of scope
  "yields no rows"; `'__forbidden__'` is no uuid and the query fails.
- A mail sent by `create` or `resend` may hold a link no row has, when the
  transaction does not commit; the earlier link then still works.

## 8. Plan

1. `Rbac`, `AccessTokens`, their proofs (done).
2. `Sessions`, `CommerceSync`, `Signup` (done).
3. `OrderReports`, `OrderInsights`, `Files`, `ShopToken`, `Embeddings`,
   `Recommendations`, `Segmentation`, `Baskets`, `Forecast` (done).
4. `LoginLockout`, `InvitationLinks`, `TenantRows`, `ShopBootstrap`, `ForecastRuns`; `SessionLedger` and
   `AccountRegistry` with their refinements; proofs for `Sessions`, `Signup`,
   `TenantRows` (done).
5. Proofs of the safety properties of `CommerceSync`, of the rest of `Sessions` and
   `Signup`, and of the modules of `services` (done).
6. `ShopMirror` with its refinement; the services beside each other (done).
7. Contracts, top products, the page loop of the connector.

## 9. What is not modelled

Lists and single-statement writes (stores, inventory, segments, marketing,
saved reports, fraud, dashboard, campaigns), the audit log, mail, encryption and
hashing, HTTP validation and formatting, configuration, seeds. How PostgreSQL
evaluates a policy, keeps a local setting and takes row locks is taken as its
documentation has it (`Reverted`, `Unlocked`); which rows a service asks for is taken
from its filters. The connector's wire format is outside, and so is what the AI providers answer.
