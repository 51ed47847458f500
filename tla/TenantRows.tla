----------------------------- MODULE TenantRows -----------------------------
(* Row-level security: the request context that PrismaService puts on a    *)
(* pooled connection for one transaction, and the policies of setup.sql    *)
(* that read it.  Rows are what the policies look at: the kind of table,   *)
(* the tenant, the user.                                                   *)
CONSTANTS
    Tenants,
    Members,        \* users
    Conns,          \* connections to the database, shared by all requests
    Null,           \* no tenant (a platform row), no user, and SQL's null
    Empty           \* the empty string

ASSUME TenantRowsAssumption ==
    /\ Null \notin Tenants \cup Members
    /\ Empty \notin Tenants \cup Members

VARIABLES
    settings,       \* of a connection: app.current_* as its session has them
    inTx,           \* of a connection: app.current_* within its transaction
    serves          \* of a connection: the request it works for, or Free

rowVars == <<settings, inTx, serves>>

-----------------------------------------------------------------------------
(* A setting is null before it was ever set and the empty string after a   *)
(* transaction that had set it has ended.                                  *)
Settings == [tenant : Tenants \cup {Null, Empty}, user : Members \cup {Null, Empty}]
Unset == [tenant |-> Null, user |-> Null]

(* withTenantContext, where the user may be missing; withUserContext; and  *)
(* the statements and transactions that run without either.                *)
Contexts ==
    [kind : {"tenant"}, tenant : Tenants, user : Members \cup {Empty}]
        \cup [kind : {"user"}, tenant : {Null}, user : Members]
        \cup [kind : {"plain"}, tenant : {Null}, user : {Null}]
Free == [kind |-> "free", tenant |-> Null, user |-> Null]

(* app.current_tenant_id and app.current_user_id: nullif(setting, '').     *)
NullIf(v) == IF v = Empty THEN Null ELSE v
CurrentTenant(c) == NullIf(inTx[c].tenant)
CurrentUser(c) == NullIf(inTx[c].user)

Row ==
    [table : {"owned", "nullable", "rbac"}, tenant : Tenants \cup {Null}, user : {Null}]
        \cup [table : {"membership"}, tenant : Tenants, user : Members]

(* An equality with null is not true.                                      *)
OfTenant(c, r) == CurrentTenant(c) # Null /\ r.tenant = CurrentTenant(c)
OfUser(c, r) == CurrentUser(c) # Null /\ r.user = CurrentUser(c)

(* USING of the policies: the rows a statement finds.                      *)
FindsNoNull(c, r) ==
    \/ OfTenant(c, r)
    \/ r.table = "membership" /\ OfUser(c, r)
    \/ r.table = "nullable" /\ r.tenant = Null
Finds(c, r) ==
    \/ OfTenant(c, r)
    \/ r.table = "membership" /\ OfUser(c, r)
    \/ r.table \in {"nullable", "rbac"} /\ r.tenant = Null

(* WITH CHECK of the policies: the rows a statement may leave behind.      *)
MayStore(c, r) ==
    \/ OfTenant(c, r)
    \/ r.table = "nullable" /\ r.tenant = Null

-----------------------------------------------------------------------------
(* What the services ask for and store within a context: every where and   *)
(* every row names the tenant of the context, except that permissions may  *)
(* be the platform's, and that pickTenant and bootstrap list the user's    *)
(* memberships of all tenants.                                             *)
Asks(ctx, r) ==
    CASE ctx.kind = "tenant" ->
            r.tenant = ctx.tenant \/ (r.table = "rbac" /\ r.tenant = Null)
      [] ctx.kind = "user" -> r.table = "membership" /\ r.user = ctx.user
      [] OTHER -> FALSE
Stores(ctx, r) == ctx.kind = "tenant" /\ r.tenant = ctx.tenant

(* Whose rows a request may come across.                                   *)
MaySee(ctx, r) ==
    \/ r.tenant = Null
    \/ r.tenant = ctx.tenant
    \/ r.user # Null /\ r.user = ctx.user

-----------------------------------------------------------------------------
TenantRowsInit ==
    /\ settings = [c \in Conns |-> Unset]
    /\ inTx = settings
    /\ serves = [c \in Conns |-> Free]

(* A request begins its transaction (or its one statement) on whatever     *)
(* connection is free.                                                     *)
RowsBegin(c, ctx) ==
    /\ serves[c] = Free
    /\ serves' = [serves EXCEPT ![c] = ctx]
    /\ UNCHANGED <<settings, inTx>>

(* The set_config calls of the two helpers: local to the transaction.      *)
ContextOf(c) ==
    LET ctx == serves[c] IN
    IF ctx.kind = "tenant" THEN [tenant |-> ctx.tenant, user |-> ctx.user]
    ELSE [inTx[c] EXCEPT !.user = ctx.user]
SetConfig(c) ==
    /\ serves[c].kind \in {"tenant", "user"}
    /\ inTx[c] = settings[c]
    /\ inTx' = [inTx EXCEPT ![c] = ContextOf(c)]
    /\ UNCHANGED <<settings, serves>>

(* Commit or rollback, after an error, the time limit of a transaction or  *)
(* a lost client: local settings go, and leave the empty string where      *)
(* nothing had been set before.                                            *)
KeptForSession(c) == inTx[c]
Reverted(c) ==
    [f \in {"tenant", "user"} |-> IF inTx[c][f] # settings[c][f] THEN Empty ELSE settings[c][f]]
RowsEnd(c) ==
    /\ serves[c] # Free
    /\ settings' = [settings EXCEPT ![c] = Reverted(c)]
    /\ inTx' = [inTx EXCEPT ![c] = Reverted(c)]
    /\ serves' = [serves EXCEPT ![c] = Free]

(* The pool closes a connection and opens another in its place.            *)
Reconnect(c) ==
    /\ serves[c] = Free
    /\ settings' = [settings EXCEPT ![c] = Unset]
    /\ inTx' = [inTx EXCEPT ![c] = Unset]
    /\ UNCHANGED serves

TenantRowsNext ==
    \E c \in Conns :
       \/ \E ctx \in Contexts : RowsBegin(c, ctx)
       \/ SetConfig(c) \/ RowsEnd(c) \/ Reconnect(c)

TenantRowsSpec == TenantRowsInit /\ [][TenantRowsNext]_rowVars

-----------------------------------------------------------------------------
(* Properties                                                              *)

TenantRowsTypeOK ==
    /\ settings \in [Conns -> Settings]
    /\ inTx \in [Conns -> Settings]
    /\ serves \in [Conns -> Contexts \cup {Free}]

(* Where the policies are active, a statement comes across the rows of its *)
(* own request only: never those of the tenant or the user the connection  *)
(* has worked for before, be it before its context is set, or in the       *)
(* statements and transactions that set none.                              *)
NoRowOfOthers ==
    \A c \in Conns, r \in Row :
        serves[c] # Free /\ (Finds(c, r) \/ MayStore(c, r)) => MaySee(serves[c], r)

(* The policies take nothing from the services: within a context every row *)
(* a service asks for is found, and every row it writes may be stored, so  *)
(* that a role that the policies bind works like one that bypasses them.   *)
HasContext(c) ==
    serves[c].kind \in {"tenant", "user"} /\ inTx[c].user = serves[c].user
        /\ (serves[c].kind = "tenant" => inTx[c].tenant = serves[c].tenant)
PoliciesHideNothing ==
    \A c \in Conns, r \in Row :
        HasContext(c) =>
            /\ Asks(serves[c], r) => Finds(c, r)
            /\ Stores(serves[c], r) => MayStore(c, r)
=============================================================================
