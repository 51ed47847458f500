---------------------------- MODULE AccessTokens ----------------------------
(***************************************************************************)
(* How the state of Rbac gets into access tokens and back out.             *)
(*                                                                         *)
(* MembershipContextService.resolve reads the tenant, the membership, the  *)
(* assignments and the permissions of their roles in this order.  It runs  *)
(* in a READ COMMITTED transaction, so each read is a step of its own with *)
(* the tables of its own moment.  AuthGuard reads the two version counters *)
(* again on every request, in two steps too.                               *)
(***************************************************************************)
EXTENDS Rbac

CONSTANTS
    Mints,       \* resolve calls that may run at the same time
    Requests,    \* guarded requests that may run at the same time
    MaxTokens    \* bound: unexpired access tokens

ASSUME TokenAssumption == MaxTokens \in Nat

VARIABLES
    mint,        \* the resolve calls
    tokens,      \* the unexpired access tokens
    request      \* the requests inside AuthGuard

tokenVars == <<mint, tokens, request>>
vars == <<rbacVars, tokenVars>>

(* The claims of a token.  rows stands for the three claims computed from  *)
(* the assignment rows: roles, primary_role and store_scope.               *)
Claims == [m: Members, tv: Nat, mv: Nat, rows: SUBSET Assignment,
           perms: SUBSET Perms]

NoMint == [pc |-> "idle"]
Mint ==
         {NoMint}
    \cup [pc: {"member"}, m: Members, tv: Nat]
    \cup [pc: {"assignments"}, m: Members, tv: Nat, mv: Nat]
    \cup [pc: {"permissions"}, m: Members, tv: Nat, mv: Nat,
          rows: SUBSET Assignment]

(* held is no program state: it keeps the permissions the member had when  *)
(* the guard read the tenant.                                              *)
NoRequest == [pc |-> "idle"]
Request ==
         {NoRequest}
    \cup [pc: {"member", "granted"}, claims: Claims, held: SUBSET Perms]

TokenTypeOK ==
    /\ RbacTypeOK
    /\ mint \in [Mints -> Mint]
    /\ tokens \in SUBSET Claims
    /\ request \in [Requests -> Request]

TokenInit ==
    /\ RbacInit
    /\ mint = [x \in Mints |-> NoMint]
    /\ tokens = {}
    /\ request = [q \in Requests |-> NoRequest]

-----------------------------------------------------------------------------
(* MembershipContextService.resolve, at login, refresh and accept          *)

ResolveTenant(x, m) ==
    /\ mint[x] = NoMint
    /\ status[m] # "none"
    /\ mint' = [mint EXCEPT ![x] = [pc |-> "member", m |-> m,
                                    tv |-> rbacVersion[MemberTenant[m]]]]
    /\ UNCHANGED <<rbacVars, tokens, request>>

(* A membership that is not active ends the call with an exception.        *)
ResolveMember(x) ==
    /\ mint[x].pc = "member"
    /\ LET m == mint[x].m IN
       mint' = [mint EXCEPT ![x] =
                  IF status[m] = "active"
                  THEN [pc |-> "assignments", m |-> m, tv |-> mint[x].tv,
                        mv |-> memVersion[m]]
                  ELSE NoMint]
    /\ UNCHANGED <<rbacVars, tokens, request>>

ResolveAssignments(x) ==
    /\ mint[x].pc = "assignments"
    /\ mint' = [mint EXCEPT ![x] =
                  [pc |-> "permissions", m |-> mint[x].m, tv |-> mint[x].tv,
                   mv |-> mint[x].mv, rows |-> RowsOf(mint[x].m)]]
    /\ UNCHANGED <<rbacVars, tokens, request>>

LiveRolesIn(rows) == {r \in RolesIn(rows) : Live(r)}

LateClaimsOf(k) ==
    [m |-> k.m, tv |-> rbacVersion[MemberTenant[k.m]], mv |-> memVersion[k.m],
     rows |-> k.rows, perms |-> PermsOf(LiveRolesIn(k.rows))]
ClaimsOf(k) == [m |-> k.m, tv |-> k.tv, mv |-> k.mv, rows |-> k.rows,
                perms |-> PermsOf(LiveRolesIn(k.rows))]

(* The roles and their permissions follow, and the claims are signed.      *)
ResolvePermissions(x) ==
    /\ mint[x].pc = "permissions"
    /\ Cardinality(tokens) < MaxTokens
    /\ tokens' = tokens \cup {ClaimsOf(mint[x])}
    /\ mint' = [mint EXCEPT ![x] = NoMint]
    /\ UNCHANGED <<rbacVars, request>>

(* A role deleted since the rows were read: the include of the required    *)
(* relation throws, unless the role row itself had still been there.       *)
ResolveBroken(x) ==
    /\ mint[x].pc = "permissions"
    /\ \E r \in RolesIn(mint[x].rows) : ~Live(r)
    /\ mint' = [mint EXCEPT ![x] = NoMint]
    /\ UNCHANGED <<rbacVars, tokens, request>>

ExpireToken(c) ==
    /\ tokens' = tokens \ {c}
    /\ UNCHANGED <<rbacVars, mint, request>>

-----------------------------------------------------------------------------
(* AuthGuard.canActivate; its session check is in module Sessions          *)

GuardTenant(q, c) ==
    /\ request[q] = NoRequest
    /\ request' = [request EXCEPT ![q] =
          IF rbacVersion[MemberTenant[c.m]] = c.tv
          THEN [pc |-> "member", claims |-> c, held |-> EffectivePerms(c.m)]
          ELSE NoRequest]
    /\ UNCHANGED <<rbacVars, mint, tokens>>

MemberActive(c) == status[c.m] = "active"
MemberCurrent(c) == status[c.m] = "active" /\ memVersion[c.m] = c.mv

GuardMember(q) ==
    /\ request[q].pc = "member"
    /\ LET c == request[q].claims IN
       request' = [request EXCEPT ![q] =
                     IF MemberCurrent(c)
                     THEN [pc |-> "granted", claims |-> c,
                           held |-> request[q].held]
                     ELSE NoRequest]
    /\ UNCHANGED <<rbacVars, mint, tokens>>

(* PermissionsGuard has compared claims.perms; the handler has run.        *)
Finish(q) ==
    /\ request[q].pc = "granted"
    /\ request' = [request EXCEPT ![q] = NoRequest]
    /\ UNCHANGED <<rbacVars, mint, tokens>>

-----------------------------------------------------------------------------
ResolveStep(x) ==
    \/ \E m \in Members : ResolveTenant(x, m)
    \/ ResolveMember(x)
    \/ ResolveAssignments(x)
    \/ ResolvePermissions(x)
    \/ ResolveBroken(x)

GuardStep(q) ==
    \/ \E c \in tokens : GuardTenant(q, c)
    \/ GuardMember(q)
    \/ Finish(q)

TokenNext ==
    \/ RbacNext /\ UNCHANGED tokenVars
    \/ \E x \in Mints : ResolveStep(x)
    \/ \E c \in tokens : ExpireToken(c)
    \/ \E q \in Requests : GuardStep(q)

TokenSpec == TokenInit /\ [][TokenNext]_vars

-----------------------------------------------------------------------------
(* Properties                                                              *)

Deleted(r) == roleState[r] = "deleted"
Current(c) ==
    /\ c.tv = rbacVersion[MemberTenant[c.m]]
    /\ c.mv = memVersion[c.m]

(* A token that passes the version checks carries assignments and          *)
(* permissions the member has now, however the reads of resolve interleaved*)
(* with changes of roles, assignments and the membership.  The code        *)
(* promises no more for a role that was deleted (see README).              *)
CurrentTokenSound ==
    \A c \in tokens :
        Current(c) =>
            /\ \A a \in c.rows : a \in assignments \/ Deleted(a.r)
            /\ c.perms \subseteq PermsOf(RolesIn(c.rows))

(* A request that is let through has only permissions its member held when *)
(* the guard began to look, although the guard reads the two counters at   *)
(* different moments.                                                      *)
GrantedWasHeld ==
    \A q \in Requests :
        request[q].pc = "granted" =>
            request[q].claims.perms \subseteq
                request[q].held \cup PermsOf({r \in Roles : Deleted(r)})
=============================================================================
