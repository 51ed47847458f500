-------------------------------- MODULE Rbac --------------------------------
(***************************************************************************)
(* Roles, permissions, role assignments and memberships of the tenants:    *)
(* what IamService, TeamService, the accept step of InvitationsService and *)
(* the stored procedure app.set_role_permissions do to the tables          *)
(* app.roles, role_permissions, role_assignments, tenant_memberships and   *)
(* tenants.rbac_version.                                                   *)
(*                                                                         *)
(* Every handler runs in one READ COMMITTED transaction.  A handler whose  *)
(* reads are protected at commit (a foreign key, a unique index, a locked  *)
(* row, a value no one else writes) is one action.  deleteRole,            *)
(* updateRoles, setRolePermissions and the create and accept of            *)
(* invitations act on rows an earlier statement saw, so they are two       *)
(* actions with anything in between.                                       *)
(***************************************************************************)
EXTENDS Naturals, FiniteSets

CONSTANTS
    Tenants, Members, Roles, Perms, Stores,
    MemberTenant,   \* the tenant of a (user, tenant) pair
    RoleTenant,     \* the tenant of a role row
    SystemRoles,    \* the rows with is_system: owner and light_user
    Owners,         \* the memberships of tenants.owner_user_id
    Admins,         \* slots for handlers that are in flight
    AssignScopes,   \* the (scopeType, scopeId) pairs requests ask for
    MaxOps,         \* bound: operations that insert assignment rows
    MaxVersion      \* bound: values of the two version counters

(* scopeType 'tenant'; scopeType 'store' with a scopeId is the store       *)
(* itself; scopeType 'store' without a scopeId, which the request schema   *)
(* allows.                                                                 *)
TenantScope == "tenant"
StoreUnnamed == "store"

ASSUME RbacAssumption ==
    /\ MemberTenant \in [Members -> Tenants]
    /\ RoleTenant \in [Roles -> Tenants]
    /\ SystemRoles \subseteq Roles
    /\ Owners \subseteq Members
    /\ AssignScopes \subseteq Stores \cup {TenantScope, StoreUnnamed}
    /\ MaxOps \in Nat
    /\ MaxVersion \in Nat

VARIABLES
    roleState,     \* "absent", "live" or "deleted": a uuid is never reused
    rolePerms,     \* role_permissions; a deleted role keeps its last value
    rbacVersion,   \* tenants.rbac_version
    status,        \* tenant_memberships.status; "none" is no row yet
    memVersion,    \* tenant_memberships.membership_permission_version
    assignments,   \* role_assignments
    ops,           \* operations that have inserted rows so far
    pending,       \* pending invitations
    invited,       \* roles some invitation row refers to, whatever its status
    txn            \* the in-flight transactions of the two-step handlers

rbacVars == <<roleState, rolePerms, rbacVersion, status, memVersion,
              assignments, ops, pending, invited, txn>>

MemberStatus == {"active", "suspended", "removed"}
Scopes == Stores \cup {TenantScope, StoreUnnamed}

(* A row is told from its twins by n, the operation that inserted it: the  *)
(* unique index holds scope_id, and NULLs never collide in it.             *)
Assignment == [n: Nat, m: Members, r: Roles, scope: Scopes]
Invitation == [m: Members, r: Roles]

Idle == [op |-> "idle"]
DeleteTxn == [op: {"delete"}, r: Roles]
ReplaceTxn == [op: {"replace"}, m: Members, want: SUBSET Roles,
               rows: SUBSET Assignment]
ToggleTxn == [op: {"toggle"}, r: Roles, want: SUBSET Perms, rows: SUBSET Perms]
InviteTxn == [op: {"invite"}, m: Members, r: Roles, rows: SUBSET Invitation]
AcceptTxn == [op: {"accept"}, i: Invitation]
Txn == {Idle} \cup DeleteTxn \cup ReplaceTxn \cup ToggleTxn
              \cup InviteTxn \cup AcceptTxn

RbacTypeOK ==
    /\ roleState \in [Roles -> {"absent", "live", "deleted"}]
    /\ rolePerms \in [Roles -> SUBSET Perms]
    /\ rbacVersion \in [Tenants -> Nat]
    /\ status \in [Members -> MemberStatus \cup {"none"}]
    /\ memVersion \in [Members -> Nat]
    /\ assignments \in SUBSET Assignment
    /\ ops \in Nat
    /\ pending \in SUBSET Invitation
    /\ invited \in SUBSET Roles
    /\ txn \in [Admins -> Txn]

Live(r) == roleState[r] = "live"
TenantRole(r, t) == Live(r) /\ RoleTenant[r] = t
RowsOf(m) == {a \in assignments : a.m = m}
RolesIn(rows) == {a.r : a \in rows}
RolesOf(m) == RolesIn(RowsOf(m))
PermsOf(rs) == UNION {rolePerms[r] : r \in rs}
EffectivePerms(m) == PermsOf(RolesOf(m))
NewRow(m, r, s) == [n |-> ops, m |-> m, r |-> r, scope |-> s]

(* The versions are never compared with anything but the same counter.     *)
CanBump(m) == memVersion[m] < MaxVersion
BumpDown(m) == memVersion' = [memVersion EXCEPT ![m] = @ - 1]
NoBump(m) == UNCHANGED memVersion
Bump(m) == memVersion' = [memVersion EXCEPT ![m] = @ + 1]

Locked(a) == \E x \in Admins : txn[x].op = "replace" /\ a \in txn[x].rows

RbacInit ==
    /\ roleState = [r \in Roles |->
                      IF r \in SystemRoles THEN "live" ELSE "absent"]
    /\ rolePerms \in [Roles -> SUBSET Perms]
    /\ \A r \in Roles : rolePerms[r] = IF r \in SystemRoles THEN Perms ELSE {}
    /\ rbacVersion = [t \in Tenants |-> 1]
    /\ status = [m \in Members |-> IF m \in Owners THEN "active" ELSE "none"]
    /\ memVersion = [m \in Members |-> 1]
    /\ assignments = {[n |-> 0, m |-> p[1], r |-> p[2], scope |-> TenantScope] :
                        p \in {q \in Owners \X SystemRoles :
                                 MemberTenant[q[1]] = RoleTenant[q[2]]}}
    /\ ops = 1
    /\ pending = {}
    /\ invited = {}
    /\ txn = [x \in Admins |-> Idle]

-----------------------------------------------------------------------------
(* IamService                                                              *)

CreateRole(t, r, ps) ==
    /\ RoleTenant[r] = t
    /\ roleState[r] = "absent"
    /\ roleState' = [roleState EXCEPT ![r] = "live"]
    /\ rolePerms' = [rolePerms EXCEPT ![r] = ps]
    /\ UNCHANGED <<rbacVersion, status, memVersion, assignments, ops,
                   pending, invited, txn>>

(* deleteRole up to the count of its assignments.                          *)
DeleteRoleCount(x, t, r) ==
    /\ txn[x] = Idle
    /\ TenantRole(r, t) /\ r \notin SystemRoles
    /\ r \notin RolesIn(assignments)
    /\ txn' = [txn EXCEPT ![x] = [op |-> "delete", r |-> r]]
    /\ UNCHANGED <<roleState, rolePerms, rbacVersion, status, memVersion,
                   assignments, ops, pending, invited>>

(* What the foreign keys to roles do: that of role_assignments cascades,   *)
(* that of tenant_invitations refuses.                                     *)
NoCascade(r) == assignments
Cascade(r) == {a \in assignments : a.r # r}
HeldByNothing(r) == FALSE
HeldByInvitation(r) == r \in invited

(* The delete itself.                                                      *)
DeleteRoleCommit(x) ==
    /\ txn[x].op = "delete"
    /\ LET r == txn[x].r IN
         IF Live(r) /\ ~HeldByInvitation(r)
         THEN /\ roleState' = [roleState EXCEPT ![r] = "deleted"]
              /\ assignments' = Cascade(r)
         ELSE UNCHANGED <<roleState, assignments>>
    /\ txn' = [txn EXCEPT ![x] = Idle]
    /\ UNCHANGED <<rolePerms, rbacVersion, status, memVersion, ops,
                   pending, invited>>

(* app.set_role_permissions up to its DELETE: the rows of role_permissions *)
(* that statement's snapshot shows are the rows it deletes, and it locks   *)
(* them.                                                                   *)
SetPermissionsBegin(x, t, r, ps) ==
    /\ txn[x] = Idle
    /\ TenantRole(r, t)
    /\ txn' = [txn EXCEPT ![x] = [op |-> "toggle", r |-> r, want |-> ps,
                                  rows |-> rolePerms[r]]]
    /\ UNCHANGED <<roleState, rolePerms, rbacVersion, status, memVersion,
                   assignments, ops, pending, invited>>

(* A toggle that commits first leaves the others on its role nothing to    *)
(* delete: the rows they saw are gone, and they did not see the new ones.  *)
Overtaken(x) ==
    [y \in Admins |->
       IF y = x THEN Idle
       ELSE IF txn[y].op = "toggle" /\ txn[y].r = txn[x].r
       THEN [txn[y] EXCEPT !.rows = {}]
       ELSE txn[y]]

(* The INSERT breaks a foreign key when the role is gone and the unique    *)
(* (role, permission) index when a surviving row has a wanted permission.  *)
(* The procedure then bumps the tenant and every member with the role.     *)
SetPermissionsCommit(x) ==
    /\ txn[x].op = "toggle"
    /\ LET r == txn[x].r
           t == RoleTenant[r]
           kept == rolePerms[r] \ txn[x].rows
       IN IF Live(r) /\ kept \cap txn[x].want = {}
          THEN /\ rbacVersion[t] < MaxVersion
               /\ \A m \in Members : r \in RolesOf(m) => CanBump(m)
               /\ rolePerms' = [rolePerms EXCEPT ![r] = kept \cup txn[x].want]
               /\ rbacVersion' = [rbacVersion EXCEPT ![t] = @ + 1]
               /\ memVersion' = [m \in Members |->
                      IF MemberTenant[m] = t /\ r \in RolesOf(m)
                      THEN memVersion[m] + 1 ELSE memVersion[m]]
               /\ txn' = Overtaken(x)
          ELSE /\ txn' = [txn EXCEPT ![x] = Idle]
               /\ UNCHANGED <<rolePerms, rbacVersion, memVersion>>
    /\ UNCHANGED <<roleState, status, assignments, ops, pending, invited>>

CreateAssignment(t, m, r, s) ==
    /\ status[m] # "none" /\ MemberTenant[m] = t
    /\ TenantRole(r, t)
    /\ \A a \in RowsOf(m) : ~(a.r = r /\ a.scope = s /\ s \in Stores)
    /\ ops < MaxOps /\ CanBump(m)
    /\ assignments' = assignments \cup {NewRow(m, r, s)}
    /\ ops' = ops + 1
    /\ Bump(m)
    /\ UNCHANGED <<roleState, rolePerms, rbacVersion, status, pending,
                   invited, txn>>

DeleteAssignment(t, a) ==
    /\ MemberTenant[a.m] = t
    /\ ~Locked(a)
    /\ CanBump(a.m)
    /\ assignments' = assignments \ {a}
    /\ Bump(a.m)
    /\ UNCHANGED <<roleState, rolePerms, rbacVersion, status, ops, pending,
                   invited, txn>>

-----------------------------------------------------------------------------
(* TeamService                                                             *)

(* removeMember is the case s = "removed".                                 *)
UpdateStatus(t, m, s) ==
    /\ status[m] # "none" /\ MemberTenant[m] = t
    /\ m \in Owners => s = "active"
    /\ CanBump(m)
    /\ status' = [status EXCEPT ![m] = s]
    /\ Bump(m)
    /\ UNCHANGED <<roleState, rolePerms, rbacVersion, assignments, ops,
                   pending, invited, txn>>

(* updateRoles up to its deleteMany: the rows that statement's snapshot    *)
(* shows are the rows it deletes, and it locks them.                       *)
UpdateRolesBegin(x, t, m, want) ==
    /\ txn[x] = Idle
    /\ status[m] # "none" /\ MemberTenant[m] = t
    /\ want # {}
    /\ \A r \in want : TenantRole(r, t)
    /\ txn' = [txn EXCEPT ![x] = [op |-> "replace", m |-> m, want |-> want,
                                  rows |-> RowsOf(m)]]
    /\ UNCHANGED <<roleState, rolePerms, rbacVersion, status, memVersion,
                   assignments, ops, pending, invited>>

(* createMany, the bump and the commit.  A wanted role that is gone breaks *)
(* the foreign key and rolls everything back.                              *)
UpdateRolesCommit(x) ==
    /\ txn[x].op = "replace"
    /\ LET m == txn[x].m  want == txn[x].want IN
         IF \A r \in want : Live(r)
         THEN /\ ops < MaxOps /\ CanBump(m)
              /\ assignments' = (assignments \ txn[x].rows)
                                  \cup {NewRow(m, r, TenantScope) : r \in want}
              /\ ops' = ops + 1
              /\ Bump(m)
         ELSE UNCHANGED <<assignments, ops, memVersion>>
    /\ txn' = [txn EXCEPT ![x] = Idle]
    /\ UNCHANGED <<roleState, rolePerms, rbacVersion, status, pending, invited>>

-----------------------------------------------------------------------------
(* InvitationsService, as far as these tables go                           *)

(* create up to its updateMany, which revokes the pending invitations that *)
(* statement's snapshot shows.                                             *)
InviteBegin(x, t, m, r) ==
    /\ txn[x] = Idle
    /\ MemberTenant[m] = t
    /\ TenantRole(r, t)
    /\ status[m] # "active"
    /\ txn' = [txn EXCEPT ![x] = [op |-> "invite", m |-> m, r |-> r,
                                  rows |-> {i \in pending : i.m = m}]]
    /\ UNCHANGED <<roleState, rolePerms, rbacVersion, status, memVersion,
                   assignments, ops, pending, invited>>

(* The insert and the commit; without the role the foreign key refuses.    *)
InviteCommit(x) ==
    /\ txn[x].op = "invite"
    /\ LET r == txn[x].r IN
         IF Live(r)
         THEN /\ pending' = (pending \ txn[x].rows) \cup {[m |-> txn[x].m, r |-> r]}
              /\ invited' = invited \cup {r}
         ELSE UNCHANGED <<pending, invited>>
    /\ txn' = [txn EXCEPT ![x] = Idle]
    /\ UNCHANGED <<roleState, rolePerms, rbacVersion, status, memVersion,
                   assignments, ops>>

(* accept up to the check that the invitation is pending.                  *)
AcceptBegin(x, i) ==
    /\ txn[x] = Idle
    /\ txn' = [txn EXCEPT ![x] = [op |-> "accept", i |-> i]]
    /\ UNCHANGED <<roleState, rolePerms, rbacVersion, status, memVersion,
                   assignments, ops, pending, invited>>

(* The rest of it.  The upsert sets the status and locks the membership;   *)
(* then the assignment is added when missing.  Neither version moves, and  *)
(* the invitation is accepted even if it has been revoked since.           *)
AcceptCommit(x) ==
    /\ txn[x].op = "accept"
    /\ LET i == txn[x].i IN
         /\ status' = [status EXCEPT ![i.m] = "active"]
         /\ IF i.r \in RolesOf(i.m)
            THEN UNCHANGED <<assignments, ops>>
            ELSE /\ ops < MaxOps
                 /\ assignments' = assignments \cup {NewRow(i.m, i.r, TenantScope)}
                 /\ ops' = ops + 1
         /\ pending' = pending \ {i}
    /\ txn' = [txn EXCEPT ![x] = Idle]
    /\ UNCHANGED <<roleState, rolePerms, rbacVersion, memVersion, invited>>

RevokeInvitation(i) ==
    /\ pending' = pending \ {i}
    /\ UNCHANGED <<roleState, rolePerms, rbacVersion, status, memVersion,
                   assignments, ops, invited, txn>>

-----------------------------------------------------------------------------
IamStep(t) ==
    \/ \E r \in Roles, ps \in SUBSET Perms : CreateRole(t, r, ps)
    \/ \E x \in Admins, r \in Roles : DeleteRoleCount(x, t, r)
    \/ \E x \in Admins, r \in Roles, ps \in SUBSET Perms :
         SetPermissionsBegin(x, t, r, ps)
    \/ \E m \in Members, r \in Roles, s \in AssignScopes :
         CreateAssignment(t, m, r, s)
    \/ \E a \in assignments : DeleteAssignment(t, a)

TeamStep(t) ==
    \/ \E m \in Members, s \in MemberStatus : UpdateStatus(t, m, s)
    \/ \E x \in Admins, m \in Members, want \in SUBSET Roles :
         UpdateRolesBegin(x, t, m, want)
    \/ \E x \in Admins, m \in Members, r \in Roles : InviteBegin(x, t, m, r)

InvitationStep ==
    \E i \in pending :
        RevokeInvitation(i) \/ \E x \in Admins : AcceptBegin(x, i)

CommitStep ==
    \E x \in Admins :
        \/ DeleteRoleCommit(x) \/ UpdateRolesCommit(x) \/ SetPermissionsCommit(x)
        \/ InviteCommit(x) \/ AcceptCommit(x)

RbacNext == CommitStep \/ InvitationStep \/ \E t \in Tenants : IamStep(t) \/ TeamStep(t)

RbacSpec == RbacInit /\ [][RbacNext]_rbacVars

-----------------------------------------------------------------------------
(* Properties                                                              *)

(* An assignment row never refers to a role that does not exist and never  *)
(* joins a member of one tenant to a role of another, whatever deleteRole, *)
(* updateRoles, createAssignment and accept do to each other in between.   *)
AssignmentsSound ==
    \A a \in assignments :
        Live(a.r) /\ RoleTenant[a.r] = MemberTenant[a.m]

(* Only an existing membership holds roles, and the row of an invitation   *)
(* keeps the role it promises from being deleted until it is accepted.     *)
InvitationsSound ==
    /\ \A i \in pending : Live(i.r) /\ RoleTenant[i.r] = MemberTenant[i.m]
    /\ \A a \in assignments : status[a.m] # "none"

(* Tokens go stale by their version numbers alone, so every change of what *)
(* a member may do must come with another version.  Two exceptions: a role *)
(* deleted under an assignment its deleteRole had not seen (loss), and the *)
(* accept of an invitation (gain; its controller issues fresh tokens).     *)
ChangesAreVersioned ==
    [][\A m \in Members :
         \/ memVersion'[m] # memVersion[m]
         \/ /\ \/ EffectivePerms(m) \subseteq EffectivePerms(m)'
               \/ \E r \in RolesOf(m) : roleState'[r] = "deleted"
            /\ \/ EffectivePerms(m)' \subseteq EffectivePerms(m)
               \/ \E x \in Admins : /\ txn[x].op = "accept" /\ txn'[x] = Idle
                                    /\ txn[x].i.m = m]_rbacVars

(* What IamService says of setRolePermissions: an "atomic permission       *)
(* toggle".  When one commits, the role has the permissions it asked for.  *)
TogglesApply ==
    [][\A x \in Admins :
         txn[x].op = "toggle" /\ txn'[x] = Idle /\ rbacVersion' # rbacVersion =>
             rolePerms'[txn[x].r] = txn[x].want]_rbacVars
=============================================================================
