------------------------- MODULE AccessTokensProofs -------------------------
(***************************************************************************)
(* Proofs about AccessTokens, for any number of members, roles, overlapping*)
(* admins, resolve calls and requests.                                     *)
(*                                                                         *)
(* The argument is that of optimistic reading: whatever resolve has read so*)
(* far is still true as long as the version it read BEFORE has not moved,  *)
(* because RbacProofs!StepVersioned's cases each bump it.  The versions    *)
(* only grow, so a copy that once differs differs for ever.                *)
(***************************************************************************)
EXTENDS AccessTokens, RbacProofs

(* Facts about a set of assignment rows that no step undoes.               *)
RowsOfMember(rows, m) ==
    \A a \in rows : /\ a \in Assignment
                    /\ a.m = m
                    /\ roleState[a.r] # "absent"
                    /\ RoleTenant[a.r] = MemberTenant[m]

(* Facts that hold while the member's version stands still.                *)
RowsHeld(rows) == \A a \in rows : a \in assignments \/ Deleted(a.r)

PermsHeld(c) == c.perms \subseteq PermsOf(RolesIn(c.rows))
PermsDeleted == PermsOf({r \in Roles : Deleted(r)})

MintOK(k) ==
    /\ k.pc \in {"member", "assignments", "permissions"} =>
         k.tv <= rbacVersion[MemberTenant[k.m]]
    /\ k.pc \in {"assignments", "permissions"} => k.mv <= memVersion[k.m]
    /\ k.pc = "permissions" =>
         /\ RowsOfMember(k.rows, k.m)
         /\ k.mv = memVersion[k.m] => RowsHeld(k.rows)

TokenOK(c) ==
    /\ c.tv <= rbacVersion[MemberTenant[c.m]]
    /\ c.mv <= memVersion[c.m]
    /\ RowsOfMember(c.rows, c.m)
    /\ c.mv = memVersion[c.m] => RowsHeld(c.rows)
    /\ c.tv = rbacVersion[MemberTenant[c.m]] => PermsHeld(c)

RequestOK(k) ==
    /\ k.pc = "member" =>
         /\ k.claims.mv <= memVersion[k.claims.m]
         /\ k.claims.mv = memVersion[k.claims.m] =>
              k.claims.perms \subseteq k.held \cup PermsDeleted
    /\ k.pc = "granted" => k.claims.perms \subseteq k.held \cup PermsDeleted

TokenInv ==
    /\ RbacInv
    /\ TokenTypeOK
    /\ \A x \in Mints : MintOK(mint[x])
    /\ \A c \in tokens : TokenOK(c)
    /\ \A q \in Requests : RequestOK(request[q])

-----------------------------------------------------------------------------
(* What a step of Rbac never takes back.                                   *)
LEMMA RbacMonotone ==
    ASSUME RbacInv, [RbacNext]_rbacVars
    PROVE  /\ \A t \in Tenants : rbacVersion[t] <= rbacVersion'[t]
           /\ \A m \in Members : memVersion[m] <= memVersion'[m]
           /\ \A r \in Roles : roleState[r] # "absent" => roleState'[r] # "absent"
           /\ \A r \in Roles : Deleted(r) => Deleted(r)' /\ rolePerms'[r] = rolePerms[r]
<1> USE RbacAssumption DEF RbacInv, RbacTypeOK, Deleted, Live, Bump
<1>1. ASSUME NEW x \in Admins, SetPermissionsCommit(x)
      PROVE  /\ \A t \in Tenants : rbacVersion[t] <= rbacVersion'[t]
             /\ \A m \in Members : memVersion[m] <= memVersion'[m]
             /\ \A r \in Roles : Deleted(r) => rolePerms'[r] = rolePerms[r]
  BY <1>1 DEF SetPermissionsCommit
<1>2. ASSUME NEW x \in Admins, UpdateRolesCommit(x)
      PROVE  \A m \in Members : memVersion[m] <= memVersion'[m]
  BY <1>2 DEF UpdateRolesCommit
<1>3. ASSUME NEW t \in Tenants, NEW r \in Roles, NEW ps \in SUBSET Perms,
             CreateRole(t, r, ps)
      PROVE  /\ \A s \in Roles : roleState[s] # "absent" => roleState'[s] # "absent"
             /\ \A s \in Roles : Deleted(s) => Deleted(s)' /\ rolePerms'[s] = rolePerms[s]
  BY <1>3 DEF CreateRole
<1>4. ASSUME NEW x \in Admins, DeleteRoleCommit(x)
      PROVE  /\ \A s \in Roles : roleState[s] # "absent" => roleState'[s] # "absent"
             /\ \A s \in Roles : Deleted(s) => Deleted(s)'
  BY <1>4 DEF DeleteRoleCommit
<1>5. \A t \in Tenants : rbacVersion[t] <= rbacVersion'[t]
  BY <1>1 DEF RbacNext, IamStep, TeamStep, InvitationStep, CommitStep, rbacVars, CreateRole,
       DeleteRoleCount, DeleteRoleCommit, SetPermissionsBegin,
       CreateAssignment, DeleteAssignment, UpdateStatus, UpdateRolesBegin,
       UpdateRolesCommit, InviteBegin, InviteCommit, AcceptBegin, AcceptCommit,
       RevokeInvitation
<1>6. \A m \in Members : memVersion[m] <= memVersion'[m]
  BY <1>1, <1>2 DEF RbacNext, IamStep, TeamStep, InvitationStep, CommitStep, rbacVars,
       CreateRole, DeleteRoleCount, DeleteRoleCommit, SetPermissionsBegin,
       CreateAssignment, DeleteAssignment, UpdateStatus, UpdateRolesBegin,
       InviteBegin, InviteCommit, AcceptBegin, AcceptCommit,
       RevokeInvitation
<1>7. \A r \in Roles : roleState[r] # "absent" => roleState'[r] # "absent"
  BY <1>3, <1>4 DEF RbacNext, IamStep, TeamStep, InvitationStep, CommitStep, rbacVars,
       DeleteRoleCount, SetPermissionsBegin, SetPermissionsCommit,
       CreateAssignment, DeleteAssignment, UpdateStatus, UpdateRolesBegin,
       UpdateRolesCommit, InviteBegin, InviteCommit, AcceptBegin, AcceptCommit,
       RevokeInvitation
<1>8. \A r \in Roles : Deleted(r) => Deleted(r)' /\ rolePerms'[r] = rolePerms[r]
  BY <1>1, <1>3, <1>4 DEF RbacNext, IamStep, TeamStep, InvitationStep, CommitStep, rbacVars,
       DeleteRoleCount, DeleteRoleCommit, SetPermissionsBegin,
       SetPermissionsCommit, CreateAssignment, DeleteAssignment, UpdateStatus,
       UpdateRolesBegin, UpdateRolesCommit, InviteBegin, InviteCommit,
       AcceptBegin, AcceptCommit, RevokeInvitation
<1> QED
  BY <1>5, <1>6, <1>7, <1>8

(* A row only goes with a new version of its member or with its role.      *)
LEMMA RowKept ==
    ASSUME RbacInv, [RbacNext]_rbacVars, NEW a \in assignments,
           memVersion'[a.m] = memVersion[a.m]
    PROVE  a \in assignments' \/ Deleted(a.r)'
<1> USE RbacAssumption
<1>0. /\ RbacTypeOK
      /\ a.m \in Members /\ a.r \in Roles
  BY DEF RbacInv, RbacTypeOK, Assignment
<1>1. ASSUME NEW x \in Admins, DeleteRoleCommit(x)
      PROVE  a \in assignments' \/ Deleted(a.r)'
  BY <1>0, <1>1 DEF DeleteRoleCommit, Cascade, RbacTypeOK, Deleted
<1>2. ASSUME NEW t \in Tenants, NEW b \in assignments, DeleteAssignment(t, b)
      PROVE  a \in assignments'
  BY <1>0, <1>2 DEF DeleteAssignment, Bump, RbacTypeOK
<1>3. ASSUME NEW x \in Admins, UpdateRolesCommit(x)
      PROVE  a \in assignments'
  <2>1. /\ txn[x] \in ReplaceTxn
        /\ ReplaceOK(x)
    BY <1>0, <1>3, TxnTyped DEF UpdateRolesCommit, RbacInv, TxnOK
  <2>2. CASE a.m = txn[x].m /\ memVersion' # memVersion
    BY <1>0, <1>3, <2>1, <2>2 DEF UpdateRolesCommit, Bump, RbacTypeOK
  <2>3. CASE ~(a.m = txn[x].m /\ memVersion' # memVersion)
    BY <1>0, <1>3, <2>1, <2>3
       DEF UpdateRolesCommit, Bump, RbacTypeOK, ReplaceOK, ReplaceTxn
  <2> QED
    BY <2>2, <2>3
<1> QED
  BY <1>1, <1>2, <1>3 DEF RbacNext, IamStep, TeamStep, InvitationStep, CommitStep, rbacVars,
     CreateRole, DeleteRoleCount, SetPermissionsBegin, SetPermissionsCommit,
     CreateAssignment, UpdateStatus, UpdateRolesBegin, InviteBegin, InviteCommit,
     AcceptBegin, AcceptCommit, RevokeInvitation

(* The permissions of an existing role only change with its tenant's       *)
(* version.                                                                *)
LEMMA PermsKept ==
    ASSUME RbacInv, [RbacNext]_rbacVars, NEW r \in Roles,
           roleState[r] # "absent",
           rbacVersion'[RoleTenant[r]] = rbacVersion[RoleTenant[r]]
    PROVE  rolePerms'[r] = rolePerms[r]
<1> USE RbacAssumption
<1>0. RbacTypeOK
  BY DEF RbacInv
<1>1. ASSUME NEW x \in Admins, SetPermissionsCommit(x)
      PROVE  rolePerms'[r] = rolePerms[r]
  <2>1. txn[x].r \in Roles
    BY <1>0, <1>1, TxnTyped DEF SetPermissionsCommit, ToggleTxn
  <2> QED
    BY <1>0, <1>1, <2>1 DEF SetPermissionsCommit, RbacTypeOK
<1>2. ASSUME NEW t \in Tenants, NEW s \in Roles, NEW ps \in SUBSET Perms,
             CreateRole(t, s, ps)
      PROVE  rolePerms'[r] = rolePerms[r]
  BY <1>0, <1>2 DEF CreateRole, RbacTypeOK
<1> QED
  BY <1>1, <1>2 DEF RbacNext, IamStep, TeamStep, InvitationStep, CommitStep, rbacVars,
     DeleteRoleCount, DeleteRoleCommit, SetPermissionsBegin, CreateAssignment,
     DeleteAssignment, UpdateStatus, UpdateRolesBegin, UpdateRolesCommit,
     InviteBegin, InviteCommit, AcceptBegin, AcceptCommit,
       RevokeInvitation

-----------------------------------------------------------------------------
(* Rows and permissions read earlier survive a step of Rbac.               *)
LEMMA RowsOfMemberKept ==
    ASSUME RbacInv, [RbacNext]_rbacVars, NEW rows, NEW m,
           RowsOfMember(rows, m)
    PROVE  RowsOfMember(rows, m)'
BY RbacMonotone DEF RowsOfMember, Assignment

LEMMA RowsHeldKept ==
    ASSUME RbacInv, [RbacNext]_rbacVars, NEW rows, NEW m \in Members,
           RowsOfMember(rows, m), RowsHeld(rows),
           memVersion'[m] = memVersion[m]
    PROVE  RowsHeld(rows)'
<1> SUFFICES ASSUME NEW a \in rows PROVE a \in assignments' \/ Deleted(a.r)'
  BY DEF RowsHeld
<1>1. a.m = m /\ a.r \in Roles
  BY DEF RowsOfMember, Assignment
<1>2. CASE a \in assignments
  BY <1>1, <1>2, RowKept
<1>3. CASE Deleted(a.r)
  BY <1>1, <1>3, RbacMonotone
<1> QED
  BY <1>2, <1>3 DEF RowsHeld

LEMMA PermsHeldKept ==
    ASSUME RbacInv, [RbacNext]_rbacVars, NEW c \in Claims,
           RowsOfMember(c.rows, c.m), PermsHeld(c),
           rbacVersion'[MemberTenant[c.m]] = rbacVersion[MemberTenant[c.m]]
    PROVE  PermsHeld(c)'
<1>1. \A r \in RolesIn(c.rows) : rolePerms'[r] = rolePerms[r]
  <2> SUFFICES ASSUME NEW a \in c.rows PROVE rolePerms'[a.r] = rolePerms[a.r]
    BY DEF RolesIn
  <2>1. /\ a.r \in Roles
        /\ roleState[a.r] # "absent"
        /\ RoleTenant[a.r] = MemberTenant[c.m]
    BY DEF RowsOfMember, Assignment
  <2> QED
    BY <2>1, PermsKept
<1>2. PermsOf(RolesIn(c.rows))' = PermsOf(RolesIn(c.rows))
  BY <1>1 DEF PermsOf, RolesIn
<1> QED
  BY <1>2 DEF PermsHeld

LEMMA PermsDeletedKept ==
    ASSUME RbacInv, [RbacNext]_rbacVars
    PROVE  PermsDeleted \subseteq PermsDeleted'
BY RbacMonotone DEF PermsDeleted, PermsOf

(* A copy of a version differs for ever once it differs.                   *)
LEMMA VersionKept ==
    ASSUME RbacInv, [RbacNext]_rbacVars, NEW m \in Members, NEW v \in Nat
    PROVE  /\ v <= memVersion[m] =>
                /\ v <= memVersion'[m]
                /\ v = memVersion'[m] => memVersion'[m] = memVersion[m]
           /\ v <= rbacVersion[MemberTenant[m]] =>
                /\ v <= rbacVersion'[MemberTenant[m]]
                /\ v = rbacVersion'[MemberTenant[m]] =>
                     rbacVersion'[MemberTenant[m]] = rbacVersion[MemberTenant[m]]
<1>1. /\ MemberTenant[m] \in Tenants
      /\ memVersion[m] \in Nat /\ memVersion'[m] \in Nat
      /\ \A t \in Tenants : rbacVersion[t] \in Nat /\ rbacVersion'[t] \in Nat
  BY RbacAssumption, RbacInvStep DEF RbacInv, RbacTypeOK
<1> QED
  BY <1>1, RbacMonotone

LEMMA MintKept ==
    ASSUME RbacInv, [RbacNext]_rbacVars, NEW k \in Mint, MintOK(k)
    PROVE  MintOK(k)'
<1>1. CASE k.pc = "member"
  <2>1. k.m \in Members /\ k.tv \in Nat
    BY <1>1 DEF Mint, NoMint
  <2> QED
    BY <1>1, <2>1, VersionKept DEF MintOK
<1>2. CASE k.pc = "assignments"
  <2>1. k.m \in Members /\ k.tv \in Nat /\ k.mv \in Nat
    BY <1>2 DEF Mint, NoMint
  <2> QED
    BY <1>2, <2>1, VersionKept DEF MintOK
<1>3. CASE k.pc = "permissions"
  <2>1. k.m \in Members /\ k.tv \in Nat /\ k.mv \in Nat
    BY <1>3 DEF Mint, NoMint
  <2>2. RowsOfMember(k.rows, k.m)'
    BY <1>3, RowsOfMemberKept DEF MintOK
  <2>3. k.mv = memVersion'[k.m] => RowsHeld(k.rows)'
    BY <1>3, <2>1, VersionKept, RowsHeldKept DEF MintOK
  <2> QED
    BY <1>3, <2>1, <2>2, <2>3, VersionKept DEF MintOK
<1> QED
  BY <1>1, <1>2, <1>3 DEF MintOK

LEMMA TokenKept ==
    ASSUME RbacInv, [RbacNext]_rbacVars, NEW c \in Claims, TokenOK(c)
    PROVE  TokenOK(c)'
<1>1. c.m \in Members /\ c.tv \in Nat /\ c.mv \in Nat
  BY DEF Claims
<1>2. RowsOfMember(c.rows, c.m)'
  BY RowsOfMemberKept DEF TokenOK
<1>3. c.mv = memVersion'[c.m] => RowsHeld(c.rows)'
  BY <1>1, VersionKept, RowsHeldKept DEF TokenOK
<1>4. c.tv = rbacVersion'[MemberTenant[c.m]] => PermsHeld(c)'
  BY <1>1, VersionKept, PermsHeldKept DEF TokenOK
<1> QED
  BY <1>1, <1>2, <1>3, <1>4, VersionKept DEF TokenOK

LEMMA RequestKept ==
    ASSUME RbacInv, [RbacNext]_rbacVars, NEW k \in Request, RequestOK(k)
    PROVE  RequestOK(k)'
<1>1. CASE k.pc = "member"
  <2>1. k.claims.m \in Members /\ k.claims.mv \in Nat
    BY <1>1 DEF Request, NoRequest, Claims
  <2> QED
    BY <1>1, <2>1, VersionKept, PermsDeletedKept DEF RequestOK
<1>2. CASE k.pc = "granted"
  BY <1>2, PermsDeletedKept DEF RequestOK
<1> QED
  BY <1>1, <1>2 DEF RequestOK

-----------------------------------------------------------------------------
LEMMA TokenInitInv == TokenInit => TokenInv
<1> SUFFICES ASSUME TokenInit PROVE TokenInv
  OBVIOUS
<1>1. RbacInv /\ RbacTypeOK
  BY RbacInitInv DEF TokenInit, RbacInv
<1>2. TokenTypeOK
  BY <1>1 DEF TokenInit, TokenTypeOK, Mint, Request
<1> QED
  BY <1>1, <1>2 DEF TokenInit, TokenInv, MintOK, RequestOK, NoMint, NoRequest

(* resolve: every step but the last only moves its own record.             *)
LEMMA ResolveInv ==
    ASSUME TokenInv, NEW x \in Mints, ResolveStep(x)
    PROVE  TokenInv'
<1> USE RbacAssumption DEF TokenInv, TokenTypeOK
<1>0. /\ RbacTypeOK
      /\ mint[x] \in Mint /\ MintOK(mint[x])
  OBVIOUS
<1>r. RbacInv' /\ RbacTypeOK'
  BY DEF ResolveStep, ResolveTenant, ResolveMember, ResolveAssignments,
         ResolvePermissions, ResolveBroken, rbacVars, RbacInv, RbacTypeOK,
         AssignmentsSound, InvitationsSound, TxnOK, ReplaceOK, InviteOK, AcceptOK, Live
<1>1. ASSUME NEW k \in Mint, MintOK(k)', mint' = [mint EXCEPT ![x] = k],
             UNCHANGED <<rbacVars, tokens, request>>
      PROVE  TokenInv'
  <2>1. (\A y \in Mints : MintOK(mint[y]))'
    BY <1>1 DEF MintOK, rbacVars, RowsOfMember, RowsHeld, Deleted
  <2>2. (\A c \in tokens : TokenOK(c))' /\ (\A q \in Requests : RequestOK(request[q]))'
    BY <1>1 DEF rbacVars, TokenOK, RequestOK, RowsOfMember, RowsHeld,
                PermsHeld, PermsDeleted, PermsOf, RolesIn, Deleted
  <2>3. TokenTypeOK'
    BY <1>1, <1>r
  <2> QED
    BY <1>r, <2>1, <2>2, <2>3
<1>2. ASSUME NEW m \in Members, ResolveTenant(x, m) PROVE TokenInv'
  <2>1. MemberTenant[m] \in Tenants /\ rbacVersion[MemberTenant[m]] \in Nat
    BY <1>0 DEF RbacTypeOK
  <2>2. PICK k : k = [pc |-> "member", m |-> m,
                      tv |-> rbacVersion[MemberTenant[m]]]
    OBVIOUS
  <2>3. k \in Mint
    BY <2>1, <2>2 DEF Mint
  <2>4. MintOK(k)'
    BY <1>2, <2>1, <2>2 DEF MintOK, ResolveTenant, rbacVars
  <2> QED
    BY <1>1, <1>2, <2>2, <2>3, <2>4 DEF ResolveTenant
<1>3. ASSUME ResolveMember(x) PROVE TokenInv'
  <2> DEFINE m == mint[x].m
  <2>1. m \in Members /\ mint[x].tv \in Nat /\ memVersion[m] \in Nat
    BY <1>0, <1>3 DEF ResolveMember, Mint, NoMint, RbacTypeOK
  <2>2. CASE status[m] = "active"
    <3>1. PICK k : k = [pc |-> "assignments", m |-> m, tv |-> mint[x].tv,
                        mv |-> memVersion[m]]
      OBVIOUS
    <3>2. k \in Mint
      BY <2>1, <3>1 DEF Mint
    <3>3. MintOK(k)'
      BY <1>0, <1>3, <2>1, <3>1 DEF MintOK, ResolveMember, rbacVars
    <3> QED
      BY <1>1, <1>3, <2>2, <3>1, <3>2, <3>3 DEF ResolveMember
  <2>3. CASE status[m] # "active"
    BY <1>1, <1>3, <2>3 DEF ResolveMember, MintOK, Mint, NoMint
  <2> QED
    BY <2>2, <2>3
<1>4. ASSUME ResolveAssignments(x) PROVE TokenInv'
  <2> DEFINE m == mint[x].m
  <2>1. m \in Members /\ mint[x].tv \in Nat /\ mint[x].mv \in Nat
    BY <1>0, <1>4 DEF ResolveAssignments, Mint, NoMint
  <2>2. PICK k : k = [pc |-> "permissions", m |-> m, tv |-> mint[x].tv,
                      mv |-> mint[x].mv, rows |-> RowsOf(m)]
    OBVIOUS
  <2>3. k \in Mint
    BY <1>0, <2>1, <2>2 DEF Mint, RowsOf, RbacTypeOK
  <2>4. RowsOfMember(k.rows, k.m)' /\ RowsHeld(k.rows)'
    BY <1>0, <1>4, <2>1, <2>2 DEF ResolveAssignments, rbacVars, RowsOfMember,
       RowsHeld, RowsOf, RbacTypeOK, RbacInv, AssignmentsSound, Live
  <2>5. MintOK(k)'
    BY <1>0, <1>4, <2>1, <2>2, <2>4 DEF MintOK, ResolveAssignments, rbacVars
  <2> QED
    BY <1>1, <1>4, <2>2, <2>3, <2>5 DEF ResolveAssignments
<1>5. ASSUME ResolvePermissions(x) PROVE TokenInv'
  <2> DEFINE k == mint[x]
  <2>1. k.m \in Members /\ k.tv \in Nat /\ k.mv \in Nat /\ k.rows \in SUBSET Assignment
    BY <1>0, <1>5 DEF ResolvePermissions, Mint, NoMint
  <2>2. PICK c : c = [m |-> k.m, tv |-> k.tv, mv |-> k.mv, rows |-> k.rows,
                      perms |-> PermsOf(LiveRolesIn(k.rows))]
    OBVIOUS
  <2>3. tokens' = tokens \cup {c}
    BY <1>5, <2>2 DEF ResolvePermissions, ClaimsOf
  <2>4. LiveRolesIn(c.rows) \subseteq RolesIn(c.rows) /\ RolesIn(c.rows) \subseteq Roles
    BY <2>1, <2>2 DEF LiveRolesIn, RolesIn, Assignment
  <2>5. PermsHeld(c) /\ c.perms \subseteq Perms
    BY <1>0, <2>2, <2>4 DEF PermsHeld, PermsOf, RbacTypeOK
  <2>6. c \in Claims
    BY <2>1, <2>2, <2>5 DEF Claims
  <2>7. TokenOK(c)
    BY <1>0, <1>5, <2>1, <2>2, <2>5 DEF TokenOK, MintOK, ResolvePermissions
  <2>8. (\A d \in tokens : TokenOK(d))'
    BY <1>5, <2>3, <2>7 DEF ResolvePermissions, rbacVars, TokenOK,
       RowsOfMember, RowsHeld, PermsHeld, PermsOf, RolesIn, Deleted
  <2>9. (\A y \in Mints : MintOK(mint[y]))'
    BY <1>5 DEF ResolvePermissions, NoMint, MintOK, rbacVars, RowsOfMember,
                RowsHeld, Deleted
  <2>10. (\A q \in Requests : RequestOK(request[q]))'
    BY <1>5 DEF ResolvePermissions, rbacVars, RequestOK, PermsDeleted,
                PermsOf, Deleted
  <2> QED
    BY <1>r, <1>5, <2>3, <2>6, <2>8, <2>9, <2>10 DEF ResolvePermissions, Mint
<1>6. ASSUME ResolveBroken(x) PROVE TokenInv'
  BY <1>1, <1>6 DEF ResolveBroken, MintOK, Mint, NoMint
<1> QED
  BY <1>2, <1>3, <1>4, <1>5, <1>6 DEF ResolveStep

(* AuthGuard: a token current when the tenant is read lists permissions    *)
(* held at that moment.                                                    *)
LEMMA CurrentTokenHeld ==
    ASSUME TokenInv, NEW c \in tokens, Current(c)
    PROVE  c.perms \subseteq EffectivePerms(c.m) \cup PermsDeleted
<1>1. TokenOK(c)
  BY DEF TokenInv
<1>2. \A r \in RolesIn(c.rows) : r \in RolesOf(c.m) \/ (r \in Roles /\ Deleted(r))
  BY <1>1 DEF TokenOK, Current, RowsHeld, RowsOfMember, RolesIn, RolesOf,
              RowsOf, Assignment
<1>3. c.perms \subseteq PermsOf(RolesIn(c.rows))
  BY <1>1 DEF TokenOK, Current, PermsHeld
<1> QED
  BY <1>2, <1>3 DEF EffectivePerms, PermsDeleted, PermsOf

LEMMA GuardInv ==
    ASSUME TokenInv, NEW q \in Requests, GuardStep(q)
    PROVE  TokenInv'
<1> USE RbacAssumption DEF TokenInv, TokenTypeOK
<1>0. request[q] \in Request /\ RequestOK(request[q])
  OBVIOUS
<1>1. UNCHANGED <<rbacVars, mint, tokens>>
  BY DEF GuardStep, GuardTenant, GuardMember, Finish
<1>2. RbacInv' /\ RbacTypeOK'
  BY <1>1 DEF rbacVars, RbacInv, RbacTypeOK, AssignmentsSound,
              InvitationsSound, TxnOK, ReplaceOK, InviteOK, AcceptOK, Live
<1>3. (\A y \in Mints : MintOK(mint[y]))'
  BY <1>1 DEF rbacVars, MintOK, RowsOfMember, RowsHeld, Deleted
<1>4. (\A c \in tokens : TokenOK(c))'
  BY <1>1 DEF rbacVars, TokenOK, RowsOfMember, RowsHeld, PermsHeld, PermsOf,
              RolesIn, Deleted
<1>5. ASSUME NEW k \in Request, RequestOK(k), request' = [request EXCEPT ![q] = k]
      PROVE  TokenInv'
  <2>1. (\A p \in Requests : RequestOK(request[p]))'
    BY <1>1, <1>5 DEF rbacVars, RequestOK, PermsDeleted, PermsOf, Deleted
  <2> QED
    BY <1>1, <1>2, <1>3, <1>4, <1>5, <2>1 DEF rbacVars
<1>6. NoRequest \in Request /\ RequestOK(NoRequest)
  BY DEF Request, NoRequest, RequestOK
<1>7. ASSUME NEW c \in tokens, GuardTenant(q, c) PROVE TokenInv'
  <2>1. CASE rbacVersion[MemberTenant[c.m]] = c.tv
    <3>1. PICK k : k = [pc |-> "member", claims |-> c, held |-> EffectivePerms(c.m)]
      OBVIOUS
    <3>2. EffectivePerms(c.m) \subseteq Perms
      BY DEF EffectivePerms, PermsOf, RolesOf, RolesIn, RowsOf, RbacTypeOK, Assignment
    <3>3. k \in Request
      BY <3>1, <3>2 DEF Request
    <3>4. c.mv <= memVersion[c.m]
      BY DEF TokenOK
    <3>5. c.mv = memVersion[c.m] => c.perms \subseteq k.held \cup PermsDeleted
      BY <2>1, <3>1, CurrentTokenHeld DEF Current
    <3>6. RequestOK(k)
      BY <3>1, <3>4, <3>5 DEF RequestOK
    <3> QED
      BY <1>5, <1>7, <2>1, <3>1, <3>3, <3>6 DEF GuardTenant
  <2>2. CASE rbacVersion[MemberTenant[c.m]] # c.tv
    BY <1>5, <1>6, <1>7, <2>2 DEF GuardTenant
  <2> QED
    BY <2>1, <2>2
<1>8. ASSUME GuardMember(q) PROVE TokenInv'
  <2> DEFINE c == request[q].claims
  <2>1. c \in Claims /\ request[q].held \in SUBSET Perms
    BY <1>0, <1>8 DEF GuardMember, Request, NoRequest
  <2>2. CASE status[c.m] = "active" /\ memVersion[c.m] = c.mv
    <3>1. PICK k : k = [pc |-> "granted", claims |-> c, held |-> request[q].held]
      OBVIOUS
    <3>2. k \in Request
      BY <2>1, <3>1 DEF Request
    <3>3. RequestOK(k)
      BY <1>0, <1>8, <2>2, <3>1 DEF GuardMember, MemberCurrent, RequestOK
    <3> QED
      BY <1>5, <1>8, <2>2, <3>1, <3>2, <3>3 DEF GuardMember, MemberCurrent
  <2>3. CASE ~(status[c.m] = "active" /\ memVersion[c.m] = c.mv)
    BY <1>5, <1>6, <1>8, <2>3 DEF GuardMember, MemberCurrent
  <2> QED
    BY <2>2, <2>3
<1>9. ASSUME Finish(q) PROVE TokenInv'
  BY <1>5, <1>6, <1>9 DEF Finish
<1> QED
  BY <1>7, <1>8, <1>9 DEF GuardStep

LEMMA TokenInvStep == TokenInv /\ [TokenNext]_vars => TokenInv'
<1> SUFFICES ASSUME TokenInv, [TokenNext]_vars PROVE TokenInv'
  OBVIOUS
<1>1. ASSUME [RbacNext]_rbacVars, UNCHANGED tokenVars PROVE TokenInv'
  <2>1. RbacInv' /\ RbacTypeOK'
    BY <1>1, RbacInvStep DEF TokenInv, RbacInv
  <2>2. UNCHANGED <<mint, tokens, request>>
    BY <1>1 DEF tokenVars
  <2>3. TokenTypeOK'
    BY <2>1, <2>2 DEF TokenInv, TokenTypeOK
  <2>4. \A x \in Mints : mint[x] \in Mint /\ MintOK(mint[x])
    BY DEF TokenInv, TokenTypeOK
  <2>5. (\A x \in Mints : MintOK(mint[x]))'
    <3> SUFFICES ASSUME NEW x \in Mints PROVE MintOK(mint[x])'
      OBVIOUS
    <3>1. PICK k : k = mint[x]
      OBVIOUS
    <3>2. MintOK(k)'
      BY <1>1, <2>4, <3>1, MintKept DEF TokenInv
    <3> QED
      BY <2>2, <3>1, <3>2
  <2>6. (\A c \in tokens : TokenOK(c))'
    BY <1>1, <2>2, TokenKept DEF TokenInv, TokenTypeOK
  <2>7. (\A q \in Requests : RequestOK(request[q]))'
    <3> SUFFICES ASSUME NEW q \in Requests PROVE RequestOK(request[q])'
      OBVIOUS
    <3>1. PICK k : k = request[q]
      OBVIOUS
    <3>2. RequestOK(k)'
      BY <1>1, <3>1, RequestKept DEF TokenInv, TokenTypeOK
    <3> QED
      BY <2>2, <3>1, <3>2
  <2> QED
    BY <2>1, <2>3, <2>5, <2>6, <2>7 DEF TokenInv
<1>2. ASSUME NEW c \in tokens, ExpireToken(c) PROVE TokenInv'
  BY <1>2 DEF ExpireToken, TokenInv, TokenTypeOK, rbacVars, RbacInv,
     RbacTypeOK, AssignmentsSound, InvitationsSound, TxnOK, ReplaceOK, InviteOK, AcceptOK, Live, MintOK,
     TokenOK, RequestOK, RowsOfMember, RowsHeld, PermsHeld, PermsDeleted,
     PermsOf, RolesIn, Deleted
<1> QED
  BY <1>1, <1>2, ResolveInv, GuardInv DEF TokenNext, vars, tokenVars

(* The record types of resolve calls, tokens and guarded requests, over    *)
(* the typed tables of Rbac.                                               *)
THEOREM TokenTypeCorrect == TokenSpec => []TokenTypeOK
<1>1. TokenInv => TokenTypeOK
  BY DEF TokenInv
<1> QED
  BY <1>1, TokenInitInv, TokenInvStep, PTL DEF TokenSpec

(* No interleaving of resolve's four reads with permission changes mints a *)
(* token that both passes the version checks and lists assignments or      *)
(* permissions that are gone, deleted roles apart.                         *)
THEOREM TokensSound == TokenSpec => []CurrentTokenSound
<1>1. TokenInv => CurrentTokenSound
  BY DEF TokenInv, CurrentTokenSound, TokenOK, Current, RowsHeld, PermsHeld
<1> QED
  BY <1>1, TokenInitInv, TokenInvStep, PTL DEF TokenSpec

(* AuthGuard's two reads of the versions, at different moments, still let  *)
(* nobody through with permissions not held when the first was made.       *)
THEOREM GrantsHeld == TokenSpec => []GrantedWasHeld
<1>1. TokenInv => GrantedWasHeld
  BY DEF TokenInv, GrantedWasHeld, RequestOK, PermsDeleted
<1> QED
  BY <1>1, TokenInitInv, TokenInvStep, PTL DEF TokenSpec
=============================================================================
