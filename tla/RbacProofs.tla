----------------------------- MODULE RbacProofs -----------------------------
(***************************************************************************)
(* Proofs about Rbac: its type invariant, the soundness of assignments and *)
(* invitations, and that changes of permissions are versioned.             *)
(*                                                                         *)
(* RbacInv is inductive.  What it adds to the two invariants is what the   *)
(* in-flight transactions carry across other handlers' commits: rows that  *)
(* belong to their member, a member that exists, wanted roles of its       *)
(* tenant, and the foreign key that an invitation holds on its role.       *)
(***************************************************************************)
EXTENDS Rbac, TLAPS

ReplaceOK(x) ==
    txn[x].op = "replace" =>
        /\ status[txn[x].m] # "none"
        /\ \A a \in txn[x].rows : a.m = txn[x].m
        /\ \A r \in txn[x].want : RoleTenant[r] = MemberTenant[txn[x].m]

InviteOK(x) ==
    txn[x].op = "invite" => RoleTenant[txn[x].r] = MemberTenant[txn[x].m]

AcceptOK(x) ==
    txn[x].op = "accept" =>
        /\ txn[x].i.r \in invited
        /\ RoleTenant[txn[x].i.r] = MemberTenant[txn[x].i.m]

TxnOK(x) == ReplaceOK(x) /\ InviteOK(x) /\ AcceptOK(x)

RbacInv ==
    /\ RbacTypeOK
    /\ AssignmentsSound
    /\ InvitationsSound
    /\ \A i \in pending : i.r \in invited
    /\ \A r \in invited : Live(r)
    /\ \A x \in Admins : TxnOK(x)

-----------------------------------------------------------------------------
(* The initial state: the owners' rows.                                    *)
LEMMA RbacInitInv == RbacInit => RbacInv
<1> SUFFICES ASSUME RbacInit PROVE RbacInv
  OBVIOUS
<1> USE RbacAssumption DEF RbacInit
<1>1. RbacTypeOK
  <2>1. assignments \in SUBSET Assignment
    BY DEF Assignment, Scopes
  <2>2. rolePerms \in [Roles -> SUBSET Perms]
    OBVIOUS
  <2>3. txn \in [Admins -> Txn]
    BY DEF Txn
  <2> QED
    BY <2>1, <2>2, <2>3 DEF RbacTypeOK, MemberStatus, Invitation
<1>2. AssignmentsSound
  BY DEF AssignmentsSound, Live
<1>3. InvitationsSound
  BY DEF InvitationsSound
<1>4. \A x \in Admins : TxnOK(x)
  BY DEF TxnOK, ReplaceOK, InviteOK, AcceptOK, Idle
<1> QED
  BY <1>1, <1>2, <1>3, <1>4 DEF RbacInv

-----------------------------------------------------------------------------
(* What a transaction carries follows from its op.                         *)
LEMMA TxnTyped ==
    ASSUME RbacTypeOK, NEW x \in Admins
    PROVE  /\ txn[x].op = "delete" => txn[x] \in DeleteTxn
           /\ txn[x].op = "replace" => txn[x] \in ReplaceTxn
           /\ txn[x].op = "toggle" => txn[x] \in ToggleTxn
           /\ txn[x].op = "invite" => txn[x] \in InviteTxn
           /\ txn[x].op = "accept" => txn[x] \in AcceptTxn
BY DEF RbacTypeOK, Txn, Idle, DeleteTxn, ReplaceTxn, ToggleTxn, InviteTxn, AcceptTxn

LEMMA OvertakenTyped ==
    ASSUME RbacTypeOK, NEW x \in Admins
    PROVE  Overtaken(x) \in [Admins -> Txn]
<1> SUFFICES ASSUME NEW y \in Admins, txn[y].op = "toggle"
             PROVE [txn[y] EXCEPT !.rows = {}] \in ToggleTxn
  BY DEF Overtaken, RbacTypeOK, Txn
<1>1. txn[y] \in ToggleTxn
  BY TxnTyped
<1> QED
  BY <1>1 DEF ToggleTxn

(* Type correctness, one step per action.                                  *)
LEMMA RbacTypeStep ==
    RbacTypeOK /\ [RbacNext]_rbacVars => RbacTypeOK'
<1> SUFFICES ASSUME RbacTypeOK, [RbacNext]_rbacVars PROVE RbacTypeOK'
  OBVIOUS
<1> USE RbacAssumption DEF RbacTypeOK
<1>0. RbacTypeOK
  OBVIOUS
<1>a. Idle \in Txn
  BY DEF Txn
<1>1. ASSUME NEW t \in Tenants, NEW r \in Roles, NEW ps \in SUBSET Perms,
             CreateRole(t, r, ps)
      PROVE RbacTypeOK'
  BY <1>1 DEF CreateRole
<1>2. ASSUME NEW t \in Tenants, NEW x \in Admins, NEW r \in Roles,
             DeleteRoleCount(x, t, r)
      PROVE RbacTypeOK'
  BY <1>2 DEF DeleteRoleCount, DeleteTxn, Txn
<1>3. ASSUME NEW x \in Admins, DeleteRoleCommit(x) PROVE RbacTypeOK'
  BY <1>3, <1>a DEF DeleteRoleCommit, Cascade
<1>4. ASSUME NEW t \in Tenants, NEW x \in Admins, NEW r \in Roles,
             NEW ps \in SUBSET Perms, SetPermissionsBegin(x, t, r, ps)
      PROVE RbacTypeOK'
  BY <1>4 DEF SetPermissionsBegin, ToggleTxn, Txn
<1>5. ASSUME NEW x \in Admins, SetPermissionsCommit(x) PROVE RbacTypeOK'
  <2>1. txn[x] \in ToggleTxn
    BY <1>0, <1>5, TxnTyped DEF SetPermissionsCommit
  <2>2. txn' \in [Admins -> Txn]
    BY <1>0, <1>5, <1>a, OvertakenTyped DEF SetPermissionsCommit
  <2>3. /\ rolePerms' \in [Roles -> SUBSET Perms]
        /\ rbacVersion' \in [Tenants -> Nat]
        /\ memVersion' \in [Members -> Nat]
    BY <1>5, <2>1 DEF SetPermissionsCommit, ToggleTxn
  <2> QED
    BY <1>5, <2>2, <2>3 DEF SetPermissionsCommit
<1>6. ASSUME NEW t \in Tenants, NEW m \in Members, NEW r \in Roles,
             NEW s \in AssignScopes, CreateAssignment(t, m, r, s)
      PROVE RbacTypeOK'
  BY <1>6 DEF CreateAssignment, Bump, NewRow, Assignment, Scopes
<1>7. ASSUME NEW t \in Tenants, NEW a \in assignments, DeleteAssignment(t, a)
      PROVE RbacTypeOK'
  BY <1>7 DEF DeleteAssignment, Bump, Assignment
<1>8. ASSUME NEW t \in Tenants, NEW m \in Members, NEW s \in MemberStatus,
             UpdateStatus(t, m, s)
      PROVE RbacTypeOK'
  BY <1>8 DEF UpdateStatus, Bump
<1>9. ASSUME NEW t \in Tenants, NEW x \in Admins, NEW m \in Members,
             NEW want \in SUBSET Roles, UpdateRolesBegin(x, t, m, want)
      PROVE RbacTypeOK'
  BY <1>9 DEF UpdateRolesBegin, ReplaceTxn, RowsOf, Txn
<1>10. ASSUME NEW x \in Admins, UpdateRolesCommit(x) PROVE RbacTypeOK'
  <2>1. txn[x] \in ReplaceTxn
    BY <1>0, <1>10, TxnTyped DEF UpdateRolesCommit
  <2>2. \A r \in txn[x].want : NewRow(txn[x].m, r, TenantScope) \in Assignment
    BY <2>1 DEF ReplaceTxn, NewRow, Assignment, Scopes
  <2>3. assignments' \in SUBSET Assignment
    BY <1>10, <2>2 DEF UpdateRolesCommit
  <2>4. memVersion' \in [Members -> Nat] /\ ops' \in Nat
    BY <1>10, <2>1 DEF UpdateRolesCommit, Bump, ReplaceTxn
  <2> QED
    BY <1>10, <1>a, <2>3, <2>4 DEF UpdateRolesCommit
<1>11. ASSUME NEW t \in Tenants, NEW x \in Admins, NEW m \in Members,
              NEW r \in Roles, InviteBegin(x, t, m, r)
       PROVE RbacTypeOK'
  BY <1>11 DEF InviteBegin, InviteTxn, Txn
<1>12. ASSUME NEW x \in Admins, InviteCommit(x) PROVE RbacTypeOK'
  <2>1. txn[x] \in InviteTxn
    BY <1>0, <1>12, TxnTyped DEF InviteCommit
  <2>2. pending' \in SUBSET Invitation /\ invited' \in SUBSET Roles
    BY <1>12, <2>1 DEF InviteCommit, InviteTxn, Invitation
  <2> QED
    BY <1>12, <1>a, <2>2 DEF InviteCommit
<1>13. ASSUME NEW i \in pending, NEW x \in Admins, AcceptBegin(x, i)
       PROVE RbacTypeOK'
  BY <1>13 DEF AcceptBegin, AcceptTxn, Txn
<1>14. ASSUME NEW x \in Admins, AcceptCommit(x) PROVE RbacTypeOK'
  <2>1. txn[x].i \in Invitation
    BY <1>0, <1>14, TxnTyped DEF AcceptCommit, AcceptTxn
  <2>2. /\ status' \in [Members -> MemberStatus \cup {"none"}]
        /\ assignments' \in SUBSET Assignment
        /\ ops' \in Nat
        /\ pending' \in SUBSET Invitation
    BY <1>14, <2>1 DEF AcceptCommit, Invitation, NewRow, Assignment, Scopes,
                       MemberStatus
  <2> QED
    BY <1>14, <1>a, <2>2 DEF AcceptCommit
<1>15. ASSUME NEW i \in pending, RevokeInvitation(i) PROVE RbacTypeOK'
  BY <1>15 DEF RevokeInvitation
<1>16. CASE UNCHANGED rbacVars
  BY <1>16 DEF rbacVars
<1> QED
  BY <1>1, <1>2, <1>3, <1>4, <1>5, <1>6, <1>7, <1>8, <1>9, <1>10, <1>11,
     <1>12, <1>13, <1>14, <1>15, <1>16
     DEF RbacNext, IamStep, TeamStep, InvitationStep, CommitStep

-----------------------------------------------------------------------------
(* What in-flight transactions carry stays sound while memberships and     *)
(* invitation rows do not disappear, for those that a step leaves alone or *)
(* ends.                                                                   *)
LEMMA TxnKept ==
    ASSUME RbacTypeOK, NEW x \in Admins, TxnOK(x),
           txn'[x] = txn[x] \/ txn'[x] = Idle,
           invited \subseteq invited',
           \A m \in Members : status[m] # "none" => status'[m] # "none"
    PROVE  TxnOK(x)'
<1>1. CASE txn'[x] = Idle
  BY <1>1 DEF TxnOK, ReplaceOK, InviteOK, AcceptOK, Idle
<1>2. CASE txn'[x] = txn[x]
  <2>1. txn[x].op = "replace" => txn[x].m \in Members
    BY TxnTyped DEF ReplaceTxn
  <2> QED
    BY <1>2, <2>1 DEF TxnOK, ReplaceOK, InviteOK, AcceptOK
<1> QED
  BY <1>1, <1>2

(* Everything but the type invariant survives every step.                  *)
LEMMA RbacInvStep ==
    RbacInv /\ [RbacNext]_rbacVars => RbacInv'
<1> DEFINE Goal ==
      /\ AssignmentsSound
      /\ InvitationsSound
      /\ \A i \in pending : i.r \in invited
      /\ \A r \in invited : Live(r)
      /\ \A x \in Admins : TxnOK(x)
<1> SUFFICES ASSUME RbacInv, [RbacNext]_rbacVars PROVE Goal'
  BY RbacTypeStep DEF RbacInv
<1> USE RbacAssumption DEF RbacInv, AssignmentsSound, InvitationsSound, Live,
                           TenantRole, Cascade, HeldByInvitation
<1>0. RbacTypeOK
  OBVIOUS
<1>a. ASSUME NEW x \in Admins,
             \A y \in Admins : txn'[y] = txn[y] \/ txn'[y] = Idle \/ (y = x /\ TxnOK(x)'),
             invited \subseteq invited',
             \A m \in Members : status[m] # "none" => status'[m] # "none"
      PROVE (\A y \in Admins : TxnOK(y))'
  BY <1>a, TxnKept
<1>b. ASSUME UNCHANGED <<txn, invited>>,
             \A m \in Members : status[m] # "none" => status'[m] # "none"
      PROVE (\A y \in Admins : TxnOK(y))'
  BY <1>b, TxnKept
<1>1. ASSUME NEW t \in Tenants, NEW r \in Roles, NEW ps \in SUBSET Perms,
             CreateRole(t, r, ps)
      PROVE Goal'
  <2>1. (\A y \in Admins : TxnOK(y))'
    BY <1>1, <1>b DEF CreateRole
  <2> QED
    BY <1>1, <2>1 DEF CreateRole, RbacTypeOK, Assignment, Invitation
<1>2. ASSUME NEW t \in Tenants, NEW x \in Admins, NEW r \in Roles,
             DeleteRoleCount(x, t, r)
      PROVE Goal'
  <2>1. TxnOK(x)'
    BY <1>2 DEF DeleteRoleCount, RbacTypeOK, TxnOK, ReplaceOK, InviteOK, AcceptOK
  <2>2. (\A y \in Admins : TxnOK(y))'
    BY <1>0, <1>2, <1>a, <2>1 DEF DeleteRoleCount, RbacTypeOK
  <2> QED
    BY <1>2, <2>2 DEF DeleteRoleCount
<1>3. ASSUME NEW x \in Admins, DeleteRoleCommit(x) PROVE Goal'
  <2>1. AssignmentsSound' /\ InvitationsSound'
    BY <1>3 DEF DeleteRoleCommit, RbacTypeOK, Assignment, Invitation
  <2>2. (\A y \in Admins : TxnOK(y))'
    BY <1>0, <1>3, <1>a DEF DeleteRoleCommit, RbacTypeOK
  <2>3. (\A r \in invited : Live(r))'
    BY <1>3 DEF DeleteRoleCommit, RbacTypeOK
  <2> QED
    BY <1>3, <2>1, <2>2, <2>3 DEF DeleteRoleCommit
<1>4. ASSUME NEW t \in Tenants, NEW x \in Admins, NEW r \in Roles,
             NEW ps \in SUBSET Perms, SetPermissionsBegin(x, t, r, ps)
      PROVE Goal'
  <2>1. TxnOK(x)'
    BY <1>4 DEF SetPermissionsBegin, RbacTypeOK, TxnOK, ReplaceOK, InviteOK, AcceptOK
  <2>2. (\A y \in Admins : TxnOK(y))'
    BY <1>0, <1>4, <1>a, <2>1 DEF SetPermissionsBegin, RbacTypeOK
  <2> QED
    BY <1>4, <2>2 DEF SetPermissionsBegin
<1>5. ASSUME NEW x \in Admins, SetPermissionsCommit(x) PROVE Goal'
  <2>1. ASSUME NEW y \in Admins PROVE TxnOK(y)'
    <3>0. UNCHANGED <<status, invited>>
      BY <1>5 DEF SetPermissionsCommit
    <3>1. CASE txn' = [txn EXCEPT ![x] = Idle]
      BY <1>0, <3>0, <3>1, TxnKept DEF RbacTypeOK
    <3>2. CASE txn' = Overtaken(x)
      <4>1. CASE y # x /\ txn[y].op = "toggle" /\ txn[y].r = txn[x].r
        <5>1. txn'[y].op = "toggle"
          BY <1>0, <3>2, <4>1, TxnTyped DEF Overtaken, ToggleTxn
        <5> QED
          BY <5>1 DEF TxnOK, ReplaceOK, InviteOK, AcceptOK
      <4>2. CASE ~(y # x /\ txn[y].op = "toggle" /\ txn[y].r = txn[x].r)
        BY <1>0, <3>0, <3>2, <4>2, TxnKept DEF Overtaken
      <4> QED
        BY <4>1, <4>2
    <3> QED
      BY <1>5, <3>1, <3>2 DEF SetPermissionsCommit
  <2> QED
    BY <1>5, <2>1 DEF SetPermissionsCommit
<1>6. ASSUME NEW t \in Tenants, NEW m \in Members, NEW r \in Roles,
             NEW s \in AssignScopes, CreateAssignment(t, m, r, s)
      PROVE Goal'
  <2>1. (\A y \in Admins : TxnOK(y))'
    BY <1>6, <1>b DEF CreateAssignment
  <2> QED
    BY <1>6, <2>1 DEF CreateAssignment, NewRow
<1>7. ASSUME NEW t \in Tenants, NEW a \in assignments, DeleteAssignment(t, a)
      PROVE Goal'
  <2>1. (\A y \in Admins : TxnOK(y))'
    BY <1>7, <1>b DEF DeleteAssignment
  <2> QED
    BY <1>7, <2>1 DEF DeleteAssignment
<1>8. ASSUME NEW t \in Tenants, NEW m \in Members, NEW s \in MemberStatus,
             UpdateStatus(t, m, s)
      PROVE Goal'
  <2>1. (\A y \in Admins : TxnOK(y))'
    BY <1>8, <1>b DEF UpdateStatus, RbacTypeOK, MemberStatus
  <2> QED
    BY <1>8, <2>1 DEF UpdateStatus, RbacTypeOK, MemberStatus, Assignment
<1>9. ASSUME NEW t \in Tenants, NEW x \in Admins, NEW m \in Members,
             NEW want \in SUBSET Roles, UpdateRolesBegin(x, t, m, want)
      PROVE Goal'
  <2>1. TxnOK(x)'
    BY <1>9 DEF UpdateRolesBegin, RbacTypeOK, TxnOK, ReplaceOK, InviteOK, AcceptOK, RowsOf
  <2>2. (\A y \in Admins : TxnOK(y))'
    BY <1>0, <1>9, <1>a, <2>1 DEF UpdateRolesBegin, RbacTypeOK
  <2> QED
    BY <1>9, <2>2 DEF UpdateRolesBegin
<1>10. ASSUME NEW x \in Admins, UpdateRolesCommit(x) PROVE Goal'
  <2>1. txn[x] \in ReplaceTxn /\ ReplaceOK(x)
    BY <1>0, <1>10, TxnTyped DEF UpdateRolesCommit, TxnOK
  <2>2. AssignmentsSound'
    BY <1>10, <2>1 DEF UpdateRolesCommit, ReplaceOK, NewRow, ReplaceTxn
  <2>3. InvitationsSound'
    BY <1>10, <2>1 DEF UpdateRolesCommit, ReplaceOK, NewRow, ReplaceTxn
  <2>4. (\A y \in Admins : TxnOK(y))'
    BY <1>0, <1>10, <1>a DEF UpdateRolesCommit, RbacTypeOK
  <2> QED
    BY <1>10, <2>2, <2>3, <2>4 DEF UpdateRolesCommit
<1>11. ASSUME NEW t \in Tenants, NEW x \in Admins, NEW m \in Members,
              NEW r \in Roles, InviteBegin(x, t, m, r)
       PROVE Goal'
  <2>1. TxnOK(x)'
    BY <1>11 DEF InviteBegin, RbacTypeOK, TxnOK, ReplaceOK, InviteOK, AcceptOK
  <2>2. (\A y \in Admins : TxnOK(y))'
    BY <1>0, <1>11, <1>a, <2>1 DEF InviteBegin, RbacTypeOK
  <2> QED
    BY <1>11, <2>2 DEF InviteBegin
<1>12. ASSUME NEW x \in Admins, InviteCommit(x) PROVE Goal'
  <2>1. InviteOK(x)
    BY DEF TxnOK
  <2>2. (\A y \in Admins : TxnOK(y))'
    BY <1>0, <1>12, <1>a DEF InviteCommit, RbacTypeOK
  <2> QED
    BY <1>12, <2>1, <2>2 DEF InviteCommit, InviteOK
<1>13. ASSUME NEW i \in pending, NEW x \in Admins, AcceptBegin(x, i) PROVE Goal'
  <2>1. TxnOK(x)'
    BY <1>13 DEF AcceptBegin, RbacTypeOK, TxnOK, ReplaceOK, InviteOK, AcceptOK
  <2>2. (\A y \in Admins : TxnOK(y))'
    BY <1>0, <1>13, <1>a, <2>1 DEF AcceptBegin, RbacTypeOK
  <2> QED
    BY <1>13, <2>2 DEF AcceptBegin
<1>14. ASSUME NEW x \in Admins, AcceptCommit(x) PROVE Goal'
  <2>1. AcceptOK(x) /\ txn[x].i \in Invitation
    BY <1>0, <1>14, TxnTyped DEF AcceptCommit, AcceptTxn, TxnOK
  <2>2. (\A y \in Admins : TxnOK(y))'
    BY <1>0, <1>14, <1>a DEF AcceptCommit, RbacTypeOK
  <2>3. AssignmentsSound' /\ InvitationsSound'
    BY <1>0, <1>14, <2>1 DEF AcceptCommit, AcceptOK, NewRow, RbacTypeOK,
                             Invitation, Assignment
  <2> QED
    BY <1>14, <2>2, <2>3 DEF AcceptCommit
<1>15. ASSUME NEW i \in pending, RevokeInvitation(i) PROVE Goal'
  <2>1. (\A y \in Admins : TxnOK(y))'
    BY <1>15, <1>b DEF RevokeInvitation
  <2> QED
    BY <1>15, <2>1 DEF RevokeInvitation
<1>16. CASE UNCHANGED rbacVars
  <2>1. (\A y \in Admins : TxnOK(y))'
    BY <1>16, <1>b DEF rbacVars
  <2> QED
    BY <1>16, <2>1 DEF rbacVars
<1> QED
  BY <1>1, <1>2, <1>3, <1>4, <1>5, <1>6, <1>7, <1>8, <1>9, <1>10, <1>11,
     <1>12, <1>13, <1>14, <1>15, <1>16
     DEF RbacNext, IamStep, TeamStep, InvitationStep, CommitStep

(* The tables keep their types, assignments refer to live roles of the     *)
(* member's own tenant, and invitations to roles that still exist, for any *)
(* number of tenants, members, roles and overlapping admins.               *)
THEOREM RbacSafe ==
    RbacSpec => [](RbacTypeOK /\ AssignmentsSound /\ InvitationsSound)
<1>1. RbacInit => RbacInv
  BY RbacInitInv
<1>2. RbacInv /\ [RbacNext]_rbacVars => RbacInv'
  BY RbacInvStep
<1>3. RbacInv => RbacTypeOK /\ AssignmentsSound /\ InvitationsSound
  BY DEF RbacInv
<1> QED
  BY <1>1, <1>2, <1>3, PTL DEF RbacSpec

(* The tables, and what transactions carry between their statements, keep  *)
(* their types.                                                            *)
THEOREM RbacTypeCorrect == RbacSpec => []RbacTypeOK
BY RbacSafe, PTL

(* InvitationsSound: a pending invitation promises a live role of its own  *)
(* tenant, and only a membership that exists holds roles, whoever deletes  *)
(* roles, invites, accepts or removes members at the same time.            *)
THEOREM InvitationsKeepRoles == RbacSpec => []InvitationsSound
BY RbacSafe, PTL

-----------------------------------------------------------------------------
(* A step that changes what a member may do changes its version, but for   *)
(* the two exceptions.                                                     *)
Versioned(m) ==
    \/ memVersion'[m] # memVersion[m]
    \/ /\ \/ EffectivePerms(m) \subseteq EffectivePerms(m)'
          \/ \E r \in RolesOf(m) : roleState'[r] = "deleted"
       /\ \/ EffectivePerms(m)' \subseteq EffectivePerms(m)
          \/ \E x \in Admins : /\ txn[x].op = "accept" /\ txn'[x] = Idle
                               /\ txn[x].i.m = m

(* A member's rows and permission tables untouched leave nothing to show.  *)
LEMMA UntouchedVersioned ==
    ASSUME NEW m, RowsOf(m)' = RowsOf(m),
           \A r \in RolesOf(m) : rolePerms'[r] = rolePerms[r]
    PROVE  Versioned(m)
<1>1. RolesOf(m)' = RolesOf(m)
  BY DEF RolesOf, RolesIn
<1>2. EffectivePerms(m)' = EffectivePerms(m)
  BY <1>1 DEF EffectivePerms, PermsOf
<1> QED
  BY <1>2 DEF Versioned

LEMMA StepVersioned ==
    ASSUME RbacInv, [RbacNext]_rbacVars, NEW m \in Members
    PROVE  Versioned(m)
<1> USE RbacAssumption
<1>0. RbacTypeOK /\ AssignmentsSound
  BY DEF RbacInv
<1> USE DEF RowsOf, RolesOf, RolesIn, Cascade
<1>1. ASSUME NEW t \in Tenants, NEW r \in Roles, NEW ps \in SUBSET Perms,
             CreateRole(t, r, ps)
      PROVE Versioned(m)
  <2>1. r \notin RolesOf(m)
    BY <1>0, <1>1 DEF CreateRole, AssignmentsSound, Live
  <2> QED
    BY <1>0, <1>1, <2>1, UntouchedVersioned DEF CreateRole, RbacTypeOK, Assignment
<1>2. ASSUME NEW x \in Admins, DeleteRoleCommit(x) PROVE Versioned(m)
  <2>1. CASE \E r \in RolesOf(m) : roleState'[r] = "deleted"
    <3>1. RolesOf(m)' \subseteq RolesOf(m) /\ UNCHANGED rolePerms
      BY <1>2 DEF DeleteRoleCommit
    <3>2. EffectivePerms(m)' \subseteq EffectivePerms(m)
      BY <3>1 DEF EffectivePerms, PermsOf
    <3> QED
      BY <2>1, <3>2 DEF Versioned
  <2>2. CASE ~ \E r \in RolesOf(m) : roleState'[r] = "deleted"
    <3>1. txn[x].r \in Roles
      BY <1>0, <1>2, TxnTyped DEF DeleteRoleCommit, DeleteTxn
    <3>2. RowsOf(m)' = RowsOf(m)
      BY <1>0, <1>2, <2>2, <3>1 DEF DeleteRoleCommit, RbacTypeOK
    <3> QED
      BY <1>2, <3>2, UntouchedVersioned DEF DeleteRoleCommit
  <2> QED
    BY <2>1, <2>2
<1>3. ASSUME NEW x \in Admins, SetPermissionsCommit(x) PROVE Versioned(m)
  <2> DEFINE r == txn[x].r
  <2>1. r \in Roles
    BY <1>0, <1>3, TxnTyped DEF SetPermissionsCommit, ToggleTxn
  <2>2. CASE r \in RolesOf(m) /\ rolePerms' # rolePerms
    <3>1. MemberTenant[m] = RoleTenant[r]
      BY <1>0, <2>2 DEF AssignmentsSound
    <3>2. memVersion'[m] = memVersion[m] + 1
      BY <1>3, <2>2, <3>1 DEF SetPermissionsCommit
    <3> QED
      BY <1>0, <3>2 DEF Versioned, RbacTypeOK
  <2>3. CASE ~(r \in RolesOf(m) /\ rolePerms' # rolePerms)
    <3>1. \A s \in RolesOf(m) : rolePerms'[s] = rolePerms[s]
      BY <1>0, <1>3, <2>1, <2>3 DEF SetPermissionsCommit, RbacTypeOK, Assignment
    <3> QED
      BY <1>3, <3>1, UntouchedVersioned DEF SetPermissionsCommit
  <2> QED
    BY <2>2, <2>3
<1>4. ASSUME NEW n \in Members, Bump(n), UNCHANGED rolePerms,
             \A a : a.m # n => (a \in assignments' <=> a \in assignments)
      PROVE Versioned(m)
  <2>1. CASE m = n
    BY <1>0, <1>4, <2>1 DEF Bump, Versioned, RbacTypeOK
  <2>2. CASE m # n
    BY <1>4, <2>2, UntouchedVersioned
  <2> QED
    BY <2>1, <2>2
<1>5. ASSUME NEW t \in Tenants, NEW n \in Members, NEW r \in Roles,
             NEW s \in AssignScopes, CreateAssignment(t, n, r, s)
      PROVE Versioned(m)
  BY <1>4, <1>5 DEF CreateAssignment, NewRow
<1>6. ASSUME NEW t \in Tenants, NEW a \in assignments, DeleteAssignment(t, a)
      PROVE Versioned(m)
  <2>1. a.m \in Members
    BY <1>0 DEF RbacTypeOK, Assignment
  <2> QED
    BY <1>4, <1>6, <2>1 DEF DeleteAssignment
<1>7. ASSUME NEW x \in Admins, UpdateRolesCommit(x) PROVE Versioned(m)
  <2>1. /\ txn[x] \in ReplaceTxn
        /\ ReplaceOK(x)
    BY <1>0, <1>7, TxnTyped DEF UpdateRolesCommit, RbacInv, TxnOK
  <2>2. CASE \A r \in txn[x].want : Live(r)
    BY <1>4, <1>7, <2>1, <2>2
       DEF UpdateRolesCommit, ReplaceTxn, ReplaceOK, NewRow
  <2>3. CASE ~ \A r \in txn[x].want : Live(r)
    BY <1>7, <2>3, UntouchedVersioned DEF UpdateRolesCommit
  <2> QED
    BY <2>2, <2>3
<1>8. ASSUME NEW x \in Admins, AcceptCommit(x) PROVE Versioned(m)
  <2> DEFINE i == txn[x].i
  <2>1. CASE i.m = m
    <3>1. RolesOf(m) \subseteq RolesOf(m)' /\ UNCHANGED rolePerms
      BY <1>8 DEF AcceptCommit
    <3>2. EffectivePerms(m) \subseteq EffectivePerms(m)'
      BY <3>1 DEF EffectivePerms, PermsOf
    <3>3. txn[x].op = "accept" /\ txn'[x] = Idle
      BY <1>0, <1>8 DEF AcceptCommit, RbacTypeOK
    <3> QED
      BY <2>1, <3>2, <3>3 DEF Versioned
  <2>2. CASE i.m # m
    BY <1>8, <2>2, UntouchedVersioned DEF AcceptCommit, NewRow
  <2> QED
    BY <2>1, <2>2
<1>9. CASE UNCHANGED <<rolePerms, assignments>>
  BY <1>9, UntouchedVersioned
<1> QED
  BY <1>1, <1>2, <1>3, <1>5, <1>6, <1>7, <1>8, <1>9
     DEF RbacNext, IamStep, TeamStep, InvitationStep, CommitStep, rbacVars,
         DeleteRoleCount, SetPermissionsBegin, UpdateStatus, UpdateRolesBegin,
         InviteBegin, InviteCommit, AcceptBegin, RevokeInvitation

(* Every change of a member's permissions that the two exceptions do not   *)
(* explain comes with another version of the membership, so that no token  *)
(* outlives it: what setRolePermissions, createAssignment,                 *)
(* deleteAssignment, updateRoles and updateStatus are careful to do.       *)
THEOREM RbacVersions == RbacSpec => ChangesAreVersioned
<1>1. RbacInv /\ [RbacNext]_rbacVars
        => [\A m \in Members : Versioned(m)]_rbacVars
  BY StepVersioned
<1>2. [\A m \in Members : Versioned(m)]_rbacVars
        <=> [\A m \in Members :
              \/ memVersion'[m] # memVersion[m]
              \/ /\ \/ EffectivePerms(m) \subseteq EffectivePerms(m)'
                    \/ \E r \in RolesOf(m) : roleState'[r] = "deleted"
                 /\ \/ EffectivePerms(m)' \subseteq EffectivePerms(m)
                    \/ \E x \in Admins :
                         /\ txn[x].op = "accept" /\ txn'[x] = Idle
                         /\ txn[x].i.m = m]_rbacVars
  BY DEF Versioned
<1> QED
  BY <1>1, <1>2, RbacInitInv, RbacInvStep, PTL DEF RbacSpec, ChangesAreVersioned
=============================================================================
