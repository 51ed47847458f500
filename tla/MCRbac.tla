------------------------------- MODULE MCRbac -------------------------------
(* Instances of Rbac for TLC: the owner of one tenant and a member of      *)
(* another, and a single tenant.                                           *)
EXTENDS Rbac, TLC

CONSTANTS ann, bob, cat, owner, staff, staff2, acme, zeta

MCMemberTenant == [m \in Members |-> IF m = cat THEN zeta ELSE acme]
MCRoleTenant == [r \in Roles |-> IF r = staff2 THEN zeta ELSE acme]
MCSymmetry == Permutations(Admins)
MCTenantOnly == {TenantScope}
MCAllScopes == {TenantScope, StoreUnnamed} \cup Stores
=============================================================================
