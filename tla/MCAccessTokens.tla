--------------------------- MODULE MCAccessTokens ---------------------------
(* Instances of AccessTokens for TLC.  The watched member was invited; the *)
(* owner, whose rows nobody needs to touch, is left out.                   *)
EXTENDS AccessTokens

CONSTANTS bob, light, staff, acme

MCMemberTenant == [m \in Members |-> acme]
MCRoleTenant == [r \in Roles |-> acme]
MCAllScopes == {TenantScope, StoreUnnamed} \cup Stores
=============================================================================
