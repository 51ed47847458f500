\* Two tenants, two overlapping admins; the owner of one, a member of the other.
SPECIFICATION RbacSpec
CONSTANTS
    ann = ann  bob = bob  cat = cat
    owner = owner  staff = staff  staff2 = staff2
    acme = acme  zeta = zeta
    Tenants = {acme, zeta}
    Members = {bob, cat}
    Roles = {owner, staff, staff2}
    Perms = {write}
    Stores = {s1}
    MemberTenant <- MCMemberTenant
    RoleTenant <- MCRoleTenant
    SystemRoles = {owner}
    Owners = {bob}
    Admins = {x1, x2}
    AssignScopes <- MCAllScopes
    MaxOps = 3
    MaxVersion = 2
CHECK_DEADLOCK FALSE
SYMMETRY MCSymmetry
INVARIANTS RbacTypeOK AssignmentsSound InvitationsSound
PROPERTY ChangesAreVersioned
