\* Two toggles of one role.
SPECIFICATION RbacSpec
CONSTANTS
    ann = ann  bob = bob  cat = cat
    owner = owner  staff = staff  staff2 = staff2
    acme = acme  zeta = zeta
    Tenants = {acme}
    Members = {ann, bob}
    Roles = {owner, staff}
    Perms = {read, write}
    Stores = {s1}
    MemberTenant <- MCMemberTenant
    RoleTenant <- MCRoleTenant
    SystemRoles = {owner}
    Owners = {ann}
    Admins = {x1, x2}
    AssignScopes <- MCTenantOnly
    MaxOps = 2
    MaxVersion = 3

CHECK_DEADLOCK FALSE
PROPERTY TogglesApply
