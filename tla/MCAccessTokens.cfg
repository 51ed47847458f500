\* One member, one custom role, one resolve and one request at a time.
SPECIFICATION TokenSpec
CONSTANTS
    bob = bob  light = light  staff = staff  acme = acme
    Tenants = {acme}
    Members = {bob}
    Roles = {light, staff}
    Perms = {write}
    Stores = {s1}
    MemberTenant <- MCMemberTenant
    RoleTenant <- MCRoleTenant
    SystemRoles = {light}
    Owners = {}
    Admins = {x1}
    AssignScopes <- MCAllScopes
    MaxOps = 3
    MaxVersion = 2
    Mints = {m1}
    Requests = {q1}
    MaxTokens = 1
CHECK_DEADLOCK FALSE
INVARIANTS TokenTypeOK CurrentTokenSound GrantedWasHeld
