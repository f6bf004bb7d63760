\* Sign-ins, logouts, deletions, role changes and break-glass logins, two at a time
SPECIFICATION Spec
CONSTANTS
    None = None  i1 = i1  i2 = i2  i3 = i3
    alice = alice  bob = bob  root = root
    Ids <- MCIds
    Local = root
    Subs = {alice}
    Existing <- RootOrNamesake
    PatchRoles = {"superadmin", "user"}
    IdpRoles = {"admin", "user", "none"}
    Workers = {w1, w2}
    MaxRequests = 4
INVARIANTS
    RevokedStayRevoked
    SessionsCarryTheRole
    OneAccountPerIdentity
