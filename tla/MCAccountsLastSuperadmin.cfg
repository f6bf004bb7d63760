\* Two superadmins act on each other
SPECIFICATION Spec
CONSTANTS
    None = None  i1 = i1  i2 = i2  i3 = i3
    alice = alice  bob = bob  root = root
    Ids <- MCIds
    Local = root
    Subs = {alice, bob}
    Existing <- TwoSuperadmins
    PatchRoles = {"user"}
    IdpRoles = {}
    Workers = {w1, w2}
    MaxRequests = 2
PROPERTY LastSuperadminProtected
