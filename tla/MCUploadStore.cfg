\* Two threads and the clean-up, two tenants: one photo shared, one foreign
CONSTANTS
    None = None  p1 = p1  p2 = p2  m1 = m1
    ann = ann  bob = bob  root = root
    Users = {ann, bob}  GlobalAdmins = {}
    Properties = {p1, p2}  Meters = {m1}
    PropertyOf <- MCPropertyOfOne
    Role <- MCRole
    f1 = f1  f2 = f2  Files = {f1, f2}
    ScanRequests <- TenantScans  CreateRequests <- TenantCreates
    Images = {jpg}  ImageOf <- MCImageOf
    Workers = {w1, w2}
    MaxReadings = 2
    MaxCrashes = 0
SYMMETRY Threads
SPECIFICATION Spec
INVARIANTS
    EvidenceOwned
    UniqueImagePerMeter
    RemovalSparesEarlier
    DeletesLeaveNothing
