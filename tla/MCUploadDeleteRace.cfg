\* a POST attaches the file between delete_reading's check and its unlink
CONSTANTS
    None = None  p1 = p1  p2 = p2  m1 = m1
    ann = ann  bob = bob  root = root
    Users = {root}  GlobalAdmins = {root}
    Properties = {p1}  Meters = {m1}
    PropertyOf <- MCPropertyOfOne
    Role <- MCRole
    f1 = f1  f2 = f2  Files = {f1, f2}
    ScanRequests <- RootScans  CreateRequests <- RootCreates
    Images = {jpg}  ImageOf <- MCImageOf
    Workers = {w1, w2}
    MaxReadings = 2
    MaxCrashes = 0
SPECIFICATION Spec
PROPERTY DeletionSparesReferenced
