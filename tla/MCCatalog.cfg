\* Two property admins, two meters, a property that comes and goes
SPECIFICATION Spec
CONSTANTS
    None = None  root = root  ann = ann  bob = bob  p1 = p1  p2 = p2
    Users = {root, ann, bob}
    GlobalAdmins = {root}
    Properties = {p1, p2}
    Meters = {m1, m2, m3}
    m1 = m1  m2 = m2
    MeteredBy <- MCMeteredBy
    Founding <- MCFounding
    Roles = {"admin", "user"}
    MaxRequests = 3
    Workers = {w1, w2}
SYMMETRY Threads
CHECK_DEADLOCK FALSE
INVARIANTS
    SuccessorsSound
PROPERTIES
    ReplacedForGood
    LastAdminGuarded
