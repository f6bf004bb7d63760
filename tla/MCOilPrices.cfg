\* One delivery, its prices sent, derived and changed by overlapping requests
SPECIFICATION Spec
CONSTANTS
    None = None  Unset = Unset
    Tanks = {1}
    Levels = {900}
    Times = {1, 2}
    Window = 1
    Litres = {500, 700}
    Totals = {50000, 90000}
    PerLitre = {10000, 15000}
    MaxTotal = 100000
    MaxPerLiter = 15000
    Stored <- Nothing
    Today = 1
    Asked = {}
    Workers = {w1, w2}
    MaxReadings = 0
    MaxDeliveries = 1
    MaxRequests = 3
SYMMETRY Threads
CHECK_DEADLOCK FALSE
INVARIANTS
    SerialPricesAgree
