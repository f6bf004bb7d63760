\* Two tanks, three readings and one more, one delivery, two requests
SPECIFICATION Spec
CONSTANTS
    None = None  Unset = Unset
    Tanks = {1, 2}
    Levels = {900, 960, 1500}
    Times = {1, 2, 3}
    Window = 1
    Litres = {500}
    Totals = {}
    PerLitre = {}
    MaxTotal = 100000
    MaxPerLiter = 20000
    Stored <- TwoTanks
    Today = 2
    Asked <- Pairs
    Workers = {w1, w2}
    MaxReadings = 4
    MaxDeliveries = 1
    MaxRequests = 2
SYMMETRY Threads
CHECK_DEADLOCK FALSE
INVARIANTS
    DeliveriesCountOnce
    BalanceTelescopes
    NoticesAreUnexplained
    DismissedStaysClosed
