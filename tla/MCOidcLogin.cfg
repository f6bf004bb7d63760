\* Two attempts of two browsers, two requests at a time
SPECIFICATION Spec
CONSTANTS
    Attempts = {a1, a2}
    Codes = {c1, c2}
    Browsers = {b1, b2}
    Workers = {w1, w2}
    MaxPending = 1
    None = None
SYMMETRY Symmetry
INVARIANTS
    OneSessionAtHome
PROPERTY ImplementsAttempts
