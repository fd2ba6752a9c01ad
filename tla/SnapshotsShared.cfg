\* Two projects take a snapshot each.
SPECIFICATION Spec
CONSTANTS
    Scope = {a, b}
    Write = {w1}
    Req = {r1, r2}
    None = None
    MaxId = 2
    MaxLife = 1
    Serial = TRUE
SYMMETRY Symmetry
INVARIANTS EveryLiveIsListed
CHECK_DEADLOCK FALSE
