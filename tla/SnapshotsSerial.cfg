\* One project; users keep sessions, reverts, restarts and resets apart.
SPECIFICATION Spec
CONSTANTS
    Scope = {a}
    Write = {w1, w2}
    Req = {r1, r2}
    None = None
    MaxId = 3
    MaxLife = 1
    Serial = TRUE
SYMMETRY Symmetry
INVARIANTS ZeroEffect LiveIsListed
PROPERTIES RevertRestores
CHECK_DEADLOCK FALSE
