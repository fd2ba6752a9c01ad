\* Starts, stops and kills overlap freely: two projects, two ports, a foreign server on one.
SPECIFICATION FairSpec
CONSTANTS
    Key = {k1, k2}
    Port = {q1, q2}
    Squatted = {q2}
    Pid = {p1, p2}
    Call = {c1, c2}
    None = None
    Serial = FALSE
INVARIANTS HandleIsOwn StopHearsExit
PROPERTIES StopFreesPort StartSettles StopReturns KillTakesEffect
CHECK_DEADLOCK FALSE
