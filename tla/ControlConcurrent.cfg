\* One project; requests on it, and requests without a project, overlap freely.
SPECIFICATION FairControlSpec
CONSTANTS
    Key = {default, a}
    Legacy = default
    Port = {q1}
    LegacyPort = {}
    Squatted = {}
    Pid = {p1, p2}
    Call = {c1, c2}
    None = None
    Serial = FALSE
    Reloads = FALSE
PROPERTIES LifecycleSpec StartingEnds RunningIsReal
CHECK_DEADLOCK FALSE
