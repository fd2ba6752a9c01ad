\* Two projects, each used by one request at a time.
SPECIFICATION ControlSpec
CONSTANTS
    Key = {default, a, b}
    Legacy = default
    Port = {q1, q2}
    LegacyPort = {q1}
    Squatted = {}
    Pid = {p1, p2}
    Call = {c1, c2}
    None = None
    Serial = TRUE
    Reloads = TRUE
SYMMETRY Symmetry
INVARIANTS PortsUnique RowsMatchNodes
PROPERTIES NodesAreKept StopSparesOthers
CHECK_DEADLOCK FALSE
