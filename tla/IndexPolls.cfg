\* One stream moves between two projects that share transaction hashes, are
\* rolled back, restarted and reset, with polls under way.
SPECIFICATION Spec
CONSTANTS
    Scope = {a, b}
    Stream = {e1}
    Payload = {t1}
    None = None
    Batch = 1
    MaxHeight = 2
    MaxMined = 3
    Shared = TRUE
    Rewinds = TRUE
SYMMETRY Symmetry
INVARIANTS IndexExplained CursorCovered
PROPERTIES KeepsPromise
CHECK_DEADLOCK FALSE
