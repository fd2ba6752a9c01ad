\* Chains are rolled back at any time.
SPECIFICATION FairSpec
CONSTANTS
    Scope = {a}
    Stream = {e1}
    Payload = {t1}
    None = None
    Batch = 2
    MaxHeight = 3
    MaxMined = 4
    Shared = FALSE
    Rewinds = TRUE
INVARIANTS PagesAreTrue
PROPERTIES FollowsTip
CHECK_DEADLOCK FALSE
