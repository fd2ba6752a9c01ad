\* Calls and delegate calls between two contracts, to three deep.
SPECIFICATION ViewsSpec
CONSTANTS
    Contract = {a, b}
    Slot = {s}
    Value = {0, 1}
    None = None
    Gas = 4
    MaxDepth = 3
    Untracked = FALSE
    Touching = FALSE
SYMMETRY Symmetry
INVARIANTS ContextIsTrue PreviousIsTrue NetDiffIsTrue GasAdds PageIsTrue
CHECK_DEADLOCK FALSE
