SPECIFICATION Spec
CONSTANTS
    t = t
    h = h
    Token = {t}
    Holder = {h}
    Layout = {"solidity", "vyper"}
    MAX_SLOT = 1
    PROBE_AMOUNT = 1
    Value = {0, 1, 2}
    Name = {n}
    Posted <- PostedOps
    Scripted <- ScriptedOps
    None = None
    MaxId = 2
PROPERTIES PatchesAreExact HeardTokenKept RunsWhatWasShown
CHECK_DEADLOCK FALSE
