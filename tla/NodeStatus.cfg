\* The conventional port and another, the default chain and another.
SPECIFICATION FairSpec
CONSTANTS
    Port = {8545, 8546}
    DefaultPort = 8545
    Chain = {31337, 1}
    DefaultChain = 31337
    Every = {1}
    Gap = {1, 2}
    Project = {}
    None = None
    Samples = 3
    MaxStopped = 1
    MaxHeight = 2
    MaxEvents = 1
    Holes = FALSE
INVARIANTS AnswersAreTrue
PROPERTIES StatusSettles
CHECK_DEADLOCK FALSE
