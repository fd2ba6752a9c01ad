\* Two nodes on two ports, published in two ways: nodes come up any way, a command fails
\* or the API restarts.
SPECIFICATION FairSpec
CONSTANTS
    c1 = c1
    c2 = c2
    q1 = q1
    q2 = q2
    Identity <- MCIdentity
    DefaultPort = q1
    Ways <- MCWays
    Fork = {FALSE}
    None = None
    MaxRun = 2
    Terminal = TRUE
    MaxFailures = 1
INVARIANTS ReadyIsTrue ServesOneChain
PROPERTIES FollowsNode
CHECK_DEADLOCK FALSE
