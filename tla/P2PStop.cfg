SPECIFICATION FairSpec
CONSTANTS
    Remotes = {r1}
    SeedNodes = {s1}
    MaxPeers = 2
    BlockChanSize = 0
    MaxConns = 2
PROPERTIES
    StopReturns
\* The network has nothing to do after Stop.
CHECK_DEADLOCK FALSE
