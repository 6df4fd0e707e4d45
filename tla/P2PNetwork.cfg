SPECIFICATION FairSpec
CONSTANTS
    Remotes = {r1}
    SeedNodes = {s1}
    MaxPeers = 2
    BlockChanSize = 1
    MaxConns = 2
INVARIANTS
    TypeOK
    ListedIsServed
    OpenIsListed
    StopClosesReaders
    OneConnectionPerID
PROPERTIES
    NetworkEnds
    ClosedEnds
\* The network has nothing to do after Stop.
CHECK_DEADLOCK FALSE
