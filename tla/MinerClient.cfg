SPECIFICATION FairSpec
CONSTANTS
    NoTemplate = noTemplate
    EventBusSize = 1
    MaxRetries = 2
    MaxBlocks = 3
INVARIANTS
    TypeOK
    AddedOnce
    ReportsAreTrue
PROPERTIES
    FoundIsReported
    StopReturns
    NothingAfterStop
\* The miner has nothing to do after Stop.
CHECK_DEADLOCK FALSE
