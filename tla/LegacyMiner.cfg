SPECIFICATION FairSpec
CONSTANTS
    EndNonce = 5
    BlockChanSize = 1
    HashChanSize = 1
    ThreadCounts <- SomeThreadCounts
    MaxThreads = 2
    MaxStarts = 2
    MaxWorkers = 2
    MaxHandlers = 1
INVARIANTS
    TypeOK
    RangesPartitionNonces
PROPERTIES
    StopEndsAll
    ResultsAreTaken
\* The miner has nothing to do after Stop.
CHECK_DEADLOCK FALSE
