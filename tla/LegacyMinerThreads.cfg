SPECIFICATION Spec
CONSTANTS
    EndNonce = 5
    BlockChanSize = 1
    HashChanSize = 1
    ThreadCounts = {2}
    MaxThreads = 2
    MaxStarts = 2
    MaxWorkers = 2
    MaxHandlers = 1
INVARIANT RemainingNoncesSearched
\* The miner has nothing to do after Stop.
CHECK_DEADLOCK FALSE
