SPECIFICATION Spec
CONSTANTS
    Handlers = {h1}
    Boot = boot
    NoBlock = NoBlock
    MaxHash = 5
    MaxBoots = 3
    Clocks = {1, 2}
    WeakHashes = {5}
    StorageMayFail = FALSE
INVARIANTS
    TypeOK
    ChainLinked
    AckedSurvive
PROPERTIES
    ImplementsDurableChain
\* The node may stay down, and the bounds on hashes and boots run out.
CHECK_DEADLOCK FALSE
