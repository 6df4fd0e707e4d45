SPECIFICATION Spec
CONSTANTS
    Handlers = {h1, h2}
    Boot = boot
    NoBlock = NoBlock
    MaxHash = 4
    MaxBoots = 3
    Clocks = {1}
    WeakHashes = {}
    StorageMayFail = TRUE
SYMMETRY HandlerSymmetry
INVARIANTS
    BestKeyResolves
    QuietStoreComplete
    UtxoIsLeftoverThenChain
\* The node may stay down, and the bounds on hashes and boots run out.
CHECK_DEADLOCK FALSE
