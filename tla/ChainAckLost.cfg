SPECIFICATION Spec
CONSTANTS
    Handlers = {h1, h2}
    Boot = boot
    NoBlock = NoBlock
    MaxHash = 3
    MaxBoots = 1
    Clocks = {1}
    WeakHashes = {}
    StorageMayFail = FALSE
SYMMETRY HandlerSymmetry
INVARIANTS
    AckedSurvive
\* The node may stay down, and the bounds on hashes and boots run out.
CHECK_DEADLOCK FALSE
