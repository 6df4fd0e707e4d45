SPECIFICATION Spec
CONSTANTS
    Configs <- MineableConfigs
    Reported <- SomeReported
    Zeros = {20, 64}
    MaxHeight = 6
INVARIANTS
    TypeOK
    TemplateCanBeMined
    MinedIsAccepted
    RewardFallsAtHalvings
\* The bound on the height runs out.
CHECK_DEADLOCK FALSE
