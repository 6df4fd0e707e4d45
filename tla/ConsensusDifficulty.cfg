SPECIFICATION Spec
CONSTANTS
    Configs <- MineableConfigs
    Reported <- SomeReported
    Zeros = {1, 20, 21, 40, 64}
    MaxHeight = 6
INVARIANTS
    DifficultyIsChecked
\* The bound on the height runs out.
CHECK_DEADLOCK FALSE
