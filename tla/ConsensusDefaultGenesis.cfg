SPECIFICATION Spec
CONSTANTS
    Configs <- DefaultConfig
    Reported <- NoneReported
    Zeros = {64}
    MaxHeight = 6
INVARIANTS
    TemplateCanBeMined
\* The bound on the height runs out.
CHECK_DEADLOCK FALSE
