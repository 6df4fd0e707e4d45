SPECIFICATION Spec
CONSTANTS
    Alice = alice
    Bob = bob
    Accounts = {alice, bob}
    Miners = {alice}
    NoAccount = noAccount
    Payments <- TwoPayments
    BlockReward = 4
    InputFormats = {"hex"}
    PaymentsRepeat = FALSE
    MaxTemplates = 2
    MaxRestarts = 0
    MaxForgotten = 0
INVARIANTS
    InputsInOrder
\* The bound on templates runs out.
CHECK_DEADLOCK FALSE
