SPECIFICATION Spec
CONSTANTS
    Alice = alice
    Bob = bob
    Accounts = {alice, bob}
    Miners = {alice}
    NoAccount = noAccount
    Payments <- OneWallet
    BlockReward = 4
    InputFormats = {"array"}
    PaymentsRepeat = FALSE
    MaxTemplates = 2
    MaxRestarts = 0
    MaxForgotten = 0
INVARIANTS
    InputsAreSpent
\* The bound on templates runs out.
CHECK_DEADLOCK FALSE
