SPECIFICATION Spec
CONSTANTS
    Alice = alice
    Bob = bob
    Accounts = {alice, bob}
    Miners = {alice}
    NoAccount = noAccount
    Payments <- OneWallet
    BlockReward = 4
    InputFormats = {"hex"}
    PaymentsRepeat = FALSE
    MaxTemplates = 1
    MaxRestarts = 1
    MaxForgotten = 0
INVARIANTS
    PendingSurvives
\* The bound on templates runs out.
CHECK_DEADLOCK FALSE
