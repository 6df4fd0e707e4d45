SPECIFICATION Spec
CONSTANTS
    Alice = alice
    Bob = bob
    Accounts = {alice, bob}
    Miners = {alice}
    NoAccount = noAccount
    Payments <- OneWallet
    BlockReward = 4
    InputFormats = {"hex"}
    PaymentsRepeat = TRUE
    MaxTemplates = 3
    MaxRestarts = 0
    MaxForgotten = 0
PROPERTIES
    OutputsAreKept
\* The bound on templates runs out.
CHECK_DEADLOCK FALSE
