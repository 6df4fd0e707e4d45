SPECIFICATION Spec
CONSTANTS
    Alice = alice
    Bob = bob
    Accounts = {alice, bob}
    Miners = {alice}
    NoAccount = noAccount
    Payments <- TwoWallets
    BlockReward = 4
    InputFormats = {"hex", "array"}
    PaymentsRepeat = FALSE
    MaxTemplates = 4
    MaxRestarts = 1
    MaxForgotten = 1
INVARIANTS
    TypeOK
    BalancesAreAccounts
    BalancesCoverAccounts
    ConfirmedAsOftenAsAsked
    PendingIsNotLost
PROPERTIES
    RestartKeepsUtxos
    OutputsAreKept
\* The bound on templates runs out.
CHECK_DEADLOCK FALSE
