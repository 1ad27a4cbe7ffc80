SPECIFICATION FairRechargeSpec
CONSTANTS
    w1 = w1
    Wallet <- MCWallet
    Ref = {"grant", "payment"}
    Payment = {"payment"}
    NRows = 5
    Rows <- MCRows
    MaxHolds = 0
    MaxSupply = 10000000
    MaxRefund = 0
    Spelling = {"a"}
    Normal <- MCNormal
    MaxLinks = 1
    MaxVisits = 1
    WalletOf <- MCWalletOf
    GrantRef <- MCGrantRef
    NewGrant = 1
    Hook = {"h1", "h2"}
    Cents = {30, 500}
    MaxCuts = 2
INVARIANTS
    WalletsAccountForPayments
    CreditsArePaidFor
    AnsweredIsCredited
PROPERTIES
    EveryPaymentLands
CHECK_DEADLOCK FALSE
