SPECIFICATION SignInSpec
CONSTANTS
    w1 = w1
    w2 = w2
    w3 = w3
    Wallet <- MCWallet
    Ref = {"grant1", "grant2", "grant3"}
    Payment = {}
    NRows = 7
    Rows <- MCRows
    MaxHolds = 0
    MaxSupply = 3
    MaxRefund = 0
    Spelling = {"A", "a"}
    Normal <- MCNormal
    MaxLinks = 3
    MaxVisits = 3
    WalletOf <- MCWalletOf
    GrantRef <- MCGrantRef
    NewGrant = 1
INVARIANT EveryVerifiedLinkOpensASession
CHECK_DEADLOCK FALSE
