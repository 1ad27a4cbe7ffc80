SPECIFICATION LedgerSpec
CONSTANTS
    w1 = w1
    w2 = w2
    Wallet <- MCWallet
    Ref = {"grant", "payment"}
    Payment = {"payment"}
    NRows = 6
    Rows <- MCRows
    MaxHolds = 3
    MaxSupply = 2
    MaxRefund = 1
INVARIANTS
    Conserved
    OpenHoldsCanLand
PROPERTIES
    ImplementsPurses
CHECK_DEADLOCK FALSE
