SPECIFICATION BooksSpec
CONSTANTS
    w1 = w1
    Wallet <- MCWallet
    Ref = {"grant"}
    Payment = {}
    NRows = 5
    Rows <- MCRows
    MaxHolds = 1
    MaxSupply = 2
    MaxRefund = 0
INVARIANT ReportHasNoDrift
CHECK_DEADLOCK FALSE
