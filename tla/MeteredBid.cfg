SPECIFICATION MeteredSpec
CONSTANTS
    bankroll = bankroll
    att1 = att1
    att2 = att2
    tokBid = tokBid
    tok1 = tok1
    tok2 = tok2
    Wallet <- MCWallet
    Ref = {"grant", "payout"}
    Payment = {}
    NRows = 7
    Rows <- MCRows
    MaxHolds = 2
    MaxSupply = 4
    MaxRefund = 0
    Token <- MCToken
    MaxCalls = 2
    Bankroll = bankroll
    MaxAttempts = 2
    MaxBids = 1
    MaxSteps = 2
    AttWallet <- MCAttWallet
    AttToken <- MCAttToken
    BidToken = tokBid
    Grant = 2
    Ceiling = 1
    AskedPrice = 1
    Dust = 0
    GrantRef = "grant"
    PayoutRef = "payout"
INVARIANT BidStepCannotFailTheRound
CHECK_DEADLOCK FALSE
