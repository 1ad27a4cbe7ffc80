SPECIFICATION FairSimSpec
CONSTANTS
    a1 = a1
    a2 = a2
    Bidder <- MCBidder
    Competitor <- MCBidder
    Salt = {"s"}
    Draw <- MCDraw
    Reserve = 1
    MaxPayout = 1
    MaxBounties = 1
    Deck <- MCJudgedDeck
    MaxReopens = 2
    MaxFailures = 2
    Grant = 1
    Ceiling = 1
    Endowment = 0
    MaxFaults = 0
PROPERTY QuietIsTotal
CHECK_DEADLOCK FALSE
