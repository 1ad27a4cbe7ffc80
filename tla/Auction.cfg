SPECIFICATION AuctionSpec
CONSTANTS
    a1 = a1
    a2 = a2
    a3 = a3
    Bidder <- MCBidder
    Salt = {"s1", "s2"}
    Draw <- MCDraw
    Reserve = 1
    MaxPayout = 2
    Asks = {0, 1, 2, 3}
INVARIANTS
    AwardIsLawful
    RestoredBookAwardsAlike
CHECK_DEADLOCK FALSE
