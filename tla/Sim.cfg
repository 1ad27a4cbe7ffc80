SPECIFICATION FairSimSpec
CONSTANTS
    a1 = a1
    a2 = a2
    Bidder <- MCBidder
    Competitor <- MCBidder
    Salt = {"s"}
    Draw <- MCDraw
    Reserve = 1
    MaxPayout = 1
    MaxBounties = 2
    Deck <- MCDeck
    MaxReopens = 2
    MaxFailures = 2
    Grant = 2
    Ceiling = 1
    Endowment = 1
    MaxFaults = 1
INVARIANTS
    AwardHasOneOwner
    NobodyIdlesOnWonWork
    ShelvedIsNotAttempted
    StopsForLateCallsOnly
PROPERTIES
    SimEnds
CHECK_DEADLOCK FALSE
