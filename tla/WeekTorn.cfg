SPECIFICATION WeekSpec
CONSTANTS
    a1 = a1
    a2 = a2
    g = g
    c1 = c1
    c2 = c2
    Caller = {c1, c2}
    Bidder <- MCBidder
    Competitor <- MCBidder
    Cast <- MCCast
    Guest <- MCGuest
    Salt <- MCSalt
    Draw <- MCDraw
    Week <- MCDoors
    Ware <- MCWare
    Place = {"office", "square", "home"}
    Reserve = 1
    MaxPayout = 2
    MaxBounties = 3
    WindowTicks = 1
    MaxReopens = 2
    StayPrice = 1
    MaxStayTicks = 2
    Pitches = 1
    Cards = 1
    Grant = 2
    Ceiling = 1
    Dust = 0
    MaxCrashes = 1
PROPERTIES
    ResumedFromOneBoundary
CHECK_DEADLOCK FALSE
