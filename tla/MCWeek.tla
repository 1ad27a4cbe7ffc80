-------------------------------- MODULE MCWeek --------------------------------
EXTENDS Week, TLC
CONSTANTS a1, a2, g, c1, c2

MCBidder == {a1, a2, g}
MCCast == <<a1, a2>>
MCGuest == {g}
MCSalt == (1..MaxBounties) \X (0..4)
MCDraw == [s \in MCSalt |-> IF (s[1] + s[2]) % 2 = 0 THEN (a1 :> 0 @@ a2 :> 1 @@ g :> 2)
                                                      ELSE (a1 :> 1 @@ a2 :> 0 @@ g :> 2)]
MCWare == {[item |-> "map", price |-> 1]}

Plain == [deck |-> 1, posts |-> {1}, sits |-> {}, notebook |-> 0, stall |-> 0, tie |-> "ByArrival",
          asks |-> {1}, stays |-> {}, costs |-> {0}, ticks |-> 3, saved |-> FALSE, knocks |-> {},
          callers |-> {}, walks |-> {"office"}, ranked |-> {},
          late |-> {}]

\* What each week is about: bids on two tied sellers' lots and empty windows;
\* the shop and the stalls; stays at the office and resumes; a sitting and
\* resumes; a guest who comes and goes and resumes; a guest with a stall; two
\* callers at the door of a week that only walks; a caller whose calls outlive
\* their steps.
Bidding == [Plain EXCEPT !.walks = {"office", "street"}, !.costs = {0, 1}, !.ticks = 5, !.tie = "ByLot"]
Shops == [Plain EXCEPT !.walks = {"office", "square"}, !.ticks = 4, !.notebook = 1, !.stall = 1]
Stays == [Plain EXCEPT !.walks = {"office", "home"}, !.stays = {0, 2}, !.saved = TRUE]
Sits == [Plain EXCEPT !.sits = {2}, !.walks = {"office", "home"}, !.ranked = {a1}, !.saved = TRUE,
                     !.late = {a1}]
Doors == [Plain EXCEPT !.saved = TRUE, !.knocks = {g}, !.callers = {c1}]
Peddler == [Plain EXCEPT !.walks = {"office"}, !.stall = 1, !.ticks = 2, !.knocks = {g}, !.callers = {c1}]
Queue == [Plain EXCEPT !.posts = {}, !.walks = {"home"}, !.ticks = 2, !.saved = TRUE, !.knocks = {g},
                       !.callers = {c1, c2}]

Late == [Plain EXCEPT !.walks = {"office", "square"}, !.costs = {0, 1}, !.stays = {1}, !.stall = 1,
                      !.late = {a1}]

MCWeek == {Bidding, Shops, Stays, Sits, Doors, Peddler, Queue, Late}
MCDoors == {Doors}
=============================================================================
