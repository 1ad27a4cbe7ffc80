------------------------------- MODULE SimProofs -------------------------------
(***************************************************************************)
(* The real-time world, for every deck, any number of agents and every     *)
(* order of ticks, deadlines and reports.  The invariant says where each   *)
(* bounty is: on the board and perhaps on one window, in one queue, in one *)
(* worker, or done with; and what a bounty on a window can be relied on    *)
(* for, which is what keeps the world from stopping itself.  A call that   *)
(* outlived its step stops it all the same, in the middle of a handler:    *)
(* then the shelves and the types are all that is left.                    *)
(*                                                                         *)
(* Its parts are operators of the board, the windows, the workers and the  *)
(* queues, because one event changes them in steps: dispatchNext begins    *)
(* where the award, the bid or the settlement before it left them.         *)
(*                                                                         *)
(* AuctionProofs is here for what the first scan of a book finds.          *)
(***************************************************************************)
EXTENDS Sim, AuctionProofs, FiniteSetTheorems

-----------------------------------------------------------------------------
Posting == [state : {"open", "awarded", "solved"}, judged : BOOLEAN,
            winner : Bidder \cup {Nobody}, price : Nat, failures : Nat]
Offer == [bounty : Id, book : Seq(Bid)]
Work == {Free} \cup [step : {"bid"}, offered : SUBSET Id]
               \cup [step : {"attempt"}, bounty : Id, budget : Nat]

WorldTypes ==
    /\ phase \in {"running", "closing", "ended", "stuck", "broken"}
    /\ deck \in 0..Len(Deck) /\ bounties \in Seq(Posting) /\ Len(bounties) = deck
    /\ windows \in Seq(Offer)
    /\ reopens \in [Id -> 0..MaxReopens] /\ shelved \subseteq Id
    /\ purse \in 0..Endowment /\ named \subseteq Id /\ faults \in 0..MaxFaults

AgentTypes ==
    /\ job \in [Bidder -> Work] /\ queue \in [Bidder -> Seq(Id)]
    /\ bankroll \in [Bidder -> Nat] /\ retired \subseteq Bidder /\ outlived \subseteq Bidder

\* A window is on a bounty that may be sold: open, on no shelf, not beaten, no
\* attempt made on it this tick; and it is the only window on it.
Sellable(board, b, shelf, used) ==
    /\ b \in DOMAIN board /\ board[b].state = "open" /\ board[b].failures < MaxFailures
    /\ b \notin shelf /\ b \notin used

OpenWindows(offers, board, shelf, used) ==
    /\ \A i \in DOMAIN offers : Sellable(board, offers[i].bounty, shelf, used)
    /\ \A i, j \in DOMAIN offers : offers[i].bounty = offers[j].bounty => i = j

\* The books are in arrival order, and nobody asks for less than nothing.
Books(offers) ==
    \A i \in DOMAIN offers :
        /\ InArrivalOrder(offers[i].book)
        /\ \A k \in DOMAIN offers[i].book : offers[i].book[k].price \in Nat

\* A shelved bounty is open, and an award is of a bounty that may fail once more.
Shelves(board, shelf, tries) ==
    /\ \A b \in DOMAIN board :
          /\ board[b].failures <= MaxFailures
          /\ board[b].state = "awarded" => board[b].failures < MaxFailures
    /\ \A b \in shelf : b \in DOMAIN board /\ board[b].state = "open"
    /\ \A b \in Id : b \notin shelf => tries[b] < MaxReopens

Holds(board, b, a) ==
    b \in DOMAIN board /\ board[b].state = "awarded" /\ board[b].winner = a

\* What is queued or attempted is awarded to that agent, and held once; what
\* is awarded is held.
Owned(board, jobs, queues) ==
    /\ \A a \in Bidder : \A i \in DOMAIN queues[a] : Holds(board, queues[a][i], a)
    /\ \A a \in Bidder : jobs[a].step = "attempt" => Holds(board, jobs[a].bounty, a)
    /\ \A a \in Bidder : \A i \in DOMAIN queues[a] :
          jobs[a].step = "attempt" => queues[a][i] # jobs[a].bounty
    /\ \A a \in Bidder : \A i, j \in DOMAIN queues[a] : queues[a][i] = queues[a][j] => i = j
    /\ \A b \in DOMAIN board : board[b].state = "awarded" =>
          \E a \in Bidder : \/ \E i \in DOMAIN queues[a] : queues[a][i] = b
                            \/ jobs[a].step = "attempt" /\ jobs[a].bounty = b

\* Nothing queued has been attempted this tick, so its wallet's name is free.
Fresh(queues, used) ==
    \A a \in Bidder : \A i \in DOMAIN queues[a] : queues[a][i] \notin used

SimInv ==
    /\ WorldTypes /\ AgentTypes
    /\ OpenWindows(windows, bounties, shelved, named) /\ Books(windows)
    /\ Shelves(bounties, shelved, reopens)
    /\ Owned(bounties, job, queue) /\ Fresh(queue, named)
    /\ NobodyIdlesOnWonWork
    /\ phase \notin {"stuck", "broken"}

\* A call that outlived its step has stopped the world.
Stuck ==
    /\ WorldTypes /\ AgentTypes
    /\ Shelves(bounties, shelved, reopens)
    /\ phase = "stuck" /\ outlived # {}

-----------------------------------------------------------------------------
LEMMA Sizes ==
    /\ MaxReopens \in Nat \ {0} /\ MaxFailures \in Nat \ {0} /\ Ceiling \in Nat \ {0}
    /\ Grant \in Nat /\ Endowment \in Nat /\ MaxFaults \in Nat /\ Reserve \in Nat
    /\ MaxPayout \in Int /\ Deck \in Seq(BOOLEAN) /\ MaxBounties = Len(Deck)
    /\ Id = 1..Len(Deck) /\ Len(Deck) \in Nat /\ Competitor = Bidder
BY SimAssumption, PayoutAssumption DEF Id

\* A board with one bounty put in the place of another.
LEMMA BoardAt ==
    ASSUME NEW board \in Seq(Posting), NEW b \in DOMAIN board, NEW p \in Posting
    PROVE  /\ [board EXCEPT ![b] = p] \in Seq(Posting)
           /\ DOMAIN [board EXCEPT ![b] = p] = DOMAIN board
           /\ Len([board EXCEPT ![b] = p]) = Len(board)
           /\ [board EXCEPT ![b] = p][b] = p
           /\ \A c \in DOMAIN board : c # b => [board EXCEPT ![b] = p][c] = board[c]
OBVIOUS

\* What the board's methods make of one bounty.
LEMMA ReturnedIs ==
    ASSUME NEW p \in Posting
    PROVE  /\ Returned(p) \in Posting
           /\ Returned(p).state = "open" /\ Returned(p).failures = p.failures
BY DEF Posting, Returned

Sold(p, a, price) == [p EXCEPT !.state = "awarded", !.winner = a, !.price = price]
Failed(p) == [Returned(p) EXCEPT !.failures = p.failures + 1]

LEMMA SoldIs ==
    ASSUME NEW p \in Posting, NEW a \in Bidder, NEW price \in Nat
    PROVE  /\ Sold(p, a, price) \in Posting
           /\ Sold(p, a, price).state = "awarded" /\ Sold(p, a, price).winner = a
           /\ Sold(p, a, price).failures = p.failures
BY DEF Posting, Sold

LEMMA SolvedIs ==
    ASSUME NEW p \in Posting
    PROVE  /\ [p EXCEPT !.state = "solved"] \in Posting
           /\ [p EXCEPT !.state = "solved"].state = "solved"
           /\ [p EXCEPT !.state = "solved"].failures = p.failures
BY DEF Posting

LEMMA FailedIs ==
    ASSUME NEW p \in Posting
    PROVE  /\ Failed(p) \in Posting /\ Failed(p).state = "open"
           /\ Failed(p).failures = p.failures + 1
<1>1. Returned(p) \in Posting /\ Returned(p).state = "open"
  BY ReturnedIs
<1>2. p.failures + 1 \in Nat
  BY DEF Posting
<1>3. QED
  BY <1>1, <1>2 DEF Posting, Failed

LEMMA ReturningIs ==
    ASSUME NEW board \in Seq(Posting), NEW which
    PROVE  /\ Returning(board, which) \in Seq(Posting)
           /\ Len(Returning(board, which)) = Len(board)
           /\ DOMAIN Returning(board, which) = DOMAIN board
           /\ \A b \in DOMAIN board :
                 /\ Returning(board, which)[b].failures = board[b].failures
                 /\ b \in which => Returning(board, which)[b].state = "open"
                 /\ b \notin which => Returning(board, which)[b] = board[b]
<1> DEFINE after == [b \in DOMAIN board |-> IF b \in which THEN Returned(board[b]) ELSE board[b]]
<1>1. Returning(board, which) = after
  BY DEF Returning
<1>2. DOMAIN board = 1..Len(board) /\ Len(board) \in Nat /\ \A b \in DOMAIN board : board[b] \in Posting
  OBVIOUS
<1>3. \A b \in DOMAIN board :
         /\ after[b] \in Posting /\ after[b].failures = board[b].failures
         /\ b \in which => after[b].state = "open"
         /\ b \notin which => after[b] = board[b]
  BY <1>2, ReturnedIs
<1>4. after \in [1..Len(board) -> Posting]
  BY <1>2, <1>3
<1>5. \A n \in Nat : \A s \in [1..n -> Posting] : s \in Seq(Posting) /\ Len(s) = n /\ DOMAIN s = 1..n
  OBVIOUS
<1>6. after \in Seq(Posting) /\ Len(after) = Len(board) /\ DOMAIN after = DOMAIN board
  BY <1>2, <1>4, <1>5
<1>7. QED
  BY <1>1, <1>3, <1>6

LEMMA Jobs ==
    /\ Free.step = "none"
    /\ \A b, budget : /\ Attempting(b, budget).step = "attempt" /\ Attempting(b, budget).bounty = b
                      /\ Attempting(b, budget) # Free
    /\ \A offered : Bidding(offered).step = "bid" /\ Bidding(offered) # Free
    /\ \A w \in Work : \/ w = Free
                       \/ w.step = "bid"
                       \/ w.step = "attempt" /\ w.bounty \in Id /\ w.budget \in Nat
BY DEF Free, Attempting, Bidding, Work

\* dispatchNext is about to be called: what its caller has made of the world
\* is sound if a were idle and had this queue waiting.
Poised(a, waiting, board, roll, gone, offers, shelf, tries) ==
    /\ board \in Seq(Posting) /\ waiting \in Seq(Id)
    /\ roll \in [Bidder -> Nat] /\ gone \subseteq Bidder
    /\ OpenWindows(offers, board, shelf, named) /\ Shelves(board, shelf, tries)
    /\ Owned(board, [job EXCEPT ![a] = Free], [queue EXCEPT ![a] = waiting])
    /\ Fresh([queue EXCEPT ![a] = waiting], named)
    /\ phase = "running" => \A c \in Bidder \ {a} :
          (queue[c] # <<>> => busy(c)) /\ (c \in gone => ~busy(c))

Dispatched(board, gone, offers, shelf, tries) ==
    /\ bounties' \in Seq(Posting) /\ Len(bounties') = Len(board)
    /\ job' \in [Bidder -> Work] /\ queue' \in [Bidder -> Seq(Id)]
    /\ bankroll' \in [Bidder -> Nat] /\ named' \subseteq Id
    /\ phase' = phase
    /\ OpenWindows(offers, bounties', shelf, named') /\ Shelves(bounties', shelf, tries)
    /\ Owned(bounties', job', queue') /\ Fresh(queue', named')
    /\ phase = "running" => \A c \in Bidder :
          (queue'[c] # <<>> => job'[c] # Free) /\ (c \in gone => job'[c] = Free)

\* A call of the agent's took what the attempt was to be funded with.
Refused(board, shelf, tries) ==
    /\ bounties' \in Seq(Posting) /\ Len(bounties') = Len(board)
    /\ job' \in [Bidder -> Work] /\ queue' \in [Bidder -> Seq(Id)]
    /\ bankroll' \in [Bidder -> Nat] /\ named' \subseteq Id
    /\ Shelves(bounties', shelf, tries)
    /\ phase' = "stuck" /\ outlived' # {}

LEMMA DispatchKeeps ==
    ASSUME AgentTypes, named \subseteq Id,
           NEW a \in Bidder, NEW waiting, NEW board, NEW roll, NEW gone,
           NEW offers, NEW shelf, NEW tries,
           Poised(a, waiting, board, roll, gone, offers, shelf, tries),
           DispatchNext(a, waiting, board, roll, gone)
    PROVE  Dispatched(board, gone, offers, shelf, tries) \/ Refused(board, shelf, tries)
<1> DEFINE jobs   == [job EXCEPT ![a] = Free]
           queues == [queue EXCEPT ![a] = waiting]
<1>1. /\ board \in Seq(Posting) /\ waiting \in Seq(Id) /\ roll \in [Bidder -> Nat]
      /\ OpenWindows(offers, board, shelf, named) /\ Shelves(board, shelf, tries)
      /\ Owned(board, jobs, queues) /\ Fresh(queues, named)
      /\ phase = "running" => \A c \in Bidder \ {a} :
            (queue[c] # <<>> => busy(c)) /\ (c \in gone => ~busy(c))
  BY DEF Poised
<1>2. /\ job \in [Bidder -> Work] /\ queue \in [Bidder -> Seq(Id)]
      /\ jobs \in [Bidder -> Work] /\ queues \in [Bidder -> Seq(Id)]
      /\ jobs[a] = Free /\ queues[a] = waiting
      /\ \A c \in Bidder \ {a} : jobs[c] = job[c] /\ queues[c] = queue[c]
  BY <1>1 DEF AgentTypes, Work
<1>3. CASE phase # "running" \/ waiting = <<>>
  <2>1. Idle(a, waiting, board, roll) /\ named' = named /\ phase' = phase
    BY <1>3 DEF DispatchNext
  <2>2. job' = jobs /\ queue' = queues /\ bounties' = board /\ bankroll' = roll
    BY <2>1 DEF Idle
  <2>3. phase = "running" => \A c \in Bidder :
           (queue'[c] # <<>> => job'[c] # Free) /\ (c \in gone => job'[c] = Free)
    BY <1>1, <1>2, <1>3, <2>2 DEF busy
  <2>4. QED
    BY <1>1, <1>2, <2>1, <2>2, <2>3 DEF Dispatched
<1>4. CASE phase = "running" /\ waiting # <<>> /\ a \in gone
  <2> DEFINE after == Returning(board, ToSet(waiting))
             emptied == [queue EXCEPT ![a] = <<>>]
  <2>1. Idle(a, <<>>, after, roll) /\ named' = named /\ phase' = phase
    BY <1>4 DEF DispatchNext
  <2>2. job' = jobs /\ queue' = emptied /\ bounties' = after /\ bankroll' = roll
    BY <2>1 DEF Idle
  <2>3. /\ after \in Seq(Posting) /\ Len(after) = Len(board) /\ DOMAIN after = DOMAIN board
        /\ \A b \in DOMAIN board :
              /\ after[b].failures = board[b].failures
              /\ b \in ToSet(waiting) => after[b].state = "open"
              /\ b \notin ToSet(waiting) => after[b] = board[b]
    BY <1>1, ReturningIs
  <2> HIDE DEF after
  <2>4. /\ emptied \in [Bidder -> Seq(Id)] /\ emptied[a] = <<>>
        /\ \A c \in Bidder \ {a} : emptied[c] = queues[c]
    <3>1. <<>> \in Seq(Id)
      OBVIOUS
    <3>2. QED
      BY <1>2, <3>1
  <2> HIDE DEF emptied, jobs, queues
  <2>4a. \A c \in Bidder : \A i \in DOMAIN emptied[c] :
            c # a /\ i \in DOMAIN queues[c] /\ emptied[c][i] = queues[c][i]
    <3>1. \A i \in DOMAIN emptied[a] : FALSE
      BY <2>4
    <3>2. QED
      BY <2>4, <3>1
  <2>5. \A b \in ToSet(waiting) : Holds(board, b, a)
    BY <1>1, <1>2 DEF Owned, ToSet
  <2>6. OpenWindows(offers, after, shelf, named)
    <3>1. \A b : Sellable(board, b, shelf, named) => Sellable(after, b, shelf, named)
      BY <2>3 DEF Sellable
    <3>2. QED
      BY <1>1, <3>1 DEF OpenWindows
  <2>7. Shelves(after, shelf, tries)
    <3>1. \A b \in DOMAIN after : /\ after[b].failures <= MaxFailures
                                  /\ after[b].state = "awarded" => after[b].failures < MaxFailures
      BY <1>1, <2>3 DEF Shelves
    <3>2. \A b \in shelf : b \in DOMAIN after /\ after[b].state = "open"
      BY <1>1, <2>3 DEF Shelves
    <3>3. QED
      BY <1>1, <3>1, <3>2 DEF Shelves
  <2>8. Owned(after, jobs, emptied)
    <3>1. \A c \in Bidder : \A b : Holds(board, b, c) /\ b \notin ToSet(waiting) => Holds(after, b, c)
      BY <2>3 DEF Holds
    <3>2. \A c \in Bidder \ {a} : \A b : Holds(board, b, c) => b \notin ToSet(waiting)
      BY <2>5 DEF Holds
    <3>3. \A c \in Bidder : \A i \in DOMAIN emptied[c] : Holds(after, emptied[c][i], c)
      BY <1>1, <2>4a, <3>1, <3>2 DEF Owned
    <3>4. \A c \in Bidder : jobs[c].step = "attempt" => c # a /\ Holds(after, jobs[c].bounty, c)
      BY <1>1, <1>2, <3>1, <3>2, Jobs DEF Owned
    <3>5. \A c \in Bidder : \A i \in DOMAIN emptied[c] :
             jobs[c].step = "attempt" => emptied[c][i] # jobs[c].bounty
      BY <1>1, <2>4a DEF Owned
    <3>6. \A c \in Bidder : \A i, j \in DOMAIN emptied[c] : emptied[c][i] = emptied[c][j] => i = j
      BY <1>1, <2>4a DEF Owned
    <3>7. ASSUME NEW b \in DOMAIN after, after[b].state = "awarded"
          PROVE  \E c \in Bidder : \/ \E i \in DOMAIN emptied[c] : emptied[c][i] = b
                                   \/ jobs[c].step = "attempt" /\ jobs[c].bounty = b
      <4>1. b \in DOMAIN board /\ b \notin ToSet(waiting) /\ board[b].state = "awarded"
        BY <2>3, <3>7
      <4>2. PICK c \in Bidder : \/ \E i \in DOMAIN queues[c] : queues[c][i] = b
                                \/ jobs[c].step = "attempt" /\ jobs[c].bounty = b
        BY <1>1, <4>1 DEF Owned
      <4>3. ~ \E i \in DOMAIN queues[a] : queues[a][i] = b
        BY <1>2, <4>1 DEF ToSet
      <4>4. QED
        BY <2>4, <4>2, <4>3
    <3>8. QED
      BY <3>3, <3>4, <3>5, <3>6, <3>7 DEF Owned
  <2>9. Fresh(emptied, named)
    BY <1>1, <2>4a DEF Fresh
  <2>10. \A c \in Bidder : (queue'[c] # <<>> => job'[c] # Free) /\ (c \in gone => job'[c] = Free)
    BY <1>1, <1>2, <1>4, <2>2, <2>4 DEF busy
  <2>11. QED
    BY <1>1, <1>2, <2>1, <2>2, <2>3, <2>4, <2>6, <2>7, <2>8, <2>9, <2>10 DEF Dispatched
<1>5. CASE phase = "running" /\ waiting # <<>> /\ a \notin gone
  <2> DEFINE b == Head(waiting)
             rest == Tail(waiting)
             budget == IF Ceiling > roll[a] THEN roll[a] ELSE Ceiling
             started == [job EXCEPT ![a] = Attempting(b, budget)]
             left == [queue EXCEPT ![a] = rest]
  <2>1. /\ Len(waiting) \in Nat /\ Len(waiting) >= 1 /\ DOMAIN waiting = 1..Len(waiting)
        /\ b = waiting[1] /\ b \in Id /\ rest \in Seq(Id) /\ DOMAIN rest = 1..(Len(waiting) - 1)
        /\ \A i \in DOMAIN rest : i + 1 \in DOMAIN waiting /\ rest[i] = waiting[i + 1]
    BY <1>1, <1>5
  <2>2. b \notin named
    <3>1. Fresh(queues, named) /\ queues[a] = waiting /\ 1 \in DOMAIN waiting /\ b = waiting[1]
      BY <1>1, <1>2, <2>1
    <3> HIDE DEF queues, b
    <3>2. QED
      BY <3>1 DEF Fresh
  <2>a. Start(a, b, rest, board, roll) /\ named' = named \cup {b}
    BY <1>5, <2>2 DEF DispatchNext
  <2>b. CASE /\ a \in outlived' /\ Idle(a, rest, board, roll)
             /\ phase' = "stuck"
    <3>1. job' = jobs /\ queue' = left /\ bounties' = board /\ bankroll' = roll
      BY <2>b DEF Idle
    <3>2. left \in [Bidder -> Seq(Id)] /\ named' \subseteq Id
      BY <1>2, <2>1, <2>a
    <3>3. QED
      BY <1>1, <1>2, <2>b, <3>1, <3>2 DEF Refused
  <2>c. CASE /\ job' = started /\ queue' = left /\ bounties' = board
             /\ bankroll' = [roll EXCEPT ![a] = @ - budget]
             /\ phase' = phase
    <3>5. roll[a] \in Nat /\ Ceiling \in Nat
      BY <1>1, Sizes
    <3>6. budget \in Nat /\ roll[a] - budget \in Nat
      BY <3>5
    <3> HIDE DEF budget
    <3>7. bankroll' \in [Bidder -> Nat]
      BY <1>1, <2>c, <3>6
    <3>8. Attempting(b, budget) \in Work
      BY <2>1, <3>6 DEF Work, Attempting
    <3> HIDE DEF b, rest, jobs, queues
    <3>9. /\ started \in [Bidder -> Work] /\ left \in [Bidder -> Seq(Id)]
          /\ started[a] = Attempting(b, budget) /\ left[a] = rest
          /\ \A c \in Bidder \ {a} : started[c] = jobs[c] /\ left[c] = queues[c]
      BY <1>2, <2>1, <3>8
    <3> HIDE DEF started, left
    <3>10. started[a].step = "attempt" /\ started[a].bounty = b /\ started[a] # Free
      BY <3>9, Jobs
    <3>11. Holds(board, b, a)
      BY <1>1, <1>2, <2>1 DEF Owned
    <3>12. OpenWindows(offers, board, shelf, named \cup {b})
      <4>1. \A c : Sellable(board, c, shelf, named) => Sellable(board, c, shelf, named \cup {b})
        BY <3>11 DEF Sellable, Holds
      <4>2. QED
        BY <1>1, <4>1 DEF OpenWindows
    <3>13. Owned(board, started, left)
      <4>1. \A i \in DOMAIN left[a] : i + 1 \in DOMAIN queues[a] /\ left[a][i] = queues[a][i + 1]
        BY <1>2, <2>1, <3>9
      <4>2. \A c \in Bidder : \A i \in DOMAIN left[c] : Holds(board, left[c][i], c)
        <5>1. \A i \in DOMAIN left[a] : Holds(board, left[a][i], a)
          BY <1>1, <4>1 DEF Owned
        <5>2. \A c \in Bidder \ {a} : \A i \in DOMAIN left[c] : Holds(board, left[c][i], c)
          BY <1>1, <3>9 DEF Owned
        <5>3. QED
          BY <5>1, <5>2
      <4>3. \A c \in Bidder : started[c].step = "attempt" => Holds(board, started[c].bounty, c)
        BY <1>1, <3>9, <3>10, <3>11 DEF Owned
      <4>4. \A i \in DOMAIN left[a] : left[a][i] # b
        <5>1. SUFFICES ASSUME NEW i \in DOMAIN left[a], left[a][i] = b PROVE FALSE
          OBVIOUS
        <5>2. i \in Nat /\ i >= 1 /\ 1 \in DOMAIN queues[a] /\ queues[a][1] = b
          BY <1>2, <2>1, <3>9
        <5>3. i + 1 \in DOMAIN queues[a] /\ queues[a][i + 1] = queues[a][1]
          BY <4>1, <5>1, <5>2
        <5>4. i + 1 = 1
          BY <1>1, <5>2, <5>3 DEF Owned
        <5>5. QED
          BY <5>2, <5>4
      <4>5. \A c \in Bidder : \A i \in DOMAIN left[c] :
               started[c].step = "attempt" => left[c][i] # started[c].bounty
        <5>1. \A c \in Bidder \ {a} : \A i \in DOMAIN left[c] :
                 started[c].step = "attempt" => left[c][i] # started[c].bounty
          <6>1. \A c \in Bidder \ {a} : started[c] = jobs[c] /\ left[c] = queues[c]
            BY <3>9
          <6>2. \A c \in Bidder : \A i \in DOMAIN queues[c] :
                   jobs[c].step = "attempt" => queues[c][i] # jobs[c].bounty
            BY <1>1 DEF Owned
          <6>3. QED
            BY <6>1, <6>2
        <5>2. QED
          BY <3>10, <4>4, <5>1
      <4>6. ASSUME NEW i \in DOMAIN left[a], NEW j \in DOMAIN left[a], left[a][i] = left[a][j]
            PROVE  i = j
        <5>1. i \in Nat /\ j \in Nat
          BY <2>1, <3>9
        <5>2. i + 1 = j + 1
          BY <1>1, <4>1, <4>6 DEF Owned
        <5>3. QED
          BY <5>1, <5>2
      <4>7. \A c \in Bidder : \A i, j \in DOMAIN left[c] : left[c][i] = left[c][j] => i = j
        BY <1>1, <3>9, <4>6 DEF Owned
      <4>8. ASSUME NEW d \in DOMAIN board, board[d].state = "awarded"
            PROVE  \E c \in Bidder : \/ \E i \in DOMAIN left[c] : left[c][i] = d
                                     \/ started[c].step = "attempt" /\ started[c].bounty = d
        <5>1. PICK c \in Bidder : \/ \E i \in DOMAIN queues[c] : queues[c][i] = d
                                  \/ jobs[c].step = "attempt" /\ jobs[c].bounty = d
          BY <1>1, <4>8 DEF Owned
        <5>2. CASE c # a
          BY <3>9, <5>1, <5>2
        <5>3. CASE c = a
          <6>1. PICK i \in DOMAIN waiting : waiting[i] = d
            BY <1>2, <5>1, <5>3, Jobs
          <6>2. CASE i = 1
            BY <2>1, <3>10, <6>1, <6>2
          <6>3. CASE i # 1
            <7>1. i - 1 \in DOMAIN rest /\ (i - 1) + 1 = i
              BY <2>1, <6>3
            <7>2. rest[i - 1] = d
              BY <2>1, <6>1, <7>1
            <7>3. QED
              BY <3>9, <7>1, <7>2
          <6>4. QED
            BY <6>2, <6>3
        <5>4. QED
          BY <5>2, <5>3
      <4>9. QED
        BY <4>2, <4>3, <4>5, <4>7, <4>8 DEF Owned
    <3>14. Fresh(left, named \cup {b})
      <4>1. \A i \in DOMAIN left[a] : left[a][i] # b /\ left[a][i] \notin named
        <5>1. \A i \in DOMAIN left[a] : i + 1 \in DOMAIN queues[a] /\ left[a][i] = queues[a][i + 1]
          BY <1>2, <2>1, <3>9
        <5>2. \A i \in DOMAIN left[a] : left[a][i] # b
          BY <3>10, <3>13 DEF Owned
        <5>3. QED
          BY <1>1, <5>1, <5>2 DEF Fresh
      <4>2. \A c \in Bidder \ {a} : \A i \in DOMAIN left[c] : left[c][i] # b /\ left[c][i] \notin named
        <5>1. \A c \in Bidder \ {a} : \A i \in DOMAIN left[c] : Holds(board, left[c][i], c)
          BY <3>13 DEF Owned
        <5>2. \A c \in Bidder \ {a} : \A i \in DOMAIN left[c] : left[c][i] # b
          BY <3>11, <5>1 DEF Holds
        <5>3. QED
          BY <1>1, <3>9, <5>2 DEF Fresh
      <4>3. QED
        BY <4>1, <4>2 DEF Fresh
    <3>15. \A c \in Bidder : (left[c] # <<>> => started[c] # Free) /\ (c \in gone => started[c] = Free)
      <4>1. \A c \in Bidder \ {a} : started[c] = job[c] /\ left[c] = queue[c]
        BY <1>2, <3>9
      <4>2. QED
        BY <1>1, <1>5, <3>10, <4>1 DEF busy
    <3>16. named \cup {b} \subseteq Id
      BY <2>1
    <3>17. QED
      BY <1>1, <2>a, <2>c, <3>7, <3>9, <3>12, <3>13, <3>14, <3>15, <3>16 DEF Dispatched
  <2>d. QED
    BY <2>a, <2>b, <2>c DEF Start
<1>6. QED
  BY <1>3, <1>4, <1>5

-----------------------------------------------------------------------------
\* The invariant taken apart.
LEMMA World ==
    ASSUME SimInv
    PROVE  /\ bounties \in Seq(Posting) /\ DOMAIN bounties = 1..Len(bounties) /\ Len(bounties) = deck
           /\ deck \in Nat /\ deck <= Len(Deck) /\ DOMAIN bounties \subseteq Id
           /\ \A b \in DOMAIN bounties : bounties[b] \in Posting
           /\ windows \in Seq(Offer) /\ DOMAIN windows = 1..Len(windows) /\ Len(windows) \in Nat
           /\ \A i \in DOMAIN windows : windows[i] \in Offer
           /\ job \in [Bidder -> Work] /\ queue \in [Bidder -> Seq(Id)]
           /\ bankroll \in [Bidder -> Nat] /\ retired \subseteq Bidder /\ outlived \subseteq Bidder
           /\ reopens \in [Id -> 0..MaxReopens] /\ shelved \subseteq Id /\ named \subseteq Id
           /\ purse \in 0..Endowment /\ faults \in 0..MaxFaults
<1>1. WorldTypes /\ AgentTypes
  BY DEF SimInv
<1>2. DOMAIN bounties = 1..Len(bounties) /\ Len(bounties) = deck /\ deck \in 0..Len(Deck)
  BY <1>1 DEF WorldTypes
<1>3. deck \in Nat /\ deck <= Len(Deck) /\ DOMAIN bounties \subseteq Id
  BY <1>2, Sizes
<1>4. QED
  BY <1>1, <1>2, <1>3 DEF WorldTypes, AgentTypes

\* The windows that were open, and after them one for each of these bounties.
Adds(offers, more, ids) ==
    /\ more \in Seq(Offer)
    /\ \A i \in DOMAIN offers : i \in DOMAIN more /\ more[i] = offers[i]
    /\ \A i \in DOMAIN more :
          i \in DOMAIN offers \/ (more[i].bounty \in ids /\ more[i].book = <<>>)
    /\ \A i, j \in DOMAIN more :
          i \notin DOMAIN offers /\ j \notin DOMAIN offers /\ more[i].bounty = more[j].bounty
             => i = j

LEMMA Opened ==
    ASSUME NEW offers \in Seq(Offer), NEW ids \in SUBSET Id, NEW list \in InOrder(ids),
           NEW more, more = offers \o Windows(list)
    PROVE  Adds(offers, more, ids)
<1> DEFINE n == Cardinality(ids)
           new == Windows(list)
<1>1. n \in Nat
  <2>1. IsFiniteSet(1..Len(Deck))
    <3>1. 1 \in Int /\ Len(Deck) \in Int
      BY Sizes
    <3>2. QED
      BY <3>1, FS_Interval
  <2>2. IsFiniteSet(ids)
    BY <2>1, Sizes, FS_Subset
  <2>3. QED
    BY <2>2, FS_CardinalityType
<1>2. list \in [1..n -> ids] /\ \A i, j \in DOMAIN list : i < j => list[i] < list[j]
  BY DEF InOrder
<1>3. \A b \in Id : Window(b) \in Offer /\ Window(b).bounty = b /\ Window(b).book = <<>>
  <2>1. <<>> \in Seq(Bid)
    OBVIOUS
  <2>2. QED
    BY <2>1 DEF Window, Offer
<1> HIDE DEF n
<1>4. DOMAIN list = 1..n /\ \A i \in 1..n : list[i] \in ids /\ list[i] \in Id
  BY <1>2
<1>5. new \in [1..n -> Offer]
  BY <1>3, <1>4 DEF Windows
<1>6. new \in Seq(Offer) /\ Len(new) = n
  <2>1. \A k \in Nat : \A s \in [1..k -> Offer] : s \in Seq(Offer) /\ Len(s) = k
    OBVIOUS
  <2>2. QED
    BY <1>1, <1>5, <2>1
<1>7. \A i \in 1..n : new[i].bounty = list[i] /\ new[i].book = <<>>
  BY <1>3, <1>4 DEF Windows
<1> HIDE DEF new
<1>8. more = offers \o new
  BY DEF new
<1>9. /\ more \in Seq(Offer) /\ DOMAIN more = 1..(Len(offers) + n)
      /\ \A i \in 1..(Len(offers) + n) : more[i] = IF i <= Len(offers) THEN offers[i] ELSE new[i - Len(offers)]
  <2>1. more \in Seq(Offer) /\ Len(more) = Len(offers) + n
    <3>1. \A s, t \in Seq(Offer) : s \o t \in Seq(Offer) /\ Len(s \o t) = Len(s) + Len(t)
      OBVIOUS
    <3>2. QED
      BY <1>6, <1>8, <3>1
  <2>2. DOMAIN more = 1..(Len(offers) + n)
    BY <2>1
  <2>3. \A i \in 1..(Len(offers) + Len(new)) :
           (offers \o new)[i] = IF i <= Len(offers) THEN offers[i] ELSE new[i - Len(offers)]
    BY <1>6
  <2>4. QED
    BY <1>6, <1>8, <2>1, <2>2, <2>3
<1>10. \A i \in DOMAIN offers : i \in DOMAIN more /\ more[i] = offers[i]
  BY <1>1, <1>9
<1>11. ASSUME NEW i \in DOMAIN more, i \notin DOMAIN offers
       PROVE  i - Len(offers) \in 1..n /\ more[i] = new[i - Len(offers)]
  BY <1>1, <1>9, <1>11
<1>12. ASSUME NEW i \in DOMAIN list, NEW j \in DOMAIN list, list[i] = list[j] PROVE i = j
  <2>1. i \in Nat /\ j \in Nat /\ list[i] \in Nat /\ list[j] \in Nat
    BY <1>1, <1>4, Sizes
  <2>2. ~(i < j) /\ ~(j < i)
    BY <1>2, <1>12, <2>1
  <2>3. QED
    BY <2>1, <2>2
<1>13. ASSUME NEW i \in DOMAIN more, i \notin DOMAIN offers
       PROVE  more[i].bounty \in ids /\ more[i].book = <<>>
  BY <1>4, <1>7, <1>11, <1>13
<1>14. ASSUME NEW i \in DOMAIN more, NEW j \in DOMAIN more,
              i \notin DOMAIN offers, j \notin DOMAIN offers, more[i].bounty = more[j].bounty
       PROVE  i = j
  <2>1. i - Len(offers) \in 1..n /\ j - Len(offers) \in 1..n
    BY <1>11, <1>14
  <2>2. more[i].bounty = list[i - Len(offers)] /\ more[j].bounty = list[j - Len(offers)]
    BY <1>7, <1>11, <1>14, <2>1
  <2>3. i - Len(offers) = j - Len(offers)
    BY <1>4, <1>12, <1>14, <2>1, <2>2
  <2>4. i \in Int /\ j \in Int /\ Len(offers) \in Int
    BY <1>1, <1>9
  <2>5. QED
    BY <2>3, <2>4
<1>15. QED
  BY <1>9, <1>10, <1>13, <1>14 DEF Adds

LEMMA TickKeeps == ASSUME SimInv, Tick PROVE SimInv'
<1> DEFINE unsold == {b \in OnSale(bounties') \ shelved : ~OnWindow(b)}
           beaten == {b \in unsold : Beaten(bounties', b)}
           fresh  == unsold \ beaten
<1>1. /\ phase = "running" /\ phase' = phase
      /\ retired' = retired \cup {a \in Bidder : ~busy(a) /\ Broke(a, bankroll)}
      /\ deck' = IF deck < Len(Deck) THEN deck + 1 ELSE deck
      /\ bounties' = IF deck < Len(Deck) THEN Posted(bounties, Deck[deck + 1]) ELSE bounties
      /\ shelved' = shelved \cup beaten
      /\ job' = [a \in Bidder |-> IF fresh # {} /\ ~busy(a) /\ a \notin retired'
                                  THEN Bidding(fresh) ELSE job[a]]
      /\ named' = {} /\ reopens' = reopens /\ queue' = queue /\ bankroll' = bankroll
      /\ purse' = purse /\ faults' = faults /\ outlived' = outlived
  BY DEF Tick
<1>2. PICK list \in InOrder(fresh) : windows' = windows \o Windows(list)
  BY DEF Tick
<1>3. \A judged \in BOOLEAN : /\ Bounty(judged) \in Posting
                              /\ Bounty(judged).state = "open" /\ Bounty(judged).failures = 0
  BY DEF Bounty, Posting
<1>4. /\ bounties' \in Seq(Posting) /\ Len(bounties') = deck' /\ deck' \in 0..Len(Deck)
      /\ DOMAIN bounties \subseteq DOMAIN bounties'
      /\ \A b \in DOMAIN bounties : bounties'[b] = bounties[b]
      /\ \A b \in DOMAIN bounties' : b \in DOMAIN bounties
            \/ (bounties'[b].state = "open" /\ bounties'[b].failures = 0)
  <2>1. CASE deck < Len(Deck)
    <3>1. Deck[deck + 1] \in BOOLEAN
      BY <2>1, Sizes, World
    <3>2. bounties' = Append(bounties, Bounty(Deck[deck + 1])) /\ deck' = deck + 1
      BY <1>1, <2>1 DEF Posted
    <3>3. QED
      BY <1>3, <2>1, <3>1, <3>2, Sizes, World
  <2>2. CASE ~(deck < Len(Deck))
    BY <1>1, <2>2, Sizes, World
  <2>3. QED
    BY <2>1, <2>2
<1>5. DOMAIN bounties' \subseteq Id
  BY <1>4, Sizes
<1>6. /\ unsold \subseteq Id /\ fresh \subseteq Id
      /\ \A b \in unsold : /\ b \in DOMAIN bounties' /\ bounties'[b].state = "open" /\ b \notin shelved
                           /\ \A i \in DOMAIN windows : windows[i].bounty # b
      /\ \A b \in unsold : bounties'[b] \in Posting /\ bounties'[b].failures \in Nat
  <2>1. \A p \in Posting : p.failures \in Nat
    BY DEF Posting
  <2>2. QED
    BY <1>4, <1>5, <2>1 DEF OnSale, OnWindow
<1>7. \A b \in fresh : b \in unsold /\ b \notin beaten /\ bounties'[b].failures < MaxFailures
  BY <1>6, Sizes DEF Beaten
<1> HIDE DEF unsold, beaten, fresh
<1>8. /\ windows' \in Seq(Offer)
      /\ \A i \in DOMAIN windows : i \in DOMAIN windows' /\ windows'[i] = windows[i]
      /\ \A i \in DOMAIN windows' :
            i \in DOMAIN windows \/ (windows'[i].bounty \in fresh /\ windows'[i].book = <<>>)
      /\ \A i, j \in DOMAIN windows' :
            i \notin DOMAIN windows /\ j \notin DOMAIN windows
            /\ windows'[i].bounty = windows'[j].bounty => i = j
  <2>1. windows \in Seq(Offer)
    BY World
  <2>2. fresh \in SUBSET Id
    BY <1>6
  <2>3. list \in InOrder(fresh) /\ windows' = windows \o Windows(list)
    BY <1>2
  <2>4. Adds(windows, windows', fresh)
    BY <2>1, <2>2, <2>3, Opened
  <2>5. QED
    BY <2>4 DEF Adds
<1>9. \A b \in beaten : b \in unsold
  BY DEF beaten
<1>10. OpenWindows(windows', bounties', shelved', named')
  <2>1. \A i \in DOMAIN windows : Sellable(bounties', windows[i].bounty, shelved', named')
    <3>1. \A i \in DOMAIN windows : Sellable(bounties, windows[i].bounty, shelved, named)
      BY DEF SimInv, OpenWindows
    <3>2. \A i \in DOMAIN windows : windows[i].bounty \notin beaten
      BY <1>6, <1>9
    <3>3. QED
      BY <1>1, <1>4, <3>1, <3>2 DEF Sellable
  <2>2. \A b \in fresh : Sellable(bounties', b, shelved', named')
    BY <1>1, <1>6, <1>7 DEF Sellable
  <2>3. \A i \in DOMAIN windows' : Sellable(bounties', windows'[i].bounty, shelved', named')
    BY <1>8, <2>1, <2>2
  <2>4. ASSUME NEW i \in DOMAIN windows', NEW j \in DOMAIN windows',
               windows'[i].bounty = windows'[j].bounty
        PROVE  i = j
    <3>1. CASE i \in DOMAIN windows /\ j \in DOMAIN windows
      BY <1>8, <2>4, <3>1 DEF SimInv, OpenWindows
    <3>2. CASE i \in DOMAIN windows /\ j \notin DOMAIN windows
      BY <1>6, <1>7, <1>8, <2>4, <3>2
    <3>3. CASE i \notin DOMAIN windows /\ j \in DOMAIN windows
      BY <1>6, <1>7, <1>8, <2>4, <3>3
    <3>4. CASE i \notin DOMAIN windows /\ j \notin DOMAIN windows
      BY <1>8, <2>4, <3>4
    <3>5. QED
      BY <3>1, <3>2, <3>3, <3>4
  <2>5. QED
    BY <2>3, <2>4 DEF OpenWindows
<1>11. Books(windows')
  <2>1. Books(windows)
    BY DEF SimInv
  <2>2. InArrivalOrder(<<>>) /\ \A k \in DOMAIN <<>> : FALSE
    BY DEF InArrivalOrder
  <2>3. QED
    BY <1>8, <2>1, <2>2 DEF Books
<1>12. Shelves(bounties', shelved', reopens')
  <2>1. Shelves(bounties, shelved, reopens)
    BY DEF SimInv
  <2>2. \A b \in DOMAIN bounties' :
           /\ bounties'[b].failures <= MaxFailures
           /\ bounties'[b].state = "awarded" => bounties'[b].failures < MaxFailures
    BY <1>4, <2>1, Sizes DEF Shelves
  <2>3. \A b \in shelved' : b \in DOMAIN bounties' /\ bounties'[b].state = "open"
    BY <1>1, <1>4, <1>6, <1>9, <2>1 DEF Shelves
  <2>4. \A b \in Id : b \notin shelved' => reopens'[b] < MaxReopens
    BY <1>1, <2>1 DEF Shelves
  <2>5. QED
    BY <2>2, <2>3, <2>4 DEF Shelves
<1>13. /\ job' \in [Bidder -> Work]
       /\ \A a \in Bidder : \/ job'[a] = job[a]
                            \/ job[a] = Free /\ job'[a].step = "bid" /\ a \notin retired'
       /\ \A a \in Bidder : job[a] # Free => job'[a] = job[a]
  <2>1. Bidding(fresh) \in Work /\ Bidding(fresh).step = "bid"
    BY <1>6 DEF Work, Bidding
  <2>2. QED
    BY <1>1, <2>1, World DEF busy
<1>14. Owned(bounties', job', queue')
  <2>1. Owned(bounties, job, queue)
    BY DEF SimInv
  <2>2. \A a \in Bidder : /\ job'[a].step = "attempt" => job'[a] = job[a]
                          /\ job[a].step = "attempt" => job'[a] = job[a]
    BY <1>13, Jobs
  <2>3. \A b, a : Holds(bounties, b, a) => Holds(bounties', b, a)
    BY <1>4 DEF Holds
  <2>4. \A a \in Bidder : job'[a].step = "attempt" => Holds(bounties', job'[a].bounty, a)
    BY <2>1, <2>2, <2>3 DEF Owned
  <2>5. \A a \in Bidder : \A i \in DOMAIN queue[a] :
           /\ Holds(bounties', queue[a][i], a)
           /\ job'[a].step = "attempt" => queue[a][i] # job'[a].bounty
    BY <2>1, <2>2, <2>3 DEF Owned
  <2>6. \A b \in DOMAIN bounties' : bounties'[b].state = "awarded" =>
           \E a \in Bidder : \/ \E i \in DOMAIN queue[a] : queue[a][i] = b
                             \/ job'[a].step = "attempt" /\ job'[a].bounty = b
    BY <1>4, <2>1, <2>2 DEF Owned
  <2>7. QED
    BY <1>1, <2>1, <2>4, <2>5, <2>6 DEF Owned
<1>15. Fresh(queue', named')
  BY <1>1 DEF Fresh
<1>16. NobodyIdlesOnWonWork'
  <2>1. \A a \in Bidder : (queue[a] # <<>> => job[a] # Free) /\ (a \in retired => job[a] = Free)
    BY <1>1 DEF SimInv, NobodyIdlesOnWonWork, busy
  <2>2. \A a \in Bidder : a \in retired' => job[a] = Free
    BY <1>1, <2>1 DEF busy
  <2>3. \A a \in Bidder : (queue'[a] # <<>> => job'[a] # Free) /\ (a \in retired' => job'[a] = Free)
    BY <1>1, <1>13, <2>1, <2>2
  <2>4. QED
    BY <2>3 DEF NobodyIdlesOnWonWork, busy
<1>17. WorldTypes' /\ AgentTypes' /\ phase' \notin {"stuck", "broken"}
  <2>1. shelved' \subseteq Id /\ named' \subseteq Id /\ retired' \subseteq Bidder
    BY <1>1, <1>6, <1>9, World
  <2>2. QED
    BY <1>1, <1>4, <1>8, <1>13, <2>1, World DEF WorldTypes, AgentTypes
<1>18. QED
  BY <1>10, <1>11, <1>12, <1>14, <1>15, <1>16, <1>17 DEF SimInv

LEMMA TickRefusedKeeps == ASSUME SimInv, TickRefused PROVE Stuck'
<1>1. /\ phase' = "stuck" /\ named' = {} /\ outlived' = outlived
      /\ UNCHANGED <<bounties, deck, windows, reopens, shelved, job, queue, bankroll, purse, faults>>
  BY DEF TickRefused
<1>2. retired' \subseteq Bidder /\ outlived # {}
  BY World DEF TickRefused
<1>3. WorldTypes' /\ AgentTypes'
  BY <1>1, <1>2 DEF SimInv, WorldTypes, AgentTypes
<1>4. QED
  BY <1>1, <1>2, <1>3 DEF SimInv, Stuck

\* What is left to show of an event that ends in dispatchNext.
LEMMA Reassembled ==
    ASSUME SimInv, NEW board, Len(board) = deck, deck' = deck,
           Dispatched(board, retired', windows', shelved', reopens')
              \/ Refused(board, shelved', reopens'),
           windows' \in Seq(Offer), Books(windows'),
           reopens' \in [Id -> 0..MaxReopens], shelved' \subseteq Id, retired' \subseteq Bidder,
           purse' \in 0..Endowment, faults' \in 0..MaxFaults, outlived' \subseteq Bidder
    PROVE  SimInv' \/ Stuck'
<1>0. CASE Refused(board, shelved', reopens')
  <2>1. WorldTypes' /\ AgentTypes'
    BY <1>0 DEF SimInv, WorldTypes, AgentTypes, Refused
  <2>2. QED
    BY <1>0, <2>1 DEF Refused, Stuck
<1> SUFFICES ASSUME Dispatched(board, retired', windows', shelved', reopens') PROVE SimInv'
  BY <1>0
<1>1. /\ bounties' \in Seq(Posting) /\ Len(bounties') = Len(board)
      /\ job' \in [Bidder -> Work] /\ queue' \in [Bidder -> Seq(Id)]
      /\ bankroll' \in [Bidder -> Nat] /\ named' \subseteq Id
      /\ phase' = phase
      /\ OpenWindows(windows', bounties', shelved', named') /\ Shelves(bounties', shelved', reopens')
      /\ Owned(bounties', job', queue') /\ Fresh(queue', named')
      /\ phase = "running" => \A c \in Bidder :
            (queue'[c] # <<>> => job'[c] # Free) /\ (c \in retired' => job'[c] = Free)
  BY DEF Dispatched
<1>2. phase' \notin {"stuck", "broken"} /\ phase' \in {"running", "closing", "ended"}
  BY <1>1 DEF SimInv, WorldTypes
<1>3. deck' \in 0..Len(Deck)
  BY DEF SimInv, WorldTypes
<1>4. WorldTypes' /\ AgentTypes'
  BY <1>1, <1>2, <1>3 DEF WorldTypes, AgentTypes
<1>5. NobodyIdlesOnWonWork'
  BY <1>1 DEF NobodyIdlesOnWonWork, busy
<1>6. QED
  BY <1>1, <1>2, <1>4, <1>5 DEF SimInv

\* A window falls due: what it was on is for sale, and on no other window.
LEMMA FirstWindow ==
    ASSUME SimInv, windows # <<>>, windows' = Tail(windows)
    PROVE  /\ windows' \in Seq(Offer) /\ Books(windows')
           /\ Head(windows).bounty \in Id /\ Head(windows).book \in Seq(Bid)
           /\ InArrivalOrder(Head(windows).book)
           /\ \A k \in DOMAIN Head(windows).book : Head(windows).book[k].price \in Nat
           /\ Sellable(bounties, Head(windows).bounty, shelved, named)
           /\ OpenWindows(windows', bounties, shelved, named)
           /\ \A i \in DOMAIN windows' : windows'[i].bounty # Head(windows).bounty
<1>1. /\ windows \in Seq(Offer) /\ Len(windows) \in Nat /\ Len(windows) >= 1
      /\ DOMAIN windows = 1..Len(windows) /\ Head(windows) = windows[1] /\ 1 \in DOMAIN windows
  BY World
<1>2. /\ windows' \in Seq(Offer)
      /\ \A i \in DOMAIN windows' : /\ i \in Nat /\ i >= 1 /\ i + 1 \in DOMAIN windows
                                    /\ windows'[i] = windows[i + 1]
  BY <1>1
<1>3. OpenWindows(windows, bounties, shelved, named) /\ Books(windows)
  BY DEF SimInv
<1>4. Head(windows) \in Offer
  BY <1>1
<1>5. ASSUME NEW i \in DOMAIN windows', windows'[i].bounty = Head(windows).bounty PROVE FALSE
  <2>1. i + 1 = 1
    BY <1>1, <1>2, <1>3, <1>5 DEF OpenWindows
  <2>2. QED
    BY <1>2, <2>1
<1>6. ASSUME NEW i \in DOMAIN windows', NEW j \in DOMAIN windows',
             windows'[i].bounty = windows'[j].bounty
      PROVE  i = j
  <2>1. i + 1 = j + 1
    BY <1>2, <1>3, <1>6 DEF OpenWindows
  <2>2. QED
    BY <1>2, <2>1
<1>7. \A i \in DOMAIN windows' : Sellable(bounties, windows'[i].bounty, shelved, named)
  BY <1>2, <1>3 DEF OpenWindows
<1>8. OpenWindows(windows', bounties, shelved, named)
  BY <1>6, <1>7 DEF OpenWindows
<1>9. Books(windows')
  BY <1>2, <1>3 DEF Books
<1>10. /\ InArrivalOrder(Head(windows).book)
       /\ \A k \in DOMAIN Head(windows).book : Head(windows).book[k].price \in Nat
  BY <1>1, <1>3 DEF Books
<1>11. Sellable(bounties, Head(windows).bounty, shelved, named)
  BY <1>1, <1>3 DEF OpenWindows
<1>12. QED
  BY <1>2, <1>4, <1>5, <1>8, <1>9, <1>10, <1>11 DEF Offer

\* The world after an award of b, before anybody works on it.
NewlyHeld(b, board, queues) ==
    /\ board \in Seq(Posting) /\ Len(board) = deck
    /\ board[b].failures = bounties[b].failures
    /\ \A c \in DOMAIN board : c # b => board[c] = bounties[c]
    /\ DOMAIN board = DOMAIN bounties
    /\ queues \in [Bidder -> Seq(Id)]
    /\ Owned(board, job, queues) /\ Fresh(queues, named)

\* An award puts its bounty into one queue, where nothing else was.
LEMMA AwardIsHeld ==
    ASSUME SimInv, NEW b, NEW w \in Bidder, NEW price \in Nat,
           Sellable(bounties, b, shelved, named),
           NEW board, board = Awarded(bounties, b, w, price),
           NEW queues, queues = [queue EXCEPT ![w] = Append(queue[w], b)]
    PROVE  NewlyHeld(b, board, queues)
<1> DEFINE sold == Sold(bounties[b], w, price)
           mine == Append(queue[w], b)
<1>1. /\ b \in DOMAIN bounties /\ b \in Id /\ bounties[b] \in Posting /\ bounties \in Seq(Posting)
      /\ bounties[b].state = "open" /\ b \notin named
  BY World DEF Sellable
<1>2. board = [bounties EXCEPT ![b] = sold]
  BY DEF Awarded, Sold
<1>3. sold \in Posting /\ sold.state = "awarded" /\ sold.winner = w /\ sold.failures = bounties[b].failures
  BY <1>1, SoldIs
<1> HIDE DEF sold
<1>4. /\ board \in Seq(Posting) /\ DOMAIN board = DOMAIN bounties /\ Len(board) = Len(bounties)
      /\ board[b] = sold /\ \A c \in DOMAIN bounties : c # b => board[c] = bounties[c]
  BY <1>1, <1>2, <1>3, BoardAt
<1>5. queue[w] \in Seq(Id)
  BY World
<1>6. /\ mine \in Seq(Id) /\ DOMAIN mine = 1..(Len(queue[w]) + 1)
      /\ DOMAIN queue[w] = 1..Len(queue[w]) /\ Len(queue[w]) \in Nat
      /\ mine[Len(queue[w]) + 1] = b /\ \A i \in DOMAIN queue[w] : mine[i] = queue[w][i]
  BY <1>1, <1>5
<1>6a. queues = [queue EXCEPT ![w] = mine]
  OBVIOUS
<1> HIDE DEF mine
<1>7. /\ queues \in [Bidder -> Seq(Id)] /\ queues[w] = mine
      /\ \A a \in Bidder \ {w} : queues[a] = queue[a]
  BY <1>6, <1>6a, World
<1>8. \A a \in Bidder : \A i \in DOMAIN queues[a] :
         \/ i \in DOMAIN queue[a] /\ queues[a][i] = queue[a][i]
         \/ a = w /\ i = Len(queue[w]) + 1 /\ queues[a][i] = b
  <2>1. \A i \in DOMAIN mine : i \in DOMAIN queue[w] \/ i = Len(queue[w]) + 1
    BY <1>6
  <2>2. QED
    BY <1>6, <1>7, <2>1
<1>9. \A a \in Bidder : \A i \in DOMAIN queue[a] : i \in DOMAIN queues[a] /\ queues[a][i] = queue[a][i]
  <2>1. \A i \in DOMAIN queue[w] : i \in DOMAIN mine
    BY <1>6
  <2>2. QED
    BY <1>6, <1>7, <2>1
<1>10. Owned(bounties, job, queue) /\ Fresh(queue, named)
  BY DEF SimInv
<1>11. Holds(board, b, w)
  BY <1>1, <1>3, <1>4 DEF Holds
<1>12. \A c, a : Holds(bounties, c, a) => c # b /\ Holds(board, c, a)
  BY <1>1, <1>4 DEF Holds
<1>13. Owned(board, job, queues)
  <2>1. \A a \in Bidder : \A i \in DOMAIN queue[a] : queue[a][i] # b /\ Holds(board, queue[a][i], a)
    BY <1>10, <1>12 DEF Owned
  <2>2. \A a \in Bidder : job[a].step = "attempt" => job[a].bounty # b /\ Holds(board, job[a].bounty, a)
    BY <1>10, <1>12 DEF Owned
  <2>3. \A a \in Bidder : \A i \in DOMAIN queues[a] : Holds(board, queues[a][i], a)
    BY <1>8, <1>11, <2>1
  <2>4. \A a \in Bidder : \A i \in DOMAIN queue[a] : job[a].step = "attempt" => queue[a][i] # job[a].bounty
    BY <1>10 DEF Owned
  <2>5. \A a \in Bidder : \A i \in DOMAIN queues[a] :
           job[a].step = "attempt" => queues[a][i] # job[a].bounty
    BY <1>8, <2>2, <2>4
  <2>6. \A a \in Bidder : \A i, j \in DOMAIN queue[a] : queue[a][i] = queue[a][j] => i = j
    BY <1>10 DEF Owned
  <2>7. \A a \in Bidder : \A i, j \in DOMAIN queues[a] : queues[a][i] = queues[a][j] => i = j
    BY <1>8, <2>1, <2>6
  <2>8. ASSUME NEW c \in DOMAIN board, board[c].state = "awarded"
        PROVE  \E a \in Bidder : \/ \E i \in DOMAIN queues[a] : queues[a][i] = c
                                 \/ job[a].step = "attempt" /\ job[a].bounty = c
    <3>1. CASE c = b
      <4>1. Len(queue[w]) + 1 \in DOMAIN mine
        BY <1>6
      <4>2. QED
        BY <1>6, <1>7, <3>1, <4>1
    <3>2. CASE c # b
      <4>1. PICK a \in Bidder : \/ \E i \in DOMAIN queue[a] : queue[a][i] = c
                                \/ job[a].step = "attempt" /\ job[a].bounty = c
        BY <1>4, <1>10, <2>8, <3>2 DEF Owned
      <4>2. QED
        BY <1>9, <4>1
    <3>3. QED
      BY <3>1, <3>2
  <2>9. QED
    BY <2>2, <2>3, <2>5, <2>7, <2>8 DEF Owned
<1>14. Fresh(queues, named)
  BY <1>1, <1>8, <1>10 DEF Fresh
<1>15. Len(board) = deck
  BY <1>4, World
<1>16. QED
  BY <1>3, <1>4, <1>7, <1>13, <1>14, <1>15 DEF NewlyHeld

LEMMA CloseDueKeeps == ASSUME SimInv, CloseDue PROVE SimInv' \/ Stuck'
<1> DEFINE b == Head(windows).bounty
           book == Head(windows).book
<1>1. /\ phase = "running" /\ windows # <<>> /\ windows' = Tail(windows)
      /\ deck' = deck /\ retired' = retired /\ purse' = purse /\ faults' = faults
      /\ outlived' = outlived
      /\ \/ /\ book = <<>>
            /\ reopens' = [reopens EXCEPT ![b] = @ + 1]
            /\ shelved' = IF reopens[b] + 1 >= MaxReopens THEN shelved \cup {b} ELSE shelved
            /\ UNCHANGED <<bounties, phase, job, queue, bankroll, named>>
         \/ /\ book # <<>> /\ CanAward(bounties, b)
            /\ LET won == Earliest(book)
                   w == won.agent
                   board == Awarded(bounties, b, w, won.price)
               IN  IF busy(w)
                   THEN /\ bounties' = board
                        /\ queue' = [queue EXCEPT ![w] = Append(@, b)]
                        /\ UNCHANGED <<phase, job, bankroll, named>>
                   ELSE DispatchNext(w, Append(queue[w], b), board, bankroll, retired)
            /\ reopens' = [reopens EXCEPT ![b] = 0]
            /\ shelved' = shelved
         \/ book # <<>> /\ ~CanAward(bounties, b)
  BY DEF CloseDue
<1>2. /\ windows' \in Seq(Offer) /\ Books(windows')
      /\ b \in Id /\ book \in Seq(Bid) /\ InArrivalOrder(book)
      /\ \A k \in DOMAIN book : book[k].price \in Nat
      /\ Sellable(bounties, b, shelved, named)
      /\ OpenWindows(windows', bounties, shelved, named)
      /\ \A i \in DOMAIN windows' : windows'[i].bounty # b
  BY <1>1, FirstWindow
<1> HIDE DEF b, book
<1>3. /\ Shelves(bounties, shelved, reopens) /\ Owned(bounties, job, queue) /\ Fresh(queue, named)
      /\ \A c \in Bidder : (queue[c] # <<>> => busy(c)) /\ (c \in retired => ~busy(c))
  BY <1>1 DEF SimInv, NobodyIdlesOnWonWork
<1>4. /\ b \in DOMAIN bounties /\ bounties[b].state = "open" /\ bounties[b].failures < MaxFailures
      /\ b \notin shelved /\ b \notin named
  BY <1>2 DEF Sellable
<1>5. reopens \in [Id -> 0..MaxReopens] /\ reopens[b] \in 0..MaxReopens /\ reopens[b] < MaxReopens
  BY <1>2, <1>3, <1>4, World DEF Shelves
<1>6. CASE book = <<>>
  <2>1. /\ reopens' = [reopens EXCEPT ![b] = reopens[b] + 1]
        /\ shelved' = IF reopens[b] + 1 >= MaxReopens THEN shelved \cup {b} ELSE shelved
        /\ UNCHANGED <<bounties, phase, job, queue, bankroll, named>>
    BY <1>1, <1>6
  <2>2. /\ reopens' \in [Id -> 0..MaxReopens] /\ reopens'[b] = reopens[b] + 1
        /\ \A c \in Id : c # b => reopens'[c] = reopens[c]
    <3>1. reopens[b] + 1 \in 0..MaxReopens
      BY <1>5, Sizes
    <3>2. QED
      BY <1>2, <1>5, <2>1, <3>1
  <2>3. Shelves(bounties, shelved', reopens')
    <3>1. \A c \in Id : c \notin shelved' => reopens'[c] < MaxReopens
      <4>1. ASSUME NEW c \in Id, c \notin shelved', c = b PROVE reopens'[c] < MaxReopens
        BY <1>5, <2>1, <2>2, <4>1, Sizes
      <4>2. ASSUME NEW c \in Id, c \notin shelved', c # b PROVE reopens'[c] < MaxReopens
        BY <1>3, <2>1, <2>2, <4>2 DEF Shelves
      <4>3. QED
        BY <4>1, <4>2
    <3>2. \A c \in shelved' : c \in DOMAIN bounties /\ bounties[c].state = "open"
      BY <1>3, <1>4, <2>1 DEF Shelves
    <3>3. QED
      BY <1>3, <3>1, <3>2 DEF Shelves
  <2>4. OpenWindows(windows', bounties, shelved', named)
    <3>1. \A i \in DOMAIN windows' : windows'[i].bounty \notin shelved'
      BY <1>2, <2>1 DEF OpenWindows, Sellable
    <3>2. QED
      BY <1>2, <3>1 DEF OpenWindows, Sellable
  <2>5. shelved' \subseteq Id
    BY <1>2, <2>1, World
  <2>6. WorldTypes' /\ AgentTypes'
    BY <1>1, <1>2, <2>1, <2>2, <2>5 DEF SimInv, WorldTypes, AgentTypes
  <2>7. NobodyIdlesOnWonWork'
    BY <1>1, <1>3, <2>1 DEF NobodyIdlesOnWonWork, busy
  <2>8. QED
    BY <1>1, <1>2, <1>3, <2>1, <2>3, <2>4, <2>6, <2>7 DEF SimInv
<1>7. CASE book # <<>>
  <2> DEFINE won == Earliest(book)
             w == won.agent
             board == Awarded(bounties, b, w, won.price)
             queues == [queue EXCEPT ![w] = Append(queue[w], b)]
  <2>1. w \in Bidder /\ won.price \in Nat
    <3>1. PICK k \in 1..Len(book) : won = book[k]
      BY <1>2, <1>7, EarliestIsLowest
    <3>2. k \in DOMAIN book /\ book[k] \in Bid
      BY <1>2
    <3>3. QED
      BY <1>2, <3>1, <3>2 DEF Bid
  <2>2. /\ IF busy(w)
           THEN /\ bounties' = board
                /\ queue' = queues
                /\ UNCHANGED <<phase, job, bankroll, named>>
           ELSE DispatchNext(w, Append(queue[w], b), board, bankroll, retired)
        /\ reopens' = [reopens EXCEPT ![b] = 0]
        /\ shelved' = shelved
    BY <1>1, <1>4, <1>7 DEF CanAward
  <2> HIDE DEF w, won
  <2>3. /\ board \in Seq(Posting) /\ Len(board) = deck
        /\ board[b].failures = bounties[b].failures
        /\ \A c \in DOMAIN board : c # b => board[c] = bounties[c]
        /\ DOMAIN board = DOMAIN bounties
        /\ queues \in [Bidder -> Seq(Id)]
        /\ Owned(board, job, queues) /\ Fresh(queues, named)
    <3>1. Sellable(bounties, b, shelved, named)
      BY <1>2
    <3> HIDE DEF board, queues
    <3>2. board = Awarded(bounties, b, w, won.price) /\ queues = [queue EXCEPT ![w] = Append(queue[w], b)]
      BY DEF board, queues
    <3>3. NewlyHeld(b, board, queues)
      BY <2>1, <3>1, <3>2, AwardIsHeld
    <3>4. QED
      BY <3>3 DEF NewlyHeld
  <2> HIDE DEF board
  <2>4. reopens' \in [Id -> 0..MaxReopens] /\ \A c \in Id : reopens'[c] = IF c = b THEN 0 ELSE reopens[c]
    <3>1. 0 \in 0..MaxReopens
      BY Sizes
    <3>2. QED
      BY <1>2, <1>5, <2>2, <3>1
  <2>5. Shelves(board, shelved', reopens')
    <3>1. \A c \in DOMAIN board : /\ board[c].failures <= MaxFailures
                                  /\ board[c].state = "awarded" => board[c].failures < MaxFailures
      <4>1. board[b].failures <= MaxFailures /\ board[b].failures < MaxFailures
        BY <1>3, <1>4, <2>3 DEF Shelves
      <4>2. QED
        BY <1>3, <2>3, <4>1 DEF Shelves
    <3>2. \A c \in shelved' : c \in DOMAIN board /\ board[c].state = "open"
      BY <1>3, <1>4, <2>2, <2>3 DEF Shelves
    <3>3. \A c \in Id : c \notin shelved' => reopens'[c] < MaxReopens
      BY <1>3, <2>2, <2>4, Sizes DEF Shelves
    <3>4. QED
      BY <3>1, <3>2, <3>3 DEF Shelves
  <2>6. OpenWindows(windows', board, shelved', named)
    <3>1. \A i \in DOMAIN windows' : Sellable(board, windows'[i].bounty, shelved', named)
      BY <1>2, <2>2, <2>3 DEF OpenWindows, Sellable
    <3>2. QED
      BY <1>2, <3>1 DEF OpenWindows
  <2>7. shelved' \subseteq Id
    BY <2>2, World
  <2>8. CASE busy(w)
    <3>1. /\ bounties' = board /\ queue' = queues /\ phase' = phase /\ job' = job
          /\ bankroll' = bankroll /\ named' = named
      BY <2>2, <2>8
    <3>2. WorldTypes' /\ AgentTypes'
      BY <1>1, <1>2, <2>3, <2>4, <2>7, <3>1 DEF SimInv, WorldTypes, AgentTypes
    <3>3. NobodyIdlesOnWonWork'
      <4>1. \A c \in Bidder : c # w => queues[c] = queue[c]
        BY World
      <4>2. QED
        BY <1>1, <1>3, <2>8, <3>1, <4>1 DEF NobodyIdlesOnWonWork, busy
    <3>4. QED
      BY <1>1, <1>2, <2>3, <2>5, <2>6, <3>1, <3>2, <3>3 DEF SimInv
  <2>9. CASE ~busy(w)
    <3>1. DispatchNext(w, Append(queue[w], b), board, bankroll, retired)
      BY <2>2, <2>9
    <3>2. [job EXCEPT ![w] = Free] = job
      BY <2>1, <2>9, World DEF busy
    <3>3. Append(queue[w], b) \in Seq(Id)
      BY <1>2, <2>1, World
    <3>4. Poised(w, Append(queue[w], b), board, bankroll, retired, windows', shelved', reopens')
      BY <1>1, <1>3, <2>3, <2>5, <2>6, <3>2, <3>3, World DEF Poised
    <3>5. Dispatched(board, retired, windows', shelved', reopens') \/ Refused(board, shelved', reopens')
      BY <2>1, <3>1, <3>4, World, DispatchKeeps DEF SimInv
    <3>6. Dispatched(board, retired', windows', shelved', reopens') \/ Refused(board, shelved', reopens')
      BY <1>1, <3>5
    <3>7. QED
      BY <1>1, <1>2, <2>3, <2>4, <2>7, <3>6, World, Reassembled
  <2>10. QED
    BY <2>8, <2>9
<1>8. QED
  BY <1>6, <1>7

\* A book after one more bid.
LEMMA PlacedIs ==
    ASSUME NEW book \in Seq(Bid), NEW a \in Bidder, NEW price \in Nat,
           InArrivalOrder(book), \A k \in DOMAIN book : book[k].price \in Nat,
           NEW more, more = Placed(book, a, price)
    PROVE  /\ more \in Seq(Bid) /\ InArrivalOrder(more)
           /\ \A k \in DOMAIN more : more[k].price \in Nat
<1> DEFINE bid == [agent |-> a, price |-> price, seq |-> Len(book)]
<1>1. Len(book) \in Nat
  OBVIOUS
<1>2. bid \in Bid /\ bid.seq = Len(book) /\ bid.price = price
  BY <1>1 DEF Bid
<1>3. more = Append(book, bid)
  BY DEF Placed
<1> HIDE DEF bid
<1>4. /\ more \in Seq(Bid) /\ Len(more) = Len(book) + 1 /\ DOMAIN more = 1..(Len(book) + 1)
      /\ more[Len(book) + 1] = bid
      /\ \A k \in 1..Len(book) : more[k] = book[k]
  BY <1>2, <1>3
<1>5. \A k \in 1..(Len(book) + 1) : k \in 1..Len(book) \/ k = Len(book) + 1
  BY <1>1
<1>6. InArrivalOrder(more)
  BY <1>1, <1>2, <1>4, <1>5 DEF InArrivalOrder
<1>7. \A k \in DOMAIN more : more[k].price \in Nat
  BY <1>2, <1>4, <1>5
<1>8. QED
  BY <1>4, <1>6, <1>7

LEMMA LateKeeps ==
    ASSUME SimInv, NEW a \in Bidder, NEW wanted, NEW asks \in [wanted -> Reserve..MaxPayout],
           windows' = Late(asks, a)
    PROVE  /\ windows' \in Seq(Offer) /\ Books(windows')
           /\ OpenWindows(windows', bounties, shelved, named)
<1>1. /\ windows \in Seq(Offer) /\ DOMAIN windows = 1..Len(windows) /\ Len(windows) \in Nat
      /\ \A i \in DOMAIN windows : windows[i] \in Offer
  BY World
<1>2. OpenWindows(windows, bounties, shelved, named) /\ Books(windows)
  BY DEF SimInv
<1>3. /\ DOMAIN windows' = DOMAIN windows
      /\ \A i \in DOMAIN windows :
            windows'[i] = IF windows[i].bounty \in DOMAIN asks
                             /\ Takes(windows[i].book, a, asks[windows[i].bounty])
                          THEN [windows[i] EXCEPT !.book =
                                  Placed(windows[i].book, a, asks[windows[i].bounty])]
                          ELSE windows[i]
  BY DEF Late
<1>4. ASSUME NEW i \in DOMAIN windows
      PROVE  /\ windows'[i] \in Offer /\ windows'[i].bounty = windows[i].bounty
             /\ InArrivalOrder(windows'[i].book)
             /\ \A k \in DOMAIN windows'[i].book : windows'[i].book[k].price \in Nat
  <2>1. /\ windows[i] \in Offer /\ InArrivalOrder(windows[i].book)
        /\ \A k \in DOMAIN windows[i].book : windows[i].book[k].price \in Nat
    BY <1>1, <1>2 DEF Books
  <2>2. CASE windows'[i] = windows[i]
    BY <2>1, <2>2
  <2>3. CASE windows'[i] # windows[i]
    <3> DEFINE price == asks[windows[i].bounty]
               more == Placed(windows[i].book, a, price)
    <3>1. windows[i].bounty \in wanted /\ windows'[i] = [windows[i] EXCEPT !.book = more]
      BY <1>3, <2>3
    <3>2. price \in Nat
      BY <3>1, Sizes
    <3> HIDE DEF price
    <3>3. windows[i].book \in Seq(Bid)
      BY <2>1 DEF Offer
    <3>4. /\ more \in Seq(Bid) /\ InArrivalOrder(more)
          /\ \A k \in DOMAIN more : more[k].price \in Nat
      BY <2>1, <3>2, <3>3, PlacedIs
    <3> HIDE DEF more
    <3>5. /\ [windows[i] EXCEPT !.book = more] \in Offer
          /\ [windows[i] EXCEPT !.book = more].bounty = windows[i].bounty
          /\ [windows[i] EXCEPT !.book = more].book = more
      BY <2>1, <3>4 DEF Offer
    <3>6. QED
      BY <3>1, <3>4, <3>5
  <2>4. QED
    BY <2>2, <2>3
<1>5. windows' \in Seq(Offer)
  <2>1. \A n \in Nat : \A s \in [1..n -> Offer] : s \in Seq(Offer)
    OBVIOUS
  <2>2. windows' = [i \in DOMAIN windows |-> windows'[i]]
    BY DEF Late
  <2>3. windows' \in [1..Len(windows) -> Offer]
    BY <1>1, <1>4, <2>2
  <2>4. QED
    BY <1>1, <2>1, <2>3
<1>6. Books(windows')
  BY <1>3, <1>4 DEF Books
<1>7. OpenWindows(windows', bounties, shelved, named)
  BY <1>2, <1>3, <1>4 DEF OpenWindows
<1>8. QED
  BY <1>5, <1>6, <1>7

LEMMA HandleBidKeeps == ASSUME SimInv, NEW a \in Bidder, HandleBid(a) PROVE SimInv' \/ Stuck'
<1>1. /\ phase \in {"running", "closing"} /\ job[a].step = "bid"
      /\ deck' = deck /\ reopens' = reopens /\ shelved' = shelved /\ retired' = retired
      /\ purse' = purse
  BY DEF HandleBid
<1>1a. faults' \in 0..MaxFaults /\ outlived' \subseteq Bidder
  <2>1. faults \in 0..MaxFaults /\ outlived \subseteq Bidder /\ MaxFaults \in Nat
    BY World, Sizes
  <2>2. QED
    BY <2>1 DEF HandleBid
<1>2. PICK wanted : \E asks \in [wanted -> Reserve..MaxPayout] : windows' = Late(asks, a)
  BY DEF HandleBid
<1>3. PICK cost \in {0, 1} \cap 0..bankroll[a] :
         DispatchNext(a, queue[a], bounties, [bankroll EXCEPT ![a] = @ - cost], retired)
  BY DEF HandleBid
<1>4. /\ windows' \in Seq(Offer) /\ Books(windows')
      /\ OpenWindows(windows', bounties, shelved, named)
  BY <1>2, LateKeeps
<1> DEFINE roll == [bankroll EXCEPT ![a] = @ - cost]
<1>5. roll \in [Bidder -> Nat]
  <2>1. bankroll[a] \in Nat
    BY World
  <2>2. bankroll[a] - cost \in Nat
    BY <1>3, <2>1
  <2>3. QED
    BY <2>2, World
<1> HIDE DEF roll
<1>6. DispatchNext(a, queue[a], bounties, roll, retired)
  BY <1>3 DEF roll
<1>7. Owned(bounties, [job EXCEPT ![a] = Free], queue)
  <2> DEFINE jobs == [job EXCEPT ![a] = Free]
  <2>1. \A c \in Bidder : /\ job[c].step = "attempt" => jobs[c] = job[c]
                          /\ jobs[c].step = "attempt" => jobs[c] = job[c]
    BY <1>1, Jobs, World
  <2> HIDE DEF jobs
  <2>2. Owned(bounties, job, queue)
    BY DEF SimInv
  <2>3. Owned(bounties, jobs, queue)
    BY <2>1, <2>2 DEF Owned
  <2>4. QED
    BY <2>3 DEF jobs
<1>8. [queue EXCEPT ![a] = queue[a]] = queue /\ queue[a] \in Seq(Id)
  BY World
<1>9. Poised(a, queue[a], bounties, roll, retired, windows', shelved', reopens')
  <2>1. Shelves(bounties, shelved, reopens) /\ Fresh(queue, named)
    BY DEF SimInv
  <2>2. phase = "running" => \A c \in Bidder : (queue[c] # <<>> => busy(c)) /\ (c \in retired => ~busy(c))
    BY DEF SimInv, NobodyIdlesOnWonWork
  <2>3. QED
    BY <1>1, <1>4, <1>5, <1>7, <1>8, <2>1, <2>2, World DEF Poised
<1>10. Dispatched(bounties, retired, windows', shelved', reopens') \/ Refused(bounties, shelved', reopens')
  BY <1>6, <1>9, World, DispatchKeeps DEF SimInv
<1>11. Dispatched(bounties, retired', windows', shelved', reopens') \/ Refused(bounties, shelved', reopens')
  BY <1>1, <1>10
<1>12. QED
  BY <1>1, <1>1a, <1>4, <1>11, World, Reassembled

\* An attempt's bounty, put back or solved: nobody else had it.
LEMMA LetGo ==
    ASSUME SimInv, NEW a \in Bidder, job[a].step = "attempt",
           NEW p \in Posting, p.state # "awarded", p.failures <= MaxFailures,
           NEW board, board = [bounties EXCEPT ![job[a].bounty] = p]
    PROVE  /\ board \in Seq(Posting) /\ Len(board) = deck
           /\ OpenWindows(windows, board, shelved, named) /\ Shelves(board, shelved, reopens)
           /\ Owned(board, [job EXCEPT ![a] = Free], queue)
<1> DEFINE b == job[a].bounty
           jobs == [job EXCEPT ![a] = Free]
<1>1. Owned(bounties, job, queue) /\ OpenWindows(windows, bounties, shelved, named)
      /\ Shelves(bounties, shelved, reopens)
  BY DEF SimInv
<1>2. Holds(bounties, b, a)
  BY <1>1 DEF Owned
<1>3. b \in DOMAIN bounties /\ bounties[b].state = "awarded"
  BY <1>2 DEF Holds
<1>4. /\ board \in Seq(Posting) /\ DOMAIN board = DOMAIN bounties /\ Len(board) = Len(bounties)
      /\ board[b] = p /\ \A c \in DOMAIN bounties : c # b => board[c] = bounties[c]
  BY <1>3, World, BoardAt
<1>5. Len(board) = deck
  BY <1>4, World
<1>6. \A c \in Bidder : /\ jobs[c].step = "attempt" => c # a /\ jobs[c] = job[c]
                        /\ c # a => jobs[c] = job[c]
  BY Jobs, World
<1> HIDE DEF b, jobs
<1>7. OpenWindows(windows, board, shelved, named)
  <2>1. \A c : Sellable(bounties, c, shelved, named) => Sellable(board, c, shelved, named)
    BY <1>3, <1>4 DEF Sellable
  <2>2. QED
    BY <1>1, <2>1 DEF OpenWindows
<1>8. Shelves(board, shelved, reopens)
  <2>1. \A c \in DOMAIN board : /\ board[c].failures <= MaxFailures
                                /\ board[c].state = "awarded" => board[c].failures < MaxFailures
    BY <1>1, <1>4 DEF Shelves
  <2>2. \A c \in shelved : c \in DOMAIN board /\ board[c].state = "open"
    BY <1>1, <1>3, <1>4 DEF Shelves
  <2>3. QED
    BY <1>1, <2>1, <2>2 DEF Shelves
<1>9. Owned(board, jobs, queue)
  <2>1. \A c, d : Holds(bounties, d, c) /\ d # b => Holds(board, d, c)
    BY <1>4 DEF Holds
  <2>2. \A c \in Bidder : c # a => ~Holds(bounties, b, c)
    BY <1>2 DEF Holds
  <2>3. \A c \in Bidder : \A i \in DOMAIN queue[c] : Holds(bounties, queue[c][i], c) /\ queue[c][i] # b
    <3>1. \A i \in DOMAIN queue[a] : queue[a][i] # b
      BY <1>1 DEF Owned, b
    <3>2. \A c \in Bidder : \A i \in DOMAIN queue[c] : Holds(bounties, queue[c][i], c)
      BY <1>1 DEF Owned
    <3>3. QED
      BY <2>2, <3>1, <3>2
  <2>4. \A c \in Bidder : \A i \in DOMAIN queue[c] : Holds(board, queue[c][i], c)
    BY <2>1, <2>3
  <2>5. \A c \in Bidder : jobs[c].step = "attempt" => Holds(board, jobs[c].bounty, c)
    <3>1. \A c \in Bidder : job[c].step = "attempt" => Holds(bounties, job[c].bounty, c)
      BY <1>1 DEF Owned
    <3>2. QED
      BY <1>6, <2>1, <2>2, <3>1
  <2>6. \A c \in Bidder : \A i \in DOMAIN queue[c] :
           jobs[c].step = "attempt" => queue[c][i] # jobs[c].bounty
    BY <1>1, <1>6 DEF Owned
  <2>7. \A c \in Bidder : \A i, j \in DOMAIN queue[c] : queue[c][i] = queue[c][j] => i = j
    BY <1>1 DEF Owned
  <2>8. ASSUME NEW d \in DOMAIN board, board[d].state = "awarded"
        PROVE  \E c \in Bidder : \/ \E i \in DOMAIN queue[c] : queue[c][i] = d
                                 \/ jobs[c].step = "attempt" /\ jobs[c].bounty = d
    <3>1. d # b /\ d \in DOMAIN bounties /\ bounties[d].state = "awarded"
      BY <1>4, <2>8
    <3>2. PICK c \in Bidder : \/ \E i \in DOMAIN queue[c] : queue[c][i] = d
                              \/ job[c].step = "attempt" /\ job[c].bounty = d
      BY <1>1, <3>1 DEF Owned
    <3>3. job[c].bounty = d => c # a
      BY <3>1 DEF b
    <3>4. QED
      BY <1>6, <3>2, <3>3
  <2>9. QED
    BY <2>4, <2>5, <2>6, <2>7, <2>8 DEF Owned
<1>10. QED
  BY <1>4, <1>5, <1>7, <1>8, <1>9 DEF jobs

\* settleAttempt, once the board has been told.
LEMMA SettleKeeps ==
    ASSUME SimInv, NEW a \in Bidder, job[a].step = "attempt",
           NEW p \in Posting, p.state # "awarded", p.failures <= MaxFailures,
           NEW board, board = [bounties EXCEPT ![job[a].bounty] = p],
           NEW back \in Nat, NEW bankruptcy \in BOOLEAN, Settle(a, board, back, bankruptcy),
           UNCHANGED <<deck, windows, reopens, shelved, outlived>>,
           purse' \in 0..Endowment, faults' \in 0..MaxFaults
    PROVE  SimInv' \/ Stuck'
<1> DEFINE roll == [bankroll EXCEPT ![a] = @ + back]
           gone == IF bankruptcy /\ Broke(a, roll) THEN retired \cup {a} ELSE retired
<1>1. \/ retired' = gone /\ DispatchNext(a, queue[a], board, roll, gone)
      \/ /\ a \in outlived /\ Idle(a, queue[a], board, roll)
         /\ phase' = "stuck" /\ retired' = retired /\ named' = named
  BY DEF Settle
<1>2. roll \in [Bidder -> Nat]
  <2>1. bankroll[a] + back \in Nat
    BY World
  <2>2. QED
    BY <2>1, World
<1>3. gone \subseteq Bidder /\ \A c \in Bidder \ {a} : c \in gone => c \in retired
  BY World
<1> HIDE DEF roll, gone
<1>4. /\ board \in Seq(Posting) /\ Len(board) = deck
      /\ OpenWindows(windows, board, shelved, named) /\ Shelves(board, shelved, reopens)
      /\ Owned(board, [job EXCEPT ![a] = Free], queue)
  BY LetGo
<1>5. [queue EXCEPT ![a] = queue[a]] = queue /\ queue[a] \in Seq(Id)
  BY World
<1>6. Poised(a, queue[a], board, roll, gone, windows', shelved', reopens')
  <2>1. Fresh(queue, named)
    BY DEF SimInv
  <2>2. phase = "running" => \A c \in Bidder : (queue[c] # <<>> => busy(c)) /\ (c \in retired => ~busy(c))
    BY DEF SimInv, NobodyIdlesOnWonWork
  <2>3. QED
    BY <1>2, <1>3, <1>4, <1>5, <2>1, <2>2, World DEF Poised
<1>7. CASE retired' = gone /\ DispatchNext(a, queue[a], board, roll, gone)
  <2>1. Dispatched(board, gone, windows', shelved', reopens') \/ Refused(board, shelved', reopens')
    BY <1>6, <1>7, World, DispatchKeeps DEF SimInv
  <2>2. Dispatched(board, retired', windows', shelved', reopens') \/ Refused(board, shelved', reopens')
    BY <1>7, <2>1
  <2>3. Books(windows')
    BY DEF SimInv
  <2>4. QED
    BY <1>3, <1>4, <1>7, <2>2, <2>3, World, Reassembled
<1>8. CASE /\ a \in outlived /\ Idle(a, queue[a], board, roll)
           /\ phase' = "stuck" /\ retired' = retired /\ named' = named
  <2>1. /\ job' = [job EXCEPT ![a] = Free] /\ queue' = queue /\ bounties' = board
        /\ bankroll' = roll
    BY <1>5, <1>8 DEF Idle
  <2>2. job' \in [Bidder -> Work]
    BY <2>1, World DEF Work
  <2>3. WorldTypes' /\ AgentTypes'
    BY <1>2, <1>4, <1>8, <2>1, <2>2 DEF SimInv, WorldTypes, AgentTypes
  <2>4. QED
    BY <1>4, <1>8, <2>1, <2>3 DEF Stuck
<1>9. QED
  BY <1>1, <1>7, <1>8

LEMMA HandleAttemptKeeps == ASSUME SimInv, NEW a \in Bidder, HandleAttempt(a) PROVE SimInv' \/ Stuck'
<1> DEFINE b == job[a].bounty
<1>1. /\ job[a].step = "attempt" /\ UNCHANGED <<deck, windows, reopens, shelved, outlived>>
  BY DEF HandleAttempt
<1>2. Owned(bounties, job, queue) /\ Shelves(bounties, shelved, reopens)
  BY DEF SimInv
<1>3. b \in DOMAIN bounties /\ bounties[b].state = "awarded"
  BY <1>1, <1>2 DEF Owned, Holds
<1>4. /\ bounties[b] \in Posting /\ bounties[b].failures \in Nat /\ bounties[b].price \in Nat
      /\ bounties[b].failures < MaxFailures
  <2>1. \A p \in Posting : p.failures \in Nat /\ p.price \in Nat
    BY DEF Posting
  <2>2. QED
    BY <1>2, <1>3, <2>1, World DEF Shelves
<1>5. job[a].budget \in Nat
  BY <1>1, Jobs, World
<1>6. \A back \in {job[a].budget - spent : spent \in 0..job[a].budget} : back \in Nat
  BY <1>5
<1>7. purse \in 0..Endowment /\ faults \in 0..MaxFaults
  BY World
<1>8. Graded(b) \/ Ungraded => purse' \in 0..Endowment
  BY <1>7, Sizes DEF Graded, Ungraded
<1>9. CASE /\ IF bounties[b].judged THEN Graded(b) ELSE Ungraded
           /\ \E back \in {job[a].budget - spent : spent \in 0..job[a].budget} :
                 Settle(a, Resolved(bounties, b, TRUE), back + bounties[b].price, TRUE)
           /\ UNCHANGED faults
  <2>1. PICK back \in Nat : Settle(a, Resolved(bounties, b, TRUE), back + bounties[b].price, TRUE)
    BY <1>6, <1>9
  <2> DEFINE p == [bounties[b] EXCEPT !.state = "solved"]
  <2>2. p \in Posting /\ p.state # "awarded" /\ p.failures <= MaxFailures
    BY <1>4, SolvedIs, Sizes
  <2>3. Resolved(bounties, b, TRUE) = [bounties EXCEPT ![b] = p]
    BY DEF Resolved
  <2>4. back + bounties[b].price \in Nat
    BY <1>4
  <2>5. purse' \in 0..Endowment /\ faults' \in 0..MaxFaults
    BY <1>7, <1>8, <1>9
  <2> HIDE DEF p
  <2>6. QED
    BY <1>1, <2>1, <2>2, <2>3, <2>4, <2>5, SettleKeeps
<1>10. CASE /\ Graded(b) \/ Ungraded
            /\ \E back \in {job[a].budget - spent : spent \in 0..job[a].budget} :
                  Settle(a, Resolved(bounties, b, FALSE), back, TRUE)
            /\ UNCHANGED faults
  <2>1. PICK back \in Nat : Settle(a, Resolved(bounties, b, FALSE), back, TRUE)
    BY <1>6, <1>10
  <2>2. /\ Failed(bounties[b]) \in Posting /\ Failed(bounties[b]).state # "awarded"
        /\ Failed(bounties[b]).failures <= MaxFailures
    BY <1>4, FailedIs, Sizes
  <2>3. Resolved(bounties, b, FALSE) = [bounties EXCEPT ![b] = Failed(bounties[b])]
    BY DEF Resolved, Failed
  <2>4. purse' \in 0..Endowment /\ faults' \in 0..MaxFaults
    BY <1>7, <1>8, <1>10
  <2>5. QED
    BY <1>1, <2>1, <2>2, <2>3, <2>4, SettleKeeps
<1>11. CASE /\ Graded(b) \/ Ungraded
            /\ \/ bounties[b].judged /\ purse = 0 /\ UNCHANGED faults
               \/ phase = "closing" /\ UNCHANGED faults
               \/ phase = "running" /\ faults < MaxFaults /\ faults' = faults + 1
            /\ Settle(a, Voided(bounties, b), job[a].budget, FALSE)
  <2>1. /\ Returned(bounties[b]) \in Posting /\ Returned(bounties[b]).state # "awarded"
        /\ Returned(bounties[b]).failures <= MaxFailures
    BY <1>4, ReturnedIs, Sizes
  <2>2. Voided(bounties, b) = [bounties EXCEPT ![b] = Returned(bounties[b])]
    BY DEF Voided
  <2>3. purse' \in 0..Endowment
    BY <1>8, <1>11
  <2>4. faults' \in 0..MaxFaults
    BY <1>7, <1>11, Sizes
  <2>5. QED
    BY <1>1, <1>5, <1>11, <2>1, <2>2, <2>3, <2>4, SettleKeeps
<1>12. CanResolve(bounties, b)
  BY <1>3 DEF CanResolve
<1>13. QED
  BY <1>9, <1>10, <1>11, <1>12 DEF HandleAttempt

LEMMA MergeRefusedKeeps == ASSUME SimInv, NEW a \in Bidder, MergeRefused(a) PROVE Stuck'
<1>1. /\ phase' = "stuck" /\ outlived' = outlived \cup {a}
      /\ Idle(a, queue[a], bounties, bankroll)
      /\ UNCHANGED <<deck, windows, reopens, shelved, retired, named, faults>>
  BY DEF MergeRefused
<1>2. purse' \in 0..Endowment
  <2>1. purse \in 0..Endowment /\ Endowment \in Nat
    BY World, Sizes
  <2>2. QED
    BY <2>1 DEF MergeRefused, Graded, Ungraded
<1>3. /\ job' = [job EXCEPT ![a] = Free] /\ queue' = queue /\ bounties' = bounties
      /\ bankroll' = bankroll
  BY <1>1, World DEF Idle
<1>4. job' \in [Bidder -> Work]
  BY <1>3, World DEF Work
<1>5. WorldTypes' /\ AgentTypes'
  BY <1>1, <1>2, <1>3, <1>4 DEF SimInv, WorldTypes, AgentTypes
<1>6. QED
  BY <1>1, <1>3, <1>5 DEF SimInv, Stuck

\* The loop is left, and then everything has come home.
LEMMA LeavingKeeps == ASSUME SimInv, BecomeQuiet \/ Stop PROVE SimInv'
<1>1. /\ phase' = "closing"
      /\ UNCHANGED <<bounties, deck, windows, reopens, shelved, job, queue, bankroll, retired,
                     purse, named, faults, outlived>>
  BY DEF BecomeQuiet, Stop
<1>2. WorldTypes' /\ AgentTypes'
  BY <1>1 DEF SimInv, WorldTypes, AgentTypes
<1>3. NobodyIdlesOnWonWork'
  BY <1>1 DEF NobodyIdlesOnWonWork
<1>4. QED
  BY <1>1, <1>2, <1>3 DEF SimInv

LEMMA EndKeeps == ASSUME SimInv, End PROVE SimInv'
<1> DEFINE left == UNION {ToSet(queue[a]) : a \in Bidder}
           after == Returning(bounties, left)
           none == [a \in Bidder |-> <<>>]
<1>1. /\ phase' = "ended" /\ bounties' = after /\ queue' = none
      /\ \A a \in Bidder : ~busy(a)
      /\ UNCHANGED <<deck, windows, reopens, shelved, job, bankroll, retired, purse, named, faults>>
      /\ outlived' = outlived
  BY DEF End
<1>2. /\ after \in Seq(Posting) /\ Len(after) = Len(bounties) /\ DOMAIN after = DOMAIN bounties
      /\ \A b \in DOMAIN bounties :
            /\ after[b].failures = bounties[b].failures
            /\ b \in left => after[b].state = "open"
            /\ b \notin left => after[b] = bounties[b]
  BY World, ReturningIs
<1>3. \A b \in DOMAIN bounties : b \in left <=> \E a \in Bidder : \E i \in DOMAIN queue[a] : queue[a][i] = b
  BY DEF ToSet
<1> HIDE DEF left, after
<1>4. /\ Owned(bounties, job, queue) /\ OpenWindows(windows, bounties, shelved, named)
      /\ Shelves(bounties, shelved, reopens)
  BY DEF SimInv
<1>5. \A a \in Bidder : job[a].step # "attempt" /\ none[a] = <<>>
  BY <1>1, Jobs DEF busy
<1>6. none \in [Bidder -> Seq(Id)]
  <2>1. <<>> \in Seq(Id)
    OBVIOUS
  <2>2. QED
    BY <2>1
<1> HIDE DEF none
<1>7. \A b \in DOMAIN after : after[b].state # "awarded"
  <2>1. SUFFICES ASSUME NEW b \in DOMAIN after, after[b].state = "awarded" PROVE FALSE
    OBVIOUS
  <2>2. b \notin left /\ bounties[b].state = "awarded" /\ b \in DOMAIN bounties
    BY <1>2, <2>1
  <2>3. QED
    BY <1>3, <1>4, <1>5, <2>2 DEF Owned
<1>8. Owned(after, job, none)
  BY <1>5, <1>7 DEF Owned
<1>9. OpenWindows(windows, after, shelved, named)
  <2>1. \A b : Sellable(bounties, b, shelved, named) => Sellable(after, b, shelved, named)
    BY <1>2 DEF Sellable
  <2>2. QED
    BY <1>4, <2>1 DEF OpenWindows
<1>10. Shelves(after, shelved, reopens)
  <2>1. \A b \in DOMAIN after : /\ after[b].failures <= MaxFailures
                                /\ after[b].state = "awarded" => after[b].failures < MaxFailures
    BY <1>2, <1>4, <1>7 DEF Shelves
  <2>2. \A b \in shelved : b \in DOMAIN after /\ after[b].state = "open"
    BY <1>2, <1>4 DEF Shelves
  <2>3. QED
    BY <1>4, <2>1, <2>2 DEF Shelves
<1>11. Fresh(none, named)
  BY <1>5 DEF Fresh
<1>12. WorldTypes' /\ AgentTypes'
  BY <1>1, <1>2, <1>6 DEF SimInv, WorldTypes, AgentTypes
<1>13. NobodyIdlesOnWonWork'
  BY <1>1 DEF NobodyIdlesOnWonWork
<1>14. QED
  BY <1>1, <1>8, <1>9, <1>10, <1>11, <1>12, <1>13 DEF SimInv

-----------------------------------------------------------------------------
LEMMA SimStart == SimInit => SimInv
<1>1. SUFFICES ASSUME SimInit PROVE SimInv
  OBVIOUS
<1>2. /\ bounties = <<>> /\ phase = "running" /\ deck = 0 /\ windows = <<>> /\ shelved = {}
      /\ reopens = [b \in Id |-> 0] /\ job = [a \in Bidder |-> Free]
      /\ queue = [a \in Bidder |-> <<>>] /\ bankroll = [a \in Bidder |-> Grant]
      /\ retired = {} /\ outlived = {} /\ purse = Endowment /\ named = {} /\ faults = 0
  BY <1>1 DEF SimInit, BoardInit
<1>3. <<>> \in Seq(Posting) /\ <<>> \in Seq(Offer) /\ <<>> \in Seq(Id)
  OBVIOUS
<1>4. Len(<<>>) = 0 /\ DOMAIN <<>> = {}
  OBVIOUS
<1>5. Free \in Work
  BY DEF Work
<1>6. WorldTypes
  <2>1. 0 \in 0..MaxReopens /\ 0 \in 0..MaxFaults /\ 0 \in 0..Len(Deck) /\ Endowment \in 0..Endowment
    BY Sizes
  <2>2. reopens \in [Id -> 0..MaxReopens]
    BY <1>2, <2>1
  <2>3. QED
    BY <1>2, <1>3, <1>4, <2>1, <2>2 DEF WorldTypes
<1>7. AgentTypes
  <2>1. job \in [Bidder -> Work] /\ queue \in [Bidder -> Seq(Id)]
    BY <1>2, <1>3, <1>5
  <2>2. bankroll \in [Bidder -> Nat]
    BY <1>2, Sizes
  <2>3. QED
    BY <1>2, <2>1, <2>2 DEF AgentTypes
<1>8. \A a \in Bidder : job[a] = Free /\ job[a].step # "attempt" /\ queue[a] = <<>>
  BY <1>2, Jobs
<1>9. OpenWindows(windows, bounties, shelved, named) /\ Books(windows)
  BY <1>2, <1>4 DEF OpenWindows, Books
<1>10. Shelves(bounties, shelved, reopens)
  BY <1>2, <1>4, Sizes DEF Shelves
<1>11. Owned(bounties, job, queue) /\ Fresh(queue, named)
  BY <1>2, <1>4, <1>8 DEF Owned, Fresh
<1>12. NobodyIdlesOnWonWork
  BY <1>2, <1>8 DEF NobodyIdlesOnWonWork, busy
<1>13. QED
  BY <1>2, <1>6, <1>7, <1>9, <1>10, <1>11, <1>12 DEF SimInv

\* Stuck is for ever: RunSim has returned.
LEMMA StuckStays == ASSUME Stuck, [SimNext]_simVars PROVE Stuck'
<1>1. phase = "stuck"
  BY DEF Stuck
<1>2. ~Tick /\ ~TickRefused /\ ~CloseDue /\ ~BecomeQuiet /\ ~Stop /\ ~End
  BY <1>1 DEF Tick, TickRefused, CloseDue, BecomeQuiet, Stop, End
<1>3. \A a \in Bidder : ~Handle(a)
  BY <1>1 DEF Handle, HandleBid, HandleAttempt, MergeRefused
<1>4. UNCHANGED simVars
  BY <1>2, <1>3 DEF SimNext
<1>5. /\ UNCHANGED <<bounties, phase, deck, windows, reopens, shelved, job, queue>>
      /\ UNCHANGED <<bankroll, retired, purse, named, faults, outlived>>
  BY <1>4 DEF simVars
<1>6. WorldTypes' /\ AgentTypes'
  BY <1>5 DEF Stuck, WorldTypes, AgentTypes
<1>7. QED
  BY <1>5, <1>6 DEF Stuck

\* The inductive invariant of the real-time world: where every bounty is, and
\* what one on a window can be relied on for; until a call that outlived its
\* step stops it.
THEOREM SimSafe == SimSpec => [](SimInv \/ Stuck)
<1>1. SimInit => SimInv
  BY SimStart
<1>2a. Stuck /\ [SimNext]_simVars => Stuck'
  BY StuckStays
<1>2. SimInv /\ [SimNext]_simVars => SimInv' \/ Stuck'
  <2>1. SUFFICES ASSUME SimInv, [SimNext]_simVars PROVE SimInv' \/ Stuck'
    OBVIOUS
  <2>2. CASE Tick
    BY <2>1, <2>2, TickKeeps
  <2>2a. CASE TickRefused
    BY <2>1, <2>2a, TickRefusedKeeps
  <2>3. CASE CloseDue
    BY <2>1, <2>3, CloseDueKeeps
  <2>4. ASSUME NEW a \in Bidder, Handle(a) PROVE SimInv' \/ Stuck'
    BY <2>1, <2>4, HandleBidKeeps, HandleAttemptKeeps, MergeRefusedKeeps DEF Handle
  <2>5. CASE BecomeQuiet \/ Stop
    BY <2>1, <2>5, LeavingKeeps
  <2>6. CASE End
    BY <2>1, <2>6, EndKeeps
  <2>7. CASE UNCHANGED simVars
    <3>1. /\ UNCHANGED <<bounties, phase, deck, windows, reopens, shelved, job, queue>>
          /\ UNCHANGED <<bankroll, retired, purse, named, faults, outlived>>
      BY <2>7 DEF simVars
    <3>2. WorldTypes' /\ AgentTypes' /\ NobodyIdlesOnWonWork'
      BY <2>1, <3>1 DEF SimInv, WorldTypes, AgentTypes, NobodyIdlesOnWonWork, busy
    <3>3. QED
      BY <2>1, <3>1, <3>2 DEF SimInv
  <2>8. QED
    BY <2>1, <2>2, <2>2a, <2>3, <2>4, <2>5, <2>6, <2>7 DEF SimNext
<1>3. QED
  BY <1>1, <1>2, <1>2a, PTL DEF SimSpec

\* The world stops itself for one thing only, a call that outlived its step:
\* no award is refused, no attempt's wallet has a name that is taken, and no
\* attempt is resolved that was not awarded, in whatever order ticks, deadlines
\* and reports come (sim.go:392-419, 436-471).
THEOREM OnlyLateCallsStopIt == SimSpec => []StopsForLateCallsOnly
<1>1. SimInv => StopsForLateCallsOnly
  BY DEF SimInv, StopsForLateCallsOnly
<1>2. Stuck => StopsForLateCallsOnly
  BY DEF Stuck, StopsForLateCallsOnly
<1>3. QED
  BY <1>1, <1>2, SimSafe, PTL

\* For any number of agents and bounties, an award is held once, by the agent
\* the board names, until its attempt is settled (sim.go:421-473).
THEOREM AwardsAreHeldOnce == SimSpec => []AwardHasOneOwner
<1>1. ASSUME SimInv PROVE AwardHasOneOwner
  <2>1. SUFFICES ASSUME NEW b \in DOMAIN bounties, NEW a \in Bidder
                 PROVE  /\ bounties[b].state = "awarded" /\ bounties[b].winner = a
                              <=> InQueue(a, b) \/ InAttempt(a, b)
                        /\ ~(InQueue(a, b) /\ InAttempt(a, b))
                        /\ Cardinality({i \in DOMAIN queue[a] : queue[a][i] = b}) <= 1
    BY DEF AwardHasOneOwner
  <2>2. Owned(bounties, job, queue)
    BY <1>1 DEF SimInv
  <2>3. \A c \in Bidder : InQueue(c, b) <=> \E i \in DOMAIN queue[c] : queue[c][i] = b
    <3>1. \A c \in Bidder : DOMAIN queue[c] = 1..Len(queue[c])
      BY <1>1, World
    <3>2. QED
      BY <3>1 DEF InQueue, Contains
  <2>4. \A c \in Bidder : InQueue(c, b) \/ InAttempt(c, b) => Holds(bounties, b, c)
    BY <2>2, <2>3 DEF Owned, InAttempt
  <2>5. bounties[b].state = "awarded" => \E c \in Bidder : InQueue(c, b) \/ InAttempt(c, b)
    BY <2>2, <2>3 DEF Owned, InAttempt
  <2>6. bounties[b].state = "awarded" /\ bounties[b].winner = a <=> InQueue(a, b) \/ InAttempt(a, b)
    BY <2>4, <2>5 DEF Holds
  <2>7. ~(InQueue(a, b) /\ InAttempt(a, b))
    BY <2>2, <2>3 DEF Owned, InAttempt
  <2>8. Cardinality({i \in DOMAIN queue[a] : queue[a][i] = b}) <= 1
    <3> DEFINE at == {i \in DOMAIN queue[a] : queue[a][i] = b}
    <3>1. \A i, j \in at : i = j
      BY <2>2 DEF Owned
    <3>2. CASE at = {}
      BY <3>2, FS_EmptySet
    <3>3. CASE at # {}
      <4>1. PICK i \in at : at = {i}
        BY <3>1, <3>3
      <4> HIDE DEF at
      <4>2. Cardinality(at) = 1
        BY <4>1, FS_Singleton
      <4>3. QED
        BY <4>2 DEF at
    <3>4. QED
      BY <3>2, <3>3
  <2>9. QED
    BY <2>6, <2>7, <2>8
<1>2. SimInv => AwardHasOneOwner
  BY <1>1
<1>3. Stuck => AwardHasOneOwner
  BY DEF Stuck, AwardHasOneOwner
<1>4. QED
  BY <1>2, <1>3, SimSafe, PTL

\* Won work never waits for an agent that is free, and no retired agent has any
\* (sim.go:441-473).
THEOREM NobodyIdles == SimSpec => []NobodyIdlesOnWonWork
<1>1. SimInv => NobodyIdlesOnWonWork
  BY DEF SimInv
<1>2. Stuck => NobodyIdlesOnWonWork
  BY DEF Stuck, NobodyIdlesOnWonWork
<1>3. QED
  BY <1>1, <1>2, SimSafe, PTL

\* Both shelves hold: nothing shelved is sold or attempted again, and nothing
\* fails more often than it may (sim.go:343-352, 394-401).
THEOREM ShelvesHold == SimSpec => []ShelvedIsNotAttempted
<1>1. SimInv \/ Stuck => ShelvedIsNotAttempted
  BY DEF SimInv, Stuck, Shelves, ShelvedIsNotAttempted
<1>2. QED
  BY <1>1, SimSafe, PTL
=============================================================================
