--------------------------------- MODULE Sim ---------------------------------
(***************************************************************************)
(* The real-time world (internal/orchestrator/sim.go): one actor goroutine *)
(* selects between a clock tick, the next window's deadline and a worker   *)
(* reporting home, and everything it does for one of them is one action.   *)
(* Workers run the agents' steps meanwhile, one per agent; what a step     *)
(* spent, and how it ended, is decided when its report is taken up.        *)
(*                                                                         *)
(* Deadlines are all one BidWindow after opening, so windows fall due in   *)
(* the order they opened, and any of them may fall due before or after any *)
(* tick.  closeDue awards all that are due; awarding one of them is an     *)
(* action here, for another event may as well find only that one due.      *)
(*                                                                         *)
(* The money of a step is module Metered's: here an attempt has a budget,  *)
(* spends some of it, and its remainder comes home.  A call may outlive    *)
(* its step: its client goes away while the call is on its way, and what   *)
(* it reserves stays held until it ends, or for ever (proxy.go:256-297).   *)
(* Then the ledger may refuse to fund, to merge or to retire, and RunSim   *)
(* returns the refusal: the world is stuck.                                *)
(***************************************************************************)
EXTENDS Board, Bids, FiniteSets, SequencesExt

CONSTANTS
    Deck,          \* per posting, whether it is judged
    MaxReopens,    \* SimConfig.MaxReopens
    MaxFailures,   \* SimConfig.MaxFailures
    Grant,         \* what every agent starts with
    Ceiling,       \* every bounty's token ceiling
    Endowment,     \* credits of the judge wallet; a verdict costs one
    MaxFaults      \* bound: attempts voided for a fault, and bid steps outlived by a call,
                   \* while the world runs

ASSUME SimAssumption ==
    /\ Deck \in Seq(BOOLEAN) /\ Len(Deck) = MaxBounties
    /\ Competitor = Bidder
    /\ {MaxReopens, MaxFailures, Ceiling} \subseteq Nat \ {0}
    /\ {Grant, Endowment, MaxFaults, Reserve} \subseteq Nat

VARIABLES
    phase,       \* running, closing, ended; or RunSim returned an error: stuck, for a call
                 \* that outlived its step; broken, for anything else
    deck,        \* simRun.deck: postings made
    windows,     \* simRun.auctions: the open windows and their books
    reopens,     \* per bounty, its windows nobody bid in since its last award
    shelved,     \* bounties taken off sale
    job,         \* per agent, the one worker it may have
    queue,       \* per agent, simAgent.queue
    bankroll,    \* per agent, its wallet's balance
    retired,     \* Agent.Retired
    purse,       \* the judge wallet's balance
    named,       \* bounties whose attempt wallet att:<bounty>:r<tick> exists, this tick
    faults,      \* attempts voided, and bid steps outlived by a call, so far
    outlived     \* agents a call of whose step outlived the step

simVars == <<bounties, phase, deck, windows, reopens, shelved, job, queue,
             bankroll, retired, purse, named, faults, outlived>>

Free == [step |-> "none"]
Bidding(offered) == [step |-> "bid", offered |-> offered]
Attempting(b, budget) == [step |-> "attempt", bounty |-> b, budget |-> budget]
busy(a) == job[a] # Free

SimTypeOK ==
    /\ BoardTypeOK
    /\ phase \in {"running", "closing", "ended", "stuck", "broken"}
    /\ deck \in 0..Len(Deck)
    /\ \A i \in DOMAIN windows : windows[i].bounty \in Id /\ \A j \in DOMAIN windows[i].book :
          windows[i].book[j] \in Bid
    /\ reopens \in [Id -> 0..MaxReopens]
    /\ shelved \subseteq Id
    /\ \A a \in Bidder : job[a].step \in {"none", "bid", "attempt"}
    /\ \A a \in Bidder : \A i \in DOMAIN queue[a] : queue[a][i] \in Id
    /\ bankroll \in [Bidder -> Nat]
    /\ retired \subseteq Bidder /\ outlived \subseteq Bidder
    /\ purse \in 0..Endowment /\ named \subseteq Id /\ faults \in 0..MaxFaults

SimInit ==
    /\ BoardInit
    /\ phase = "running" /\ deck = 0
    /\ windows = <<>> /\ shelved = {}
    /\ reopens = [b \in Id |-> 0]
    /\ job = [a \in Bidder |-> Free]
    /\ queue = [a \in Bidder |-> <<>>]
    /\ bankroll = [a \in Bidder |-> Grant]
    /\ retired = {} /\ outlived = {}
    /\ purse = Endowment /\ named = {} /\ faults = 0

\* Mutant: only the window that closes next is looked at.
OnNextWindow(b) == windows # <<>> /\ Head(windows).bounty = b

OnWindow(b) == \E i \in DOMAIN windows : windows[i].bounty = b
Window(b) == [bounty |-> b, book |-> <<>>]
Windows(list) == [i \in DOMAIN list |-> Window(list[i])]

\* quiet: the deck is spent, no window is open, nobody is working or has work
\* waiting, and whatever is still on the board is shelved.
Quiet ==
    /\ deck = Len(Deck) /\ windows = <<>>
    /\ \A a \in Bidder : ~busy(a) /\ queue[a] = <<>>
    /\ OnSale(bounties) \subseteq shelved

\* settleAgent, the threshold at zero: the agent is broke.
Broke(a, roll) == roll[a] = 0

(***************************************************************************)
(* dispatchNext, for an agent whose last job is done: waiting is its       *)
(* queue, board and roll are the board and the bankrolls so far.  Won and  *)
(* died before attempting it: void, back to the board, no failure counted. *)
(* An attempt whose wallet's name is taken is an error, and ends RunSim;   *)
(* so is one that cannot be funded, for a call took what it was to have    *)
(* between fundAttempt's read of the bankroll and its transfer.            *)
(***************************************************************************)
Idle(a, waiting, board, roll) ==
    /\ job' = [job EXCEPT ![a] = Free]
    /\ queue' = [queue EXCEPT ![a] = waiting]
    /\ bounties' = board
    /\ bankroll' = roll

\* Mutant: the award stays with whoever cannot attempt it.
ReturningNothing(board, which) == board

Returning(board, which) ==
    [b \in DOMAIN board |-> IF b \in which THEN Returned(board[b]) ELSE board[b]]

Start(a, b, waiting, board, roll) ==
    LET budget == IF Ceiling > roll[a] THEN roll[a] ELSE Ceiling
    IN  \/ /\ job' = [job EXCEPT ![a] = Attempting(b, budget)]
           /\ bankroll' = [roll EXCEPT ![a] = @ - budget]
           /\ queue' = [queue EXCEPT ![a] = waiting]
           /\ bounties' = board
           /\ phase' = phase
        \/ /\ a \in outlived' /\ budget > 0
           /\ Idle(a, waiting, board, roll)
           /\ phase' = "stuck"

DispatchNext(a, waiting, board, roll, gone) ==
    LET nothing == phase # "running" \/ waiting = <<>>
        taken   == ~nothing /\ a \notin gone /\ Head(waiting) \in named
        starts  == ~nothing /\ a \notin gone /\ ~taken
    IN  /\ nothing => Idle(a, waiting, board, roll)
        /\ ~nothing /\ a \in gone => Idle(a, <<>>, Returning(board, ToSet(waiting)), roll)
        /\ taken  => Idle(a, Tail(waiting), board, roll)
        /\ starts => Start(a, Head(waiting), Tail(waiting), board, roll)
        /\ named' = IF starts THEN named \cup {Head(waiting)} ELSE named
        /\ ~starts => phase' = IF taken THEN "broken" ELSE phase

-----------------------------------------------------------------------------
\* Mutant: one failure too many.
BeatenLate(board, b) == board[b].failures > MaxFailures

Beaten(board, b) == board[b].failures >= MaxFailures

\* The order in which the board lists what is open: as it was posted.
InOrder(ids) ==
    {list \in [1..Cardinality(ids) -> ids] : \A i, j \in DOMAIN list : i < j => list[i] < list[j]}

\* tick: retire the idle who are broke, post the next of the deck, shelve
\* what has failed too often, open a window for the rest of what has none,
\* and ask every idle agent for its bids; or TickRefused.
Tick ==
    /\ phase = "running" /\ ~Quiet
    /\ retired' = retired \cup {a \in Bidder : ~busy(a) /\ Broke(a, bankroll)}
    /\ deck' = IF deck < Len(Deck) THEN deck + 1 ELSE deck
    /\ bounties' = IF deck < Len(Deck) THEN Posted(bounties, Deck[deck + 1]) ELSE bounties
    /\ LET unsold == {b \in OnSale(bounties') \ shelved : ~OnWindow(b)}
           beaten == {b \in unsold : Beaten(bounties', b)}
           fresh  == unsold \ beaten
       IN  /\ shelved' = shelved \cup beaten
           /\ \E list \in InOrder(fresh) :
                 windows' = windows \o Windows(list)
           /\ job' = [a \in Bidder |-> IF fresh # {} /\ ~busy(a) /\ a \notin retired'
                                       THEN Bidding(fresh) ELSE job[a]]
    /\ named' = {}
    /\ UNCHANGED <<phase, reopens, queue, bankroll, purse, faults, outlived>>

\* tick, when one of the broke cannot be retired, for a call of it still holds
\* what it reserved: nothing is posted, and RunSim returns the refusal.
TickRefused ==
    /\ phase = "running" /\ ~Quiet
    /\ LET broke == {a \in Bidder : ~busy(a) /\ Broke(a, bankroll) /\ a \notin retired}
       IN  \E a \in broke \cap outlived, before \in SUBSET broke :
              a \notin before /\ retired' = retired \cup before
    /\ named' = {}
    /\ phase' = "stuck"
    /\ UNCHANGED <<bounties, deck, windows, reopens, shelved, job, queue, bankroll, purse,
                   faults, outlived>>

\* closeDue, of the first window: nobody bid, or the winner is awarded and
\* its attempt queued, and started if the winner is free.
CloseDue ==
    /\ phase = "running" /\ ~Quiet /\ windows # <<>>
    /\ windows' = Tail(windows)
    /\ UNCHANGED outlived
    /\ LET b == Head(windows).bounty
           book == Head(windows).book
       IN  \/ /\ book = <<>>
              /\ reopens' = [reopens EXCEPT ![b] = @ + 1]
              /\ shelved' = IF reopens[b] + 1 >= MaxReopens THEN shelved \cup {b} ELSE shelved
              /\ UNCHANGED <<bounties, phase, job, queue, bankroll, named>>
           \/ /\ book # <<>> /\ CanAward(bounties, b)
              /\ LET won == Earliest(book)
                     w == won.agent
                     board == Awarded(bounties, b, w, won.price)
                 IN  IF busy(w)
                     THEN /\ bounties' = board
                          /\ queue' = [queue EXCEPT ![w] = Append(@, b)]
                          /\ UNCHANGED <<phase, job, bankroll, named>>
                     ELSE DispatchNext(w, Append(queue[w], b), board, bankroll, retired)
              /\ reopens' = [reopens EXCEPT ![b] = 0]
              /\ UNCHANGED shelved
           \/ /\ book # <<>> /\ ~CanAward(bounties, b)
              /\ phase' = "broken"
              /\ UNCHANGED <<bounties, reopens, shelved, job, queue, bankroll, named>>
    /\ UNCHANGED <<deck, retired, purse, faults>>

\* placeLate: an ask goes into the window that is open when the report is
\* taken up, offered or not; one for a window that has closed is noted.
Late(asks, agent) ==
    [i \in DOMAIN windows |->
        LET b == windows[i].bounty
            book == windows[i].book
        IN  IF b \in DOMAIN asks /\ Takes(book, agent, asks[b])
            THEN [windows[i] EXCEPT !.book = Placed(book, agent, asks[b])] ELSE windows[i]]

\* An agent asks for whatever it likes of what is on the board; its step
\* spent some of its bankroll deciding, what its calls still hold included.
HandleBid(a) ==
    /\ phase \in {"running", "closing"} /\ job[a].step = "bid"
    /\ \E wanted \in SUBSET {windows[i].bounty : i \in DOMAIN windows} :
       \E asks \in [wanted -> Reserve..MaxPayout] :
          windows' = Late(asks, a)
    /\ \/ UNCHANGED <<outlived, faults>>
       \/ faults < MaxFaults /\ faults' = faults + 1 /\ outlived' = outlived \cup {a}
    /\ \E cost \in {0, 1} \cap 0..bankroll[a] :
          DispatchNext(a, queue[a], bounties, [bankroll EXCEPT ![a] = @ - cost], retired)
    /\ UNCHANGED <<deck, reopens, shelved, retired, purse>>

(***************************************************************************)
(* settleAttempt, whose money comes home before the board is told: solved, *)
(* failed, or voided with the whole budget back.  A judged submission is   *)
(* read by a judge that is paid for it: no credits, no verdict, and that   *)
(* is a fault of the platform, like the runner's, the proxy's or the       *)
(* cancelled context's.  A solve or a failure is followed by settleAgent,  *)
(* a void is not.  settleAgent's retirement is refused as the tick's is,   *)
(* and the merge of the remainder when a call of the attempt itself took   *)
(* of it after it was read (settle.go:146-170).                            *)
(***************************************************************************)
Graded(b) == bounties[b].judged /\ purse > 0 /\ purse' = purse - 1
Ungraded  == UNCHANGED purse

\* Mutant: the agent's queue is forgotten until somebody calls again.
SettleOnly(a, board, back, bankruptcy) ==
    LET roll == [bankroll EXCEPT ![a] = @ + back]
        gone == IF bankruptcy /\ Broke(a, roll) THEN retired \cup {a} ELSE retired
    IN  retired' = gone /\ Idle(a, queue[a], board, roll) /\ UNCHANGED <<named, phase>>

Settle(a, board, back, bankruptcy) ==
    LET roll  == [bankroll EXCEPT ![a] = @ + back]
        broke == bankruptcy /\ Broke(a, roll)
        gone  == IF broke THEN retired \cup {a} ELSE retired
    IN  \/ retired' = gone /\ DispatchNext(a, queue[a], board, roll, gone)
        \/ /\ broke /\ a \in outlived
           /\ Idle(a, queue[a], board, roll)
           /\ phase' = "stuck"
           /\ UNCHANGED <<retired, named>>

HandleAttempt(a) ==
    /\ phase \in {"running", "closing"} /\ job[a].step = "attempt"
    /\ UNCHANGED outlived
    /\ LET b == job[a].bounty
           rest == {job[a].budget - spent : spent \in 0..job[a].budget}
       IN  \/ /\ CanResolve(bounties, b)
              /\ IF bounties[b].judged THEN Graded(b) ELSE Ungraded
              /\ \E back \in rest :
                    Settle(a, Resolved(bounties, b, TRUE), back + bounties[b].price, TRUE)
              /\ UNCHANGED faults
           \/ /\ CanResolve(bounties, b)
              /\ Graded(b) \/ Ungraded   \* ungraded: keyed, or nothing submitted
              /\ \E back \in rest : Settle(a, Resolved(bounties, b, FALSE), back, TRUE)
              /\ UNCHANGED faults
           \/ /\ CanResolve(bounties, b)
              /\ Graded(b) \/ Ungraded   \* the fault may show after the verdict
              /\ \/ bounties[b].judged /\ purse = 0 /\ UNCHANGED faults
                 \/ phase = "closing" /\ UNCHANGED faults
                 \/ phase = "running" /\ faults < MaxFaults /\ faults' = faults + 1
              /\ Settle(a, Voided(bounties, b), job[a].budget, FALSE)
           \/ /\ ~CanResolve(bounties, b)
              /\ phase' = "broken"
              /\ UNCHANGED <<bounties, job, queue, bankroll, retired, purse, named, faults>>
    /\ UNCHANGED <<deck, windows, reopens, shelved>>

\* settleAttempt, when the remainder cannot be merged.
MergeRefused(a) ==
    /\ phase \in {"running", "closing"} /\ job[a].step = "attempt" /\ job[a].budget > 0
    /\ Graded(job[a].bounty) \/ Ungraded
    /\ outlived' = outlived \cup {a}
    /\ Idle(a, queue[a], bounties, bankroll)
    /\ phase' = "stuck"
    /\ UNCHANGED <<deck, windows, reopens, shelved, retired, named, faults>>

Handle(a) == HandleBid(a) \/ HandleAttempt(a) \/ MergeRefused(a)

-----------------------------------------------------------------------------
\* The loop is left: the board is quiet, or the duration is over, or the
\* context was cancelled.
BecomeQuiet ==
    /\ phase = "running" /\ Quiet
    /\ phase' = "closing"
    /\ UNCHANGED <<bounties, deck, windows, reopens, shelved, job, queue, bankroll, retired,
                   purse, named, faults, outlived>>

Stop ==
    /\ phase = "running" /\ ~Quiet
    /\ phase' = "closing"
    /\ UNCHANGED <<bounties, deck, windows, reopens, shelved, job, queue, bankroll, retired,
                   purse, named, faults, outlived>>

\* Everything running came home; what is still queued is voided.
End ==
    /\ phase = "closing" /\ \A a \in Bidder : ~busy(a)
    /\ phase' = "ended"
    /\ bounties' = Returning(bounties, UNION {ToSet(queue[a]) : a \in Bidder})
    /\ queue' = [a \in Bidder |-> <<>>]
    /\ UNCHANGED <<deck, windows, reopens, shelved, job, bankroll, retired, purse, named, faults,
                   outlived>>

SimNext ==
    \/ Tick \/ TickRefused \/ CloseDue \/ \E a \in Bidder : Handle(a)
    \/ BecomeQuiet \/ Stop \/ End

SimSpec == SimInit /\ [][SimNext]_simVars

\* The ticker ticks and deadlines pass, every step ends within its wall clock
\* and reports, and the actor goroutine takes up whatever is ready.
SimFairness ==
    /\ WF_simVars(Tick) /\ WF_simVars(CloseDue)
    /\ \A a \in Bidder : WF_simVars(Handle(a))
    /\ WF_simVars(BecomeQuiet) /\ WF_simVars(End)

FairSimSpec == SimSpec /\ SimFairness

-----------------------------------------------------------------------------
InQueue(a, b) == Contains(queue[a], b)
InAttempt(a, b) == job[a].step = "attempt" /\ job[a].bounty = b

\* An award has exactly one owner: the agent the board names holds it once,
\* in its queue or in its worker, and nothing else is queued or attempted; so
\* a bounty is never attempted twice at once, and never forgotten.
AwardHasOneOwner ==
    phase \notin {"stuck", "broken"} =>
        \A b \in DOMAIN bounties, a \in Bidder :
            /\ bounties[b].state = "awarded" /\ bounties[b].winner = a
                   <=> InQueue(a, b) \/ InAttempt(a, b)
            /\ ~(InQueue(a, b) /\ InAttempt(a, b))
            /\ Cardinality({i \in DOMAIN queue[a] : queue[a][i] = b}) <= 1

\* Won work is not left lying while its winner is free, and a retired agent
\* has none (sim.go:441-473).
NobodyIdlesOnWonWork ==
    phase = "running" => \A a \in Bidder :
        /\ queue[a] # <<>> => busy(a)
        /\ a \in retired => ~busy(a)

\* The second shelf holds: no bounty fails more often than MaxFailures, and
\* one that is shelved is never attempted again (sim.go:343-352).
ShelvedIsNotAttempted ==
    \A b \in DOMAIN bounties :
        /\ bounties[b].failures <= MaxFailures
        /\ b \in shelved => bounties[b].state = "open"

\* A judged bounty still for sale, and no credits left to grade it with.
Ungradable ==
    /\ purse = 0
    /\ \E b \in DOMAIN bounties :
          bounties[b].judged /\ bounties[b].state # "solved" /\ b \notin shelved

\* Whatever the agents ask, win, fail and spend, one thing alone makes RunSim
\* return an error: a call that outlived its step.  No window is for what
\* cannot be awarded, no report for what cannot be resolved, and no attempt
\* takes the name of another of its tick (sim.go:396-476, settle.go:201-265).
StopsForLateCallsOnly ==
    /\ phase # "broken"
    /\ phase = "stuck" => outlived # {}

\* The world ends by itself, whatever the agents do, as long as the platform
\* faults only so often (sim.go:33-43): every bounty is solved or shelved,
\* unless one of them stays without a grade for ever, or a call that outlived
\* its step stops the world before.
SimEnds == []<>~Ungradable => <>(phase \in {"ended", "stuck"})

(***************************************************************************)
(* What a comment says and the code does not do: sim.go:344, of the shelf  *)
(* for failures, "the one that makes quiet total".  A void counts no       *)
(* failure and an award forgets the reopens, so a judged bounty whose      *)
(* judge is out of credits is sold, attempted and voided for ever.         *)
(***************************************************************************)
QuietIsTotal == <>(phase # "running")
=============================================================================
