-------------------------------- MODULE Daemon --------------------------------
(***************************************************************************)
(* The live arena's control plane (internal/daemon) and the ranked loop it *)
(* owns (internal/orchestrator/orchestrator.go): agents are submitted and  *)
(* episodes run over HTTP, the roster file and the trace outlive the       *)
(* process, and a boot seats the world they describe.  A handler holds     *)
(* Server.mu from its first check to its answer, so what tells handlers    *)
(* apart here is whether one is half way through AddAgent; the episode's   *)
(* goroutine takes the lock only for its first and last step.              *)
(*                                                                         *)
(* The money inside a step is module Metered's: a bid or an attempt spends *)
(* some of its wallet.  A call may outlive its step: what it reserves is   *)
(* held until it ends, or, its client gone, for ever (proxy.go:256-297).   *)
(* The ledger may then refuse to fund, to merge or to retire, and such a   *)
(* refusal ends the episode and halts the world.                           *)
(***************************************************************************)
EXTENDS Board, FiniteSets, SequencesExt

CONSTANTS
    Grant,        \* SubmitRequest.Grant
    Costs,        \* what a bid step may cost the agent
    Price,        \* what an awarded agent asked for
    Ceiling,      \* every bounty's token ceiling
    Dust,         \* Config.Dust
    Generators,   \* the board's registry, in order: [probes, judged]
    Rounds,       \* EpisodeRequest.Rounds
    MaxEpisodes,  \* bound: episodes started
    MaxCrashes,   \* bound: kills
    MaxFaults     \* bound: failed writes, requests hung up, calls that outlive their step

ASSUME DaemonAssumption ==
    /\ Grant \in Nat \ {0} /\ Price \in Nat \ {0} /\ Costs \subseteq Nat
    /\ Ceiling \in Int /\ Dust \in Nat /\ Rounds \in 1..99
    /\ Generators \in Seq([probes : BOOLEAN, judged : BOOLEAN])
    /\ MaxEpisodes \in Nat /\ MaxCrashes \in Nat /\ MaxFaults \in Nat /\ MaxBounties \in Nat
    /\ MaxEpisodes * Rounds * Len(Generators) <= MaxBounties

VARIABLES
    \* on disk
    file,       \* the roster file: the epoch and the agents submitted
    trace,      \* the numbers posted, and whether no line is torn
    accounts, balance,  \* per agent, its account in the books and what is in it
    wallets,    \* the attempt wallets in the books, by bounty, epoch and round
    outlived,   \* agents whose bankroll a call that outlived its bid step may still hold of
    \* in the process
    up, roster, seats, epoch, running, broken,
    adding,     \* the AddAgent under way: who, and what it does next
    next,       \* Resume: the entry to seat next
    mute,       \* the trace writer has failed once, and so always will
    pc, round, turn, awarded, purse,   \* where the episode's goroutine is; the bounties
                \* awarded and not attempted yet
    \* bounds and history
    grants, crashes, faults

diskVars    == <<file, trace, accounts, balance, wallets, outlived>>
seatVars    == <<roster, seats, adding, next>>
serverVars  == <<up, running, broken>>
episodeVars == <<pc, round, turn, awarded, purse, epoch, bounties>>
vars == <<diskVars, seatVars, serverVars, episodeVars, mute, grants, crashes, faults>>

NoMemory ==
    /\ roster' = [epoch |-> 0, agents |-> <<>>] /\ seats' = <<>> /\ adding' = <<>> /\ next' = 1
    /\ running' = FALSE /\ broken' = ""
    /\ pc' = "none" /\ round' = 0 /\ turn' = 1 /\ awarded' = {} /\ purse' = 0
    /\ epoch' = 0 /\ bounties' = <<>> /\ mute' = FALSE

DaemonInit ==
    /\ BoardInit
    /\ file = [epoch |-> 0, agents |-> <<>>] /\ roster = file
    /\ trace = [posted |-> <<>>, whole |-> TRUE]
    /\ accounts = [a \in Competitor |-> "absent"] /\ balance = [a \in Competitor |-> 0]
    /\ wallets = {} /\ outlived = {} /\ up = "down" /\ seats = <<>> /\ epoch = 0
    /\ running = FALSE /\ broken = "" /\ adding = <<>> /\ next = 1 /\ mute = FALSE
    /\ pc = "none" /\ round = 0 /\ turn = 1 /\ awarded = {} /\ purse = 0
    /\ grants = [a \in Competitor |-> 0] /\ crashes = 0 /\ faults = 0

Faulty == faults < MaxFaults /\ faults' = faults + 1

\* Append to the trace, whose failure is only a warning: a line that did not
\* land, whole or in pieces, leaves a writer that refuses every line after it.
Traced(lines) ==
    \/ mute /\ UNCHANGED <<trace, mute, faults>>
    \/ ~mute /\ trace' = lines /\ UNCHANGED <<mute, faults>>
    \/ ~mute /\ Faulty /\ mute' = TRUE
       /\ \E whole \in {trace.whole, FALSE} : trace' = [trace EXCEPT !.whole = whole]

-----------------------------------------------------------------------------
(***************************************************************************)
(* AddAgent, one write to the books after the other; hung up on, or killed *)
(* at boot, between them.                                                  *)
(***************************************************************************)
Seat(a, retired) == [id |-> a, retired |-> retired]

CreateWallet ==
    /\ adding # <<>> /\ adding[1].does = "create"
    /\ accounts' = [accounts EXCEPT ![adding[1].agent] = "open"]
    /\ adding' = <<[adding[1] EXCEPT !.does = "mint"]>>
    /\ UNCHANGED <<file, trace, balance, wallets, outlived, roster, seats, next, serverVars, episodeVars, mute,
                   grants, crashes, faults>>

MintGrant ==
    /\ adding # <<>> /\ adding[1].does = "mint"
    /\ LET a == adding[1].agent
       IN  /\ balance' = [balance EXCEPT ![a] = @ + Grant]
           /\ grants' = [grants EXCEPT ![a] = @ + 1]
           /\ seats' = Append(seats, Seat(a, FALSE))
    /\ adding' = <<>>
    /\ next' = IF up = "boot" THEN next + 1 ELSE next
    /\ Traced(trace)
    /\ UNCHANGED <<file, accounts, wallets, outlived, roster, serverVars, episodeVars, crashes>>

\* The submitter hangs up, and the write its request stood behind is refused.
HangUp ==
    /\ adding # <<>> /\ up = "serving" /\ Faulty
    /\ adding' = <<>>
    /\ UNCHANGED <<diskVars, roster, seats, next, serverVars, episodeVars, mute, grants, crashes>>

-----------------------------------------------------------------------------
\* The process starts: the trace is opened to be appended to, which a torn
\* line refuses, and the roster is read.
Boot ==
    /\ up = "down"
    /\ up' = IF trace.whole THEN "boot" ELSE "refused"
    /\ roster' = IF trace.whole THEN file ELSE roster
    /\ UNCHANGED <<diskVars, seats, adding, next, running, broken, episodeVars, mute,
                   grants, crashes, faults>>

\* Mutant: an entry is granted again at every boot.
AddsAtBootAnyone(a) == accounts[a] # "closed"

\* An entry whose wallet was never written.
AddsAtBoot(a) == accounts[a] = "absent"

\* Resume, an entry at a time: add it, or readmit what the books know of it.
SeatEntry ==
    /\ up = "boot" /\ adding = <<>> /\ next <= Len(roster.agents)
    /\ LET a == roster.agents[next]
       IN  IF AddsAtBoot(a)
           THEN /\ adding' = <<[agent |-> a, does |-> "create"]>>
                /\ UNCHANGED <<seats, next, trace, mute, faults>>
           ELSE /\ seats' = Append(seats, Seat(a, accounts[a] = "closed"))
                /\ next' = next + 1
                /\ Traced(trace)
                /\ UNCHANGED adding
    /\ UNCHANGED <<file, accounts, balance, wallets, outlived, roster, serverVars, episodeVars, grants,
                   crashes>>

\* traceMarks.
LastPosted == Max({trace.posted[i] : i \in DOMAIN trace.posted} \cup {0})

\* Mutant: the numbering starts from one again.
NumberedAfresh(last) == <<>>

\* Board.Resume: an empty board, and so many numbers used.
Numbered(last) == [b \in 1..last |-> [Bounty(FALSE) EXCEPT !.state = "solved"]]

\* The last of Resume, and the control plane opens.
OpenDoor ==
    /\ up = "boot" /\ adding = <<>> /\ next > Len(roster.agents)
    /\ up' = "serving"
    /\ epoch' = roster.epoch
    /\ bounties' = Numbered(LastPosted)
    /\ UNCHANGED <<diskVars, seatVars, running, broken, pc, round, turn, awarded, purse, mute,
                   grants, crashes, faults>>

\* A kill, or a boot that fails for an image that is gone: memory goes, and a
\* line of the trace may be half way out.
Crash ==
    /\ up \in {"boot", "serving"} /\ crashes < MaxCrashes
    /\ crashes' = crashes + 1
    /\ up' = "down"
    /\ \E whole \in IF running \/ adding # <<>> \/ up = "boot" THEN {trace.whole, FALSE} ELSE {trace.whole} :
          trace' = [trace EXCEPT !.whole = whole]
    /\ NoMemory
    /\ UNCHANGED <<file, accounts, balance, wallets, outlived, grants, faults>>

-----------------------------------------------------------------------------
\* Mutant: an episode that is running turns nobody away.
AcceptingAnytime == up = "serving" /\ adding = <<>> /\ broken = ""

\* What both handlers ask first, under the lock.
Accepting == up = "serving" /\ adding = <<>> /\ broken = "" /\ ~running

\* roster.save.
Saved(entry) == file' = entry

\* handleAgentSubmit, of a request that is whole: a name the books know is
\* refused; the entry is written, or taken back.
Submit(a) ==
    /\ Accepting
    /\ accounts[a] = "absent"
    /\ \/ /\ roster' = [roster EXCEPT !.agents = Append(@, a)]
          /\ Saved(roster')
          /\ adding' = <<[agent |-> a, does |-> "create"]>>
          /\ UNCHANGED faults
       \/ Faulty /\ UNCHANGED <<roster, file, adding>>
    /\ UNCHANGED <<trace, accounts, balance, wallets, outlived, seats, next, serverVars, episodeVars,
                   mute, grants, crashes>>

\* derivePlan: one posting a round of everything that probes and is not judged,
\* in the registry's order.
Used == {i \in DOMAIN Generators : Generators[i].probes /\ ~Generators[i].judged}

\* handleEpisodeRun: with supply, and somebody alive according to the books.
StartEpisode ==
    /\ Accepting
    /\ Used # {}
    /\ \E i \in DOMAIN roster.agents : accounts[roster.agents[i]] = "open"
    /\ roster.epoch < MaxEpisodes
    /\ running' = TRUE /\ pc' = "epoch"
    /\ UNCHANGED <<diskVars, seatVars, up, broken, round, turn, awarded, purse, epoch, bounties,
                   mute, grants, crashes, faults>>

\* Mutant: an episode that fails is never over.
HaltRunning(why) == broken' = why /\ pc' = "none" /\ UNCHANGED running

\* The episode ends in an error, and the world takes no more work.
Halt(why) == broken' = why /\ pc' = "none" /\ running' = FALSE

-----------------------------------------------------------------------------
\* Mutant: every episode runs in the same namespace.
EpochNamed == epoch

\* NextEpoch.
NextEpochNumber == epoch + 1

\* runEpisode: the epoch goes to disk before a wallet is named under it.
NextEpoch ==
    /\ pc = "epoch"
    /\ epoch' = NextEpochNumber
    /\ roster' = [roster EXCEPT !.epoch = @ + 1]
    /\ \/ Saved(roster') /\ pc' = "start" /\ UNCHANGED <<running, broken, faults>>
       \/ Faulty /\ Halt("disk") /\ UNCHANGED file
    /\ UNCHANGED <<trace, accounts, balance, wallets, outlived, seats, adding, next, up, round,
                   turn, awarded, purse, bounties, mute, grants, crashes>>

StartLine ==
    /\ pc = "start"
    /\ Traced(trace)
    /\ pc' = "sweep" /\ round' = 1 /\ turn' = 1
    /\ UNCHANGED <<file, accounts, balance, wallets, outlived, seatVars, serverVars, awarded, purse,
                   epoch, bounties, grants, crashes>>

\* settleAgent, of the i-th seat and what it is left with: at the dust it is
\* burned out and retired, and the books refuse to retire it twice.
SettleSeat(i, left) ==
    LET a == seats[i].id
    IN  /\ left <= Dust => accounts[a] = "open"
        /\ seats' = IF left <= Dust THEN [seats EXCEPT ![i].retired = TRUE] ELSE seats
        /\ accounts' = IF left <= Dust THEN [accounts EXCEPT ![a] = "closed"] ELSE accounts
        /\ balance' = [balance EXCEPT ![a] = IF left <= Dust THEN 0 ELSE left]

\* The same, of a seat whose late call is in the way: the dust is not there to
\* burn any more, or it is burned and an open hold keeps the wallet open.
RefusedSeat(i, left) ==
    LET a == seats[i].id
    IN  /\ left <= Dust /\ a \in outlived /\ accounts[a] = "open"
        /\ \E rest \in 0..left : balance' = [balance EXCEPT ![a] = rest]
        /\ Halt("hold")
        /\ UNCHANGED <<seats, accounts>>

\* runRound: whoever limped out of the last round is retired, seat by seat.
Sweep ==
    /\ pc = "sweep" /\ turn <= Len(seats)
    /\ LET s == seats[turn]
       IN  \/ /\ s.retired
              /\ turn' = turn + 1 /\ UNCHANGED <<seats, accounts, balance, running, broken, pc>>
           \/ /\ ~s.retired /\ SettleSeat(turn, balance[s.id])
              /\ turn' = turn + 1 /\ UNCHANGED <<running, broken, pc>>
           \/ /\ ~s.retired /\ balance[s.id] <= Dust /\ accounts[s.id] = "closed"
              /\ Halt("seat") /\ UNCHANGED <<turn, seats, accounts, balance>>
           \/ /\ ~s.retired /\ RefusedSeat(turn, balance[s.id]) /\ UNCHANGED turn
    /\ UNCHANGED <<file, trace, wallets, outlived, roster, adding, next, up, round, awarded, purse,
                   epoch, bounties, mute, grants, crashes, faults>>

Swept ==
    /\ pc = "sweep" /\ turn > Len(seats)
    /\ pc' = "post" /\ turn' = 1
    /\ UNCHANGED <<diskVars, seatVars, serverVars, round, awarded, purse, epoch, bounties, mute, grants,
                   crashes, faults>>

\* The generators of the plan this round has not posted from.
Unposted == {i \in Used : turn <= i}

\* postBounty: on the board first, then in the trace.
Post ==
    /\ pc = "post" /\ Unposted # {}
    /\ LET judged == Generators[Min(Unposted)].judged
       IN  /\ bounties' = Posted(bounties, judged)
           /\ \/ judged /\ Halt("judged") /\ UNCHANGED <<trace, mute, faults>>
              \/ /\ ~judged
                 /\ Traced([trace EXCEPT !.posted = Append(@, Len(bounties'))])
                 /\ UNCHANGED <<running, broken, pc>>
    /\ turn' = Min(Unposted) + 1
    /\ UNCHANGED <<file, accounts, balance, wallets, outlived, seatVars, up, round, awarded, purse,
                   epoch, grants, crashes>>

Live == {seats[i].id : i \in {j \in DOMAIN seats : ~seats[j].retired}}

\* Everybody is shown the open board and bids; every book with a bid is
\* awarded.  A bid step cannot fail the round; a call of it may outlive it.
BidAndAward ==
    /\ pc = "post" /\ Unposted = {}
    /\ pc' = "attempt"
    /\ \E cost \in [Live -> Costs] :
          balance' = [a \in Competitor |-> IF a \in Live /\ cost[a] <= balance[a]
                                           THEN balance[a] - cost[a] ELSE balance[a]]
    /\ \E won \in UNION {[S -> Live] : S \in SUBSET OnSale(bounties)} :
          /\ bounties' = [b \in DOMAIN bounties |-> IF b \in DOMAIN won
                                                    THEN Awarded(bounties, b, won[b], Price)[b]
                                                    ELSE bounties[b]]
          /\ awarded' = DOMAIN won
    /\ \/ UNCHANGED <<outlived, faults>>
       \/ Faulty /\ \E a \in Live : outlived' = outlived \cup {a}
    /\ UNCHANGED <<file, trace, accounts, wallets, seatVars, serverVars, round, turn, purse, epoch, mute,
                   grants, crashes>>

attemptWallet(b) == <<b, epoch, round>>

\* Attempts are made in posting order.
Upcoming == Min(awarded)

\* agent(): the first seat of that name.
SeatOf(a) == Min({i \in DOMAIN seats : seats[i].id = a})

\* attempt, up to the step: void if the winner is broke by now, halted if the
\* books know the wallet, else funded - unless a late call takes the budget
\* between fundAttempt's read of the bankroll and its transfer.
Fund ==
    /\ pc = "attempt" /\ awarded # {}
    /\ LET b == Upcoming
           a == bounties[b].winner
           budget == IF Ceiling <= 0 \/ Ceiling > balance[a] THEN balance[a] ELSE Ceiling
       IN  \/ /\ seats[SeatOf(a)].retired
              /\ bounties' = Voided(bounties, b)
              /\ awarded' = awarded \ {b}
              /\ UNCHANGED <<balance, wallets, running, broken, pc, purse>>
           \/ /\ ~seats[SeatOf(a)].retired /\ attemptWallet(b) \in wallets
              /\ Halt("wallet")
              /\ UNCHANGED <<bounties, awarded, balance, wallets, purse>>
           \/ /\ ~seats[SeatOf(a)].retired /\ attemptWallet(b) \notin wallets
              /\ wallets' = wallets \cup {attemptWallet(b)}
              /\ balance' = [balance EXCEPT ![a] = @ - budget]
              /\ purse' = budget
              /\ pc' = "perform"
              /\ UNCHANGED <<bounties, awarded, running, broken>>
           \/ /\ ~seats[SeatOf(a)].retired /\ attemptWallet(b) \notin wallets
              /\ a \in outlived /\ budget > 0
              /\ wallets' = wallets \cup {attemptWallet(b)}
              /\ Halt("hold")
              /\ UNCHANGED <<bounties, awarded, balance, purse>>
    /\ UNCHANGED <<file, trace, accounts, outlived, seatVars, up, round, turn, epoch, mute, grants,
                   crashes, faults>>

\* The step and its settlement: solved and paid, failed, or voided with all of
\* the budget back; the settlement refused, or, when a call of the attempt took
\* of its remainder after that was read, the merge before it.
Perform ==
    /\ pc = "perform"
    /\ LET b == Upcoming
           a == bounties[b].winner
           i == SeatOf(a)
       IN  \/ \E spent \in {0, purse}, solved \in BOOLEAN :
                LET left == balance[a] + purse - spent + IF solved THEN Price ELSE 0
                IN  /\ bounties' = Resolved(bounties, b, solved)
                    /\ \/ SettleSeat(i, left) /\ pc' = "attempt" /\ UNCHANGED <<running, broken>>
                       \/ RefusedSeat(i, left)
                    /\ UNCHANGED faults
           \/ /\ bounties' = Voided(bounties, b)
              /\ balance' = [balance EXCEPT ![a] = @ + purse]
              /\ pc' = "attempt"
              /\ UNCHANGED <<seats, accounts, running, broken, faults>>
           \/ /\ purse > 0 /\ Faulty
              /\ Halt("merge")
              /\ UNCHANGED <<bounties, balance, seats, accounts>>
    /\ awarded' = awarded \ {Upcoming} /\ purse' = 0
    /\ UNCHANGED <<file, trace, wallets, outlived, roster, adding, next, up, round, turn, epoch, mute,
                   grants, crashes>>

\* The audit between rounds passes, and the next round begins or the episode
\* is over.
EndRound ==
    /\ pc = "attempt" /\ awarded = {}
    /\ IF round < Rounds
       THEN round' = round + 1 /\ pc' = "sweep" /\ UNCHANGED running
       ELSE round' = 0 /\ pc' = "none" /\ running' = FALSE
    /\ turn' = 1
    /\ UNCHANGED <<diskVars, seatVars, up, broken, awarded, purse, epoch, bounties, mute,
                   grants, crashes, faults>>

RunEpisode ==
    NextEpoch \/ StartLine \/ Sweep \/ Swept \/ Post \/ BidAndAward \/ Fund \/ Perform \/ EndRound

DaemonNext ==
    \/ Boot \/ SeatEntry \/ OpenDoor \/ Crash
    \/ CreateWallet \/ MintGrant \/ HangUp
    \/ \E a \in Competitor : Submit(a)
    \/ StartEpisode \/ RunEpisode

\* The episode's goroutine is scheduled, and every step of an agent has a
\* timeout.
DaemonSpec == DaemonInit /\ [][DaemonNext]_vars /\ WF_vars(RunEpisode)

-----------------------------------------------------------------------------
DaemonTypeOK ==
    /\ BoardTypeOK
    /\ up \in {"down", "boot", "serving", "refused"}
    /\ broken \in {"", "disk", "seat", "hold", "merge", "wallet", "judged"}
    /\ pc \in {"none", "epoch", "start", "sweep", "post", "attempt", "perform"}
    /\ running <=> pc # "none"
    /\ ToSet(file.agents) \subseteq Competitor /\ file.epoch \in Nat /\ epoch \in Nat
    /\ accounts \in [Competitor -> {"absent", "open", "closed"}]
    /\ balance \in [Competitor -> Nat] /\ outlived \subseteq Competitor
    /\ wallets \subseteq Id \X (1..MaxEpisodes) \X (1..Rounds)
    /\ round \in 0..Rounds /\ purse \in Nat

Twice(agents) == Len(agents) # Cardinality(ToSet(agents))

\* A world halts for the disk, for an agent its file names twice, or for a call
\* that outlived its step - one of the attempt it is settling, or one that may
\* still hold of the bankroll of an agent that is seated - and for nothing
\* else: no attempt is given a wallet the books know, whatever was reposted,
\* carried over or forgotten by a restart, because the epoch a wallet is named
\* under is on disk before it is (daemon.go:459-464, orchestrator.go:443-462);
\* nor is any posting of its own plan refused.
HaltsForCause ==
    /\ broken \notin {"wallet", "judged"}
    /\ broken = "seat" => Twice(file.agents)
    /\ broken = "hold" => \E i \in DOMAIN seats : ~seats[i].retired /\ seats[i].id \in outlived
    /\ \A w \in wallets : w[2] <= file.epoch

\* The record never tells of two bounties of one number, through restarts and
\* through lines that were lost (roster.go:63-97, bounty.go:171-177).
PostedOnce == \A i, j \in DOMAIN trace.posted : trace.posted[i] = trace.posted[j] => i = j

\* A grant is paid once, and a wallet in the books, or a seat, belongs to a
\* name in the file - whenever the submitter hung up and the process was
\* killed (daemon.go:328-342, roster.go:19-24).
WalletsAreBound ==
    /\ \A a \in Competitor : grants[a] <= 1
    /\ \A a \in Competitor : accounts[a] # "absent" => a \in ToSet(file.agents)
    /\ \A i \in DOMAIN seats : accounts[seats[i].id] # "absent"

\* An episode owns the world: nobody is seated and nothing is added to the
\* roster while one runs (daemon.go:311-316, 455-457).
EpisodeOwnsTheWorld ==
    [][ running /\ running' => roster'.agents = roster.agents /\ Len(seats') = Len(seats) ]_vars

\* An episode ends, done or failed, unless the process does (daemon.go:458-485).
EpisodesEnd == running ~> ~running

(***************************************************************************)
(* What roster.go:19-22 says and the code does not do: "a crash between    *)
(* the two leaves an entry with no account, which boot heals by minting    *)
(* once".  AddAgent opens the wallet and then mints: a kill, or a          *)
(* submitter that hangs up, between these leaves an account that boot      *)
(* readmits and never grants.                                              *)
(***************************************************************************)
BootHealsEveryEntry ==
    up = "serving" /\ adding = <<>> => \A i \in DOMAIN seats : grants[seats[i].id] = 1
=============================================================================
