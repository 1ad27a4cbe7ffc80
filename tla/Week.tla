--------------------------------- MODULE Week ---------------------------------
(***************************************************************************)
(* The fair in its town (cmd/phylumd/fair.go, checkpoint.go, guest.go,     *)
(* internal/orchestrator/resume.go, internal/town/run.go): one tick is the *)
(* door in, the door out, the walk, the visit, and the world written down, *)
(* on one goroutine and in that order.  The world may be killed between    *)
(* any two of these steps and resumed from the last record.                *)
(*                                                                         *)
(* A guest is named by its file.  Where a walk ends is the schedule's;     *)
(* here it is anywhere.                                                    *)
(***************************************************************************)
EXTENDS Fair

CONSTANTS
    Guest,        \* the names of files whose authors may knock
    Caller,       \* who may be on the line to the door
    Place,        \* where a body may be, the street aside, which is nowhere
    MaxCrashes    \* bound: kills

\* A setting also says how long the week lasts, whether it is checkpointed,
\* who calls the door for which guests, where bodies walk, and who is enrolled
\* by flag.
ASSUME WeekAssumption ==
    /\ Guest \subseteq Bidder \ ToSet(Cast)
    /\ {"office", "square", "home"} \subseteq Place /\ "street" \notin Place
    /\ \A w \in Week :
          /\ w.ticks \in Nat /\ w.saved \in BOOLEAN /\ w.knocks \subseteq Guest
          /\ w.callers \subseteq Caller
          /\ w.walks \subseteq Place \cup {"street"} /\ w.ranked \subseteq ToSet(Cast)

VARIABLES
    bodies,     \* the roster of the town, as far as it trades
    together,   \* the pairs that share a place, and which
    taken,      \* the names the door refuses
    admitted,   \* the guests the record will name
    calls,      \* per caller, its request at the door
    trace,      \* how many lines the trace has: one a tick, and one at the close
    disk,       \* the copy of the books and the record beside it
    crashes

weekVars == <<fairVars, bodies, together, taken, admitted, calls, trace, disk, crashes>>

NoFile == [tick |-> -1]
NoCall == [at |-> "away", verb |-> "none", name |-> "nobody", reply |-> "none", told |-> "nothing"]

WeekInit ==
    /\ FairInit
    /\ ranked = week.ranked
    /\ stage = "door"
    /\ place = [a \in Bidder |-> IF a \in ToSet(Cast) THEN "home" ELSE "street"]
    /\ bodies = ToSet(Cast)
    /\ together = {<<{a, b}, "home">> : a \in bodies, b \in bodies} \ {<<{a}, "home">> : a \in bodies}
    /\ taken = ToSet(Cast) /\ admitted = {}
    /\ calls = [c \in Caller |-> NoCall]
    /\ trace = 1
    /\ disk = [books |-> NoFile, record |-> NoFile] /\ crashes = 0

\* presence: who stands where together with whom.
Presence(who, where) ==
    {<<{p[1], p[2]}, where[p[1]]>> : p \in
        {p \in who \X who : p[1] # p[2] /\ where[p[1]] = where[p[2]] /\ where[p[1]] # "street"}}

-----------------------------------------------------------------------------
\* Mutant: whoever is at home is met on the way in.
SeatedUnseen(a) == together

Seated(a) == together \cup Presence(bodies \cup {a}, [place EXCEPT ![a] = "home"])

\* What a path may come to: its guest, or nobody, when the name is taken or no
\* file is there; a refusal costs the name nothing.
guestRoster(a) == IF a \in taken THEN {{}} ELSE {{}, {a}}

\* Of the guest's file only its name is told apart; admit registers it before
\* the wallet is opened, which an account of that name refuses.
Admit(a) ==
    /\ taken' = taken \cup {a}
    /\ admitted' = admitted \cup {a}
    /\ IF accounts[a] # "absent"
       THEN UNCHANGED <<roster, fate, balance, accounts, ranked, place, bodies, together>>
       ELSE /\ accounts' = [accounts EXCEPT ![a] = "open"]
            /\ balance' = [balance EXCEPT ![a] = Grant]
            /\ roster' = Append(roster, a)
            /\ fate' = [fate EXCEPT ![a] = "here"]
            /\ ranked' \in {ranked} \cup {Enrolled(a) : t \in week.sits}
            /\ place' = [place EXCEPT ![a] = "home"]
            /\ bodies' = bodies \cup {a}
            /\ together' = Seated(a)

Replied(c, reply) == [calls EXCEPT ![c].at = "inside", ![c].reply = reply]

\* arrive: the town takes what is at the door before it moves anybody.
Knock(c) ==
    /\ stage \in {"door", "arrive"} /\ tick < week.ticks
    /\ stage' = "arrive"
    /\ calls[c].at = "knocking" /\ calls[c].verb = "join"
    /\ \E guests \in guestRoster(calls[c].name) :
          \/ /\ guests = {}
             /\ calls' = Replied(c, "refused")
             /\ UNCHANGED <<taken, admitted, roster, fate, balance, accounts, ranked, place, bodies, together>>
          \/ \E a \in guests :
                /\ calls' = Replied(c, IF accounts[a] = "absent" THEN "in" ELSE "refused")
                /\ Admit(a)
    /\ UNCHANGED <<bounties, week, line, tick, held, paid, pending, officeVars, shopVars,
                   withdrawn, cards, table, ladder, attempts, outlived, trace, disk, crashes>>

\* depart: only a guest, and only one still here.
Depart(c) ==
    /\ stage \in {"door", "arrive", "leave"} /\ tick < week.ticks
    /\ stage' = "leave"
    /\ calls[c].at = "knocking" /\ calls[c].verb = "leave"
    /\ LET a == calls[c].name
       IN  \/ /\ a \in admitted /\ Leave(a)
              /\ admitted' = admitted \ {a}
              /\ bodies' = bodies \ {a}
              /\ calls' = Replied(c, "out")
           \/ /\ a \notin admitted \/ ~Here(a)
              /\ calls' = Replied(c, "refused")
              /\ UNCHANGED <<bounties, week, line, tick, held, paid, pending, officeVars, sitVars, shopVars,
                             peopleVars, bodies, admitted>>
    /\ UNCHANGED <<place, together, taken, trace, disk, crashes>>

Walked(to) == [a \in Bidder |-> IF a \in bodies /\ ~Hold(a) THEN to[a] ELSE place[a]]

\* The tick's walk and the fold of who is with whom.
Walk ==
    /\ stage \in {"door", "arrive", "leave"} /\ tick < week.ticks
    /\ \E to \in [bodies -> week.walks] : place' = Walked(to)
    /\ together' = Presence(bodies, place')
    /\ paid' = [a \in Bidder |-> IF a \in bodies /\ Hold(a) THEN paid[a] - 1 ELSE paid[a]]
    /\ trace' = trace + 1
    /\ stage' = "visit"
    /\ UNCHANGED <<bounties, week, line, tick, held, pending, officeVars, sitVars, shopVars,
                   peopleVars, bodies, taken, admitted, calls, disk, crashes>>

VisitFair == Visit /\ UNCHANGED <<bodies, together, taken, admitted, calls, trace, disk, crashes>>

-----------------------------------------------------------------------------
(***************************************************************************)
(* The door's side of the line: a request waits to be handed over, or for  *)
(* its answer, until it has it, the week is over or its caller hangs up.   *)
(***************************************************************************)
WeekIsOver == stage \in {"closed", "stuck", "broken"}

Townless == <<bounties, week, stage, line, place, tick, held, paid, pending, officeVars, sitVars, shopVars,
              peopleVars, bodies, together, taken, admitted, trace, disk, crashes>>

Call(c) ==
    /\ c \in week.callers /\ calls[c].at \in {"away", "told"} /\ stage # "refused"
    /\ \E verb \in {"join", "leave"}, a \in week.knocks :
          calls' = [calls EXCEPT ![c] = [NoCall EXCEPT !.at = "knocking", !.verb = verb, !.name = a]]
    /\ UNCHANGED Townless

HangUp(c) ==
    /\ calls[c].at \in {"knocking", "inside"}
    /\ calls' = [calls EXCEPT ![c] = NoCall]
    /\ UNCHANGED Townless

\* Mutant: once the week is over everyone is told so.
AnswerAtCloseOnly(c) == IF WeekIsOver THEN "closed" ELSE calls[c].reply

\* An answer already written is still the answer.
AnswerFor(c) == IF WeekIsOver /\ calls[c].reply = "none" THEN "closed" ELSE calls[c].reply

\* Mutant: only the wait for the answer hears that the week is over.
AnswerInside(c) ==
    /\ calls[c].at = "inside"
    /\ calls' = [calls EXCEPT ![c].at = "told", ![c].told = AnswerFor(c)]
    /\ UNCHANGED Townless

Answer(c) ==
    /\ \/ calls[c].at = "inside"
       \/ calls[c].at = "knocking" /\ WeekIsOver
    /\ calls' = [calls EXCEPT ![c].at = "told", ![c].told = AnswerFor(c)]
    /\ UNCHANGED Townless

-----------------------------------------------------------------------------
(***************************************************************************)
(* The record: Save, the town's State and the guests.  Of the board only   *)
(* what is open is written, of a book only who bid what, in order.         *)
(***************************************************************************)
Record ==
    [tick |-> tick, dealt |-> dealt, lastID |-> Len(bounties),
     board |-> [b \in OnSale(bounties) |-> bounties[b].failures],
     windows |-> [i \in DOMAIN windows |->
                     [windows[i] EXCEPT !.book = [j \in DOMAIN @ |->
                         [agent |-> @[j].agent, price |-> @[j].price]]]],
     reopens |-> reopens, shelved |-> shelved, draws |-> draws, held |-> held, paid |-> paid,
     owned |-> owned, stock |-> stock, stockRev |-> stockRev, shopped |-> shopped,
     pitches |-> pitches, ranked |-> ranked, withdrawn |-> withdrawn, cards |-> cards,
     ladder |-> ladder, roster |-> roster, fate |-> fate, pending |-> pending,
     place |-> place, bodies |-> bodies, guests |-> admitted, seq |-> trace]

Books == [tick |-> tick, balance |-> balance, accounts |-> accounts, attempts |-> attempts,
          outlived |-> outlived]

\* The week without a record goes on to the next tick.
NextTick ==
    /\ stage = "boundary" /\ ~week.saved
    /\ stage' = "door"
    /\ UNCHANGED <<bounties, week, line, place, tick, held, paid, pending, officeVars, sitVars, shopVars,
                   peopleVars, bodies, together, taken, admitted, calls, trace, disk, crashes>>

\* Snapshot: the books are copied first ...
CopyBooks ==
    /\ stage = "boundary" /\ week.saved
    /\ disk' = [disk EXCEPT !.books = Books]
    /\ stage' = "copied"
    /\ UNCHANGED <<bounties, week, line, place, tick, held, paid, pending, officeVars, sitVars, shopVars,
                   peopleVars, bodies, together, taken, admitted, calls, trace, crashes>>

\* ... and then the record is written, by a rename.
WriteRecord ==
    /\ stage = "copied"
    /\ disk' = [disk EXCEPT !.record = Record]
    /\ stage' = "door"
    /\ UNCHANGED <<bounties, week, line, place, tick, held, paid, pending, officeVars, sitVars, shopVars,
                   peopleVars, bodies, together, taken, admitted, calls, trace, crashes>>

\* Told to stop, or at its last tick.
Close ==
    /\ stage = "door"
    /\ stage' = "closed"
    /\ trace' = trace + 1
    /\ UNCHANGED <<bounties, week, line, place, tick, held, paid, pending, officeVars, sitVars, shopVars,
                   peopleVars, bodies, together, taken, admitted, calls, disk, crashes>>

-----------------------------------------------------------------------------
\* Mutant: the marks of who was shown what are not read back.
ReloadedUnshown(saved) ==
    [i \in DOMAIN saved |-> [saved[i] EXCEPT !.book = Loaded(
        [j \in DOMAIN @ |-> [agent |-> @[j].agent, price |-> @[j].price, seq |-> 0]]), !.shown = {}]]

Reloaded(saved) ==
    [i \in DOMAIN saved |-> [saved[i] EXCEPT !.book = Loaded(
        [j \in DOMAIN @ |-> [agent |-> @[j].agent, price |-> @[j].price, seq |-> 0]])]]

\* The board of the next process: what was open is put back under its number,
\* and the numbers of the rest stay used.
Restored(saved) ==
    [b \in 1..saved.lastID |->
        IF b \in DOMAIN saved.board THEN [Bounty(FALSE) EXCEPT !.failures = saved.board[b]]
                                    ELSE [Bounty(FALSE) EXCEPT !.state = "solved"]]

\* The books of the copy agree with the record about who is in and who is bankrupt.
Agree(books, saved) ==
    \A a \in ToSet(saved.roster) :
        /\ books.accounts[a] # "absent"
        /\ books.accounts[a] = "closed" <=> saved.fate[a] = "retired"

\* The working books are the copy beside the record, not the books as killed.
BooksBack ==
    /\ balance' = disk.books.balance
    /\ accounts' = disk.books.accounts
    /\ attempts' = disk.books.attempts
    /\ outlived' = disk.books.outlived

\* ResumeFair: the fair where Save found it, unless the books disagree.
FairBack(r) ==
    /\ stage' = IF Agree(disk.books, r) /\ trace >= r.seq THEN "door" ELSE "refused"
    /\ tick' = r.tick /\ dealt' = r.dealt
    /\ bounties' = Restored(r)
    /\ windows' = Reloaded(r.windows)
    /\ reopens' = r.reopens /\ shelved' = r.shelved /\ draws' = r.draws
    /\ held' = r.held /\ paid' = r.paid
    /\ owned' = r.owned /\ stock' = r.stock /\ stockRev' = r.stockRev
    /\ shopped' = r.shopped /\ pitches' = r.pitches
    /\ ranked' = r.ranked /\ withdrawn' = r.withdrawn /\ cards' = r.cards
    /\ ladder' = r.ladder /\ pending' = r.pending
    /\ roster' = r.roster /\ fate' = r.fate
    /\ line' = <<>> /\ table' = <<>>

\* Everyone stands where they stood, and who is together already has met.
TownBack(r) ==
    /\ place' = r.place /\ bodies' = r.bodies
    /\ together' = Presence(r.bodies, r.place)

\* The guests the record names are at the door's list again.
GuestsBack(r) ==
    /\ admitted' = r.guests
    /\ taken' = ToSet(Cast) \cup r.guests

\* ResumeWriter: the trace is cut back to the line the record knew about, and
\* one that never reached it is refused.
TraceBack(r) == trace' = IF trace >= r.seq THEN r.seq ELSE trace

\* The process is stopped or killed, and the next one is started with -resume
\* over the record and the copy of the books beside it.
Resume ==
    /\ week.saved /\ disk.record # NoFile
    /\ crashes < MaxCrashes /\ stage # "refused"
    /\ crashes' = crashes + 1
    /\ BooksBack /\ FairBack(disk.record) /\ TownBack(disk.record) /\ GuestsBack(disk.record)
    /\ TraceBack(disk.record)
    /\ calls' = [c \in Caller |-> IF calls[c].at = "told" THEN calls[c] ELSE NoCall]
    /\ UNCHANGED <<week, disk>>

WeekNext ==
    \/ \E c \in Caller : Knock(c) \/ Depart(c) \/ Call(c) \/ HangUp(c) \/ Answer(c)
    \/ Walk \/ VisitFair \/ NextTick \/ CopyBooks \/ WriteRecord \/ Close
    \/ Resume

WeekSpec == WeekInit /\ [][WeekNext]_weekVars

\* The town's ticker goes on, and a handler that has its answer writes it.
FairWeekSpec ==
    /\ WeekSpec
    /\ WF_weekVars(Walk \/ VisitFair \/ NextTick \/ CopyBooks \/ WriteRecord \/ Close)
    /\ \A c \in Caller : WF_weekVars(Answer(c))

-----------------------------------------------------------------------------
WeekTypeOK ==
    /\ BoardTypeOK
    /\ stage \in {"door", "arrive", "leave", "visit", "office", "square", "close", "sit", "award", "boundary",
                  "copied", "closed", "stuck", "broken", "refused"}
    /\ ToSet(roster) \subseteq Bidder /\ bodies \subseteq Bidder /\ admitted \subseteq taken
    /\ place \in [Bidder -> Place \cup {"street"}]
    /\ fate \in [Bidder -> {"absent", "here", "retired", "left"}]
    /\ accounts \in [Bidder -> {"absent", "open", "closed"}]
    /\ outlived \subseteq ToSet(roster)
    /\ balance \in [Bidder -> Nat] /\ held \in [Bidder -> Nat]
    /\ attempts \subseteq Id \X (1..tick + 1)
    /\ reopens \in [Id -> 0..MaxReopens] /\ pitches \in 0..Pitches
    /\ shelved \cup withdrawn \cup cards \subseteq DOMAIN bounties
    /\ crashes \in 0..MaxCrashes /\ trace \in Nat
    /\ calls \in [Caller -> [at : {"away", "knocking", "inside", "told"}, verb : {"none", "join", "leave"},
                              name : Guest \cup {"nobody"}, reply : {"none", "in", "out", "refused"},
                              told : {"nothing", "in", "out", "refused", "closed"}]]

\* The copy of the books is of another boundary than the record beside it.
Torn == disk.books.tick # disk.record.tick

\* What is for sale is for sale once, to people who were shown it, and in
\* time: an open window's bounty is on the board, neither shelved nor
\* withdrawn, under no second window; whoever has bid in it was shown it; and
\* at a boundary none is overdue - through failures, reopenings and resumes
\* (fair.go:449-492, 543-579, resume.go:187-213).
WindowsAreInOrder ==
    /\ \A i \in DOMAIN windows :
          /\ windows[i].bounty \in OnSale(bounties) \ (shelved \cup withdrawn)
          /\ {windows[i].book[j].agent : j \in DOMAIN windows[i].book} \subseteq windows[i].shown
          /\ stage = "boundary" => windows[i].close > tick
    /\ \A i, j \in DOMAIN windows : windows[i].bounty = windows[j].bounty => i = j

\* The two books never share a line: a card of the sitting has no window at
\* the office and is attempted once at most, the ladder holds attempts at
\* cards and nothing else, and once the table is cleared a card is solved or
\* withdrawn (fair.go:655-689).
RankedStaysApart ==
    /\ \A i \in DOMAIN windows : windows[i].bounty \notin cards
    /\ ToSet(ladder) \subseteq cards
    /\ \A i, j \in DOMAIN ladder : ladder[i] = ladder[j] => i = j
    /\ stage \notin {"sit", "award", "stuck", "broken"} =>
          \A b \in cards : bounties[b].state = "solved" \/ b \in withdrawn

\* A stay is what was paid for: between the walk and the next, the ticks an
\* agent will be held are the ticks it has bought and not stood, the later of
\* two stays and not their sum, through resumes too (fair.go:778-802, 849-855).
StandingIsPaidFor ==
    stage # "visit" => \A a \in bodies : paid[a] = staying(a)

\* The ground has as many owners as pitches are gone, and an agent that went
\* sells nothing: nobody is left a line on the square that pays a closed or a
\* frozen wallet (fair.go:885-895, 1026-1038, leave.go:41-46).
GroundIsSoldOnce ==
    /\ pitches + Cardinality({a \in Bidder : "stall" \in owned[a]}) = Pitches
    /\ \A a \in Bidder : stock[a] # None => "stall" \in owned[a] /\ fate[a] # "left"

\* What stops the fair: no attempt is given a wallet the books know, and the
\* books agree with the record about everybody, unless the two were of
\* different boundaries; and nothing else is refused but to somebody here a
\* call of whose step outlived it (ledger.go:452-454, settle.go:146-170,
\* 285-287).
StopsForCause ==
    /\ stage \in {"broken", "refused"} => Torn
    /\ stage = "stuck" => \E a \in outlived : Here(a)

\* The wallet of an agent that is gone never moves again, whether it went
\* bankrupt or walked out with bids in the book, a stay running and a line on
\* the square (leave.go:12-26); what was before the record is another life.
GoneIsFrozen ==
    [][ crashes' = crashes => \A a \in Bidder :
            fate[a] \in {"retired", "left"} =>
                /\ balance'[a] = balance[a] /\ fate'[a] = fate[a] /\ accounts'[a] = accounts[a]
                /\ owned'[a] = owned[a] /\ held'[a] = held[a]
      ]_weekVars

\* What a caller is told is what the town did: closed only of a request the
\* town never took, however the last tick and the closing of the week fell
\* together; in or out only of a guest that is seated or gone (join.go:53-58,
\* 83-106).  A kill may take the tick of an answer with it.
AnswerIsWhatHappened ==
    \A c \in Caller : calls[c].at = "told" =>
        /\ calls[c].told = "closed" <=> calls[c].reply = "none"
        /\ crashes = 0 =>
              /\ calls[c].told = "in" => fate[calls[c].name] # "absent"
              /\ calls[c].told = "out" => fate[calls[c].name] = "left"

\* Nobody is left on the line for a tick that will never come (join.go:56-58).
EveryCallEnds ==
    \A c \in Caller : calls[c].at \in {"knocking", "inside"} ~> calls[c].at \in {"away", "told"}

\* A resume loses nothing of what the record holds: written down again, the
\* world that has just been picked up is that record (resume.go:92-228).
ResumeIsTheRecord == [][crashes' # crashes => Record' = disk.record]_weekVars

\* Nobody is met for standing where they stood, nor on the way in: a walk that
\* brings two together brings them from apart, however often the world was
\* resumed in between (run.go:294-302, 354-361, 483-519).
MeetingsAreNews ==
    [][ stage' = "visit" => together' \ together = Presence(bodies', place') \ Presence(bodies, place)
      ]_weekVars

(***************************************************************************)
(* What two comments say and the code does not do.  fair.go:239-241: "the  *)
(* books copied and then the record written, so the two are always of the  *)
(* same boundary"; a kill between the two leaves the new books beside the  *)
(* old record.  fair.go:314-317: "the record stops naming the file, so a   *)
(* later -resume never looks for a body that is gone; the name stays       *)
(* taken"; a resumed world has forgotten the name, and a knock that the    *)
(* books refuse puts it back into the record.                              *)
(***************************************************************************)
ResumedFromOneBoundary == [][crashes' # crashes => ~Torn]_weekVars

RecordNamesThePresent ==
    disk.record # NoFile => disk.record.guests \subseteq disk.record.bodies
=============================================================================
