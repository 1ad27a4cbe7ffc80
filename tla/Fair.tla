--------------------------------- MODULE Fair ---------------------------------
(***************************************************************************)
(* The fair (internal/orchestrator/fair.go, leave.go): a market whose      *)
(* clock is the town's tick.  Visit is the whole of it, called once a tick *)
(* with where everyone stands; it asks one agent after another for its     *)
(* actions, so each agent's turn is an action here, and so are the close   *)
(* of a window and the award of a card.                                    *)
(*                                                                         *)
(* The money inside a step is module Metered's: here a step spends some of *)
(* its wallet, and an attempt is funded, performed and settled at once, as *)
(* it is within one tick.  A call may outlive its step: what it reserves   *)
(* is held until it ends, or, its client gone, for ever (proxy.go:256-297).*)
(* The ledger may then refuse what the fair charges, funds, merges or      *)
(* retires, Visit returns the refusal, and the fair is stuck.              *)
(***************************************************************************)
EXTENDS Board, Bids, FiniteSets, SequencesExt

CONSTANTS
    Week,           \* the settings a fair may run with (see FairAssumption)
    Cast,           \* the agents seated before the first tick, in order
    WindowTicks,    \* FairConfig.WindowTicks
    MaxReopens,     \* FairConfig.MaxReopens
    StayPrice,      \* FairConfig.StayPrice
    MaxStayTicks,   \* FairConfig.MaxStayTicks
    Pitches,        \* how many stalls the ground has room for
    Cards,          \* SittingConfig.Cards
    Ware,           \* the lines a stall may be stocked with
    Grant,          \* what every agent starts with
    Ceiling,        \* every bounty's token ceiling
    Dust            \* Config.Dust

\* A setting: how many cards the deck holds and the ticks it posts at, the
\* ticks a sitting is held at, what the office sells and for how much (0: not
\* for sale), the tie-break, and what agents do: the prices they bid, the
\* ticks they want to stay, what a step may cost them, and whose calls may
\* outlive their steps.
ASSUME FairAssumption ==
    /\ Competitor = Bidder /\ Cast \in Seq(Bidder)
    /\ \A w \in Week :
          /\ w.deck \in Nat /\ w.deck + Cards * Cardinality(w.sits) <= MaxBounties
          /\ w.posts \subseteq Nat /\ w.sits \subseteq Nat
          /\ w.notebook \in Nat /\ w.stall \in Nat /\ w.tie \in TieBreak
          /\ w.asks \subseteq Int /\ w.stays \subseteq Int /\ w.costs \subseteq Nat
          /\ w.late \subseteq Bidder
    /\ \A x \in Ware : x.item # "" /\ x.price > 0
    /\ {WindowTicks, MaxReopens, StayPrice, MaxStayTicks, Cards} \subseteq Nat \ {0}
    /\ Pitches \in Nat

VARIABLES
    week,        \* the settings of this fair
    stage,       \* where the tick is
    line,        \* the agents still to be asked in this stage
    place,       \* where the town says each agent stands
    roster,      \* Orchestrator.agents, by name
    fate,        \* per agent: absent, here, retired or left
    balance,     \* per agent, its wallet's balance
    accounts,    \* per agent, its account in the books: absent, open or closed
    attempts,    \* the attempt wallets in the books, by bounty and tick
    outlived,    \* agents a call of whose step outlived the step
    tick, dealt, windows, reopens, shelved, draws, held,
    owned, stock, stockRev, shopped, pitches,
    ranked, withdrawn, cards, table, ladder,
    pending,     \* crier.pending: per agent, results it has not been told
    paid         \* history: ticks of standing an agent has paid for and not had

officeVars == <<windows, reopens, shelved, draws, dealt>>
sitVars    == <<ranked, withdrawn, cards, table, ladder>>
shopVars   == <<owned, stock, stockRev, shopped, pitches>>
peopleVars == <<roster, fate, balance, accounts, attempts, outlived>>
fairVars   == <<bounties, week, stage, line, place, tick, held, paid, pending,
                officeVars, sitVars, shopVars, peopleVars>>

\* What an agent may leave out of its actions: a sequence of at most one.
None == <<>>
Maybe(S) == {None} \cup {<<x>> : x \in S}

Here(a) == fate[a] = "here"

\* What a draw is made from: the bounty and how often it was drawn for.
lotSalt(b, draw) == <<b, draw>>
Window(b, close) ==
    [bounty |-> b, book |-> <<>>, salt |-> lotSalt(b, draws[b]), close |-> close, shown |-> {}]

FairInit ==
    /\ BoardInit
    /\ week \in Week
    /\ line = <<>> /\ windows = <<>> /\ table = <<>> /\ ladder = <<>>
    /\ roster = Cast
    /\ fate = [a \in Bidder |-> IF a \in ToSet(Cast) THEN "here" ELSE "absent"]
    /\ accounts = [a \in Bidder |-> IF a \in ToSet(Cast) THEN "open" ELSE "absent"]
    /\ balance = [a \in Bidder |-> IF a \in ToSet(Cast) THEN Grant ELSE 0]
    /\ attempts = {} /\ outlived = {} /\ tick = 0 /\ dealt = 0
    /\ reopens = [b \in Id |-> 0] /\ draws = [b \in Id |-> 0]
    /\ shelved = {} /\ withdrawn = {} /\ cards = {}
    /\ held = [a \in Bidder |-> 0] /\ paid = [a \in Bidder |-> 0]
    /\ owned = [a \in Bidder |-> {}]
    /\ stock = [a \in Bidder |-> None]
    /\ stockRev = 0 /\ shopped = [a \in Bidder |-> 0]
    /\ pitches = Pitches
    /\ pending = [a \in Bidder |-> <<>>]

-----------------------------------------------------------------------------
\* Mutant: a shelved bounty is put up for sale again.
UnsoldShelvedToo(board) ==
    {b \in OnSale(board) \ withdrawn : \A i \in DOMAIN windows : windows[i].bounty # b}

\* Open bounties that have no window and may have one.
Unsold(board) ==
    {b \in OnSale(board) \ (shelved \cup withdrawn) :
        \A i \in DOMAIN windows : windows[i].bounty # b}

\* Whatever of a sequence is in a set, in its order.
Those(s, S) ==
    LET those[i \in 0..Len(s)] ==
            IF i = 0 THEN <<>>
            ELSE IF s[i] \in S THEN Append(those[i - 1], s[i]) ELSE those[i - 1]
    IN  those[Len(s)]

\* Whoever of the roster stands at a place, in its order.
Standing(where, fates) == Those(roster, {a \in Bidder : place[a] = where /\ fates[a] = "here"})

\* The start of Visit: retire who is broke, post what the hour posts, and give
\* a window to every open bounty that may have one.
OpenOffice ==
    /\ stage = "visit"
    /\ tick' = tick + 1
    /\ LET broke == {a \in Bidder : Here(a) /\ balance[a] <= Dust}
       IN  /\ fate' = [a \in Bidder |-> IF a \in broke THEN "retired" ELSE fate[a]]
           /\ accounts' = [a \in Bidder |-> IF a \in broke THEN "closed" ELSE accounts[a]]
           /\ balance' = [a \in Bidder |-> IF a \in broke THEN 0 ELSE balance[a]]
    /\ LET posts == tick + 1 \in week.posts /\ dealt < week.deck
       IN  /\ bounties' = IF posts THEN Posted(bounties, FALSE) ELSE bounties
           /\ dealt' = IF posts THEN dealt + 1 ELSE dealt
    /\ LET unsold == Those([b \in DOMAIN bounties' |-> b], Unsold(bounties'))
       IN  /\ windows' = windows \o
                  [i \in DOMAIN unsold |-> Window(unsold[i], tick + 1 + WindowTicks)]
           /\ draws' = IF week.tie = "ByLot"
                       THEN [b \in Id |-> IF b \in ToSet(unsold) THEN draws[b] + 1 ELSE draws[b]]
                       ELSE draws
    /\ line' = Standing("office", fate')
    /\ stage' = "office"
    /\ UNCHANGED <<week, place, roster, attempts, outlived, held, paid, pending, reopens, shelved, sitVars,
                   shopVars>>

\* The same, ended by a late call of somebody broke: its dust is not there to
\* burn any more, or it is burned and an open hold keeps the wallet open.
\* Whoever is before it in the roster is retired by then.
SweepRefused ==
    /\ stage = "visit"
    /\ tick' = tick + 1
    /\ \E n \in DOMAIN roster :
          LET late == roster[n]
              broke == {a \in Bidder : Here(a) /\ balance[a] <= Dust}
              before == (broke \ {late}) \cap {roster[i] : i \in 1..(n - 1)}
          IN  /\ late \in broke \cap outlived
              /\ fate' = [a \in Bidder |-> IF a \in before THEN "retired" ELSE fate[a]]
              /\ accounts' = [a \in Bidder |-> IF a \in before THEN "closed" ELSE accounts[a]]
              /\ \E rest \in 0..balance[late] :
                    balance' = [a \in Bidder |-> IF a \in before THEN 0
                                                 ELSE IF a = late THEN rest ELSE balance[a]]
    /\ stage' = "stuck"
    /\ UNCHANGED <<bounties, week, line, place, roster, attempts, outlived, held, paid, pending, officeVars,
                   sitVars, shopVars>>

-----------------------------------------------------------------------------
Shown(w, a) == [w EXCEPT !.shown = @ \cup {a}]

\* placeBids, into the books that are open to the step.
Entered(open, a, asks) ==
    [i \in DOMAIN open |->
        LET b == open[i].bounty
        IN  IF b \in DOMAIN asks /\ Takes(open[i].book, a, asks[b])
            THEN [open[i] EXCEPT !.book = Placed(@, a, asks[b])] ELSE open[i]]

Asks(open) == UNION {[S -> week.asks] : S \in SUBSET {open[i].bounty : i \in DOMAIN open}}

\* What the model calls of a step may cost its wallet.
Thought(a) == week.costs \cap 0..balance[a]

\* And one of them may outlive the step.
Outlives(a) == outlived' \in {outlived, outlived \cup ({a} \cap week.late)}

(***************************************************************************)
(* chargeStays and chargeBuys, one after the other, on a purse that the    *)
(* step has left with what it has: the stay's cost and the offer's price.  *)
(***************************************************************************)
Ticks(n) == IF n <= 0 THEN 1 ELSE IF n > MaxStayTicks THEN MaxStayTicks ELSE n
StayCost(n) == StayPrice * Ticks(n)

\* Mutant: a renewal adds to the stay that was running.
ExtendedBy(a, n) == (IF held[a] > tick THEN held[a] ELSE tick) + Ticks(n)

\* Renewal extends and never shortens.
Extended(a, n) == IF tick + Ticks(n) > held[a] THEN tick + Ticks(n) ELSE held[a]

CanStay(a, wanted, purse) == wanted # None /\ purse[a] >= StayCost(wanted[1])

ChargeStays(a, wanted, purse) ==
    IF CanStay(a, wanted, purse)
    THEN /\ held' = [held EXCEPT ![a] = Extended(a, wanted[1])]
         /\ paid' = IF Ticks(wanted[1]) > paid[a] THEN [paid EXCEPT ![a] = Ticks(wanted[1])] ELSE paid
    ELSE UNCHANGED <<held, paid>>

AfterStay(a, wanted, purse) ==
    IF CanStay(a, wanted, purse) THEN [purse EXCEPT ![a] = @ - StayCost(wanted[1])] ELSE purse

Offer(item, price, seller) == [item |-> item, price |-> price, seller |-> seller]

catalogue ==
    (IF week.notebook > 0 THEN <<Offer("notebook", week.notebook, Nobody)>> ELSE <<>>) \o
    (IF week.stall > 0 /\ pitches > 0 THEN <<Offer("stall", week.stall, Nobody)>> ELSE <<>>)

\* Mutant: the stall of an agent that went bankrupt still sells.
WaresOfAnyone(buyer) ==
    LET sellers == Those(roster, {a \in Bidder \ {buyer} : stock[a] # None})
    IN  [i \in DOMAIN sellers |-> Offer(stock[sellers[i]][1].item, stock[sellers[i]][1].price, sellers[i])]

wares(buyer) ==
    LET sellers == Those(roster, {a \in Bidder \ {buyer} : Here(a) /\ stock[a] # None})
    IN  [i \in DOMAIN sellers |-> Offer(stock[sellers[i]][1].item, stock[sellers[i]][1].price, sellers[i])]

\* The first line that answers a wish: by item, from whoever if it names nobody.
Answers(lines, wish) ==
    Those(lines, {o \in ToSet(lines) : o.item = wish.item /\ wish.seller \in {Nobody, o.seller}})

\* What there is to ask for: an item, of somebody or of anybody.  A wish for
\* what is not for sale is refused, and is no wish here.
Wishes(lines) ==
    Maybe(UNION {{[item |-> o.item, seller |-> s] : s \in {Nobody, o.seller}} : o \in ToSet(lines)})

\* A purchase: of what is on offer, not owned yet, and affordable.
CanBuy(a, lines, wish, purse) ==
    LET offers == IF wish = None THEN <<>> ELSE Answers(lines, wish[1])
    IN  offers # <<>> /\ offers[1].item \notin owned[a] /\ purse[a] >= offers[1].price

\* The purse pays its seller, or the books if there is none; a stall takes the
\* next pitch.
Buy(a, lines, wish, purse) ==
    LET offers == IF wish = None THEN <<>> ELSE Answers(lines, wish[1])
    IN  IF CanBuy(a, lines, wish, purse)
        THEN LET o == offers[1]
                 left == [purse EXCEPT ![a] = @ - o.price]
             IN  /\ balance' = IF o.seller = Nobody THEN left
                               ELSE [left EXCEPT ![o.seller] = @ + o.price]
                 /\ owned' = [owned EXCEPT ![a] = @ \cup {o.item}]
                 /\ pitches' = IF o.item = "stall" THEN pitches - 1 ELSE pitches
        ELSE balance' = purse /\ UNCHANGED <<owned, pitches>>

\* What a stall's owner may ask to sell.
Lines == Maybe({x \in Ware : week.stall > 0})

\* takeStock, after the purchase of the same step: the owner of a stall may
\* put up a line of its own, and only a change of it counts as one.
Stock(a, ware) ==
    LET refused == \/ ware = None \/ "stall" \notin owned'[a] \/ stock[a] = ware
                   \/ ware[1].item \in {"notebook", "stall"}
    IN  /\ stock' = IF refused THEN stock ELSE [stock EXCEPT ![a] = ware]
        /\ stockRev' = IF refused THEN stockRev ELSE stockRev + 1

-----------------------------------------------------------------------------
\* An agent at the office is shown every window it has not been shown, and
\* answers with bids, a stay, a purchase and a line for its stall.
AtOffice ==
    /\ stage = "office" /\ line # <<>>
    /\ LET a == Head(line)
       IN  IF \A i \in DOMAIN windows : a \in windows[i].shown
           THEN UNCHANGED <<windows, held, paid, pending, balance, outlived, owned, pitches, stock, stockRev>>
           ELSE /\ \E asks \in Asks(windows) :
                      windows' = Entered([i \in DOMAIN windows |-> Shown(windows[i], a)], a, asks)
                /\ pending' = [pending EXCEPT ![a] = <<>>] /\ Outlives(a)
                /\ \E cost \in Thought(a), wanted \in Maybe(week.stays) :
                   LET step == [balance EXCEPT ![a] = @ - cost]
                   IN  /\ ChargeStays(a, wanted, step)
                       /\ \E wish \in Wishes(catalogue) : Buy(a, catalogue, wish, AfterStay(a, wanted, step))
                /\ \E ware \in Lines : Stock(a, ware)
    /\ line' = Tail(line)
    /\ UNCHANGED <<bounties, week, stage, place, tick, shopped, roster, fate, accounts, attempts,
                   reopens, shelved, draws, dealt, sitVars>>

\* The same, when a late call takes of the wallet between a charge's reading of
\* it and the charge.
OfficeRefused ==
    /\ stage = "office" /\ line # <<>>
    /\ LET a == Head(line)
       IN  /\ \E i \in DOMAIN windows : a \notin windows[i].shown
           /\ \E asks \in Asks(windows) :
                 windows' = Entered([i \in DOMAIN windows |-> Shown(windows[i], a)], a, asks)
           /\ pending' = [pending EXCEPT ![a] = <<>>] /\ Outlives(a) /\ a \in outlived'
           /\ \E cost \in Thought(a), wanted \in Maybe(week.stays) :
              LET step == [balance EXCEPT ![a] = @ - cost]
              IN  \/ /\ CanStay(a, wanted, step)
                     /\ balance' = step /\ UNCHANGED <<held, paid>>
                  \/ /\ ChargeStays(a, wanted, step)
                     /\ balance' = AfterStay(a, wanted, step)
                     /\ \E wish \in Wishes(catalogue) : CanBuy(a, catalogue, wish, balance')
    /\ stage' = "stuck"
    /\ UNCHANGED <<bounties, week, line, place, tick, roster, fate, accounts, attempts, reopens, shelved,
                   draws, dealt, sitVars, shopVars>>

LeaveOffice ==
    /\ stage = "office" /\ line = <<>>
    /\ stage' = "square"
    /\ line' = Standing("square", fate)
    /\ UNCHANGED <<bounties, week, place, tick, held, paid, pending, officeVars, sitVars, shopVars, peopleVars>>

\* The square, the office's rule with wares for windows: shown once per change
\* of stock, to whoever stands there and is not the one who stocked it.
AtSquare ==
    /\ stage = "square" /\ line # <<>>
    /\ LET a == Head(line)
       IN  IF shopped[a] = stockRev \/ wares(a) = <<>>
           THEN UNCHANGED <<shopped, pending, balance, outlived, owned, pitches, stock, stockRev>>
           ELSE /\ shopped' = [shopped EXCEPT ![a] = stockRev]
                /\ pending' = [pending EXCEPT ![a] = <<>>] /\ Outlives(a)
                /\ \E cost \in Thought(a), wish \in Wishes(wares(a)) :
                      Buy(a, wares(a), wish, [balance EXCEPT ![a] = @ - cost])
                /\ \E ware \in Lines : Stock(a, ware)
    /\ line' = Tail(line)
    /\ UNCHANGED <<bounties, week, stage, place, tick, held, paid, roster, fate, accounts, attempts,
                   officeVars, sitVars>>

\* The same, with the purchase refused.
SquareRefused ==
    /\ stage = "square" /\ line # <<>>
    /\ LET a == Head(line)
       IN  /\ shopped[a] # stockRev /\ wares(a) # <<>>
           /\ shopped' = [shopped EXCEPT ![a] = stockRev]
           /\ pending' = [pending EXCEPT ![a] = <<>>] /\ Outlives(a) /\ a \in outlived'
           /\ \E cost \in Thought(a) : balance' = [balance EXCEPT ![a] = @ - cost]
           /\ \E wish \in Wishes(wares(a)) : CanBuy(a, wares(a), wish, balance')
    /\ stage' = "stuck"
    /\ UNCHANGED <<bounties, week, line, place, tick, held, paid, roster, fate, accounts, attempts, owned,
                   stock, stockRev, pitches, officeVars, sitVars>>

LeaveSquare ==
    /\ stage = "square" /\ line = <<>>
    /\ stage' = "close"
    /\ UNCHANGED <<bounties, week, line, place, tick, held, paid, pending, officeVars, sitVars, shopVars, peopleVars>>

-----------------------------------------------------------------------------
\* announce: a result for everybody who bid.
Announced(book, b) ==
    [a \in Bidder |-> IF \E i \in DOMAIN book : book[i].agent = a
                      THEN Append(pending[a], <<b, tick>>) ELSE pending[a]]

\* Mutant: the bankrupt keeps a wallet with dust in it.
LeftWithDust(a, left) ==
    /\ balance' = [balance EXCEPT ![a] = left]
    /\ fate' = IF left <= Dust THEN [fate EXCEPT ![a] = "retired"] ELSE fate
    /\ UNCHANGED accounts

\* settleAgent, of an agent left with so much.
Left(a, left) ==
    LET broke == left <= Dust
    IN  /\ balance' = [balance EXCEPT ![a] = IF broke THEN 0 ELSE left]
        /\ fate' = IF broke THEN [fate EXCEPT ![a] = "retired"] ELSE fate
        /\ accounts' = IF broke THEN [accounts EXCEPT ![a] = "closed"] ELSE accounts

\* The same, of an agent whose late call is in the way (SweepRefused).
LeftRefused(a, left) ==
    /\ left <= Dust /\ a \in outlived
    /\ \E rest \in 0..left : balance' = [balance EXCEPT ![a] = rest]
    /\ stage' = "stuck"
    /\ UNCHANGED <<fate, accounts>>

(***************************************************************************)
(* attempt, of a bounty just awarded (board is the board with the award):  *)
(* void if the winner is gone; an error, and the end of the fair, if the   *)
(* books know the attempt's wallet already; else the budget is spent or    *)
(* not, and the attempt solved, failed or voided for the platform's fault. *)
(* A late call of the winner may get the funding or the settlement         *)
(* refused, and one of the attempt itself the merge of what is left.       *)
(***************************************************************************)
VoidForGone(b, a, board) ==
    /\ ~Here(a)
    /\ bounties' = Voided(board, b)
    /\ UNCHANGED <<stage, balance, fate, accounts, attempts, outlived, ladder>>

\* tally: only the sitting's attempts are ranked.
Tallied(b) == IF stage = "award" THEN Append(ladder, b) ELSE ladder

budgetOf(a) == IF Ceiling <= 0 \/ Ceiling > balance[a] THEN balance[a] ELSE Ceiling

Perform(b, a, board) ==
    \/ \E spent \in {0, budgetOf(a)}, solved \in BOOLEAN :
          LET left == balance[a] - spent + (IF solved THEN board[b].price ELSE 0)
          IN  /\ bounties' = Resolved(board, b, solved)
              /\ ladder' = Tallied(b)
              /\ \/ Left(a, left) /\ UNCHANGED stage
                 \/ LeftRefused(a, left)
              /\ UNCHANGED outlived
    \/ /\ bounties' = Voided(board, b)
       /\ UNCHANGED <<stage, balance, fate, accounts, outlived, ladder>>

FundRefused(a, board) ==
    /\ a \in outlived /\ budgetOf(a) > 0
    /\ stage' = "stuck" /\ bounties' = board
    /\ UNCHANGED <<balance, fate, accounts, outlived, ladder>>

MergeRefused(a, board) ==
    /\ a \in week.late /\ outlived' = outlived \cup {a} /\ budgetOf(a) > 0
    /\ balance' = [balance EXCEPT ![a] = @ - budgetOf(a)]
    /\ stage' = "stuck" /\ bounties' = board
    /\ UNCHANGED <<fate, accounts, ladder>>

Attempt(b, a, board) ==
    \/ VoidForGone(b, a, board)
    \/ /\ Here(a) /\ <<b, tick>> \in attempts
       /\ stage' = "broken" /\ bounties' = board
       /\ UNCHANGED <<balance, fate, accounts, attempts, outlived, ladder>>
    \/ /\ Here(a) /\ <<b, tick>> \notin attempts
       /\ attempts' = attempts \cup {<<b, tick>>}
       /\ Perform(b, a, board) \/ FundRefused(a, board) \/ MergeRefused(a, board)

\* The award of a book with a bid: the board is told, then the bidders, and
\* the winner attempts it.
AwardAndAttempt(b, book, salt) ==
    LET won == Winner(book, week.tie, salt)
    IN  /\ CanAward(bounties, b)
        /\ pending' = Announced(book, b)
        /\ Attempt(b, won.agent, Awarded(bounties, b, won.agent, won.price))

Due == {i \in DOMAIN windows : windows[i].close <= tick}

ReopensForgotten(b) == [reopens EXCEPT ![b] = 0]

\* A window closes: nobody bid, and it is shelved after so many of those; or
\* it is awarded and attempted.
CloseWindow ==
    /\ stage = "close" /\ Due # {}
    /\ LET w == windows[Min(Due)]
           b == w.bounty
       IN  /\ windows' = RemoveAt(windows, Min(Due))
           /\ \/ /\ w.book = <<>>
                 /\ reopens' = [reopens EXCEPT ![b] = @ + 1]
                 /\ shelved' = IF reopens[b] + 1 >= MaxReopens THEN shelved \cup {b} ELSE shelved
                 /\ UNCHANGED <<bounties, stage, pending, balance, fate, accounts, attempts, outlived, ladder>>
              \/ /\ w.book # <<>>
                 /\ AwardAndAttempt(b, w.book, w.salt)
                 /\ reopens' = ReopensForgotten(b)
                 /\ UNCHANGED shelved
    /\ UNCHANGED <<week, line, place, tick, held, paid, draws, dealt, ranked, withdrawn, cards, table,
                   roster, shopVars>>

-----------------------------------------------------------------------------
sitters == Those(roster, {a \in ranked : Here(a)})

SitsNow == tick \in week.sits /\ sitters # <<>>

EndOfVisit ==
    /\ stage = "close" /\ Due = {} /\ ~SitsNow
    /\ stage' = "boundary"
    /\ UNCHANGED <<bounties, week, line, place, tick, held, paid, pending, officeVars, sitVars, shopVars, peopleVars>>

\* sit: cards are dealt and posted, and every sitter is asked, wherever it is.
DealCards ==
    /\ stage = "close" /\ Due = {} /\ SitsNow
    /\ LET dealtNow == [i \in 1..Cards |-> Len(bounties) + i]
       IN  /\ bounties' = bounties \o [i \in 1..Cards |-> Bounty(FALSE)]
           /\ cards' = cards \cup ToSet(dealtNow)
           /\ table' = [i \in 1..Cards |-> Window(dealtNow[i], tick)]
           /\ draws' = IF week.tie = "ByLot"
                       THEN [b \in Id |-> IF b \in ToSet(dealtNow) THEN draws[b] + 1 ELSE draws[b]]
                       ELSE draws
    /\ line' = sitters
    /\ stage' = "sit"
    /\ UNCHANGED <<week, place, tick, held, paid, pending, windows, reopens, shelved, dealt, ranked,
                   withdrawn, ladder, shopVars, peopleVars>>

AtSitting ==
    /\ stage = "sit"
    /\ LET a == Head(line)
       IN  /\ \E asks \in Asks(table) : table' = Entered(table, a, asks)
           /\ \E cost \in Thought(a) : balance' = [balance EXCEPT ![a] = @ - cost]
           /\ pending' = [pending EXCEPT ![a] = <<>>] /\ Outlives(a)
    /\ line' = Tail(line)
    /\ stage' = IF Tail(line) = <<>> THEN "award" ELSE "sit"
    /\ UNCHANGED <<bounties, week, place, tick, held, paid, officeVars, ranked, withdrawn, cards, ladder,
                   shopVars, roster, fate, accounts, attempts>>

AwardCard ==
    /\ stage = "award" /\ table # <<>>
    /\ table' = Tail(table)
    /\ LET card == Head(table)
       IN  \/ /\ card.book = <<>>
              /\ UNCHANGED <<bounties, stage, pending, balance, fate, accounts, attempts, outlived, ladder>>
           \/ card.book # <<>> /\ AwardAndAttempt(card.bounty, card.book, card.salt)
    /\ UNCHANGED <<week, line, place, tick, held, paid, officeVars, ranked, withdrawn, cards, roster, shopVars>>

\* Mutant: a card that failed goes back to the office.
WithdrawnUnbid == withdrawn \cup {b \in cards \cap OnSale(bounties) : bounties[b].failures = 0}

Withdrawn == withdrawn \cup (cards \cap OnSale(bounties))

\* What is still open is withdrawn, never reopened.
ClearTable ==
    /\ stage = "award" /\ table = <<>>
    /\ withdrawn' = Withdrawn
    /\ stage' = "boundary"
    /\ UNCHANGED <<bounties, week, line, place, tick, held, paid, pending, officeVars, ranked, cards, table,
                   ladder, shopVars, peopleVars>>

Visit ==
    \/ OpenOffice \/ SweepRefused \/ AtOffice \/ OfficeRefused \/ LeaveOffice
    \/ AtSquare \/ SquareRefused \/ LeaveSquare
    \/ CloseWindow \/ EndOfVisit \/ DealCards \/ AtSitting \/ AwardCard \/ ClearTable

-----------------------------------------------------------------------------
\* Mutant: who leaves keeps its line on the square.
LeavesStockUp(a) == stock

TakesStockDown(a) == [stock EXCEPT ![a] = None]

\* Leave: the wallet keeps what is in it, and what was paid for is let go of.
Leave(a) ==
    /\ Here(a)
    /\ fate' = [fate EXCEPT ![a] = "left"]
    /\ held' = [held EXCEPT ![a] = 0] /\ paid' = [paid EXCEPT ![a] = 0]
    /\ stock' = TakesStockDown(a)
    /\ stockRev' = IF stock[a] = None THEN stockRev ELSE stockRev + 1
    /\ UNCHANGED <<bounties, week, line, tick, pending, officeVars, sitVars, owned, shopped,
                   pitches, roster, balance, accounts, attempts, outlived>>

\* Enrol, of an agent that is here and not down yet.
Enrolled(a) == ranked \cup {a}

\* Hold: asked before the tick's Visit, for the tick to come.
Hold(a) == held[a] >= tick + 1

staying(a) == IF held[a] > tick THEN held[a] - tick ELSE 0
=============================================================================
