# Aiphylum in TLA+

Aiphylum is a world in which language-model agents live off bounties: they are
given a grant, pay for every model call out of it, bid for tasks in sealed-bid
auctions, are paid when an answer checks out, and are closed for good when
their credits are gone.  This directory holds TLA+ models of the program, TLC
configurations that check them on small instances, and TLAPS proofs of what
matters most.  Paths below are relative to the repository's root.

    tlc -workers 2 -config Ledger.cfg MCLedger.tla     # one run
    tlapm LedgerProofs.tla                             # one module of proofs

`PROJECT.json` lists the components, the runs, for each property a mutation of
the model that breaks it, the source lines behind every definition, the
disagreements found between the code and its comments, the hazards of the code
with the properties that watch them, and the theorems.

## 1. The system

| component | state | operations | talks to |
|---|---|---|---|
| **ledger** `internal/ledger` | accounts, transactions, holds, in one SQLite file behind one mutex | CreateAccount, Mint, MintOnce, Burn, Transfer, Hold, Settle, Release, Retire; Verify, Conservation; Snapshot | everything that touches money calls it |
| **proxy** `internal/proxy` | bearer tokens -> wallets | Authorize, Revoke, one handler per model call: hold, invoke, settle or release | ledger; the agents' containers over HTTP; the orchestrator's fault tracker as a callback |
| **attempts and bids** `internal/orchestrator/{orchestrator,settle}.go` | agents, fault tracker, epoch | performBidStep, fundAttempt, performAttempt, settleAttempt, settleAgent | ledger, proxy, board, auction, judge, runner |
| **auction** `internal/auction` | one book of sealed bids | Place, Award, Book, Load | the three tracks own auctions |
| **board** `internal/bounty` | bounties, open -> awarded -> solved | Post, Open, Award, Resolve, ResolveJudged, Void, Restore | the tracks; answers never leave it |
| **ranked track** `RunEpisode`, `runRound` | rounds of an episode | settle everybody, post, auction, attempt, in lock step | all of the above |
| **real-time track** `sim.go` | windows, queues, workers, shelves | one actor loop over ticks, deadlines and worker reports | board, auction, workers over a channel |
| **fair track** `fair.go`, `leave.go`, `resume.go` | windows and attempts counted in town ticks, stalls, stays | Visit at every town tick; Leave; Save, ResumeFair | town, board, auction, ledger |
| **judging** `judge.go`, `internal/judge` | a wallet that pays the grader | EnableJudging, judgeSubmission | ledger, board |
| **checkpoint** `cmd/phylumd/{checkpoint,fair,main}.go` | a record and a copy of the books | save at a boundary, boot over both | ledger.Snapshot, trace writer, fair |
| **daemon** `internal/daemon` | roster and its file, running flag, epoch | agent.submit, episode.run, status; Resume | orchestrator, ledger, trace |
| **accounts** `internal/account` | users, links, sessions, top-ups | Request, Verify (sign-up), Recharge | ledger, in a second database |
| **billing** `internal/billing` | none; the provider keeps the checkout sessions | checkout, webhook | accounts.Recharge |
| **agent service** `internal/service` | built agents, their buckets, conversations and questions; a store | Create, Update, Answer, Delete, Draft; Say, Event, Step with their tool rounds | proxy, store, accounts |
| **town** `internal/town` | bodies, where they stand, who is together | one tick of Run: arrive, leave, hold, walk, meet, visit, checkpoint | fair, through callbacks |
| **intake** `cmd/phylumd/{join,guest,lodger}.go` | people waiting at the gate | join and leave a running fair | town, fair, accounts |
| **trace** `internal/trace` | an append-only event file | Write, ResumeWriter, Tail, Replay, summaries | everyone writes to it |
| **ladder** `internal/rating` | nothing kept | tally of attempts per agent | reads outcomes |
| prompts (`spec`, `mind`), generators and suites, container runner, web and builder pages, operator commands | none of their own, or I/O only | | |

### Where it is hard, and what makes each part correct

* **Ledger.**  Operations of many goroutines, one transaction each.  The book
  balances to the credit; no wallet is overdrawn by any order of legs; reserved
  credits are explained by open holds; a retired wallet is out of reach for
  ever; a hold is resolved once and can always be resolved.
* **Proxy.**  Every request is a goroutine of its own and outlives its token,
  its step and its client.  What is charged is what was measured, no more than
  was reserved; a call of a dead step must not disturb the accounts of a live
  one.
* **Attempts and bids.**  The orchestrator reads a balance, decides and then
  posts, while handlers post in between; a container is killed with calls in
  flight; faults are recorded asynchronously.  The ladder's burn is the truth,
  blame falls on the step that earned it, and nothing is refunded twice.  A call
  that outlives its step can stop the world, in more ways than one; nothing
  else of the agents' doing may.
* **Auction.**  One winner, the lawful one, also when prices, arrivals or draws
  coincide, and after a restart that lost the arrival numbers.
* **Board and tracks.**  Windows, attempts, bankruptcies and the closing of the
  world interleave.  An award has one owner; nothing is sold twice or forgotten;
  the track ends, with nothing half done.
* **Checkpoint and daemon.**  Crashes between a step and its record, two
  files that must agree, wallet names that must not repeat.
* **Accounts and billing.**  Two databases and no common transaction; payments
  announced twice, late, or again after a crash.
* **Fair and town.**  Windows, stays and goods counted in ticks while agents
  walk, leave for good and go broke.  What is sold is sold once and in time,
  ranked work and market work never mix, a stay is what was paid for, and who
  is gone neither pays nor is paid.
* **Agent service.**  Three locks and a store, none of them held across all of
  an operation.  What an owner was told is what is stored and what runs, a
  conversation is what was said on it, limits hold, and messages end.

## 2. What is modelled

| module | stands for |
|---|---|
| `Sums` | SQL's `sum` over a numbered table, as a recursive function |
| `Ledger` | every operation of `internal/ledger` on accounts, transactions and holds; the invariants are what `Verify` checks and what `Retire` and `hold.go` promise |
| `Purse` | the abstract specification the ledger implements: purses with a worth, and no holds |
| `Books` | `Conservation`, a reader of the book that does not take the lock |
| `Proxy` | tokens, the handler of a model call lock by lock, client disconnects, the fault tracker |
| `Metered` | composes `Proxy` and `Ledger` with one agent's bid steps, attempts, settlement and bankruptcy |
| `Bids` | the auction's book and its award, as operators |
| `Auction` | one auction from New to Award with the checkpoint and restart in the middle |
| `Board` | the bounty board, one operator per method |
| `Sim` | composes `Board` and `Bids` with the real-time track: actor, workers, windows, shelves, closing |
| `SignIn` | over `Ledger`: links, sign-up in two databases, sessions, pruning |
| `Recharge` | over `SignIn`: checkouts, the provider's events, the webhook, the mint and its row |
| `Fair` | over `Board` and `Bids`: the visit of a tick, agent by agent, with the office, the square, the windows and the ranked sitting |
| `Week` | composes `Fair` with the town's tick, the door, the checkpoint and a kill between any two steps |
| `Daemon` | over `Board`: submissions, episodes and rounds, the roster file and the trace, and boots over what a kill left |
| `Service` | the agent service's operations, cut where its locks are taken and let go, over its store |
| `MC...` | the constants of the TLC runs |
| `LedgerProofs`, `AuctionProofs`, `RechargeProofs`, `DaemonProofs`, `ServiceProofs`, `SimProofs`, `MeteredProofs`, `WeekProofs` | the proofs |

### How state and actions correspond to the code

**Ledger.**  `balance` is `accounts.balance`, `status` tells absent, open and
closed accounts apart, `holds` is the holds table, and `mints` counts the mint
transactions of a ref, all that `MintOnce` reads of the transaction log.  Every
Go method takes `Ledger.mu` and runs one database transaction, so it is one
action, and an error, which rolls back, is a step not taken.  `Post` is
`postTx`: legs apply in order, each against the balance left by the earlier
ones, zero legs are skipped before their account is looked up (so a `Release`
pays nothing to the provider account, and a `Settle` of the full amount never
looks at the wallet), system accounts may go negative, wallets must be open.
Accounts are numbered by `Rows` because the audit sums columns.

**Proxy.**  A call's `pc` is where its handler stands between two locks.
`live` is its request context; once it is cancelled every ledger call of the
handler fails in `BeginTx`, which is what `SettleCall` and `ReleaseCall` do when
`~live`: the code logs and goes on, and the hold stays open.  A price is any
worst case a wallet can cover, and the cost any amount up to it, because the
handler caps the cost at the hold.

**Metered.**  `pc` walks one agent through `performBidStep`, `performAttempt`,
`settleAttempt` and `settleAgent`, one action per ledger operation.  `Halt` is
an error returned on the money path, which ends `RunEpisode`.  The container's
doings are the calls `Serve` lets arrive while a token is authorized.  A
ledger error is possible exactly when the book refuses the operation.

**Auction.**  The two scans of `Award` are two recursive functions over the
book.  The hash behind `Draw` is a constant function `Draw` from salts and
names to lots, so the model checker can be given colliding draws and the proof
holds for every function.  `Save` loses the arrival numbers as the file does;
`Restart` may happen at any time, also after an award nobody saved.

**Sim.**  Each case of the actor's select is one action, with everything it
calls: a tick retires, posts, shelves, opens and hands out bid steps; a report
settles, resolves and dispatches the next of the queue.  `DispatchNext` is
shared by the reports and by `closeDue`.  An attempt's wallet is represented
by its name, `named`, which repeats only within a tick.  All open bounties are
priced alike (`Grant`, `Ceiling`, prices in `Reserve..MaxPayout`).  `phase` is
`stuck` or `broken` when `RunSim` has returned an error: `stuck` when the ledger
refused what a late call was in the way of, `broken` for anything else.

**Calls that outlive their step, in `Sim`, `Fair` and `Daemon`.**  `Metered` has
every handler of one agent.  The tracks have many agents and no handlers; they
have what a handler can do to them.  `outlived` is the agents a bid step of
which left a call behind: its client went away while the call was on its way
(`proxy.go:256-297`), so what it reserves of the bankroll is held until it ends,
or, if its release failed, for ever.  It never shrinks, because nothing tells
the world that such a call is over, and it is on disk, in `Daemon` and in the
copy of the books in `Week`, because a hold is.  Of an agent in it, the ledger
may refuse, or not, what is posted after a balance was read:

| refused | in the code | in the models |
|---|---|---|
| the retirement, or the dust's burn before it | `settle.go:279-287`, `ledger.go:447-454` | `TickRefused` and `Settle` (`Sim`), `RefusedSeat` (`Daemon`), `SweepRefused`, `LeftRefused` (`Fair`) |
| the attempt's budget | `settle.go:59-63` | `Start`, `Fund`, `FundRefused` |
| a stay, or a purchase | `fair.go:830-847`, `989-1021` | `OfficeRefused`, `SquareRefused` |

The merge of an attempt's remainder (`settle.go:151`, `167`) is refused for a
late call of the attempt itself: `MergeRefused`, and `Perform` in `Daemon`.  Each
refusal is returned all the way up and stops the track, as in the code.

**SignIn.**  A visit is one call of `Verify` whose token was good; its `pc` is
the statement it is at, and `Cut` ends it there, as a cancelled context, a
failing database or the end of the process does.  Ids are random, so the user a
visit signs up is named by the visit, and `WalletOf` and `GrantRef` give it a
wallet and a ref of its own.  `Age` is the clock: a link is good for a TTL, then
expired for another, then stale, and `Request` prunes what is stale.  That a
visit takes less than a TTL between its first two statements is the assumption
the grace in `prune` is made of.

**Recharge.**  A payment is the provider's checkout session, whose id is the
ref of the mint.  `Announce` starts a handler at any time, with the status the
payment had then; any number of events of one payment may be in progress.
`Credit` is `MintOnce`, `Record` the row, `Answer` the 200, and `CutHook` loses
what is between them, also an answer already sent, which the provider then does
not hear.

**Fair.**  `Visit` runs on the town's goroutine and asks one agent after the
other, so `stage` and `line` are where it is: the office's turns, the square's,
the windows that are due, the sitting's turns and awards, the boundary.  A turn
is one action with everything its answers do (bids, a stay, a purchase, a line
of stock), because nothing else runs meanwhile; what agents answer, and what a
step costs them, is free within the bounds of `week`, the settings the fair
runs with.  `fate` is an agent's flags (`Retired`, `Left`), `accounts` what the
books say of it; an attempt is funded, performed and settled in one action.
`paid` is history: the ticks of standing bought and not yet had.  `stage` is
`stuck` once the ledger has refused something for a late call, and `broken` once
a wallet's name was met twice.

**Week.**  `stage` goes on through the tick of `town.Run`: the door in, the
door out, the walk, the visit, the copy of the books, the record.  `disk` has
the copy and the record, each replaced whole.  `Resume` is a kill and the next
boot in one action, as nothing happens between the two: the books of the copy
(`BooksBack`), every field of `FairState` (`FairBack`; the bids renumbered by
`Load`, the board rebuilt from what was open), the bodies (`TownBack`), the
names at the door (`GuestsBack`) and the trace cut back to the recorded line
(`TraceBack`).  `calls` are the door's handlers: a request is at the select that
hands it to the town (`knocking`), waits for its answer (`inside`), or has been
answered (`told`); `reply` is the buffered channel.  The town takes requests in
`Knock` and `Depart` only, at the start of a tick; `Answer`, `HangUp` and the
closing of the week race, as the two selects of `knock` do.

**Daemon.**  A handler holds `Server.mu` from its checks to its answer, but
for the two writes of `AddAgent`, which `adding` tells apart; the episode's
goroutine holds nothing between its first step and its last, and `pc` is where
it is.  Memory (`up` to `purse`) is lost by `Crash`; the file, the trace, the
accounts and the names of attempt wallets stay.  `mute` is the trace writer's
sticky error and `trace.whole` that no line is torn.  `broken` says what halted
the world, `hold` and `merge` being the refusals above.

**Service.**  `creating`, `editing` and `writing` are operations between two
of their steps: `Create` with its token taken and its row not written or not
yet in the map, `Update` between its check and its lock, and whoever holds
`Service.mu` across a store write, while which nobody else gets it (`Free`).
A message's state is where its handler stands: waiting for its conversation,
in a model call, about to put its question.  `acked`, `said`, `admitted` and
`born` are history: what the owner was last told, what each conversation was
answered, how many messages were let in, and since when.  `desk` is the spec
on the owner's page, which an edit starts from.

### What the models leave out

* Prices in micro-credits, model names, allowlists, prompts, event texts.
* The money a late call moves is `Metered`'s: elsewhere what its hold takes is
  part of what its step cost, and what it gives back later is left out.  Each
  step may leave calls behind or not; whose may, and how often, is bounded.
  In the tracks neither database errors are modelled nor a step that cannot be
  marshalled, only what the ledger refuses; `Daemon` has the errors of the
  roster file and the trace.
* In `Metered` the world has one agent, and rounds are the agent's next steps;
  `settleAgent`'s dust threshold is `Dust`, zero in the run.
* In `Sim` the dust threshold is zero, all windows due are closed one action at
  a time (another event can find only one of them due anyway), and the end of
  the duration and a cancelled context are one action, `Stop`; after it, a
  step's outcome is as free as before, voids included.
* In `SignIn` and `Recharge` tokens are not guessed and signatures not forged;
  the waitlist, `Paid` (a count of `topups`) and `Authenticate` (which reads
  `sessions`) change nothing.
* In `Fair` the notes, limits and notebooks' contents are text; bounties are
  priced alike, and a step's bill is within what its wallet has.
* In `Week` a walk ends anywhere its setting allows: routes and schedules are
  the map's.  Minds and conversations are text.  A lodger is a guest here.
* In `Daemon` one action is a bid step of everybody, and an attempt is paid
  its price or spends none or all of its budget.  The seats' images are there,
  or the boot fails, which is a `Crash`.
* In `Service` there is one owner, a tool call is a round more, and a call
  costs one credit.
* SQLite's transactions and a file's rename are taken as atomic and durable.

## 3. The runs

| run | module | shows |
|---|---|---|
| `ledger` | `MCLedger` | two wallets, a grant and a payment ref, three holds, two credits, refunds one credit past what was spent: conservation, no stranded hold, implements `Purse` (in which a closed purse is final) |
| `metered` | `MCMetered` | one agent, two steps of which at most one bid, two calls, a grant of two: the ladder's burn accounts for the bankroll, voids have a cause of their own, solves are paid once; a step comes to its end, if only to halt the round (liveness) |
| `auction` | `MCAuction` | three bidders, asks below, within and above the range, injective and colliding draws: the award is lawful, a restored book awards as the original |
| `sim` | `MCSim` | two agents, two bounties, one judged, a judge that can pay for one verdict, grants of two, one platform fault or late call: an award has one owner, no idle winner, shelves hold, no error but a late call's; unless a verdict cannot be paid for, it ends, by itself or for a late call (liveness) |
| `sign_in` | `MCSignIn` | one address in two spellings, three links and three visits: a user can spend, a link is one session and an address one user, and no link is pruned between its being spent and its being read |
| `recharge` | `MCRecharge` | one person, one payment of $5 or of 30 cents, by the checkout or by hand, two handlers, two of them cut short: credited exactly once and paid for, nothing answered before it is in both books, and every payment lands (liveness) |
| `week` | `MCWeek` | two agents and a guest, three bounties, two callers, eight kinds of week, one kill or stop: windows in order and in time, ranked work apart, stays as paid for, the ground sold once, no halt but for a torn record or a late call; the gone are frozen, a resume is its record, meetings are news; a caller at the door is told what happened, and is always told |
| `daemon` | `MCDaemon` | two agents, two episodes, a good, a judged and a broken generator, two kills, one failed write, hung-up request or late call: a halt has one of these for its cause, no wallet or number met twice, grants bound to the file, the episode owns the world; an episode ends (liveness) |
| `service` | `MCService` | one agent, two messages, two specs and their edits, one restart, one refused write, a tick of the clock: store, map and owner agree, tokens are the agents', conversations in order, the bucket holds; every message ends (liveness) |
| `metered_bid`, `week_torn`, `daemon_unhealed` | | counterexamples to three comments, see section 5 |

`LadderAccountsForBankroll` speaks of the agent between its steps, so it says
nothing of a settlement that halts; that a refused merge does halt is
`Metered`'s `MergeBack`, and `StopsForLateCallsOnly`, `HaltsForCause` and
`StopsForCause` say what else can.

Six more configurations are kept to be run by hand; each is a counterexample
to a comment that matters less, and section 5 tells of it: `MeteredSpend.cfg`
(`MCMetered`), `Books.cfg` (`MCBooks`), `SimQuiet.cfg` (`MCSim`),
`SignInTwice.cfg` (`MCSignIn`), `WeekGhost.cfg` (`MCWeek`), `ServiceLast.cfg`
(`MCService`).  The type invariants (`...TypeOK`), and the facts of the book
that are proved on their own (`NoWalletOverdrawn`,
`HoldAccountIsOpenHolds`, and the action property `RetiredIsFinal`), are not in
the runs either: add them to a configuration to have TLC look.

### Bounds, and why they are enough

`MaxHolds`, `MaxSupply`, `MaxRefund`, `MaxCalls`, `MaxAttempts`, `MaxBids`,
`MaxSteps`, `MaxBounties` and `MaxFaults` bound what would grow for ever.

*Ledger*: two wallets reach every pair of distinct accounts a leg can join;
three holds give one wallet two and the other one, or a resolved one between
two open ones; two credits split a hold into a charged and a returned part.
What the bound leaves is covered by the proofs, which have none; so is, for
every safety property below, what the other runs' bounds leave.
*Metered*: two calls are enough for one that outlives its step while another is
served; two steps for a fault of the first to be found by the second, in both
mixes of bids and attempts; a grant of two is spent, half spent or untouched.
*Auction*: three bidders are the fewest for which a tie that excludes one bid
exists; the proof covers every book.
*Sim*: with two agents one can be busy while the other wins; two bounties let
one be queued behind the other and windows overlap; two failures and two
reopens reach both shelves, also in turns.  The judge's one verdict runs out, and
with it dry the judged bounty is voided again and again, over finitely many
states; that world need not end (`SimQuiet.cfg`), so `SimEnds` is asked of the
behaviours in which no verdict is left unpaid.  `MaxFaults` counts the bid steps
that leave a call behind with the faults: one is enough to refuse a
retirement or a budget.  A refused merge needs no bound: it ends the world.

*SignIn*: three visits are two that sign up at once and one that comes back;
three links of one address are what they need.  *Recharge*: one payment is
enough, because payments share nothing but the ledger; two handlers are the
fewest that race, and two cuts hit both, or one event and its repetition.  What
these bounds leave is covered by the proofs, but for the liveness.

*Week*: everything at once is beyond TLC, so each behaviour draws one of eight
settings that exercises what interacts: `Bidding` (five ticks, lots drawn,
walks into the street; two agents tie, windows stay empty, fail and reopen to
the shelf), `Shops` (a notebook, a stall, the square), `Stays` (stays of two
ticks under a kill), `Sits` (a sitting between two postings, under a kill),
`Doors` (a guest who knocks, goes, and knocks again after a kill), `Peddler`
(a guest with the only stall, who leaves), `Queue` (two callers for one name
at the door of a week that closes) and `Late` (an agent whose calls outlive its
steps while it bids, stays, buys and goes broke).  `Sits` has such an agent too,
at the sitting and under a kill; the setting's `late` says whose calls may, and
keeps the other six free of it.  A window is one tick long, so that
three ticks post, close and reopen one; grants of two go broke within a week.
One kill finds every pair of a record and a later step.  *Daemon*: two kills
hit a boot, a submission and an episode, also one after the other; two episodes
carry bounties and wallets from one to the next; one fault loses one write, or leaves one
call behind.
*Service*: two messages are the fewest that wait for each other, a history of
two and a bucket of one are full at once; a conversation is evicted by the
second; an edit overlaps with an answer, a delete and a message.  `editing` is
a single slot, so two checks of two edits are never open at once: an edit finds
the other's result, not its middle.

### Fairness

`MeteredFairness`: a handler that was begun proceeds (a provider call returns,
with an answer or an error: the proxy's provider client has a timeout), and the
orchestrator's goroutine proceeds when it is not waiting for the round: its
steps are ledger calls, or a container that the runner kills at its wall clock.
Nothing is assumed of clients: they need not call or disconnect.
`SimFairness`: the ticker ticks, deadlines pass, workers report (a step has a
wall clock), and the actor takes up what is ready.  `Stop` is not fair: that
the world ends does not rest on somebody ending it.  Go's select picks among
ready cases at random, and a window that is due stays due, so weak fairness of
each case is what the runtime gives.

`RechargeFairness`: a handler proceeds, and the provider repeats an event until
it is answered (for three days, `billing.go:189`, which no outage is assumed to
outlast).  The second is strong fairness, because that a handler of the model
must be idle for an event to arrive is the model's bound: the server takes up
every request.  Cuts are finitely many, for the same reason.

`DaemonSpec`: the episode's goroutine runs, and its steps have wall clocks;
nobody need submit or start anything.  `ServiceSpec`: every message's handler
goes on (model calls have a deadline, and a mutex whose holder goes on is
handed over, in Go's case to the longest waiting after a millisecond), and a
store write returns.  `FairWeekSpec`: the town's ticker ticks and its goroutine
goes on (no knock can hold the tick up: that the town takes a request is not
assumed, only that it walks on), and a handler whose answer is there writes it.
Callers need neither call nor hang up, and nothing need be killed.

`CHECK_DEADLOCK FALSE` is set where the system may stop: a ledger whose bounded
supply is closed, a halted or finished round, an awarded auction, an ended
world, links and payments that are all used, a closed week, messages and edits that
are all spent.

## 4. The proofs

All are for every value of the constants, assumed only to be what the named
`ASSUME`s say.  Every safety invariant and every action property that a passing
run checks is proved, and so is the refinement; what is not is listed at the
end.  Each proof has the same shape: an invariant in named parts, one lemma for
each step (or for each part and each step that can disturb it), and the
theorems read off it.  Every invariant was first given to TLC on its run's
instance.

Where a definition computes along a sequence or a set - sums, scans, filters, a
fold - its facts are inductions, and the prover has none over a formula of ours.
They are done by least counterexample: the naturals are well-ordered, so a fact
that failed would fail first somewhere, and the step before it gives the
contradiction.  A recursive function is first shown to exist in the same way.

**The book (`LedgerProofs`).**  `LedgerInv` is the type invariant with
`Conserved`, `NoWalletOverdrawn`, `HoldAccountIsOpenHolds` and
`OpenHoldsCanLand`.  The conjunction is inductive as it stands, although most
of its parts alone are not (a resolution, for one, adds to the right sum only
if the hold's row was in it): every operation moves the credits and writes
the row that explains them in one transaction, and that is what the proof rests
on.  The argument goes by lemmas on what a posting does (`Post` adds up its
legs, keeps the total, overdraws nobody and leaves closed wallets alone), one
lemma per operation over those, and the facts about sums with which the module
begins (a sum changes by what its one changed entry changes by).
`RetirementIsFinal` follows from the lemma that every step is a posting or
leaves the balances alone.

**The purses (`LedgerProofs`).**  `LedgerSpec => ImplementsPurses`: with worth
read as balance plus what open holds reserve, `Hold` and `Release` stutter,
`Settle` is `Charge` of the measured cost (or a stutter if nothing was
charged), and every other operation maps to its namesake.  A hold's wallet is
worth at least what it reserves, which is why a charge is always affordable.

**The auction (`AuctionProofs`).**  `AwardIsLawful`, from the invariant
`AuctionInv`: the book is in arrival order, also after a restart (which is what
`Load`'s renumbering is for), and there is no award before the book is closed,
so no later bid can beat a winner.  Each scan is shown to leave a bid that goes
before every bid scanned so far; the second keeps the price of the first, which
is what lets it start from its result.  `RestoredBooksAwardAlike` rests on
`SavedBegins`: the checkpointed book is the beginning of the live one, but for
the arrival numbers it drops.  Since the live numbers are the places themselves
(`InArrivalOrder`), what a load renumbers is that beginning bid for bid
(`LoadedIsTheBook`), and the award falls on the same book.

**Signing in and recharging (`RechargeProofs`).**  Nothing holds the two
databases together but the order of the writes, so the invariants say, of every
stage of a request, what it is past.  `SignInInv` has `SignUpOrder` (before its
look-up a visit's wallet and grant are untouched; at the row both are there;
from the check on the user it has in hand has a row), `LinkOrder` (a presented
link is never presentable again, and is still there while it has to be read),
`SessionOrder` and `OneUserPerAddress`; `UsersCanSpend` and
`LinkOpensOneSession` follow.  One thing it shows of the code: `ensureFunded`
never finds a wallet missing, as no cut leaves a user without one.
`RechargeInv` adds `HookOrder` (a handler about to write the row finds the mint
there, one about to answer for a cleared payment finds both) and
`PayersAreKnown` (who opened a checkout has a row, so an event that is owed is
never dropped as a stranger's).  `WalletsAddUp` is then that a wallet holds its
grant and its payments exactly: a mint adds one term to one user's sum, a bill
once minted keeps its payer and its amount, and a sum over a finite set does not
depend on the order in which the library's fold takes its elements.  Both
specifications are steps of `Ledger`, so `LedgerInv` is proved of them by citing
`LedgerProofs`.  The assumptions are that wallets and grant refs are the users'
own, that no grant carries a payment's ref, and that a payment's credits are
within the supply's bound.

**An agent under the meter (`MeteredProofs`).**  `MeteredInv` says at each point
of a step where the attempt's credits are.  `OwnHolds`: a hold belongs to the
one call that took it, which alone resolves it, so a call of a dead step cannot
resolve another's.  `Budgets`: an attempt's wallet is worth (balance and open
holds together) at most the budget moved into it, so what is merged back was
its own; `Accounts`: grant and payouts are the bankroll, the burn account, the
recorded burns, and what is `Out` with the attempt under way, as long as nothing
of the bankroll's own was ever held, the exception the property makes.
`Faults`: a fault was recorded only where a hold on that wallet was not settled
and never will be (`Failed`), which no later step can undo; `Solves` ties the
paid solves to the payout's mints.  `LadderIsTrue`, `VoidsAreJust` and
`SolvesStand` follow, and `MeteredKeepsTheBook`: `LedgerInv` again.  Assumed: the
attempts' wallets differ from each other and from the bankroll, and the refs of
grant and payout differ.

**The real-time track (`SimProofs`).**  `SimInv` says where a bounty is.
`OpenWindows`: on a window at most once, and then open, on no shelf and not
attempted this tick; `Books`: the bids of a window are in arrival order;
`Shelves`; `Owned`: what is queued or attempted is awarded to that agent, held
once, and what is awarded is held by somebody; `Fresh`: nothing queued has been
attempted this tick.  The parts are operators of board, windows, jobs and queues
because `dispatchNext` starts in the middle of an event, from what the award or
the report before it has left: it is proved once, of any such state.
`OnlyLateCallsStopIt` (neither is an award refused, nor a wallet's name met
twice, and what the ledger refuses is for a late call) rests on `OpenWindows` and
`Fresh`; `AwardsAreHeldOnce`, `NobodyIdles` and `ShelvesHold` follow.  A world
that is stuck stays as the refusal left it, an award without its owner included,
so the invariant is `SimInv \/ Stuck`: `Stuck` keeps the types, the shelves and
that somebody is in `outlived`.

**The daemon (`DaemonProofs`).**  `DaemonInv` is what memory owes the disk.
`Remembered`: the roster is the file's while the process is up, and the epoch
too unless its write is what halted the world; `Booting` and `AddingOrder`: whom
a boot has seated, and what the books know of an agent half way through
`AddAgent`; `WalletsAreSpent`: which attempt wallets of this epoch the books can
know at each stage of a round, which is why no name is met twice although a kill
loses the round (`epoch` is on disk before its first wallet is opened);
`Numbering`; `SeatsAreEntries`: two seats of one name are two entries of the
file, the one case in which the settlement of a seat meets a wallet that is
closed already.  An open hold is the other refusal of a retirement, and needs a
late call of that very agent (`outlived`).  `HaltsAreJust`,
`NumbersAreNew`, `GrantsAreBound` and `EpisodesAreExclusive` follow.  Assumed:
fewer than a hundred rounds, and that postings are within `MaxBounties`.

**The agent service (`ServiceProofs`).**  `ServiceInv` joins three arguments.
Of one agent (`Making`, `Ahead`, `Agree`): store, map and owner agree, except
while a write is under way, and then the store is ahead by exactly that write.
Of its bucket (`Poured`): what was let in and what is left is at most what was
poured since it was made.  Of a conversation (`InTurn`): it has one call at a
time from its first model call to its last word, and the history that call was
given is still the conversation's.  `TheStoreIsAhead`, `TokensGoWithTheAgents`,
`BucketsHold` and `HistoriesAreInOrder` follow.

**The fair in its town (`WeekProofs`).**  A resume makes the record the world, so
whatever is to survive it must be true of the record as well: the parts are
operators, stated once of the variables and once of `disk.record`.  `WeekInv`
is about people: `Folk` (roster, fates, bodies and accounts agree) and
`FolkRecorded`, `AtTheDoor` (a request taken has its reply, and the reply is what
happened), `Met`, `Standings` (what is left of a stay is what was bought and not
stood, with the tick between the walk and the visit) and `Ground`.
`StaysArePaidFor`, `GroundIsSold`, `CallersHearTheTruth`, `TheGoneAreFrozen` and
`MeetingsAreOnlyNews` follow.  `FairInv` adds the market: `Market` (windows are of
different bounties, on sale, neither shelved nor withdrawn nor cards, and hold
the bids of those they were shown to; the ladder is cards, each once), `Table`
(the cards of a sitting), `MarketRecorded`, `Written` (the record has its fields
and no others), `Square` (who is in the roster is closed in the books exactly if
bankrupt), `Clock` (copy and record are of one boundary or of two successive
ones, and the world is at the record's tick or the next) and `Fresh` (of one
boundary, nothing under a window or on the table was attempted this tick).
`WindowsStayInOrder`, `RankedIsApart` and `ResumeGivesTheRecordBack` follow, and
`OnlyCausesStopIt`: by `Fresh` no wallet's name is met twice, and by `Square` no
boot is refused, unless books and record are of different boundaries - the case
of `WeekTorn.cfg`, which is thereby shown to be the only one for these two
errors.  What else ends a visit is a refusal of the ledger, and then there is
somebody here who is in `outlived`.  Assumed:
the deck and the sittings' cards are within `MaxBounties`, guests are not of the
cast, and the settings have the types the program's flags give them.

**Only model-checked**: liveness (`RoundGoesOn`, `SimEnds`,
`EveryPaymentLands`, `EpisodesEnd`, `EveryMessageEnds`, `EveryCallEnds`), which is
out of TLAPS's reach here; and the three counterexamples, with those kept to be
run by hand.

## 5. Where the code and its words disagree

Checked by a run:

1. `metered_bid`.  `orchestrator.go:696`: "Nothing in here can fail the round".
   A bid step's call whose client went away leaves its hold open on the
   bankroll; once the bankroll is dust, `Retire` fails, and so does the round.
   The same error ends `RunSim` (`sim.go:318`, `487`) and the fair's `Visit`
   (`fair.go:426`, `734`).
2. `week_torn`.  `cmd/phylumd/fair.go:239-241`: books and record "are always of
   the same boundary".  They are two files replaced one after the other; a kill
   between the two leaves new books beside the old record, and the boot, which
   compares only who is closed and who is retired, does the tick again over
   money that has moved.
3. `daemon_unhealed`.  `roster.go:19-22`: a crash is healed at boot "by minting
   once".  `AddAgent` opens the account in one transaction and mints in a
   second; after a kill, or a hung-up request, between the two, boot finds an
   account and readmits it with nothing.

By hand:

4. `MeteredSpend.cfg`.  `settle.go:149-150` reads the attempt wallet as the
   whole of what was not spent because "the proxy resolves every hold inline,
   before the step returns".  A step that is killed returns while its handler
   still holds credits; they count as burned, and when they come back they stay
   in a wallet nobody reads again.  (The bankroll and the ladder still agree,
   which `LadderAccountsForBankroll` shows: the agent pays for the loss.)
5. `Books.cfg`.  `audit.go:23` and the README's `drift=0`: the report reads
   five totals without the lock, and a status request during an episode can see
   drift in a book that balances.
6. `SimQuiet.cfg`.  `sim.go:344` calls the shelf for failures "the one that
   makes quiet total"; voids count no failure and an award clears the reopens,
   so a judged bounty nobody can judge keeps a run without a duration going for
   ever.
7. `SignInTwice.cfg`.  `account.go:268-269`: "every verified link opens a new
   session".  Of two links to a new address verified at once, both sign up, and
   the second row is refused: its link is spent, its visitor has no session, and
   its grant stays in a wallet nobody was issued, which `account.go:311-312`
   expects of a failure only.
8. `WeekGhost.cfg`.  `cmd/phylumd/fair.go:314-317`: after a leaving the record
   stops naming the file and "the name stays taken".  A resumed world takes its
   taken names from the record, so the name of who left is free again; a second
   knock is registered before the books refuse its wallet, and the record names
   a guest that has no body.
9. `ServiceLast.cfg`.  `service.go:499-501`: on a delete "a message in flight
   completes - the hold was taken".  One that waits for its conversation, or is
   between two tool rounds, holds nothing, and its next call is refused.

Seen while modelling, and in the models as the code has it:

* A submitter who hangs up inside `AddAgent` leaves its entry in the roster;
  submitting the same name again, if the account was not yet there, appends a
  second entry, and the next boot seats the agent twice.  When the first seat
  is retired, the second's settlement retires a closed account, which halts the
  world; `HaltsForCause` excepts it by name (`Twice`).
* A hold that a cancelled call leaves open is never released: the agent it
  belongs to cannot be retired any more, and every later episode of the daemon,
  and every resume of the fair from books that have it, halts at its first
  sweep.
* `fair.go:809` and `955` say of stays and purchases "Nothing here can fail the
  tick".  The balance is read and the charge posted in two transactions; a late
  call of the step may reserve in between, and the refused charge is returned
  by `Visit` (`OfficeRefused`, `SquareRefused`).
* An edit made from a page that was read before an answer was given writes the
  memory the page had: the answer's line is gone (`UpdateCheck` takes `desk`).
* A kill in the middle of an attempt leaves its budget in the attempt's wallet:
  no boot of the daemon looks for it.
* A caller told that its guest is seated has that of a tick not yet recorded: a
  kill before the boundary, and the resumed week has no such guest
  (`AnswerIsWhatHappened` speaks of the world only until a kill).
* A torn last line of the trace makes every later boot of the daemon refuse
  (`up = "refused"`), until somebody cuts the line off.

## 6. The plan

The order is by what would hurt most: money and the two tracks that share it,
the two databases in which people sign in and pay, then what survives a crash
and the outer services.  The modules for all of these are there.  What is left:

| work | what it would say |
|---|---|
| `Service` with two agents | conversations of one evicted while the other's go on |
| an abstract market | one owner per award, implemented by `Sim` and by `Fair` |
| a tail of the trace | a reader of a growing file misses and repeats nothing, also when the file is truncated by a resume |

Theorems done: every safety invariant and action property of the passing runs,
and the ledger's refinement (section 4).

## 7. Not modelled

Prompts and offline minds, generators and suites, the container runner, pages
and operator commands keep no state of their own or are I/O; where they can
fail, the models above let them.  The grader's protocol, the mailer and the
payment provider are external: what the code learns from them is any answer, or
none.
