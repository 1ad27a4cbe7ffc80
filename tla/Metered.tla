------------------------------- MODULE Metered -------------------------------
(***************************************************************************)
(* One agent's steps under the meter: the bid steps it takes from its      *)
(* bankroll and the attempts it makes from a wallet of their own           *)
(* (internal/orchestrator/settle.go, and bidStep and attempt of            *)
(* orchestrator.go), while the proxy serves the calls its container makes. *)
(*                                                                         *)
(* The orchestrator reads a balance, decides, and then posts: every ledger *)
(* operation is an action of its own, because a handler may post between   *)
(* two of them.  A step ends when the container does, which may be while a *)
(* call is in flight: the runner kills it at its wall clock.               *)
(***************************************************************************)
EXTENDS Proxy, FiniteSets

CONSTANTS
    Bankroll,      \* the agent's wallet
    MaxAttempts,   \* bound: attempts made
    MaxBids,       \* bound: bid steps taken
    MaxSteps,      \* bound: attempts and bid steps together
    AttWallet,     \* attempt number -> its wallet, fresh for every attempt
    AttToken,      \* attempt number -> its token
    BidToken,      \* the token of the bid steps
    Grant,         \* the signing grant AddAgent minted
    Ceiling,       \* the bounty's token ceiling, 0 for none
    AskedPrice,    \* what a solved bounty pays
    Dust,          \* Config.Dust
    GrantRef, PayoutRef

ASSUME MeteredAssumption ==
    /\ {MaxAttempts, MaxBids, MaxSteps, Grant, AskedPrice, Ceiling} \subseteq Nat
    /\ Bankroll \in Wallet
    /\ AttWallet \in [1..MaxAttempts -> Wallet \ {Bankroll}]
    /\ \A i, j \in 1..MaxAttempts : AttWallet[i] = AttWallet[j] => i = j
    /\ {GrantRef, PayoutRef} \subseteq Ref /\ GrantRef # PayoutRef
    /\ Dust \in Int /\ Dust < Grant

VARIABLES
    pc,       \* where the orchestrator is
    att,      \* the current or last attempt, 0 before the first
    bids,     \* bid steps taken
    budget,   \* per attempt, what fundAttempt decided
    seen,     \* the balance last read
    outcome,  \* per attempt, what performAttempt concluded
    result,   \* per attempt, what settleAttempt made of it
    burned,   \* per attempt, budget - after: what the ladder is told
    retired   \* Agent.Retired

orchVars == <<pc, att, bids, budget, seen, outcome, result, burned, retired>>
meteredVars == <<ledgerVars, proxyVars, orchVars>>

Outcome == {"solved", "wrong", "agentFault", "runErr", "judgeErr"}

MeteredTypeOK ==
    /\ LedgerTypeOK
    /\ ProxyTypeOK
    /\ pc \in {"idle", "bidding", "bidEnd", "opening", "funding", "attempting", "attemptEnd",
               "reading", "merging", "retiring", "attributing", "paying", "refunding",
               "settling", "burning", "closing", "halted"}
    /\ att \in 0..MaxAttempts /\ bids \in 0..MaxBids
    /\ budget \in [1..MaxAttempts -> Nat] /\ seen \in Nat
    /\ outcome \in [1..MaxAttempts -> Outcome \cup {"none"}]
    /\ result \in [1..MaxAttempts -> {"none", "solved", "failed", "voided"}]
    /\ burned \in [1..MaxAttempts -> Int]
    /\ retired \in BOOLEAN

\* The world after AddAgent: the wallet exists and holds its grant.
MeteredInit ==
    /\ balance = [a \in Account |-> IF a = Bankroll THEN Grant
                                    ELSE IF a = AcctMint THEN -Grant ELSE 0]
    /\ status = [w \in Wallet |-> IF w = Bankroll THEN "open" ELSE "absent"]
    /\ holds = [h \in HoldId |-> Unused]
    /\ mints = [r \in Ref |-> IF r = GrantRef THEN 1 ELSE 0]
    /\ ProxyInit
    /\ pc = "idle" /\ att = 0 /\ bids = 0 /\ seen = 0
    /\ budget = [i \in 1..MaxAttempts |-> 0]
    /\ outcome = [i \in 1..MaxAttempts |-> "none"]
    /\ result = [i \in 1..MaxAttempts |-> "none"]
    /\ burned = [i \in 1..MaxAttempts |-> 0]
    /\ retired = FALSE

wallet == AttWallet[att]

-----------------------------------------------------------------------------
\* performBidStep: the step spends from the bankroll itself.
StartBid ==
    /\ pc = "idle" /\ ~retired /\ bids < MaxBids /\ att + bids < MaxSteps
    /\ bids' = bids + 1
    /\ Authorize(BidToken, Bankroll)
    /\ faulted' = faulted \ {Bankroll}
    /\ pc' = "bidding"
    /\ UNCHANGED <<ledgerVars, calls, att, budget, seen, outcome, result, burned, retired>>

EndBid ==
    /\ pc = "bidding"
    /\ pc' = "bidEnd"
    /\ UNCHANGED <<ledgerVars, proxyVars, att, bids, budget, seen, outcome, result, burned, retired>>

\* The deferred calls, whatever the step came to.
CloseBid ==
    /\ pc = "bidEnd"
    /\ Revoke(BidToken)
    /\ faulted' = faulted \ {Bankroll}
    /\ pc' = "idle"
    /\ UNCHANGED <<ledgerVars, calls, att, bids, budget, seen, outcome, result, burned, retired>>

\* fundAttempt reads the bankroll, opens the wallet and moves the budget.  A
\* retired winner's bounty is voided without an attempt.
StartAttempt ==
    /\ pc = "idle" /\ ~retired /\ att < MaxAttempts /\ att + bids < MaxSteps
    /\ att' = att + 1
    /\ budget' = [budget EXCEPT ![att + 1] =
                     IF Ceiling <= 0 \/ Ceiling > balance[Bankroll] THEN balance[Bankroll]
                                                                    ELSE Ceiling]
    /\ pc' = "opening"
    /\ UNCHANGED <<ledgerVars, proxyVars, bids, seen, outcome, result, burned, retired>>

OpenAttempt ==
    /\ pc = "opening"
    /\ CreateAccount(wallet)
    /\ pc' = "funding"
    /\ UNCHANGED <<proxyVars, att, bids, budget, seen, outcome, result, burned, retired>>

\* An operation of the ledger that is refused ends the round, and the world
\* with it: every error of the money path is returned to RunEpisode's caller.
Halt == UNCHANGED ledgerVars /\ pc' = "halted"

CanMove(from, to, amount) == CanPost(Leg(from, -amount), Leg(to, amount), NoLeg)

TransferOrHalt(from, to, amount, next) ==
    \/ amount > 0 /\ Transfer(from, to, amount) /\ pc' = next
    \/ amount > 0 /\ ~CanMove(from, to, amount) /\ Halt
    \/ amount <= 0 /\ UNCHANGED ledgerVars /\ pc' = next

FundAttempt ==
    /\ pc = "funding"
    /\ TransferOrHalt(Bankroll, wallet, budget[att], "attempting")
    /\ IF pc' = "halted" THEN UNCHANGED <<tokens, faulted>>
       ELSE Authorize(AttToken[att], wallet) /\ faulted' = faulted \ {wallet}
    /\ UNCHANGED <<calls, att, bids, budget, seen, outcome, result, burned, retired>>

\* performAttempt's step ends: an answer right or wrong, the container's own
\* failure, the runner's, or, of a submission a judge must read, the judge's.
EndAttempt ==
    /\ pc = "attempting"
    /\ \E what \in Outcome : outcome' = [outcome EXCEPT ![att] = what]
    /\ pc' = "attemptEnd"
    /\ UNCHANGED <<ledgerVars, proxyVars, att, bids, budget, seen, result, burned, retired>>

CloseAttempt ==
    /\ pc = "attemptEnd"
    /\ Revoke(AttToken[att])
    /\ pc' = "reading"
    /\ UNCHANGED <<ledgerVars, calls, faulted, att, bids, budget, seen, outcome, result, burned, retired>>

-----------------------------------------------------------------------------
\* settleAttempt, one ledger operation at a time.
ReadAttempt ==
    /\ pc = "reading"
    /\ seen' = balance[wallet]
    /\ burned' = [burned EXCEPT ![att] = budget[att] - balance[wallet]]
    /\ pc' = "merging"
    /\ UNCHANGED <<ledgerVars, proxyVars, att, bids, budget, outcome, result, retired>>

MergeBack ==
    /\ pc = "merging"
    /\ TransferOrHalt(wallet, Bankroll, seen, "retiring")
    /\ seen' = 0
    /\ UNCHANGED <<proxyVars, att, bids, budget, outcome, result, burned, retired>>

\* Mutant: a refused retirement is waited for.
RetireAttemptWaits ==
    /\ pc = "retiring"
    /\ Retire(wallet)
    /\ pc' = "attributing"
    /\ UNCHANGED <<proxyVars, att, bids, budget, seen, outcome, result, burned, retired>>

\* "Log, don't halt": a refused retirement is passed over.
RetireAttempt ==
    /\ pc = "retiring"
    /\ \/ Retire(wallet)
       \/ OpenHolds(wallet) # {} /\ UNCHANGED ledgerVars
    /\ pc' = "attributing"
    /\ UNCHANGED <<proxyVars, att, bids, budget, seen, outcome, result, burned, retired>>

\* Mutant: a fault negates a solve.
SolvedWithoutFault == outcome[att] = "solved" /\ wallet \notin faulted

Solved == outcome[att] = "solved"

\* Mutant: whoever faulted, this attempt is voided.
AnyFault == outcome[att] \in {"runErr", "judgeErr"} \/ faulted # {}

PlatformFault == outcome[att] \in {"runErr", "judgeErr"} \/ wallet \in faulted

\* The attribution table: success stands, a platform fault voids a failure,
\* anything else is the agent's.  The board is resolved here; for a void the
\* code refunds first, and only then tells the board.
Attribute ==
    /\ pc = "attributing"
    /\ \/ /\ Solved
          /\ result' = [result EXCEPT ![att] = "solved"]
          /\ pc' = "paying"
       \/ /\ ~Solved /\ PlatformFault
          /\ pc' = "refunding"
          /\ UNCHANGED result
       \/ /\ ~Solved /\ ~PlatformFault
          /\ result' = [result EXCEPT ![att] = "failed"]
          /\ pc' = "settling"
    /\ faulted' = faulted \ {wallet}
    /\ UNCHANGED <<ledgerVars, tokens, calls, att, bids, budget, seen, outcome, burned, retired>>

Pay ==
    /\ pc = "paying"
    /\ Mint(Bankroll, AskedPrice, PayoutRef)
    /\ pc' = "settling"
    /\ UNCHANGED <<proxyVars, att, bids, budget, seen, outcome, result, burned, retired>>

\* Mutant: the whole budget is refunded, as if nothing had come back.
RefundBudget ==
    /\ pc = "refunding"
    /\ TransferOrHalt(AcctProvider, Bankroll, budget[att], "idle")
    /\ result' = IF pc' = "halted" THEN result ELSE [result EXCEPT ![att] = "voided"]
    /\ UNCHANGED <<proxyVars, att, bids, budget, seen, outcome, burned, retired>>

\* A voided attempt is not followed by settleAgent.
RefundAttempt ==
    /\ pc = "refunding"
    /\ TransferOrHalt(AcctProvider, Bankroll, burned[att], "idle")
    /\ result' = IF pc' = "halted" THEN result ELSE [result EXCEPT ![att] = "voided"]
    /\ UNCHANGED <<proxyVars, att, bids, budget, seen, outcome, burned, retired>>

-----------------------------------------------------------------------------
\* runRound settles every live agent before it posts anything.
StartRound ==
    /\ pc = "idle" /\ ~retired
    /\ pc' = "settling"
    /\ UNCHANGED <<ledgerVars, proxyVars, att, bids, budget, seen, outcome, result, burned, retired>>

\* settleAgent, the bankruptcy rule.
ReadBankroll ==
    /\ pc = "settling"
    /\ \/ balance[Bankroll] > Dust /\ pc' = "idle" /\ seen' = 0
       \/ balance[Bankroll] <= Dust /\ pc' = "burning" /\ seen' = balance[Bankroll]
    /\ UNCHANGED <<ledgerVars, proxyVars, att, bids, budget, outcome, result, burned, retired>>

BurnDust ==
    /\ pc = "burning"
    /\ \/ seen > 0 /\ Burn(Bankroll, seen) /\ pc' = "closing"
       \/ seen > 0 /\ ~CanMove(Bankroll, AcctBurn, seen) /\ Halt
       \/ seen = 0 /\ UNCHANGED ledgerVars /\ pc' = "closing"
    /\ seen' = 0
    /\ UNCHANGED <<proxyVars, att, bids, budget, outcome, result, burned, retired>>

RetireAgent ==
    /\ pc = "closing"
    /\ \/ Retire(Bankroll) /\ retired' = TRUE /\ pc' = "idle"
       \/ OpenHolds(Bankroll) # {} /\ Halt /\ UNCHANGED retired
    /\ UNCHANGED <<proxyVars, att, bids, budget, seen, outcome, result, burned>>

-----------------------------------------------------------------------------
Orchestrate ==
    \/ StartBid \/ EndBid \/ CloseBid
    \/ StartAttempt \/ OpenAttempt \/ FundAttempt \/ EndAttempt \/ CloseAttempt
    \/ ReadAttempt \/ MergeBack \/ RetireAttempt \/ Attribute \/ Pay \/ RefundAttempt
    \/ StartRound \/ ReadBankroll \/ BurnDust \/ RetireAgent

\* Only a running container makes calls, with the token of its step; one sent
\* just before the container ends may still arrive until the token is revoked.
Serve ==
    \E c \in Call :
        \/ \E t \in Token : Arrive(c, t) /\ UNCHANGED orchVars
        \/ Handle(c) /\ UNCHANGED orchVars
        \/ Disconnect(c) /\ UNCHANGED orchVars

MeteredNext == Orchestrate \/ Serve

MeteredSpec == MeteredInit /\ [][MeteredNext]_meteredVars

\* The proxy serves every request it has begun, the runner ends every step
\* within its wall clock, and the orchestrator's goroutine keeps running.
MeteredFairness ==
    /\ \A c \in Call : WF_meteredVars(Handle(c) /\ UNCHANGED orchVars)
    /\ WF_meteredVars(pc # "idle" /\ Orchestrate)

FairMeteredSpec == MeteredSpec /\ MeteredFairness

-----------------------------------------------------------------------------
Attempts(kinds) == {i \in 1..MaxAttempts : result[i] \in kinds}
BurnedBy(i) == IF result[i] \in {"solved", "failed"} THEN burned[i] ELSE 0
RecordedBurn == Total(MaxAttempts, [i \in 1..MaxAttempts |-> BurnedBy(i)])
EverHeld(w) == \E h \in HoldId : holds[h] # Unused /\ holds[h].wallet = w

\* The ladder's burn column is the truth about the bankroll: between steps, an
\* agent whose bids cost nothing has exactly its grant and its payouts less
\* what was recorded against it, so a voided attempt was free, a budget came
\* back once, and nothing an attempt spent escaped the record, even when its
\* calls outlived it (settle.go:149-222).
LadderAccountsForBankroll ==
    pc = "idle" /\ ~EverHeld(Bankroll) =>
        Grant + AskedPrice * mints[PayoutRef]
            = balance[Bankroll] + RecordedBurn + balance[AcctBurn]

\* A failed attempt is voided for the platform's own fault only: the runner's,
\* the judge's, or a call of that very attempt that was not settled; never for
\* a fault some earlier step left behind (orchestrator.go:399-403).
VoidHasItsOwnFault ==
    \A i \in Attempts({"voided"}) :
        \/ outcome[i] \in {"runErr", "judgeErr"}
        \/ \E h \in HoldId : /\ holds[h] # Unused
                            /\ holds[h].wallet = AttWallet[i]
                            /\ holds[h].state # "settled"

\* Success always stands and is paid once, whatever the proxy recorded about
\* the attempt (settle.go:177-183).
SolvesArePaidOnce ==
    /\ \A i \in Attempts({"failed", "voided"}) : outcome[i] # "solved"
    /\ pc = "idle" => mints[PayoutRef] = Cardinality(Attempts({"solved"}))

\* However its calls end, a step ends: the orchestrator always comes back to
\* the round or gives the round up, and is never stuck behind a hold nobody
\* will resolve (settle.go:171-175).
RoundGoesOn == []<>(pc \in {"idle", "halted"})

(***************************************************************************)
(* What comments say and the code does not do.                             *)
(***************************************************************************)

\* settle.go:149-150, where an attempt's spend is read: "already settled: the
\* proxy resolves every hold inline, before the step returns".
SpendIsSettled == pc = "reading" => OpenHolds(wallet) = {}

\* orchestrator.go:696, of a bid step: "Nothing in here can fail the round".
\* With no attempt ever made, only bid steps have called anything.
BidStepCannotFailTheRound == att = 0 => pc # "halted"
=============================================================================
