---------------------------- MODULE MeteredProofs ----------------------------
(***************************************************************************)
(* One agent's steps under the meter, for every number of attempts, bid    *)
(* steps, calls and holds.  Calls and the orchestrator interleave at every *)
(* ledger operation, and a call may outlive the step it was made in, so    *)
(* the invariant says of every point of a step where the attempt's credits *)
(* are, and of every call which hold is its own.                           *)
(***************************************************************************)
EXTENDS Metered, LedgerProofs, FiniteSetTheorems

\* One more of a price is the price more.
LEMMA OneMore ==
    ASSUME NEW n \in Int, NEW k \in Int
    PROVE  n * (k + 1) = n * k + n /\ n * k \in Int
OBVIOUS

\* A request, by how far its handler is.
Handler ==
    [pc : {"new", "done"}, live : {FALSE}]
        \cup [pc : {"authorized"}, live : BOOLEAN, wallet : Wallet]
        \cup [pc : {"invoked", "answered", "faulted", "recording"}, live : BOOLEAN,
              wallet : Wallet, hold : HoldId]

\* The attempt is under way, and nothing has been made of it yet.
Underway == {"opening", "funding", "attempting", "attemptEnd", "reading", "merging",
             "retiring", "attributing", "refunding"}

Types ==
    /\ MeteredTypeOK
    /\ calls \in [Call -> Handler]
    /\ pc \in Underway => att # 0 /\ result[att] = "none"
    /\ \A i \in 1..MaxAttempts : i > att => result[i] = "none"

\* The calls that have taken a hold, and have not settled it or given up.
Holding(c) == calls[c].pc \in {"invoked", "answered", "faulted", "recording"}

\* A hold belongs to the one call that took it, which alone resolves it.
OwnHolds ==
    /\ \A c \in Call : Holding(c) =>
          /\ holds[calls[c].hold] # Unused
          /\ holds[calls[c].hold].wallet = calls[c].wallet
          /\ holds[calls[c].hold].state # "settled"
          /\ calls[c].pc # "recording" => holds[calls[c].hold].state = "open"
    /\ \A c, d \in Call : Holding(c) /\ Holding(d) /\ calls[c].hold = calls[d].hold => c = d

\* A call on this wallet was not settled, and now never will be.
Failed(w) ==
    \E h \in HoldId :
        /\ holds[h] # Unused /\ holds[h].wallet = w /\ holds[h].state # "settled"
        /\ \A c \in Call : calls[c].pc \in {"invoked", "answered"} => calls[c].hold # h

Voiding(i) == result[i] = "voided" \/ (i = att /\ pc = "refunding")

Faults ==
    /\ \A w \in faulted : Failed(w)
    /\ \A i \in 1..MaxAttempts :
          Voiding(i) => outcome[i] \in {"runErr", "judgeErr"} \/ Failed(AttWallet[i])

Solves ==
    /\ \A i \in 1..MaxAttempts : Voiding(i) \/ result[i] = "failed" => outcome[i] # "solved"
    /\ Cardinality(Attempts({"solved"})) = mints[PayoutRef] + (IF pc = "paying" THEN 1 ELSE 0)

\* An attempt's wallet is worth at most the budget that was moved into it.
Funded(i) == i < att \/ (i = att /\ pc \notin {"opening", "funding"})
Budgets ==
    \A i \in 1..MaxAttempts : Worth(AttWallet[i]) <= IF Funded(i) THEN budget[i] ELSE 0

\* What of the bankroll's credits the attempt under way has: its budget until
\* the rest has come back, then what it burned.
Out ==
    IF pc \in {"attempting", "attemptEnd", "reading", "merging"} THEN budget[att]
    ELSE IF pc \in {"retiring", "attributing", "refunding"} THEN burned[att] ELSE 0

Burns ==
    /\ pc = "merging" => burned[att] = budget[att] - seen
    /\ pc \in {"merging", "retiring", "attributing", "refunding"} => burned[att] >= 0

Accounts ==
    pc # "halted" /\ ~EverHeld(Bankroll) =>
        Grant + AskedPrice * mints[PayoutRef]
            = balance[Bankroll] + balance[AcctBurn] + RecordedBurn + Out

MeteredInv ==
    /\ LedgerInv
    /\ Types
    /\ OwnHolds
    /\ Faults
    /\ Solves
    /\ Budgets
    /\ Burns
    /\ Accounts

-----------------------------------------------------------------------------
\* The attempts' wallets are wallets of their own.
LEMMA AttemptWallets ==
    /\ Bankroll \in Wallet
    /\ \A i \in 1..MaxAttempts : AttWallet[i] \in Wallet /\ AttWallet[i] # Bankroll
    /\ \A i, j \in 1..MaxAttempts : AttWallet[i] = AttWallet[j] => i = j
    /\ MaxAttempts \in Nat /\ MaxBids \in Nat /\ AskedPrice \in Nat /\ Grant \in Nat
    /\ Ceiling \in Nat /\ PayoutRef \in Ref
BY MeteredAssumption

\* A transaction of two legs moves n from the one account to the other.
Moved(from, to, n) ==
    \A a \in Account : balance'[a] = balance[a] + (IF a = to THEN n ELSE 0)
                                                - (IF a = from THEN n ELSE 0)

LEMMA PostMoves ==
    ASSUME balance \in [Account -> Int], NEW from \in Account, NEW to \in Account,
           NEW n \in Nat, Post(Leg(from, -n), Leg(to, n), NoLeg)
    PROVE  Moved(from, to, n)
<1>1. Leg(from, -n) \in ALegs /\ Leg(to, n) \in ALegs /\ NoLeg \in ALegs
  BY SystemAccounts DEF Leg, NoLeg, ALegs
<1>2. ASSUME NEW a \in Account
      PROVE  balance'[a] = balance[a] + (IF a = to THEN n ELSE 0) - (IF a = from THEN n ELSE 0)
  <2>1. balance'[a] = balance[a] + Net(Leg(from, -n), a) + Net(Leg(to, n), a) + Net(NoLeg, a)
    BY <1>1, PostEffect
  <2>2. /\ Net(Leg(from, -n), a) = IF a = from THEN -n ELSE 0
        /\ Net(Leg(to, n), a) = IF a = to THEN n ELSE 0
        /\ Net(NoLeg, a) = 0
    BY DEF Net, Leg, NoLeg
  <2>3. balance[a] \in Int
    OBVIOUS
  <2>4. QED
    BY <2>1, <2>2, <2>3
<1>3. QED
  BY <1>2 DEF Moved

\* What the orchestrator's own operations do: none of them is a hold.
LEMMA MintMoves ==
    ASSUME LedgerInv, NEW w \in Wallet, NEW n \in Nat, NEW r \in Ref, Mint(w, n, r)
    PROVE  /\ LedgerInv' /\ holds' = holds
           /\ Moved(AcctMint, w, n) /\ mints' = [mints EXCEPT ![r] = @ + 1]
<1>1. Post(Leg(AcctMint, -n), Leg(w, n), NoLeg) /\ balance \in [Account -> Int]
  BY DEF Mint, LedgerInv, LedgerTypeOK
<1>2. QED
  BY <1>1, MintInv, PostMoves, SystemAccounts DEF Mint

LEMMA BurnMoves ==
    ASSUME LedgerInv, NEW w \in Wallet, NEW n \in Nat, Burn(w, n)
    PROVE  /\ LedgerInv' /\ UNCHANGED <<holds, mints>>
           /\ Moved(w, AcctBurn, n)
<1>1. Post(Leg(w, -n), Leg(AcctBurn, n), NoLeg) /\ balance \in [Account -> Int]
  BY DEF Burn, LedgerInv, LedgerTypeOK
<1>2. QED
  BY <1>1, BurnInv, PostMoves, SystemAccounts DEF Burn

LEMMA TransferMoved ==
    ASSUME LedgerInv, NEW from \in Wallet \cup {AcctProvider}, NEW w \in Wallet,
           NEW n \in Nat, Transfer(from, w, n)
    PROVE  /\ LedgerInv' /\ UNCHANGED <<holds, mints>>
           /\ Moved(from, w, n)
<1>1. Post(Leg(from, -n), Leg(w, n), NoLeg) /\ balance \in [Account -> Int]
  BY DEF Transfer, LedgerInv, LedgerTypeOK
<1>2. QED
  BY <1>1, TransferInv, PostMoves, SystemAccounts DEF Transfer

\* A book nobody writes to keeps its invariant.
LEMMA LedgerUnchanged == ASSUME LedgerInv, UNCHANGED ledgerVars PROVE LedgerInv'
BY StepInv

\* A wallet is worth what its balance says more or less, while no hold moves.
LEMMA WorthMoves ==
    ASSUME LedgerInv, LedgerInv', holds' = holds, NEW w \in Wallet
    PROVE  Worth(w)' = Worth(w) + balance'[w] - balance[w]
<1>1. ReservedFrom(w)' = ReservedFrom(w)
  BY ReservedUnchanged
<1>2. balance[w] \in Int /\ balance'[w] \in Int
  BY SystemAccounts DEF LedgerInv, LedgerTypeOK
<1>3. ReservedFrom(w) \in Int
  BY ReservedBounds DEF LedgerInv
<1>4. QED
  BY <1>1, <1>2, <1>3 DEF Worth

\* A hold hides credits: its wallet stays worth what it was, and no account
\* but the wallet and the hold account changes.
LEMMA HoldEffect ==
    ASSUME LedgerInv, NEW h \in HoldId, NEW w \in Wallet, NEW n \in Amount, Hold(h, w, n)
    PROVE  /\ LedgerInv' /\ mints' = mints /\ holds[h] = Unused
           /\ holds' = [holds EXCEPT ![h] = [state |-> "open", wallet |-> w, amount |-> n]]
           /\ \A v \in Wallet : Worth(v)' = Worth(v)
           /\ \A a \in Account \ {w, AcctHold} : balance'[a] = balance[a]
<1>1. LedgerInv'
  BY HoldInv
<1>2. holds[h] = Unused
  <2>1. h >= h
    BY DEF HoldId
  <2>2. QED
    BY <2>1 DEF Hold, IsNextHold
<1>3. /\ mints' = mints
      /\ holds' = [holds EXCEPT ![h] = [state |-> "open", wallet |-> w, amount |-> n]]
      /\ Post(Leg(w, -n), Leg(AcctHold, n), NoLeg)
  BY DEF Hold
<1>4. ASSUME NEW v \in Wallet PROVE Worth(v)' = Worth(v)
  <2>1. Worths' = Worths
    BY HoldIsHidden DEF PursesStutter
  <2>2. Worths'[v] = Worth(v)' /\ Worths[v] = Worth(v)
    BY DEF Worths
  <2>3. QED
    BY <2>1, <2>2
<1>5. ASSUME NEW a \in Account \ {w, AcctHold} PROVE balance'[a] = balance[a]
  <2>1. balance \in [Account -> Int] /\ n \in Nat /\ w \in Account /\ AcctHold \in Account
    BY SystemAccounts, AmountIsPositive DEF LedgerInv, LedgerTypeOK
  <2>2. Moved(w, AcctHold, n)
    BY <1>3, <2>1, PostMoves
  <2>3. balance[a] \in Int
    BY <2>1
  <2>4. QED
    BY <2>2, <2>3 DEF Moved
<1>6. QED
  BY <1>1, <1>2, <1>3, <1>4, <1>5

\* Resolving a hold makes no wallet worth more, and changes no account but
\* the hold's wallet, the hold account and the provider's.
LEMMA ResolveEffect ==
    ASSUME LedgerInv, NEW h \in HoldId, NEW target \in {"settled", "released"},
           NEW n \in Nat, Resolve(h, target, n)
    PROVE  /\ LedgerInv' /\ mints' = mints /\ holds[h].state = "open"
           /\ holds' = [holds EXCEPT ![h].state = target]
           /\ \A v \in Wallet : Worth(v)' <= Worth(v)
           /\ \A a \in Account \ {holds[h].wallet, AcctHold, AcctProvider} :
                 balance'[a] = balance[a]
<1> DEFINE w == holds[h].wallet
           m == holds[h].amount
           l1 == Leg(AcctHold, -m)
           l2 == Leg(AcctProvider, n)
           l3 == Leg(w, m - n)
<1>1. LedgerInv'
  BY ResolveInv
<1>2. /\ mints' = mints /\ holds[h].state = "open"
      /\ holds' = [holds EXCEPT ![h].state = target]
      /\ Post(l1, l2, l3)
  BY DEF Resolve
<1>3. w \in Wallet /\ m \in Amount
  BY <1>2 DEF LedgerInv, LedgerTypeOK, Unused, Reservation
<1>4. ASSUME NEW v \in Wallet PROVE Worth(v)' <= Worth(v)
  <2>1. Worth(v) \in Int
    BY WorthBounds
  <2>2. Worths'[v] = Worth(v)' /\ Worths[v] = Worth(v) /\ v \in Wallet
    BY DEF Worths
  <2>3. CASE PursesStutter
    BY <2>1, <2>2, <2>3 DEF PursesStutter
  <2>4. CASE Purses!Charge(w, n)
    <3>1. Worths' = [Worths EXCEPT ![w] = @ - n]
      BY <2>4 DEF Purses!Charge, Worths, Worth
    <3>2. Worths'[v] = IF v = w THEN Worths[v] - n ELSE Worths[v]
      BY <3>1 DEF Worths
    <3>3. QED
      BY <2>1, <2>2, <3>2
  <2>5. QED
    BY <2>3, <2>4, ResolveCharges
<1> HIDE DEF w, m
<1>5. ASSUME NEW a \in Account \ {w, AcctHold, AcctProvider} PROVE balance'[a] = balance[a]
  <2>1. m \in Int /\ balance \in [Account -> Int]
    BY <1>3, AmountIsPositive DEF LedgerInv, LedgerTypeOK
  <2>2. l1 \in ALegs /\ l2 \in ALegs /\ l3 \in ALegs
    BY <1>3, <2>1, SystemAccounts DEF Leg, ALegs
  <2>3. balance'[a] = balance[a] + Net(l1, a) + Net(l2, a) + Net(l3, a)
    BY <1>2, <2>1, <2>2, PostEffect
  <2>4. Net(l1, a) = 0 /\ Net(l2, a) = 0 /\ Net(l3, a) = 0 /\ balance[a] \in Int
    BY <2>1 DEF Net, Leg
  <2>5. QED
    BY <2>3, <2>4
<1>6. QED
  BY <1>1, <1>2, <1>4, <1>5 DEF w

-----------------------------------------------------------------------------
\* What the book and the tracker may look like after any step of a handler.
Served ==
    /\ LedgerInv' /\ mints' = mints
    /\ \A w \in Wallet : Worth(w)' <= Worth(w)
    /\ EverHeld(Bankroll) => EverHeld(Bankroll)'
    /\ ~EverHeld(Bankroll)' => /\ balance'[Bankroll] = balance[Bankroll]
                               /\ balance'[AcctBurn] = balance[AcctBurn]
    /\ calls' \in [Call -> Handler] /\ OwnHolds'
    /\ \A w \in Wallet : Failed(w) => Failed(w)'

\* A call with a hold has one of the table's rows.
LEMMA HoldingCall ==
    ASSUME Types, NEW c \in Call
    PROVE  /\ Holding(c) => /\ calls[c].hold \in HoldId /\ calls[c].wallet \in Wallet
                            /\ calls[c].live \in BOOLEAN
                            /\ calls[c] \in [pc : {"invoked", "answered", "faulted", "recording"},
                                             live : BOOLEAN, wallet : Wallet, hold : HoldId]
           /\ calls[c].pc = "authorized" =>
                 calls[c] \in [pc : {"authorized"}, live : BOOLEAN, wallet : Wallet]
BY DEF Types, Handler, Holding

\* A handler that leaves the book alone and keeps or gives up what it holds.
LEMMA BookAside ==
    ASSUME MeteredInv, UNCHANGED ledgerVars, NEW c \in Call,
           calls' \in [Call -> Handler], \A d \in Call : d # c => calls'[d] = calls[d],
           Holding(c)' => /\ Holding(c) /\ calls'[c].hold = calls[c].hold
                          /\ calls'[c].wallet = calls[c].wallet
                          /\ calls[c].pc = "recording" => calls'[c].pc = "recording"
                          /\ calls'[c].pc \in {"invoked", "answered"} =>
                                calls[c].pc \in {"invoked", "answered"}
    PROVE  Served
<1>1. LedgerInv' /\ UNCHANGED <<balance, status, holds, mints>>
  BY LedgerUnchanged DEF MeteredInv, ledgerVars
<1>2. ASSUME NEW w \in Wallet PROVE Worth(w)' <= Worth(w)
  <2>1. Worth(w)' = Worth(w) /\ Worth(w) \in Int
    BY <1>1, WorthBounds, ReservedUnchanged DEF Worth, MeteredInv
  <2>2. QED
    BY <2>1
<1>3. EverHeld(Bankroll)' = EverHeld(Bankroll)
  BY <1>1 DEF EverHeld
<1>4. OwnHolds'
  BY <1>1 DEF MeteredInv, OwnHolds, Holding
<1>5. ASSUME NEW w \in Wallet, Failed(w) PROVE Failed(w)'
  <2>1. PICK h \in HoldId : /\ holds[h] # Unused /\ holds[h].wallet = w
                            /\ holds[h].state # "settled"
                            /\ \A d \in Call : calls[d].pc \in {"invoked", "answered"} =>
                                                  calls[d].hold # h
    BY <1>5 DEF Failed
  <2>2. \A d \in Call : calls'[d].pc \in {"invoked", "answered"} => calls'[d].hold # h
    BY <2>1 DEF Holding
  <2>3. QED
    BY <1>1, <2>1, <2>2 DEF Failed
<1>6. QED
  BY <1>1, <1>2, <1>3, <1>4, <1>5 DEF Served

\* A request that arrives has no hold yet.
LEMMA ArriveServed ==
    ASSUME MeteredInv, NEW c \in Call, NEW t \in Token, Arrive(c, t)
    PROVE  Served
<1>1. tokens[t] \in Wallet /\ calls \in [Call -> Handler]
  BY DEF MeteredInv, Types, MeteredTypeOK, ProxyTypeOK, Arrive
<1>2. calls' = [calls EXCEPT ![c] = [pc |-> "authorized", live |-> TRUE, wallet |-> tokens[t]]]
  BY DEF Arrive
<1>3. [pc |-> "authorized", live |-> TRUE, wallet |-> tokens[t]] \in Handler
  BY <1>1 DEF Handler
<1>4. calls' \in [Call -> Handler] /\ calls'[c].pc = "authorized"
        /\ \A d \in Call : d # c => calls'[d] = calls[d]
  BY <1>1, <1>2, <1>3
<1>5. QED
  BY <1>4, BookAside DEF Arrive, Holding

\* A call that is over, refused or not, holds nothing.
LEMMA FinishServed ==
    ASSUME MeteredInv, NEW c \in Call, Finish(c), UNCHANGED ledgerVars
    PROVE  Served
<1>1. DoneCall \in Handler /\ calls \in [Call -> Handler]
  BY DEF MeteredInv, Types, Handler, DoneCall
<1>2. calls' = [calls EXCEPT ![c] = DoneCall]
  BY DEF Finish
<1>3. calls' \in [Call -> Handler] /\ calls'[c].pc = "done"
        /\ \A d \in Call : d # c => calls'[d] = calls[d]
  BY <1>1, <1>2 DEF DoneCall
<1>4. QED
  BY <1>3, BookAside DEF Holding

\* A provider's answer or error, and a client that goes away, leave the hold
\* with its call.
LEMMA GotoServed ==
    ASSUME MeteredInv, NEW c \in Call, NEW next \in {"answered", "faulted", "recording"},
           UNCHANGED ledgerVars, Goto(c, next),
           \/ calls[c].pc = "invoked"
           \/ calls[c].pc = "faulted" /\ next = "recording"
    PROVE  Served
<1>1. calls' = [calls EXCEPT ![c].pc = next] /\ calls \in [Call -> Handler] /\ Holding(c)
  BY DEF Goto, MeteredInv, Types, Holding
<1>2. calls[c] \in [pc : {"invoked", "answered", "faulted", "recording"},
                    live : BOOLEAN, wallet : Wallet, hold : HoldId]
  BY <1>1, HoldingCall DEF MeteredInv
<1>3. calls'[c] = [calls[c] EXCEPT !.pc = next] /\ \A d \in Call : d # c => calls'[d] = calls[d]
  BY <1>1
<1>4. /\ calls'[c] \in [pc : {"invoked", "answered", "faulted", "recording"},
                        live : BOOLEAN, wallet : Wallet, hold : HoldId]
      /\ calls'[c].hold = calls[c].hold /\ calls'[c].wallet = calls[c].wallet
      /\ calls'[c].pc = next
  BY <1>2, <1>3
<1>5. calls'[c] \in Handler
  BY <1>4 DEF Handler
<1>6. calls' \in [Call -> Handler]
  BY <1>1, <1>3, <1>5
<1>7. QED
  BY <1>1, <1>3, <1>4, <1>6, BookAside

LEMMA DisconnectServed ==
    ASSUME MeteredInv, NEW c \in Call, Disconnect(c)
    PROVE  Served
<1>1. calls' = [calls EXCEPT ![c].live = FALSE] /\ calls \in [Call -> Handler]
  BY DEF Disconnect, MeteredInv, Types
<1>2. calls'[c] = [calls[c] EXCEPT !.live = FALSE] /\ \A d \in Call : d # c => calls'[d] = calls[d]
  BY <1>1
<1>3. calls[c] \in Handler
  BY <1>1
<1>4. calls'[c] \in Handler /\ calls'[c].pc = calls[c].pc
  BY <1>2, <1>3 DEF Handler
<1>5. Holding(c) => calls'[c].hold = calls[c].hold /\ calls'[c].wallet = calls[c].wallet
  BY <1>2, HoldingCall DEF MeteredInv
<1>6. calls' \in [Call -> Handler]
  BY <1>1, <1>2, <1>4
<1>7. QED
  BY <1>1, <1>2, <1>4, <1>5, <1>6, BookAside DEF Holding, Disconnect

\* A reservation is a new row of the table and becomes its call's own.
LEMMA ReserveServed ==
    ASSUME MeteredInv, NEW c \in Call, Reserve(c)
    PROVE  Served
<1>1. calls[c].pc = "authorized" /\ calls[c].wallet \in Wallet /\ calls[c].live \in BOOLEAN
  BY HoldingCall DEF Reserve, MeteredInv
<1> DEFINE w == calls[c].wallet
<1>2. PICK h \in HoldId, n \in Amount :
        /\ Hold(h, w, n)
        /\ calls' = [calls EXCEPT ![c] = [pc |-> "invoked", live |-> @.live,
                                          wallet |-> @.wallet, hold |-> h]]
  BY DEF Reserve
<1> DEFINE row == [state |-> "open", wallet |-> w, amount |-> n]
<1>3. /\ LedgerInv' /\ mints' = mints /\ holds[h] = Unused
      /\ holds' = [holds EXCEPT ![h] = row]
      /\ \A v \in Wallet : Worth(v)' = Worth(v)
      /\ \A a \in Account \ {w, AcctHold} : balance'[a] = balance[a]
  BY <1>1, <1>2, HoldEffect DEF MeteredInv
<1>4. LedgerInv /\ holds \in [HoldId -> {Unused} \cup Reservation] /\ calls \in [Call -> Handler]
  BY DEF MeteredInv, LedgerInv, LedgerTypeOK, Types
<1>5. row # Unused /\ row.state = "open" /\ row.wallet = w
  BY DEF Unused
<1> DEFINE mine == [pc |-> "invoked", live |-> calls[c].live, wallet |-> w, hold |-> h]
<1>6. mine \in Handler /\ mine.pc = "invoked" /\ mine.hold = h /\ mine.wallet = w
  BY <1>1 DEF Handler
<1>7. calls' = [calls EXCEPT ![c] = mine]
  BY <1>2
<1> HIDE DEF row, mine, w
<1>8. calls' \in [Call -> Handler] /\ calls'[c] = mine /\ \A d \in Call : d # c => calls'[d] = calls[d]
  BY <1>4, <1>6, <1>7
<1>9. holds'[h] = row /\ \A g \in HoldId : g # h => holds'[g] = holds[g]
  BY <1>3, <1>4
<1>10. \A d \in Call : d # c /\ Holding(d) => calls[d].hold # h /\ calls[d].hold \in HoldId
  BY <1>3, HoldingCall DEF MeteredInv, OwnHolds
<1>11. OwnHolds'
  <2>1. \A d \in Call : Holding(d)' => d = c \/ Holding(d)
    BY <1>8 DEF Holding
  <2>2. \A d \in Call : Holding(d)' =>
          /\ holds'[calls'[d].hold] # Unused
          /\ holds'[calls'[d].hold].wallet = calls'[d].wallet
          /\ holds'[calls'[d].hold].state # "settled"
          /\ calls'[d].pc # "recording" => holds'[calls'[d].hold].state = "open"
    <3>1. ASSUME NEW d \in Call, d # c, Holding(d)'
          PROVE  holds'[calls'[d].hold] = holds[calls[d].hold] /\ Holding(d) /\ calls'[d] = calls[d]
      BY <1>8, <1>9, <1>10, <2>1, <3>1
    <3>2. QED
      BY <1>5, <1>6, <1>8, <1>9, <3>1 DEF MeteredInv, OwnHolds
  <2>3. \A d, e \in Call : Holding(d)' /\ Holding(e)' /\ calls'[d].hold = calls'[e].hold => d = e
    BY <1>6, <1>8, <1>10, <2>1 DEF MeteredInv, OwnHolds
  <2>4. QED
    BY <2>2, <2>3 DEF OwnHolds
<1>12. ASSUME NEW v \in Wallet, Failed(v) PROVE Failed(v)'
  <2>1. PICK g \in HoldId : /\ holds[g] # Unused /\ holds[g].wallet = v
                            /\ holds[g].state # "settled"
                            /\ \A d \in Call : calls[d].pc \in {"invoked", "answered"} =>
                                                  calls[d].hold # g
    BY <1>12 DEF Failed
  <2>2. g # h /\ holds'[g] = holds[g]
    BY <1>3, <1>9, <2>1
  <2>3. \A d \in Call : calls'[d].pc \in {"invoked", "answered"} => calls'[d].hold # g
    BY <1>6, <1>8, <2>1, <2>2
  <2>4. QED
    BY <2>1, <2>2, <2>3 DEF Failed
<1>13. EverHeld(Bankroll) => EverHeld(Bankroll)'
  BY <1>3, <1>9 DEF EverHeld
<1>14. ASSUME ~EverHeld(Bankroll)'
       PROVE  balance'[Bankroll] = balance[Bankroll] /\ balance'[AcctBurn] = balance[AcctBurn]
  <2>1. w # Bankroll
    BY <1>5, <1>9, <1>14 DEF EverHeld
  <2>2. Bankroll \in Account \ {w, AcctHold} /\ AcctBurn \in Account \ {w, AcctHold}
    BY <1>1, <2>1, SystemAccounts, AttemptWallets DEF w, System, AcctBurn, AcctHold
  <2>3. QED
    BY <1>3, <2>2
<1>15. \A v \in Wallet : Worth(v)' <= Worth(v)
  BY <1>3, <1>4, WorthBounds
<1>16. QED
  BY <1>3, <1>8, <1>11, <1>12, <1>13, <1>14, <1>15 DEF Served

\* A hold is resolved by its own call, at once or never: nobody else's row
\* changes, and no call that failed has its hold settled after all.
LEMMA ResolveServed ==
    ASSUME MeteredInv, NEW c \in Call, Holding(c), calls[c].pc # "recording",
           NEW target \in {"settled", "released"}, NEW n \in Nat,
           Resolve(calls[c].hold, target, n),
           target = "settled" => calls[c].pc \in {"invoked", "answered"},
           calls' \in [Call -> Handler], \A d \in Call : d # c => calls'[d] = calls[d],
           Holding(c)' => /\ calls'[c].hold = calls[c].hold /\ calls'[c].wallet = calls[c].wallet
                          /\ calls'[c].pc = "recording" /\ target = "released"
    PROVE  Served
<1> DEFINE h == calls[c].hold
<1>1. h \in HoldId /\ calls[c].wallet \in Wallet
  BY HoldingCall DEF MeteredInv
<1>2. /\ LedgerInv' /\ mints' = mints /\ holds[h].state = "open"
      /\ holds' = [holds EXCEPT ![h].state = target]
      /\ \A v \in Wallet : Worth(v)' <= Worth(v)
      /\ \A a \in Account \ {holds[h].wallet, AcctHold, AcctProvider} :
            balance'[a] = balance[a]
  BY <1>1, ResolveEffect DEF MeteredInv
<1>3. holds \in [HoldId -> {Unused} \cup Reservation]
  BY DEF MeteredInv, LedgerInv, LedgerTypeOK
<1>4. holds[h] \in Reservation /\ holds[h].wallet = calls[c].wallet
  BY <1>1, <1>2, <1>3 DEF Unused, MeteredInv, OwnHolds
<1>5. holds'[h] = [holds[h] EXCEPT !.state = target] /\ \A g \in HoldId : g # h => holds'[g] = holds[g]
  BY <1>1, <1>2, <1>3
<1>6. holds'[h] # Unused /\ holds'[h].wallet = calls[c].wallet /\ holds'[h].state = target
  BY <1>4, <1>5 DEF Reservation, Unused
<1>7. \A d \in Call : d # c /\ Holding(d) => calls[d].hold # h /\ calls[d].hold \in HoldId
  BY HoldingCall DEF MeteredInv, OwnHolds
<1>8. OwnHolds'
  <2>1. \A d \in Call : Holding(d)' => Holding(d)
    BY DEF Holding
  <2>2. \A d \in Call : Holding(d)' =>
          /\ holds'[calls'[d].hold] # Unused
          /\ holds'[calls'[d].hold].wallet = calls'[d].wallet
          /\ holds'[calls'[d].hold].state # "settled"
          /\ calls'[d].pc # "recording" => holds'[calls'[d].hold].state = "open"
    <3>1. ASSUME NEW d \in Call, d # c, Holding(d)'
          PROVE  holds'[calls'[d].hold] = holds[calls[d].hold] /\ Holding(d) /\ calls'[d] = calls[d]
      BY <1>5, <1>7, <2>1, <3>1
    <3>2. QED
      BY <1>6, <3>1 DEF MeteredInv, OwnHolds
  <2>3. \A d, e \in Call : Holding(d)' /\ Holding(e)' /\ calls'[d].hold = calls'[e].hold => d = e
    BY <1>7, <2>1 DEF MeteredInv, OwnHolds
  <2>4. QED
    BY <2>2, <2>3 DEF OwnHolds
<1>9. ASSUME NEW v \in Wallet, Failed(v) PROVE Failed(v)'
  <2>1. PICK g \in HoldId : /\ holds[g] # Unused /\ holds[g].wallet = v
                            /\ holds[g].state # "settled"
                            /\ \A d \in Call : calls[d].pc \in {"invoked", "answered"} =>
                                                  calls[d].hold # g
    BY <1>9 DEF Failed
  <2>2. holds'[g] # Unused /\ holds'[g].wallet = v /\ holds'[g].state # "settled"
    BY <1>4, <1>5, <1>6, <2>1
  <2>3. \A d \in Call : calls'[d].pc \in {"invoked", "answered"} => calls'[d].hold # g
    BY <2>1 DEF Holding
  <2>4. QED
    BY <2>2, <2>3 DEF Failed
<1>10. EverHeld(Bankroll) => EverHeld(Bankroll)'
  <2>1. ASSUME NEW g \in HoldId, holds[g] # Unused, holds[g].wallet = Bankroll
        PROVE  holds'[g] # Unused /\ holds'[g].wallet = Bankroll
    BY <1>4, <1>5, <1>6, <2>1
  <2>2. QED
    BY <2>1 DEF EverHeld
<1>11. ASSUME ~EverHeld(Bankroll)'
       PROVE  balance'[Bankroll] = balance[Bankroll] /\ balance'[AcctBurn] = balance[AcctBurn]
  <2>1. calls[c].wallet # Bankroll
    BY <1>1, <1>6, <1>11 DEF EverHeld
  <2>2. /\ Bankroll \in Account \ {holds[h].wallet, AcctHold, AcctProvider}
        /\ AcctBurn \in Account \ {holds[h].wallet, AcctHold, AcctProvider}
    BY <1>1, <1>4, <2>1, SystemAccounts, AttemptWallets
       DEF System, AcctBurn, AcctHold, AcctProvider
  <2>3. QED
    BY <1>2, <2>2
<1>12. QED
  BY <1>2, <1>8, <1>9, <1>10, <1>11 DEF Served

\* Settling ends the call; its cost is at most what was reserved.
LEMMA SettleServed ==
    ASSUME MeteredInv, NEW c \in Call, SettleCall(c)
    PROVE  Served
<1>1. Holding(c) /\ calls[c].pc = "answered" /\ Finish(c)
  BY DEF SettleCall, Holding
<1>2. CASE UNCHANGED ledgerVars
  BY <1>1, <1>2, FinishServed
<1>3. CASE \E cost \in 0..holds[calls[c].hold].amount : Settle(calls[c].hold, cost)
  <2>1. calls[c].hold \in HoldId
    BY <1>1, HoldingCall DEF MeteredInv
  <2>2. PICK cost \in 0..holds[calls[c].hold].amount : Settle(calls[c].hold, cost)
    BY <1>3
  <2>3. Resolve(calls[c].hold, "settled", cost)
    BY <2>2 DEF Settle
  <2>4. cost \in Nat
    OBVIOUS
  <2>5. DoneCall \in Handler /\ calls \in [Call -> Handler] /\ calls' = [calls EXCEPT ![c] = DoneCall]
    BY <1>1 DEF MeteredInv, Types, Handler, DoneCall, Finish
  <2>6. calls' \in [Call -> Handler] /\ calls'[c].pc = "done"
          /\ \A d \in Call : d # c => calls'[d] = calls[d]
    BY <2>5 DEF DoneCall
  <2>7. QED
    BY <1>1, <2>3, <2>4, <2>6, ResolveServed DEF Holding
<1>4. QED
  BY <1>2, <1>3 DEF SettleCall

\* Releasing leaves the call the fault still to be recorded.
LEMMA ReleaseServed ==
    ASSUME MeteredInv, NEW c \in Call, ReleaseCall(c)
    PROVE  Served
<1>1. Holding(c) /\ calls[c].pc = "faulted" /\ Goto(c, "recording")
  BY DEF ReleaseCall, Holding
<1>2. CASE UNCHANGED ledgerVars
  BY <1>1, <1>2, GotoServed
<1>3. CASE Release(calls[c].hold)
  <2>1. calls[c] \in [pc : {"invoked", "answered", "faulted", "recording"},
                      live : BOOLEAN, wallet : Wallet, hold : HoldId]
    BY <1>1, HoldingCall DEF MeteredInv
  <2>2. Resolve(calls[c].hold, "released", 0)
    BY <1>3 DEF Release
  <2>3. calls' = [calls EXCEPT ![c].pc = "recording"] /\ calls \in [Call -> Handler]
    BY <1>1 DEF Goto, MeteredInv, Types
  <2>4. calls'[c] = [calls[c] EXCEPT !.pc = "recording"]
          /\ \A d \in Call : d # c => calls'[d] = calls[d]
    BY <2>3
  <2>5. /\ calls'[c].hold = calls[c].hold /\ calls'[c].wallet = calls[c].wallet
        /\ calls'[c].pc = "recording" /\ calls'[c] \in Handler
    BY <2>1, <2>4 DEF Handler
  <2>6. calls' \in [Call -> Handler]
    BY <2>3, <2>4, <2>5
  <2>7. QED
    BY <1>1, <2>2, <2>4, <2>5, <2>6, ResolveServed
<1>4. QED
  BY <1>2, <1>3 DEF ReleaseCall

\* Every step of a handler, and of the clients.
LEMMA ServeServed ==
    ASSUME MeteredInv, Serve
    PROVE  Served
<1>1. ASSUME NEW c \in Call, NEW t \in Token, Arrive(c, t) PROVE Served
  BY <1>1, ArriveServed
<1>2. ASSUME NEW c \in Call, Disconnect(c) PROVE Served
  BY <1>2, DisconnectServed
<1>3. ASSUME NEW c \in Call, Reserve(c) PROVE Served
  BY <1>3, ReserveServed
<1>4. ASSUME NEW c \in Call, Refuse(c) PROVE Served
  BY <1>4, FinishServed DEF Refuse
<1>5. ASSUME NEW c \in Call, Answer(c) \/ Fault(c) PROVE Served
  BY <1>5, GotoServed DEF Answer, Fault
<1>6. ASSUME NEW c \in Call, SettleCall(c) PROVE Served
  BY <1>6, SettleServed
<1>7. ASSUME NEW c \in Call, ReleaseCall(c) PROVE Served
  BY <1>7, ReleaseServed
<1>8. ASSUME NEW c \in Call, RecordFault(c) PROVE Served
  BY <1>8, FinishServed DEF RecordFault
<1>9. QED
  BY <1>1, <1>2, <1>3, <1>4, <1>5, <1>6, <1>7, <1>8 DEF Serve, Handle

\* A fault is recorded of a call that was not settled.
LEMMA RecordedIsFailed ==
    ASSUME MeteredInv, Serve
    PROVE  \A w \in faulted' : w \in Wallet /\ Failed(w)'
<1>1. Served /\ faulted \subseteq Wallet
  BY ServeServed DEF MeteredInv, Types, MeteredTypeOK, ProxyTypeOK
<1>2. CASE faulted' = faulted
  BY <1>1, <1>2 DEF Served, MeteredInv, Faults
<1>3. ASSUME NEW c \in Call, RecordFault(c)
      PROVE  \A w \in faulted' : w \in Wallet /\ Failed(w)'
  <2>1. Holding(c) /\ calls[c].pc = "recording"
    BY <1>3 DEF RecordFault, Holding
  <2>2. calls[c].wallet \in Wallet /\ calls[c].hold \in HoldId
    BY <2>1, HoldingCall DEF MeteredInv
  <2>3. \A d \in Call : calls[d].pc \in {"invoked", "answered"} => calls[d].hold # calls[c].hold
    BY <2>1 DEF MeteredInv, OwnHolds, Holding
  <2>4. Failed(calls[c].wallet)
    BY <2>1, <2>2, <2>3 DEF Failed, MeteredInv, OwnHolds
  <2>5. QED
    BY <1>1, <1>3, <2>2, <2>4 DEF RecordFault, Served, MeteredInv, Faults
<1>4. QED
  BY <1>2, <1>3 DEF Serve, Handle, Arrive, Disconnect, Reserve, Refuse, Answer, Fault, SettleCall,
                    ReleaseCall

-----------------------------------------------------------------------------
\* A typed request is one ProxyTypeOK admits.
LEMMA CallsTyped ==
    ASSUME calls' \in [Call -> Handler]
    PROVE  \A c \in Call :
              /\ calls'[c].pc \in {"new", "authorized", "invoked", "answered", "faulted",
                                   "recording", "done"}
              /\ calls'[c].live \in BOOLEAN
              /\ calls'[c].pc \notin {"new", "done"} => calls'[c].wallet \in Wallet
BY DEF Handler

\* The table and the handlers, while neither moves.
LEMMA HoldsAside ==
    ASSUME OwnHolds, UNCHANGED <<holds, calls>>
    PROVE  /\ OwnHolds'
           /\ \A w : Failed(w)' = Failed(w)
           /\ EverHeld(Bankroll)' = EverHeld(Bankroll)
BY DEF OwnHolds, Holding, Failed, EverHeld

\* What has been recorded of the attempts, while none is resolved.
LEMMA RecordAside ==
    ASSUME UNCHANGED <<result, burned>>
    PROVE  RecordedBurn' = RecordedBurn /\ Attempts({"solved"})' = Attempts({"solved"})
BY DEF RecordedBurn, BurnedBy, Attempts

\* Nothing an attempt came to is disturbed by a step that resolves none and
\* forgets faults at most.
LEMMA ResultsAside ==
    ASSUME MeteredInv, UNCHANGED <<holds, calls, mints, result, outcome, burned>>,
           faulted' \subseteq faulted, \A i \in 1..MaxAttempts : Voiding(i)' => Voiding(i),
           pc # "paying", pc' # "paying"
    PROVE  OwnHolds' /\ Faults' /\ Solves'
<1>1. OwnHolds' /\ \A w : Failed(w)' = Failed(w)
  BY HoldsAside DEF MeteredInv
<1>2. Faults'
  BY <1>1 DEF Faults, MeteredInv
<1>3. Solves'
  BY RecordAside DEF Solves, MeteredInv
<1>4. QED
  BY <1>1, <1>2, <1>3

\* The worths, while nothing is posted.
LEMMA WorthAside ==
    ASSUME LedgerInv, UNCHANGED ledgerVars
    PROVE  /\ LedgerInv' /\ UNCHANGED <<balance, status, holds, mints>>
           /\ \A w \in Wallet : Worth(w)' = Worth(w)
<1>1. LedgerInv' /\ UNCHANGED <<balance, status, holds, mints>>
  BY LedgerUnchanged DEF ledgerVars
<1>2. QED
  BY <1>1, ReservedUnchanged DEF Worth

\* The steps of the orchestrator that post nothing and resolve nothing.
LEMMA PlainStep ==
    ASSUME MeteredInv, LedgerInv', UNCHANGED <<balance, holds, mints>>,
           UNCHANGED <<calls, att, budget, outcome, result, burned>>,
           Types', Burns', faulted' \subseteq faulted,
           \A i \in 1..MaxAttempts : (Voiding(i)' => Voiding(i)) /\ Funded(i)' = Funded(i),
           Out' = Out, pc \notin {"paying", "halted"}, pc' # "paying"
    PROVE  MeteredInv'
<1>1. \A w \in Wallet : Worth(w)' = Worth(w)
  BY ReservedUnchanged DEF Worth
<1>2. OwnHolds' /\ Faults' /\ Solves'
  BY ResultsAside
<1>3. Budgets'
  BY <1>1, AttemptWallets DEF MeteredInv, Budgets
<1>4. Accounts'
  BY <1>1, RecordAside, HoldsAside DEF MeteredInv, Accounts
<1>5. QED
  BY <1>1, <1>2, <1>3, <1>4 DEF MeteredInv

\* A worth is an integer, before a step and after it.
LEMMA WorthTypes ==
    /\ LedgerInv => \A w \in Wallet : Worth(w) \in Int
    /\ LedgerInv' => \A w \in Wallet : Worth(w)' \in Int
<1>1. LedgerInv => \A w \in Wallet : Worth(w) \in Int
  BY WorthBounds
<1>2. (LedgerInv => \A w \in Wallet : Worth(w) \in Int)'
  BY <1>1, PTL
<1>3. QED
  BY <1>1, <1>2

\* Calls served beside a step leave it where it is.
LEMMA ServeInv ==
    ASSUME MeteredInv, Serve
    PROVE  MeteredInv'
<1>1. Served /\ \A w \in faulted' : w \in Wallet /\ Failed(w)'
  BY ServeServed, RecordedIsFailed
<1>2. /\ UNCHANGED <<pc, att, bids, budget, seen, outcome, result, burned, retired, tokens>>
      /\ UNCHANGED orchVars
  BY DEF Serve, orchVars, Handle, Arrive, Disconnect, Reserve, Refuse, Answer, Fault, SettleCall,
         ReleaseCall, RecordFault
<1>3. Types'
  <2>1. LedgerTypeOK' /\ faulted' \subseteq Wallet /\ calls' \in [Call -> Handler]
    BY <1>1 DEF Served, LedgerInv
  <2>2. ProxyTypeOK'
    BY <1>2, <2>1, CallsTyped DEF ProxyTypeOK, MeteredInv, Types, MeteredTypeOK
  <2>3. MeteredTypeOK'
    BY <1>2, <2>1, <2>2 DEF MeteredInv, Types, MeteredTypeOK
  <2>4. QED
    BY <1>2, <2>1, <2>3 DEF MeteredInv, Types
<1>4. Faults'
  <2>1. \A i \in 1..MaxAttempts : Voiding(i)' = Voiding(i)
    BY <1>2 DEF Voiding
  <2>2. QED
    BY <1>1, <1>2, <2>1, AttemptWallets DEF MeteredInv, Faults, Served
<1>5. Solves'
  BY <1>1, <1>2, RecordAside DEF MeteredInv, Solves, Served, Voiding
<1>6. Budgets'
  <2>1. ASSUME NEW i \in 1..MaxAttempts
        PROVE  Worth(AttWallet[i])' <= IF Funded(i)' THEN budget'[i] ELSE 0
    <3>1. AttWallet[i] \in Wallet /\ Funded(i)' = Funded(i) /\ budget'[i] = budget[i]
      BY <1>2, AttemptWallets DEF Funded
    <3>2. Worth(AttWallet[i]) <= IF Funded(i) THEN budget[i] ELSE 0
      BY DEF MeteredInv, Budgets
    <3>3. Worth(AttWallet[i]) \in Int /\ Worth(AttWallet[i])' \in Int /\ budget[i] \in Nat
      <4>1. LedgerInv /\ LedgerInv' /\ budget[i] \in Nat
        BY <1>1 DEF Served, MeteredInv, Types, MeteredTypeOK
      <4>2. QED
        BY <3>1, <4>1, WorthTypes
    <3>4. Worth(AttWallet[i])' <= Worth(AttWallet[i])
      BY <1>1, <3>1 DEF Served
    <3>5. QED
      BY <3>1, <3>2, <3>3, <3>4
  <2>2. QED
    BY <2>1 DEF Budgets
<1>7. Burns'
  BY <1>2 DEF MeteredInv, Burns
<1>8. Accounts'
  <2>1. Out' = Out
    BY <1>2 DEF Out
  <2>2. QED
    BY <1>1, <1>2, <2>1, RecordAside DEF MeteredInv, Accounts, Served
<1>9. QED
  BY <1>1, <1>3, <1>4, <1>5, <1>6, <1>7, <1>8 DEF MeteredInv, Served

-----------------------------------------------------------------------------
\* The wallet of the attempt under way.
LEMMA CurrentWallet ==
    ASSUME Types, pc \in Underway
    PROVE  /\ att \in 1..MaxAttempts /\ result[att] = "none" /\ pc # "idle"
           /\ wallet \in Wallet /\ wallet # Bankroll /\ wallet = AttWallet[att]
           /\ budget[att] \in Nat /\ burned[att] \in Int /\ seen \in Nat
<1>1. att \in 1..MaxAttempts /\ result[att] = "none"
  BY AttemptWallets DEF Types, MeteredTypeOK
<1>2. budget[att] \in Nat /\ burned[att] \in Int /\ seen \in Nat
  BY <1>1 DEF Types, MeteredTypeOK
<1>3. QED
  BY <1>1, <1>2, AttemptWallets DEF wallet, Underway

\* The tables of the proxy keep their types through the orchestrator's steps.
LEMMA ProxyAside ==
    ASSUME Types, UNCHANGED calls, faulted' \subseteq faulted,
           tokens' \in [Token -> Wallet \cup {Unauthorized}]
    PROVE  ProxyTypeOK' /\ calls' \in [Call -> Handler]
BY DEF Types, MeteredTypeOK, ProxyTypeOK

LEMMA TokensTyped ==
    ASSUME Types, NEW t, NEW w \in Wallet, \/ UNCHANGED tokens
                                           \/ Authorize(t, w)
                                           \/ Revoke(t)
    PROVE  tokens' \in [Token -> Wallet \cup {Unauthorized}]
BY DEF Types, MeteredTypeOK, ProxyTypeOK, Authorize, Revoke

\* Bid steps, the round's settlement and the container's end move nothing.
LEMMA BidInv ==
    ASSUME MeteredInv, StartBid \/ EndBid \/ CloseBid \/ StartRound \/ ReadBankroll
    PROVE  MeteredInv'
<1> USE DEF StartBid, EndBid, CloseBid, StartRound, ReadBankroll
<1>1. /\ UNCHANGED <<ledgerVars, calls, att, budget, outcome, result, burned, retired>>
      /\ faulted' \subseteq faulted
      /\ pc \in {"idle", "bidding", "bidEnd", "settling"}
      /\ pc' \in {"idle", "bidding", "bidEnd", "settling", "burning"}
  BY DEF proxyVars
<1>2. Types'
  <2>1. tokens' \in [Token -> Wallet \cup {Unauthorized}]
    BY TokensTyped, AttemptWallets DEF MeteredInv, proxyVars
  <2>2. LedgerTypeOK'
    BY <1>1, LedgerUnchanged DEF MeteredInv, LedgerInv
  <2>3. ProxyTypeOK' /\ calls' \in [Call -> Handler]
    BY <1>1, <2>1, ProxyAside DEF MeteredInv
  <2>4. bids' \in 0..MaxBids
    BY AttemptWallets DEF MeteredInv, Types, MeteredTypeOK
  <2>5. seen' \in Nat
    <3>1. balance[Bankroll] \in Nat
      BY AttemptWallets, SystemAccounts
         DEF MeteredInv, LedgerInv, LedgerTypeOK, NoWalletOverdrawn
    <3>2. QED
      BY <3>1 DEF MeteredInv, Types, MeteredTypeOK
  <2>6. MeteredTypeOK'
    BY <1>1, <2>2, <2>3, <2>4, <2>5 DEF MeteredInv, Types, MeteredTypeOK
  <2>7. QED
    BY <1>1, <2>3, <2>6 DEF MeteredInv, Types, Underway
<1>3. Burns'
  BY <1>1 DEF Burns
<1>4. Out' = Out
  BY <1>1 DEF Out
<1>5. \A i \in 1..MaxAttempts : (Voiding(i)' => Voiding(i)) /\ Funded(i)' = Funded(i)
  BY <1>1 DEF Voiding, Funded
<1>6. QED
  BY <1>1, <1>2, <1>3, <1>4, <1>5, PlainStep, WorthAside DEF MeteredInv

\* A new attempt's budget is decided; nothing has moved.
LEMMA StartAttemptInv ==
    ASSUME MeteredInv, StartAttempt
    PROVE  MeteredInv'
<1>1. /\ pc = "idle" /\ pc' = "opening" /\ att < MaxAttempts /\ att' = att + 1
      /\ UNCHANGED <<ledgerVars, tokens, calls, faulted, bids, seen, outcome, result, burned, retired>>
  BY DEF StartAttempt, proxyVars
<1>2. att \in 0..MaxAttempts /\ att' \in 1..MaxAttempts
  BY <1>1, AttemptWallets DEF MeteredInv, Types, MeteredTypeOK
<1>3. budget' \in [1..MaxAttempts -> Nat] /\ \A i \in 1..MaxAttempts : i # att' => budget'[i] = budget[i]
  <2>1. balance[Bankroll] \in Nat
    BY AttemptWallets, SystemAccounts
       DEF MeteredInv, LedgerInv, LedgerTypeOK, NoWalletOverdrawn
  <2>2. QED
    BY <1>2, <2>1, AttemptWallets DEF StartAttempt, MeteredInv, Types, MeteredTypeOK
<1>4. /\ LedgerInv' /\ UNCHANGED <<balance, status, holds, mints>>
      /\ \A w \in Wallet : Worth(w)' = Worth(w)
  BY <1>1, WorthAside DEF MeteredInv
<1>5. Types'
  <2>1. ProxyTypeOK' /\ calls' \in [Call -> Handler] /\ LedgerTypeOK'
    BY <1>1, <1>4, ProxyAside DEF MeteredInv, LedgerInv, Types, MeteredTypeOK, ProxyTypeOK
  <2>2. MeteredTypeOK'
    BY <1>1, <1>2, <1>3, <2>1 DEF MeteredInv, Types, MeteredTypeOK
  <2>3. QED
    BY <1>1, <1>2, <2>1, <2>2 DEF MeteredInv, Types
<1>6. OwnHolds' /\ Faults' /\ Solves'
  BY <1>1, <1>4, ResultsAside DEF Voiding
<1>7. Budgets'
  BY <1>1, <1>2, <1>3, <1>4, AttemptWallets DEF MeteredInv, Budgets, Funded
<1>8. Burns' /\ Out' = 0 /\ Out = 0
  BY <1>1 DEF Burns, Out
<1>9. Accounts'
  BY <1>1, <1>4, <1>8, RecordAside, HoldsAside DEF MeteredInv, Accounts
<1>10. QED
  BY <1>4, <1>5, <1>6, <1>7, <1>8, <1>9 DEF MeteredInv

\* The step ends, whatever it concludes, and its token is revoked.
LEMMA EndAttemptInv ==
    ASSUME MeteredInv, EndAttempt \/ CloseAttempt
    PROVE  MeteredInv'
<1>1. /\ pc \in {"attempting", "attemptEnd"} /\ pc' \in {"attemptEnd", "reading"}
      /\ UNCHANGED <<ledgerVars, calls, faulted, att, bids, budget, seen, result, burned, retired>>
      /\ pc \in Underway /\ pc' \in Underway
  BY DEF EndAttempt, CloseAttempt, proxyVars, Underway
<1>2. att \in 1..MaxAttempts /\ result[att] = "none"
  BY <1>1, CurrentWallet DEF MeteredInv
<1>3. /\ outcome' \in [1..MaxAttempts -> Outcome \cup {"none"}]
      /\ \A i \in 1..MaxAttempts : i # att => outcome'[i] = outcome[i]
  BY <1>2 DEF EndAttempt, CloseAttempt, MeteredInv, Types, MeteredTypeOK
<1>4. /\ LedgerInv' /\ UNCHANGED <<balance, status, holds, mints>>
      /\ \A w \in Wallet : Worth(w)' = Worth(w)
  BY <1>1, WorthAside DEF MeteredInv
<1>5. Types'
  <2>1. tokens' \in [Token -> Wallet \cup {Unauthorized}]
    BY TokensTyped, AttemptWallets DEF MeteredInv, EndAttempt, CloseAttempt, proxyVars
  <2>2. ProxyTypeOK' /\ calls' \in [Call -> Handler] /\ LedgerTypeOK'
    BY <1>1, <1>4, <2>1, ProxyAside DEF MeteredInv, LedgerInv
  <2>3. MeteredTypeOK'
    BY <1>1, <1>3, <2>2 DEF MeteredInv, Types, MeteredTypeOK
  <2>4. QED
    BY <1>1, <1>2, <2>2, <2>3 DEF MeteredInv, Types
<1>6. OwnHolds' /\ (\A w : Failed(w)' = Failed(w)) /\ EverHeld(Bankroll)' = EverHeld(Bankroll)
  BY <1>1, <1>4, HoldsAside DEF MeteredInv
<1>7. \A i \in 1..MaxAttempts : Voiding(i)' => Voiding(i) /\ i # att
  BY <1>1, <1>2 DEF Voiding
<1>8. Faults'
  BY <1>1, <1>3, <1>6, <1>7 DEF MeteredInv, Faults
<1>9. Solves'
  <2>1. Attempts({"solved"})' = Attempts({"solved"})
    BY <1>1 DEF Attempts
  <2>2. QED
    BY <1>1, <1>2, <1>3, <1>4, <1>7, <2>1 DEF MeteredInv, Solves
<1>10. Budgets'
  BY <1>1, <1>4, AttemptWallets DEF MeteredInv, Budgets, Funded
<1>11. Burns' /\ Out' = Out
  BY <1>1 DEF Burns, Out
<1>12. Accounts'
  BY <1>1, <1>4, <1>6, <1>11, RecordAside DEF MeteredInv, Accounts
<1>13. QED
  BY <1>4, <1>5, <1>6, <1>8, <1>9, <1>10, <1>11, <1>12 DEF MeteredInv

\* A column of the ladder is a sum of integers, and only a resolved attempt's
\* row counts.
LEMMA RecordedRow ==
    ASSUME Types, Types', NEW k \in 1..MaxAttempts, NEW d \in Int,
           BurnedBy(k)' = BurnedBy(k) + d,
           \A i \in 1..MaxAttempts : i # k => result'[i] = result[i] /\ burned'[i] = burned[i]
    PROVE  RecordedBurn \in Int /\ RecordedBurn' = RecordedBurn + d
<1> DEFINE before == [i \in 1..MaxAttempts |-> BurnedBy(i)]
           after == [i \in 1..MaxAttempts |-> BurnedBy(i)']
<1>1. before \in [1..MaxAttempts -> Int] /\ after \in [1..MaxAttempts -> Int]
  BY DEF BurnedBy, Types, MeteredTypeOK
<1>2. after[k] = before[k] + d
  OBVIOUS
<1>3. \A i \in 1..MaxAttempts : i # k => after[i] = before[i]
  BY DEF BurnedBy
<1>4. RecordedBurn = Total(MaxAttempts, before) /\ RecordedBurn' = Total(MaxAttempts, after)
  BY DEF RecordedBurn
<1> HIDE DEF before, after
<1>5. Total(MaxAttempts, before) \in Int
  BY <1>1, TotalType, AttemptWallets
<1>6. Total(MaxAttempts, after) = Total(MaxAttempts, before) + d
  BY <1>1, <1>2, <1>3, TotalUpdate, AttemptWallets
<1>7. QED
  BY <1>4, <1>5, <1>6

\* What came back is read, and with it what the attempt burned: at most its
\* budget, for its wallet was never worth more.
LEMMA ReadAttemptInv ==
    ASSUME MeteredInv, ReadAttempt
    PROVE  MeteredInv'
<1>1. /\ pc = "reading" /\ pc' = "merging" /\ pc \in Underway /\ pc' \in Underway
      /\ UNCHANGED <<ledgerVars, tokens, calls, faulted, att, bids, budget, outcome, result, retired>>
      /\ seen' = balance[wallet]
      /\ burned' = [burned EXCEPT ![att] = budget[att] - balance[wallet]]
  BY DEF ReadAttempt, proxyVars, Underway
<1>2. /\ att \in 1..MaxAttempts /\ result[att] = "none" /\ wallet \in Wallet
      /\ wallet = AttWallet[att] /\ budget[att] \in Nat /\ burned[att] \in Int
  BY <1>1, CurrentWallet DEF MeteredInv
<1>3. balance[wallet] \in Nat /\ balance[wallet] <= budget[att]
  <2>1. /\ Worth(wallet) \in Int /\ balance[wallet] \in Int /\ Worth(wallet) >= balance[wallet]
        /\ balance[wallet] >= 0
    BY <1>2, WorthBounds DEF MeteredInv, LedgerInv, NoWalletOverdrawn
  <2>2. Worth(wallet) <= budget[att]
    BY <1>1, <1>2 DEF MeteredInv, Budgets, Funded
  <2>3. QED
    BY <1>2, <2>1, <2>2
<1>4. /\ burned' \in [1..MaxAttempts -> Int] /\ burned'[att] = budget[att] - seen' /\ burned'[att] >= 0
      /\ \A i \in 1..MaxAttempts : i # att => burned'[i] = burned[i]
  BY <1>1, <1>2, <1>3 DEF MeteredInv, Types, MeteredTypeOK
<1>5. /\ LedgerInv' /\ UNCHANGED <<balance, status, holds, mints>>
      /\ \A w \in Wallet : Worth(w)' = Worth(w)
  BY <1>1, WorthAside DEF MeteredInv
<1>6. Types'
  <2>1. ProxyTypeOK' /\ calls' \in [Call -> Handler] /\ LedgerTypeOK'
    BY <1>1, <1>5, ProxyAside DEF MeteredInv, LedgerInv, Types, MeteredTypeOK, ProxyTypeOK
  <2>2. MeteredTypeOK'
    BY <1>1, <1>3, <1>4, <2>1 DEF MeteredInv, Types, MeteredTypeOK
  <2>3. QED
    BY <1>1, <1>2, <2>1, <2>2 DEF MeteredInv, Types
<1>7. OwnHolds' /\ (\A w : Failed(w)' = Failed(w)) /\ EverHeld(Bankroll)' = EverHeld(Bankroll)
  BY <1>1, <1>5, HoldsAside DEF MeteredInv
<1>8. Faults'
  BY <1>1, <1>7 DEF MeteredInv, Faults, Voiding
<1>9. Solves'
  <2>1. Attempts({"solved"})' = Attempts({"solved"})
    BY <1>1 DEF Attempts
  <2>2. QED
    BY <1>1, <1>5, <2>1 DEF MeteredInv, Solves, Voiding
<1>10. Budgets'
  BY <1>1, <1>5, AttemptWallets DEF MeteredInv, Budgets, Funded
<1>11. Burns'
  BY <1>1, <1>4 DEF Burns
<1>12. Accounts'
  <2>1. BurnedBy(att)' = BurnedBy(att) + 0
    BY <1>1, <1>2 DEF BurnedBy
  <2>2. RecordedBurn \in Int /\ RecordedBurn' = RecordedBurn + 0
    BY <1>1, <1>2, <1>4, <1>6, <2>1, RecordedRow DEF MeteredInv
  <2>3. Out' = Out
    BY <1>1 DEF Out
  <2>4. RecordedBurn' = RecordedBurn
    BY <2>2
  <2>5. QED
    BY <1>1, <1>5, <1>7, <2>3, <2>4 DEF MeteredInv, Accounts
<1>13. QED
  BY <1>5, <1>6, <1>7, <1>8, <1>9, <1>10, <1>11, <1>12 DEF MeteredInv

-----------------------------------------------------------------------------
\* A world that stops, stops with the book as it is.
LEMMA HaltInv ==
    ASSUME MeteredInv, Types', UNCHANGED ledgerVars,
           UNCHANGED <<calls, faulted, att, budget, outcome, result, burned>>,
           pc # "paying", pc' = "halted"
    PROVE  MeteredInv'
<1>1. /\ LedgerInv' /\ UNCHANGED <<balance, status, holds, mints>>
      /\ \A w \in Wallet : Worth(w)' = Worth(w)
  BY WorthAside DEF MeteredInv
<1>2. OwnHolds' /\ Faults' /\ Solves'
  BY <1>1, ResultsAside DEF Voiding
<1>3. Budgets'
  <2>1. ASSUME NEW i \in 1..MaxAttempts
        PROVE  Worth(AttWallet[i])' <= IF Funded(i)' THEN budget'[i] ELSE 0
    <3>1. Worth(AttWallet[i])' = Worth(AttWallet[i]) /\ Worth(AttWallet[i]) \in Int
      BY <1>1, AttemptWallets, WorthTypes DEF MeteredInv
    <3>2. Worth(AttWallet[i]) <= IF Funded(i) THEN budget[i] ELSE 0
      BY DEF MeteredInv, Budgets
    <3>3. budget'[i] = budget[i] /\ budget[i] \in Nat /\ (Funded(i) => Funded(i)')
      BY DEF MeteredInv, Types, MeteredTypeOK, Funded
    <3>4. QED
      BY <3>1, <3>2, <3>3
  <2>2. QED
    BY <2>1 DEF Budgets
<1>4. Burns' /\ Accounts'
  BY DEF Burns, Accounts
<1>5. QED
  BY <1>1, <1>2, <1>3, <1>4 DEF MeteredInv

\* A transfer of the orchestrator's is made, or is for nothing, or stops it.
Went(from, to, n, next) ==
    /\ LedgerInv' /\ UNCHANGED <<holds, mints>>
    /\ Moved(from, to, n) /\ pc' = next

LEMMA TransferOr ==
    ASSUME LedgerInv, NEW from \in Wallet \cup {AcctProvider}, NEW to \in Wallet, from # to,
           NEW n \in Nat, NEW next, TransferOrHalt(from, to, n, next)
    PROVE  \/ Went(from, to, n, next)
           \/ UNCHANGED ledgerVars /\ pc' = "halted"
<1>1. CASE Transfer(from, to, n) /\ pc' = next
  BY <1>1, TransferMoved DEF Went
<1>2. CASE n <= 0 /\ UNCHANGED ledgerVars /\ pc' = next
  <2>1. LedgerInv' /\ UNCHANGED <<balance, status, holds, mints>> /\ n = 0
    BY <1>2, WorthAside
  <2>2. balance \in [Account -> Int]
    BY DEF LedgerInv, LedgerTypeOK
  <2>3. Moved(from, to, n)
    BY <2>1, <2>2 DEF Moved
  <2>4. QED
    BY <1>2, <2>1, <2>3 DEF Went
<1>3. QED
  BY <1>1, <1>2 DEF TransferOrHalt, Halt

\* What credits that move do to the accounts the invariant speaks of.
LEMMA MovedTo ==
    ASSUME LedgerInv, LedgerInv', holds' = holds, NEW from \in Account, NEW to \in Account,
           NEW n \in Nat, Moved(from, to, n)
    PROVE  /\ \A w \in Wallet :
                 /\ Worth(w) \in Int
                 /\ Worth(w)' = Worth(w) + (IF w = to THEN n ELSE 0) - (IF w = from THEN n ELSE 0)
           /\ \A a \in {Bankroll, AcctBurn} :
                 /\ balance[a] \in Int
                 /\ balance'[a] = balance[a] + (IF a = to THEN n ELSE 0) - (IF a = from THEN n ELSE 0)
<1>1. balance \in [Account -> Int] /\ \A w \in Wallet : w \in Account
  BY SystemAccounts DEF LedgerInv, LedgerTypeOK
<1>2. ASSUME NEW w \in Wallet
      PROVE  /\ Worth(w) \in Int
             /\ Worth(w)' = Worth(w) + (IF w = to THEN n ELSE 0) - (IF w = from THEN n ELSE 0)
  <2>1. Worth(w)' = Worth(w) + balance'[w] - balance[w] /\ Worth(w) \in Int /\ balance[w] \in Int
    BY WorthMoves, WorthBounds
  <2>2. balance'[w] = balance[w] + (IF w = to THEN n ELSE 0) - (IF w = from THEN n ELSE 0)
    BY <1>1 DEF Moved
  <2>3. QED
    BY <2>1, <2>2
<1>3. QED
  BY <1>1, <1>2, AttemptWallets, SystemAccounts DEF Moved

\* The attempt's wallet is opened; it is new, and worth nothing.
LEMMA OpenAttemptInv ==
    ASSUME MeteredInv, OpenAttempt
    PROVE  MeteredInv'
<1>1. /\ pc = "opening" /\ pc' = "funding" /\ pc \in Underway /\ pc' \in Underway
      /\ CreateAccount(wallet)
      /\ UNCHANGED <<tokens, calls, faulted, att, bids, budget, seen, outcome, result, burned, retired>>
  BY DEF OpenAttempt, proxyVars, Underway
<1>2. wallet \in Wallet /\ att \in 1..MaxAttempts /\ result[att] = "none"
  BY <1>1, CurrentWallet DEF MeteredInv
<1>3. LedgerInv' /\ UNCHANGED <<balance, holds, mints>>
  BY <1>1, <1>2, StatusInv DEF MeteredInv, CreateAccount
<1>4. Types'
  <2>1. ProxyTypeOK' /\ calls' \in [Call -> Handler] /\ LedgerTypeOK'
    BY <1>1, <1>3, ProxyAside DEF MeteredInv, LedgerInv, Types, MeteredTypeOK, ProxyTypeOK
  <2>2. MeteredTypeOK'
    BY <1>1, <2>1 DEF MeteredInv, Types, MeteredTypeOK
  <2>3. QED
    BY <1>1, <1>2, <2>1, <2>2 DEF MeteredInv, Types
<1>5. Burns' /\ Out' = Out
  BY <1>1 DEF Burns, Out
<1>6. \A i \in 1..MaxAttempts : (Voiding(i)' => Voiding(i)) /\ Funded(i)' = Funded(i)
  BY <1>1 DEF Voiding, Funded
<1>7. QED
  BY <1>1, <1>3, <1>4, <1>5, <1>6, PlainStep

\* The ladder's column sums to an integer.
LEMMA RecordedType == ASSUME Types PROVE RecordedBurn \in Int
<1> DEFINE column == [i \in 1..MaxAttempts |-> BurnedBy(i)]
<1>1. column \in [1..MaxAttempts -> Int]
  BY DEF BurnedBy, Types, MeteredTypeOK
<1>2. RecordedBurn = Total(MaxAttempts, column)
  BY DEF RecordedBurn
<1> HIDE DEF column
<1>3. QED
  BY <1>1, <1>2, TotalType, AttemptWallets

\* The types, after a step that neither begins an attempt nor ends one.
LEMMA SameAttempt ==
    ASSUME MeteredInv, LedgerInv', UNCHANGED <<calls, att, bids, budget, outcome, result, burned>>,
           faulted' \subseteq faulted, seen' \in Nat, retired' \in BOOLEAN,
           tokens' \in [Token -> Wallet \cup {Unauthorized}],
           pc' \in {"idle", "closing", "halted"} \cup Underway, pc' \in Underway => pc \in Underway
    PROVE  Types'
<1>1. ProxyTypeOK' /\ calls' \in [Call -> Handler]
  BY ProxyAside DEF MeteredInv
<1>2. LedgerTypeOK'
  BY DEF LedgerInv
<1>3. MeteredTypeOK'
  BY <1>1, <1>2 DEF MeteredInv, Types, MeteredTypeOK, Underway
<1>4. QED
  BY <1>1, <1>3 DEF MeteredInv, Types

\* A refused retirement is passed over.
LEMMA RetireAttemptInv ==
    ASSUME MeteredInv, RetireAttempt
    PROVE  MeteredInv'
<1>1. /\ pc = "retiring" /\ pc' = "attributing" /\ pc \in Underway /\ pc' \in Underway
      /\ UNCHANGED <<tokens, calls, faulted, att, bids, budget, seen, outcome, result, burned, retired>>
      /\ Retire(wallet) \/ UNCHANGED ledgerVars
  BY DEF RetireAttempt, proxyVars, Underway
<1>2. wallet \in Wallet
  BY <1>1, CurrentWallet DEF MeteredInv
<1>3. LedgerInv' /\ UNCHANGED <<balance, holds, mints>>
  BY <1>1, <1>2, StatusInv, LedgerUnchanged DEF MeteredInv, Retire, ledgerVars
<1>4. Types'
  BY <1>1, <1>3, SameAttempt DEF MeteredInv, Types, MeteredTypeOK, ProxyTypeOK
<1>5. Burns' /\ Out' = Out
  BY <1>1 DEF MeteredInv, Burns, Out
<1>6. \A i \in 1..MaxAttempts : (Voiding(i)' => Voiding(i)) /\ Funded(i)' = Funded(i)
  BY <1>1 DEF Voiding, Funded
<1>7. QED
  BY <1>1, <1>3, <1>4, <1>5, <1>6, PlainStep

\* A bankrupt agent's wallet is closed, or its holds stop the world.
LEMMA RetireAgentInv ==
    ASSUME MeteredInv, RetireAgent
    PROVE  MeteredInv'
<1>1. /\ pc = "closing" /\ pc' \in {"idle", "halted"} /\ retired' \in BOOLEAN
      /\ UNCHANGED <<tokens, calls, faulted, att, bids, budget, seen, outcome, result, burned>>
      /\ Retire(Bankroll) \/ UNCHANGED ledgerVars
  BY DEF RetireAgent, proxyVars, Halt, MeteredInv, Types, MeteredTypeOK
<1>2. LedgerInv' /\ UNCHANGED <<balance, holds, mints>>
  BY <1>1, StatusInv, LedgerUnchanged, AttemptWallets DEF MeteredInv, Retire, ledgerVars
<1>3. Types'
  BY <1>1, <1>2, SameAttempt DEF MeteredInv, Types, MeteredTypeOK, ProxyTypeOK, Underway
<1>4. Burns' /\ Out' = Out
  BY <1>1 DEF Burns, Out
<1>5. \A i \in 1..MaxAttempts : (Voiding(i)' => Voiding(i)) /\ Funded(i)' = Funded(i)
  BY <1>1 DEF Voiding, Funded
<1>6. QED
  BY <1>1, <1>2, <1>3, <1>4, <1>5, PlainStep

\* The budget leaves the bankroll for a wallet worth nothing.
LEMMA FundAttemptInv ==
    ASSUME MeteredInv, FundAttempt
    PROVE  MeteredInv'
<1> DEFINE n == budget[att]
<1>1. /\ pc = "funding" /\ TransferOrHalt(Bankroll, wallet, n, "attempting")
      /\ UNCHANGED <<calls, att, bids, budget, seen, outcome, result, burned, retired>>
      /\ pc \in Underway /\ faulted' \subseteq faulted
      /\ UNCHANGED tokens \/ Authorize(AttToken[att], wallet)
  BY DEF FundAttempt, Underway
<1>2. /\ att \in 1..MaxAttempts /\ result[att] = "none" /\ n \in Nat
      /\ wallet \in Wallet /\ wallet # Bankroll /\ wallet = AttWallet[att]
  BY <1>1, CurrentWallet DEF MeteredInv
<1>3. LedgerInv /\ Bankroll \in Wallet /\ seen \in Nat /\ retired \in BOOLEAN
  BY AttemptWallets DEF MeteredInv, Types, MeteredTypeOK
<1>4. tokens' \in [Token -> Wallet \cup {Unauthorized}]
  BY <1>1, <1>2, TokensTyped DEF MeteredInv
<1>5. CASE UNCHANGED ledgerVars /\ pc' = "halted"
  <2>1. LedgerInv' /\ UNCHANGED <<balance, status, holds, mints>>
    BY <1>3, <1>5, WorthAside
  <2>2. UNCHANGED faulted
    BY <1>5 DEF FundAttempt
  <2>3. Types'
    BY <1>1, <1>3, <1>4, <1>5, <2>1, SameAttempt DEF Underway
  <2>4. QED
    BY <1>1, <1>5, <2>2, <2>3, HaltInv
<1>6. CASE Went(Bankroll, wallet, n, "attempting")
  <2>1. LedgerInv' /\ UNCHANGED <<holds, mints>> /\ pc' = "attempting" /\ pc' \in Underway
    BY <1>6 DEF Went, Underway
  <2> HIDE DEF n
  <2>2. /\ \A w \in Wallet :
              /\ Worth(w) \in Int
              /\ Worth(w)' = Worth(w) + (IF w = wallet THEN n ELSE 0)
                                      - (IF w = Bankroll THEN n ELSE 0)
        /\ \A a \in {Bankroll, AcctBurn} :
              /\ balance[a] \in Int
              /\ balance'[a] = balance[a] + (IF a = wallet THEN n ELSE 0)
                                          - (IF a = Bankroll THEN n ELSE 0)
    BY <1>2, <1>3, <1>6, <2>1, MovedTo, SystemAccounts DEF Went
  <2>3. Types'
    BY <1>1, <1>3, <1>4, <2>1, SameAttempt
  <2>4. OwnHolds' /\ Faults' /\ Solves'
    BY <1>1, <2>1, ResultsAside DEF Voiding
  <2>5. Budgets'
    <3>1. ASSUME NEW i \in 1..MaxAttempts
          PROVE  Worth(AttWallet[i])' <= IF Funded(i)' THEN budget'[i] ELSE 0
      <4>1. /\ AttWallet[i] \in Wallet /\ AttWallet[i] # Bankroll
            /\ AttWallet[i] = wallet <=> i = att
        BY <1>2, AttemptWallets
      <4>2. /\ Worth(AttWallet[i]) \in Int /\ budget[i] \in Nat /\ budget'[i] = budget[i]
            /\ Worth(AttWallet[i]) <= IF Funded(i) THEN budget[i] ELSE 0
        BY <1>1, <2>2, <4>1 DEF MeteredInv, Types, MeteredTypeOK, Budgets
      <4>3. Worth(AttWallet[i])' = Worth(AttWallet[i]) + (IF i = att THEN n ELSE 0)
        BY <1>2, <2>2, <4>1, <4>2
      <4>4. CASE i = att
        <5>1. ~Funded(i) /\ Funded(i)' /\ budget[i] = n
          BY <1>1, <1>2, <2>1, <4>4 DEF Funded, n
        <5>2. QED
          BY <1>2, <4>2, <4>3, <4>4, <5>1
      <4>5. CASE i # att
        <5>1. Funded(i)' = Funded(i)
          BY <1>1, <2>1, <4>5 DEF Funded
        <5>2. QED
          BY <4>2, <4>3, <4>5, <5>1
      <4>6. QED
        BY <4>4, <4>5
    <3>2. QED
      BY <3>1 DEF Budgets
  <2>6. Burns'
    BY <2>1 DEF Burns
  <2>7. Accounts'
    <3>1. Out = 0 /\ Out' = n
      BY <1>1, <2>1 DEF Out, n
    <3>2. RecordedBurn' = RecordedBurn /\ EverHeld(Bankroll)' = EverHeld(Bankroll)
      BY <1>1, <2>1, RecordAside, HoldsAside DEF MeteredInv
    <3>3. balance'[Bankroll] = balance[Bankroll] - n /\ balance'[AcctBurn] = balance[AcctBurn]
            /\ balance[Bankroll] \in Int /\ balance[AcctBurn] \in Int
      BY <1>2, <1>3, <2>2, SystemAccounts DEF System
    <3>4. RecordedBurn \in Int
      BY RecordedType DEF MeteredInv
    <3>5. QED
      BY <1>1, <1>2, <2>1, <3>1, <3>2, <3>3, <3>4 DEF MeteredInv, Accounts
  <2>8. QED
    BY <2>1, <2>3, <2>4, <2>5, <2>6, <2>7 DEF MeteredInv
<1>7. QED
  BY <1>1, <1>2, <1>3, <1>5, <1>6, TransferOr

\* No budget is exceeded by what leaves an attempt's wallet.
LEMMA BudgetsKept ==
    ASSUME MeteredInv, LedgerInv', budget' = budget,
           \A i \in 1..MaxAttempts : /\ Worth(AttWallet[i])' <= Worth(AttWallet[i])
                                     /\ Funded(i)' = Funded(i)
    PROVE  Budgets'
<1>1. ASSUME NEW i \in 1..MaxAttempts
      PROVE  Worth(AttWallet[i])' <= IF Funded(i)' THEN budget'[i] ELSE 0
  <2>1. Worth(AttWallet[i]) \in Int /\ Worth(AttWallet[i])' \in Int
    BY AttemptWallets, WorthTypes DEF MeteredInv
  <2>2. budget[i] \in Nat /\ Worth(AttWallet[i]) <= IF Funded(i) THEN budget[i] ELSE 0
    BY DEF MeteredInv, Budgets, Types, MeteredTypeOK
  <2>3. QED
    BY <2>1, <2>2
<1>2. QED
  BY <1>1 DEF Budgets

\* What was read comes back to the bankroll.
LEMMA MergeBackInv ==
    ASSUME MeteredInv, MergeBack
    PROVE  MeteredInv'
<1>1. /\ pc = "merging" /\ TransferOrHalt(wallet, Bankroll, seen, "retiring")
      /\ seen' = 0
      /\ UNCHANGED <<tokens, calls, faulted, att, bids, budget, outcome, result, burned, retired>>
      /\ pc \in Underway
  BY DEF MergeBack, Underway, proxyVars
<1>2. /\ att \in 1..MaxAttempts /\ result[att] = "none" /\ budget[att] \in Nat
      /\ wallet \in Wallet /\ wallet # Bankroll /\ wallet = AttWallet[att]
      /\ burned[att] \in Int /\ seen \in Nat
  BY <1>1, CurrentWallet DEF MeteredInv
<1>3. LedgerInv /\ Bankroll \in Wallet /\ seen' \in Nat /\ retired \in BOOLEAN
      /\ tokens \in [Token -> Wallet \cup {Unauthorized}]
  BY <1>1, AttemptWallets DEF MeteredInv, Types, MeteredTypeOK, ProxyTypeOK
<1>4. CASE UNCHANGED ledgerVars /\ pc' = "halted"
  <2>1. LedgerInv' /\ UNCHANGED <<balance, status, holds, mints>>
    BY <1>3, <1>4, WorthAside
  <2>2. Types'
    BY <1>1, <1>3, <1>4, <2>1, SameAttempt DEF Underway
  <2>3. QED
    BY <1>1, <1>4, <2>2, HaltInv
<1>5. CASE Went(wallet, Bankroll, seen, "retiring")
  <2>1. LedgerInv' /\ UNCHANGED <<holds, mints>> /\ pc' = "retiring" /\ pc' \in Underway
    BY <1>5 DEF Went, Underway
  <2>2. /\ \A w \in Wallet :
              /\ Worth(w) \in Int
              /\ Worth(w)' = Worth(w) + (IF w = Bankroll THEN seen ELSE 0)
                                      - (IF w = wallet THEN seen ELSE 0)
        /\ \A a \in {Bankroll, AcctBurn} :
              /\ balance[a] \in Int
              /\ balance'[a] = balance[a] + (IF a = Bankroll THEN seen ELSE 0)
                                          - (IF a = wallet THEN seen ELSE 0)
    BY <1>2, <1>3, <1>5, <2>1, MovedTo, SystemAccounts DEF Went
  <2>3. Types'
    BY <1>1, <1>3, <2>1, SameAttempt
  <2>4. OwnHolds' /\ Faults' /\ Solves'
    BY <1>1, <2>1, ResultsAside DEF Voiding
  <2>5. Budgets'
    <3>1. ASSUME NEW i \in 1..MaxAttempts
          PROVE  Worth(AttWallet[i])' <= Worth(AttWallet[i]) /\ Funded(i)' = Funded(i)
      <4>1. AttWallet[i] \in Wallet /\ AttWallet[i] # Bankroll
        BY AttemptWallets
      <4>2. Worth(AttWallet[i])' <= Worth(AttWallet[i])
        BY <1>2, <2>2, <4>1
      <4>3. QED
        BY <1>1, <2>1, <4>2 DEF Funded
    <3>2. QED
      BY <1>1, <2>1, <3>1, BudgetsKept
  <2>6. burned[att] = budget[att] - seen /\ burned[att] >= 0 /\ Burns'
    BY <1>1, <2>1 DEF MeteredInv, Burns
  <2>7. Accounts'
    <3>1. Out = budget[att] /\ Out' = burned[att]
      BY <1>1, <2>1 DEF Out
    <3>2. RecordedBurn' = RecordedBurn /\ EverHeld(Bankroll)' = EverHeld(Bankroll)
      BY <1>1, <2>1, RecordAside, HoldsAside DEF MeteredInv
    <3>3. balance'[Bankroll] = balance[Bankroll] + seen /\ balance'[AcctBurn] = balance[AcctBurn]
            /\ balance[Bankroll] \in Int /\ balance[AcctBurn] \in Int
      BY <1>2, <1>3, <2>2, SystemAccounts DEF System
    <3>4. RecordedBurn \in Int
      BY RecordedType DEF MeteredInv
    <3>5. QED
      BY <1>1, <1>2, <2>1, <2>6, <3>1, <3>2, <3>3, <3>4 DEF MeteredInv, Accounts
  <2>8. QED
    BY <2>1, <2>3, <2>4, <2>5, <2>6, <2>7 DEF MeteredInv
<1>6. QED
  BY <1>1, <1>2, <1>3, <1>4, <1>5, TransferOr

\* A bankrupt agent's dust is burned.
LEMMA BurnDustInv ==
    ASSUME MeteredInv, BurnDust
    PROVE  MeteredInv'
<1>1. /\ pc = "burning" /\ seen' = 0
      /\ UNCHANGED <<tokens, calls, faulted, att, bids, budget, outcome, result, burned, retired>>
  BY DEF BurnDust, proxyVars
<1>2. LedgerInv /\ Bankroll \in Wallet /\ seen \in Nat /\ retired \in BOOLEAN
      /\ tokens \in [Token -> Wallet \cup {Unauthorized}]
  BY AttemptWallets DEF MeteredInv, Types, MeteredTypeOK, ProxyTypeOK
<1>3. ASSUME UNCHANGED ledgerVars, pc' \in {"closing", "halted"} PROVE MeteredInv'
  <2>1. LedgerInv' /\ UNCHANGED <<balance, status, holds, mints>>
    BY <1>2, <1>3, WorthAside
  <2>2. Types'
    BY <1>1, <1>2, <1>3, <2>1, SameAttempt DEF Underway
  <2>3. Burns' /\ Out' = Out
    BY <1>1, <1>3 DEF Burns, Out
  <2>4. \A i \in 1..MaxAttempts : (Voiding(i)' => Voiding(i)) /\ Funded(i)' = Funded(i)
    BY <1>1, <1>3 DEF Voiding, Funded
  <2>5. QED
    BY <1>1, <1>3, <2>1, <2>2, <2>3, <2>4, PlainStep
<1>4. ASSUME Burn(Bankroll, seen), pc' = "closing" PROVE MeteredInv'
  <2>1. LedgerInv' /\ UNCHANGED <<holds, mints>> /\ Moved(Bankroll, AcctBurn, seen)
    BY <1>2, <1>4, BurnMoves
  <2>2. /\ \A w \in Wallet :
              /\ Worth(w) \in Int
              /\ Worth(w)' = Worth(w) + (IF w = AcctBurn THEN seen ELSE 0)
                                      - (IF w = Bankroll THEN seen ELSE 0)
        /\ \A a \in {Bankroll, AcctBurn} :
              /\ balance[a] \in Int
              /\ balance'[a] = balance[a] + (IF a = AcctBurn THEN seen ELSE 0)
                                          - (IF a = Bankroll THEN seen ELSE 0)
    BY <1>2, <2>1, MovedTo, SystemAccounts
  <2>3. Types'
    BY <1>1, <1>2, <1>4, <2>1, SameAttempt DEF Underway
  <2>4. OwnHolds' /\ Faults' /\ Solves'
    BY <1>1, <1>4, <2>1, ResultsAside DEF Voiding
  <2>5. Budgets'
    <3>1. ASSUME NEW i \in 1..MaxAttempts
          PROVE  Worth(AttWallet[i])' <= Worth(AttWallet[i]) /\ Funded(i)' = Funded(i)
      <4>1. AttWallet[i] \in Wallet /\ AttWallet[i] # Bankroll /\ AttWallet[i] # AcctBurn
        BY AttemptWallets, SystemAccounts DEF System
      <4>2. Worth(AttWallet[i])' <= Worth(AttWallet[i])
        BY <1>2, <2>2, <4>1
      <4>3. QED
        BY <1>1, <1>4, <4>2 DEF Funded
    <3>2. QED
      BY <1>1, <2>1, <3>1, BudgetsKept
  <2>6. Burns'
    BY <1>4 DEF Burns
  <2>7. Accounts'
    <3>1. Out = 0 /\ Out' = 0
      BY <1>1, <1>4 DEF Out
    <3>2. RecordedBurn' = RecordedBurn /\ EverHeld(Bankroll)' = EverHeld(Bankroll)
      BY <1>1, <2>1, RecordAside, HoldsAside DEF MeteredInv
    <3>3. Bankroll # AcctBurn
      BY <1>2, SystemAccounts DEF System
    <3>4. balance'[Bankroll] = balance[Bankroll] - seen /\ balance'[AcctBurn] = balance[AcctBurn] + seen
            /\ balance[Bankroll] \in Int /\ balance[AcctBurn] \in Int
      BY <1>2, <2>2, <3>3
    <3>5. RecordedBurn \in Int
      BY RecordedType DEF MeteredInv
    <3>6. QED
      BY <1>1, <1>2, <1>4, <2>1, <3>1, <3>2, <3>4, <3>5 DEF MeteredInv, Accounts
  <2>8. QED
    BY <2>1, <2>3, <2>4, <2>5, <2>6, <2>7 DEF MeteredInv
<1>5. QED
  BY <1>3, <1>4 DEF BurnDust, Halt

\* A solved attempt's payout is minted, once.
LEMMA PayInv ==
    ASSUME MeteredInv, Pay
    PROVE  MeteredInv'
<1> DEFINE n == AskedPrice
           paid == mints[PayoutRef]
<1>1. /\ pc = "paying" /\ pc' = "settling" /\ Mint(Bankroll, n, PayoutRef)
      /\ UNCHANGED <<tokens, calls, faulted, att, bids, budget, seen, outcome, result, burned, retired>>
  BY DEF Pay, proxyVars
<1>2. LedgerInv /\ Bankroll \in Wallet /\ n \in Nat /\ PayoutRef \in Ref
  BY AttemptWallets DEF MeteredInv
<1>3. LedgerInv' /\ holds' = holds /\ Moved(AcctMint, Bankroll, n)
        /\ mints' = [mints EXCEPT ![PayoutRef] = @ + 1]
  BY <1>1, <1>2, MintMoves
<1>4. paid \in Nat /\ mints'[PayoutRef] = paid + 1
  BY <1>2, <1>3 DEF LedgerInv, LedgerTypeOK
<1>5. /\ \A w \in Wallet :
            /\ Worth(w) \in Int
            /\ Worth(w)' = Worth(w) + (IF w = Bankroll THEN n ELSE 0)
                                    - (IF w = AcctMint THEN n ELSE 0)
      /\ \A a \in {Bankroll, AcctBurn} :
            /\ balance[a] \in Int
            /\ balance'[a] = balance[a] + (IF a = Bankroll THEN n ELSE 0)
                                        - (IF a = AcctMint THEN n ELSE 0)
  BY <1>2, <1>3, MovedTo, SystemAccounts
<1>6. Types'
  <2>1. ProxyTypeOK' /\ calls' \in [Call -> Handler] /\ LedgerTypeOK'
    BY <1>1, <1>3, ProxyAside DEF MeteredInv, LedgerInv, Types, MeteredTypeOK, ProxyTypeOK
  <2>2. MeteredTypeOK'
    BY <1>1, <2>1 DEF MeteredInv, Types, MeteredTypeOK
  <2>3. QED
    BY <1>1, <2>1, <2>2 DEF MeteredInv, Types, Underway
<1>7. OwnHolds' /\ (\A w : Failed(w)' = Failed(w)) /\ EverHeld(Bankroll)' = EverHeld(Bankroll)
  BY <1>1, <1>3, HoldsAside DEF MeteredInv
<1>8. Faults'
  BY <1>1, <1>7 DEF MeteredInv, Faults, Voiding
<1>9. Solves'
  <2>1. Attempts({"solved"})' = Attempts({"solved"})
    BY <1>1 DEF Attempts
  <2>2. Cardinality(Attempts({"solved"})) = paid + 1
    BY <1>1 DEF MeteredInv, Solves
  <2>3. QED
    BY <1>1, <1>4, <2>1, <2>2 DEF MeteredInv, Solves, Voiding
<1>10. Budgets'
  <2>1. ASSUME NEW i \in 1..MaxAttempts
        PROVE  Worth(AttWallet[i])' <= Worth(AttWallet[i]) /\ Funded(i)' = Funded(i)
    <3>1. AttWallet[i] \in Wallet /\ AttWallet[i] # Bankroll /\ AttWallet[i] # AcctMint
      BY AttemptWallets, SystemAccounts DEF System
    <3>2. QED
      BY <1>1, <1>5, <3>1 DEF Funded
  <2>2. QED
    BY <1>1, <1>3, <2>1, BudgetsKept
<1>11. Burns'
  BY <1>1 DEF Burns
<1>12. Accounts'
  <2>1. Out = 0 /\ Out' = 0
    BY <1>1 DEF Out
  <2>2. RecordedBurn' = RecordedBurn /\ RecordedBurn \in Int
    BY <1>1, RecordAside, RecordedType DEF MeteredInv
  <2>3. Bankroll # AcctBurn /\ Bankroll # AcctMint /\ AcctBurn # AcctMint
    BY <1>2, SystemAccounts DEF System, AcctBurn, AcctMint
  <2>4. balance'[Bankroll] = balance[Bankroll] + n /\ balance'[AcctBurn] = balance[AcctBurn]
          /\ balance[Bankroll] \in Int /\ balance[AcctBurn] \in Int
    BY <1>2, <1>5, <2>3
  <2>5. n * (paid + 1) = n * paid + n /\ n * paid \in Int
    <3>1. n \in Int /\ paid \in Int
      BY <1>2, <1>4
    <3>2. QED
      BY <3>1, OneMore
  <2>6. ~EverHeld(Bankroll) => Grant + n * paid = balance[Bankroll] + balance[AcctBurn] + RecordedBurn
    BY <1>1, <2>1, <2>2, <2>4 DEF MeteredInv, Accounts
  <2>7. Grant \in Nat
    BY AttemptWallets
  <2> HIDE DEF n, paid
  <2>8. ~EverHeld(Bankroll) =>
          Grant + n * (paid + 1) = balance'[Bankroll] + balance'[AcctBurn] + RecordedBurn'
    BY <1>2, <2>2, <2>4, <2>5, <2>6, <2>7
  <2>9. QED
    BY <1>2, <1>4, <1>7, <2>1, <2>2, <2>4, <2>8 DEF Accounts, n
<1>13. QED
  BY <1>3, <1>6, <1>7, <1>8, <1>9, <1>10, <1>11, <1>12 DEF MeteredInv

\* What an attempt came to is written once, on its own row.
LEMMA ResultWritten ==
    ASSUME Types, pc \in Underway, NEW r \in {"solved", "failed", "voided"},
           result' = [result EXCEPT ![att] = r]
    PROVE  /\ result' \in [1..MaxAttempts -> {"none", "solved", "failed", "voided"}]
           /\ result'[att] = r /\ \A i \in 1..MaxAttempts : i # att => result'[i] = result[i]
           /\ Attempts({"solved"})' = Attempts({"solved"}) \cup (IF r = "solved" THEN {att} ELSE {})
           /\ att \notin Attempts({"solved"})
<1>1. att \in 1..MaxAttempts /\ result[att] = "none"
  BY CurrentWallet
<1>2. /\ result' \in [1..MaxAttempts -> {"none", "solved", "failed", "voided"}]
      /\ result'[att] = r /\ \A i \in 1..MaxAttempts : i # att => result'[i] = result[i]
  BY <1>1 DEF Types, MeteredTypeOK
<1>3. QED
  BY <1>1, <1>2 DEF Attempts

\* A voided attempt gives back what it burned, and nothing is recorded of it.
LEMMA RefundAttemptInv ==
    ASSUME MeteredInv, RefundAttempt
    PROVE  MeteredInv'
<1> DEFINE n == burned[att]
<1>1. /\ pc = "refunding" /\ TransferOrHalt(AcctProvider, Bankroll, n, "idle")
      /\ result' = IF pc' = "halted" THEN result ELSE [result EXCEPT ![att] = "voided"]
      /\ UNCHANGED <<tokens, calls, faulted, att, bids, budget, seen, outcome, burned, retired>>
      /\ pc \in Underway
  BY DEF RefundAttempt, Underway, proxyVars
<1>2. att \in 1..MaxAttempts /\ result[att] = "none" /\ n \in Nat
  BY <1>1, CurrentWallet DEF MeteredInv, Burns
<1>3. LedgerInv /\ Bankroll \in Wallet /\ seen \in Nat /\ retired \in BOOLEAN
      /\ tokens \in [Token -> Wallet \cup {Unauthorized}] /\ Bankroll # AcctProvider
  BY AttemptWallets, SystemAccounts DEF MeteredInv, Types, MeteredTypeOK, ProxyTypeOK, System
<1>4. CASE UNCHANGED ledgerVars /\ pc' = "halted"
  <2>1. LedgerInv' /\ UNCHANGED <<balance, status, holds, mints>>
    BY <1>3, <1>4, WorthAside
  <2>2. Types'
    BY <1>1, <1>3, <1>4, <2>1, SameAttempt DEF Underway
  <2>3. QED
    BY <1>1, <1>4, <2>2, HaltInv
<1>5. CASE Went(AcctProvider, Bankroll, n, "idle")
  <2>1. LedgerInv' /\ UNCHANGED <<holds, mints>> /\ pc' = "idle"
    BY <1>5 DEF Went
  <2>2. result' = [result EXCEPT ![att] = "voided"]
    BY <1>1, <2>1
  <2>3. /\ result' \in [1..MaxAttempts -> {"none", "solved", "failed", "voided"}]
        /\ result'[att] = "voided" /\ \A i \in 1..MaxAttempts : i # att => result'[i] = result[i]
        /\ Attempts({"solved"})' = Attempts({"solved"})
    BY <1>1, <2>2, ResultWritten DEF MeteredInv
  <2>4. /\ \A w \in Wallet :
              /\ Worth(w) \in Int
              /\ Worth(w)' = Worth(w) + (IF w = Bankroll THEN n ELSE 0)
                                      - (IF w = AcctProvider THEN n ELSE 0)
        /\ \A a \in {Bankroll, AcctBurn} :
              /\ balance[a] \in Int
              /\ balance'[a] = balance[a] + (IF a = Bankroll THEN n ELSE 0)
                                          - (IF a = AcctProvider THEN n ELSE 0)
    BY <1>2, <1>3, <1>5, <2>1, MovedTo, SystemAccounts DEF Went
  <2>5. Types'
    <3>1. ProxyTypeOK' /\ calls' \in [Call -> Handler] /\ LedgerTypeOK'
      BY <1>1, <1>3, <2>1, ProxyAside DEF MeteredInv, LedgerInv
    <3>2. MeteredTypeOK'
      BY <1>1, <2>1, <2>3, <3>1 DEF MeteredInv, Types, MeteredTypeOK
    <3>3. att \in Nat
      BY DEF MeteredInv, Types, MeteredTypeOK
    <3>4. QED
      BY <1>1, <1>2, <2>1, <2>3, <3>1, <3>2, <3>3 DEF MeteredInv, Types, Underway
  <2>6. OwnHolds' /\ (\A w : Failed(w)' = Failed(w)) /\ EverHeld(Bankroll)' = EverHeld(Bankroll)
    BY <1>1, <2>1, HoldsAside DEF MeteredInv
  <2>7. \A i \in 1..MaxAttempts : Voiding(i)' => Voiding(i)
    BY <1>1, <2>1, <2>3 DEF Voiding
  <2>8. Faults'
    BY <1>1, <2>6, <2>7 DEF MeteredInv, Faults
  <2>9. Solves'
    <3>1. \A i \in 1..MaxAttempts : result'[i] = "failed" => result[i] = "failed"
      BY <2>3
    <3>2. QED
      BY <1>1, <2>1, <2>3, <2>7, <3>1 DEF MeteredInv, Solves
  <2>10. Budgets'
    <3>1. ASSUME NEW i \in 1..MaxAttempts
          PROVE  Worth(AttWallet[i])' <= Worth(AttWallet[i]) /\ Funded(i)' = Funded(i)
      <4>1. AttWallet[i] \in Wallet /\ AttWallet[i] # Bankroll /\ AttWallet[i] # AcctProvider
        BY AttemptWallets, SystemAccounts DEF System
      <4>2. Worth(AttWallet[i])' <= Worth(AttWallet[i])
        BY <1>2, <2>4, <4>1
      <4>3. QED
        BY <1>1, <2>1, <4>2 DEF Funded
    <3>2. QED
      BY <1>1, <2>1, <3>1, BudgetsKept
  <2>11. Burns'
    BY <2>1 DEF Burns
  <2>12. Accounts'
    <3>1. Out = n /\ Out' = 0
      BY <1>1, <2>1 DEF Out
    <3>2. BurnedBy(att) = 0 /\ BurnedBy(att)' = BurnedBy(att) + 0
      BY <1>1, <1>2, <2>3 DEF BurnedBy
    <3>3. RecordedBurn \in Int /\ RecordedBurn' = RecordedBurn + 0
      BY <1>1, <1>2, <2>3, <2>5, <3>2, RecordedRow DEF MeteredInv
    <3>4. balance'[Bankroll] = balance[Bankroll] + n /\ balance'[AcctBurn] = balance[AcctBurn]
            /\ balance[Bankroll] \in Int /\ balance[AcctBurn] \in Int
      <4>1. Bankroll # AcctBurn /\ AcctBurn # AcctProvider
        BY <1>3, SystemAccounts DEF System, AcctBurn, AcctProvider
      <4>2. QED
        BY <1>2, <1>3, <2>4, <4>1
    <3>5. RecordedBurn' = RecordedBurn
      BY <3>3
    <3>6. QED
      BY <1>1, <1>2, <2>1, <2>6, <3>1, <3>3, <3>4, <3>5 DEF MeteredInv, Accounts
  <2>13. QED
    BY <2>1, <2>5, <2>6, <2>8, <2>9, <2>10, <2>11, <2>12 DEF MeteredInv
<1>6. QED
  <2>1. AcctProvider # Bankroll /\ AcctProvider \in Wallet \cup {AcctProvider}
    BY <1>3
  <2>2. QED
    BY <1>1, <1>2, <1>3, <1>4, <1>5, <2>1, TransferOr

\* The attribution: what the attempt came to follows from how its step ended
\* and from its own faults.
LEMMA AttributeInv ==
    ASSUME MeteredInv, Attribute
    PROVE  MeteredInv'
<1>1. /\ pc = "attributing" /\ pc \in Underway
      /\ UNCHANGED <<ledgerVars, tokens, calls, att, bids, budget, seen, outcome, burned, retired>>
      /\ faulted' \subseteq faulted
  BY DEF Attribute, Underway
<1>2. /\ att \in 1..MaxAttempts /\ result[att] = "none" /\ burned[att] \in Int
      /\ wallet = AttWallet[att] /\ att \in Nat
  BY <1>1, CurrentWallet DEF MeteredInv
<1>3. /\ LedgerInv' /\ UNCHANGED <<balance, status, holds, mints>>
      /\ \A w \in Wallet : Worth(w)' = Worth(w)
  BY <1>1, WorthAside DEF MeteredInv
<1>4. OwnHolds' /\ (\A w : Failed(w)' = Failed(w)) /\ EverHeld(Bankroll)' = EverHeld(Bankroll)
  BY <1>1, <1>3, HoldsAside DEF MeteredInv
<1>5. ProxyTypeOK' /\ calls' \in [Call -> Handler] /\ LedgerTypeOK'
  BY <1>1, <1>3, ProxyAside DEF MeteredInv, LedgerInv, Types, MeteredTypeOK, ProxyTypeOK
<1>6. Budgets' \/ pc' \notin {"paying", "refunding", "settling"}
  BY <1>1, <1>3, AttemptWallets DEF MeteredInv, Budgets, Funded
<1>7. ASSUME NEW r \in {"solved", "failed"}, result' = [result EXCEPT ![att] = r],
             pc' = (IF r = "solved" THEN "paying" ELSE "settling"),
             r = "solved" <=> Solved
      PROVE  MeteredInv'
  <2>1. /\ result' \in [1..MaxAttempts -> {"none", "solved", "failed", "voided"}]
        /\ result'[att] = r /\ \A i \in 1..MaxAttempts : i # att => result'[i] = result[i]
        /\ Attempts({"solved"})' = Attempts({"solved"}) \cup (IF r = "solved" THEN {att} ELSE {})
        /\ att \notin Attempts({"solved"})
    BY <1>1, <1>7, ResultWritten DEF MeteredInv
  <2>2. Types'
    <3>1. MeteredTypeOK'
      BY <1>1, <1>5, <1>7, <2>1 DEF MeteredInv, Types, MeteredTypeOK
    <3>2. QED
      BY <1>1, <1>2, <1>5, <1>7, <2>1, <3>1 DEF MeteredInv, Types, Underway
  <2>3. \A i \in 1..MaxAttempts : Voiding(i)' => Voiding(i)
    BY <1>1, <1>7, <2>1 DEF Voiding
  <2>4. Faults'
    BY <1>1, <1>4, <2>3 DEF MeteredInv, Faults
  <2>5. Solves'
    <3>1. IsFiniteSet(Attempts({"solved"}))
      <4>1. IsFiniteSet(1..MaxAttempts) /\ Attempts({"solved"}) \subseteq 1..MaxAttempts
        BY AttemptWallets, FS_Interval DEF Attempts
      <4>2. QED
        BY <4>1, FS_Subset
    <3>2. Cardinality(Attempts({"solved"})) = mints[PayoutRef] /\ mints[PayoutRef] \in Nat
      BY <1>1, AttemptWallets DEF MeteredInv, Solves, LedgerInv, LedgerTypeOK
    <3>3. Cardinality(Attempts({"solved"})')
            = mints'[PayoutRef] + (IF pc' = "paying" THEN 1 ELSE 0)
      <4>1. CASE r = "solved"
        BY <1>3, <1>7, <2>1, <3>1, <3>2, <4>1, FS_AddElement
      <4>2. CASE r # "solved"
        <5>1. Attempts({"solved"})' = Attempts({"solved"}) /\ pc' = "settling"
          BY <1>7, <2>1, <4>2
        <5>2. QED
          BY <1>3, <3>2, <5>1
      <4>3. QED
        BY <4>1, <4>2
    <3>4. \A i \in 1..MaxAttempts : result'[i] = "failed" => result[i] = "failed" \/ (~Solved /\ i = att)
      BY <1>7, <2>1
    <3>5. QED
      BY <1>1, <2>3, <3>3, <3>4 DEF MeteredInv, Solves, Solved
  <2>6. Burns' /\ Out' = 0 /\ Out = burned[att]
    BY <1>1, <1>7 DEF Burns, Out
  <2>7. Accounts'
    <3>1. BurnedBy(att) = 0 /\ BurnedBy(att)' = BurnedBy(att) + burned[att]
      BY <1>1, <1>2, <2>1 DEF BurnedBy
    <3>2. RecordedBurn \in Int /\ RecordedBurn' = RecordedBurn + burned[att]
      BY <1>1, <1>2, <2>1, <2>2, <3>1, RecordedRow DEF MeteredInv
    <3>3. balance[Bankroll] \in Int /\ balance[AcctBurn] \in Int
      BY AttemptWallets, SystemAccounts DEF MeteredInv, LedgerInv, LedgerTypeOK
    <3>4. QED
      BY <1>1, <1>2, <1>3, <1>4, <2>6, <3>2, <3>3 DEF MeteredInv, Accounts
  <2>8. QED
    BY <1>3, <1>4, <1>6, <1>7, <2>2, <2>4, <2>5, <2>6, <2>7 DEF MeteredInv
<1>8. ASSUME ~Solved, PlatformFault, pc' = "refunding", UNCHANGED result
      PROVE  MeteredInv'
  <2>1. Types'
    <3>1. MeteredTypeOK'
      BY <1>1, <1>5, <1>8 DEF MeteredInv, Types, MeteredTypeOK
    <3>2. QED
      BY <1>1, <1>2, <1>5, <1>8, <3>1 DEF MeteredInv, Types
  <2>2. \A i \in 1..MaxAttempts : Voiding(i)' => Voiding(i) \/ i = att
    BY <1>1, <1>8 DEF Voiding
  <2>3. outcome[att] \in {"runErr", "judgeErr"} \/ Failed(AttWallet[att])
    BY <1>2, <1>8 DEF PlatformFault, MeteredInv, Faults
  <2>4. Faults'
    BY <1>1, <1>4, <2>2, <2>3 DEF MeteredInv, Faults
  <2>5. Solves'
    <3>1. Attempts({"solved"})' = Attempts({"solved"})
      BY <1>8 DEF Attempts
    <3>2. QED
      BY <1>1, <1>3, <1>8, <2>2, <3>1 DEF MeteredInv, Solves, Solved
  <2>6. Burns' /\ Out' = Out
    BY <1>1, <1>8 DEF MeteredInv, Burns, Out
  <2>7. Accounts'
    BY <1>1, <1>3, <1>4, <1>8, <2>6, RecordAside DEF MeteredInv, Accounts
  <2>8. QED
    BY <1>3, <1>4, <1>6, <1>8, <2>1, <2>4, <2>5, <2>6, <2>7 DEF MeteredInv
<1>9. QED
  BY <1>7, <1>8 DEF Attribute

-----------------------------------------------------------------------------
\* The book after AddAgent is the empty book and one grant.
LEMMA GrantedBook == MeteredInit => LedgerInv
<1> SUFFICES ASSUME MeteredInit PROVE LedgerInv
  OBVIOUS
<1> DEFINE none == [a \in Account |-> 0]
           drawn == Applied(none, Leg(AcctMint, -Grant))
           granted == Applied(drawn, Leg(Bankroll, Grant))
<1>1. Bankroll \in Wallet /\ Grant \in Nat /\ Bankroll # AcctMint /\ Bankroll # AcctHold
        /\ AcctMint # AcctHold
  BY AttemptWallets, SystemAccounts DEF System, AcctMint, AcctHold
<1>2. Leg(AcctMint, -Grant) \in ALegs /\ Leg(Bankroll, Grant) \in ALegs
  BY <1>1, SystemAccounts DEF Leg, ALegs
<1>3. none \in [Account -> Int] /\ drawn \in [Account -> Int]
  BY <1>2, AppliedLeg
<1>4. balance \in [Account -> Int] /\ balance = granted
  <2>1. balance = [a \in Account |-> IF a = Bankroll THEN Grant
                                     ELSE IF a = AcctMint THEN -Grant ELSE 0]
    BY DEF MeteredInit
  <2>2. QED
    BY <1>1, <2>1, SystemAccounts DEF Applied, Leg
<1>5. Total(NRows, Balances(none)) = 0
  <2>1. NRows \in Nat /\ Balances(none) \in [1..NRows -> Int]
          /\ \A i \in 1..NRows : Balances(none)[i] = 0
    BY RowsAssumption DEF Balances
  <2>2. QED
    BY <2>1, TotalOfZeros
<1>6. Total(NRows, Balances(drawn)) = Total(NRows, Balances(none)) + Leg(AcctMint, -Grant).delta
  BY <1>2, <1>3, LegMovesTotal
<1>7. Total(NRows, Balances(granted)) = Total(NRows, Balances(drawn)) + Leg(Bankroll, Grant).delta
  BY <1>2, <1>3, LegMovesTotal
<1> HIDE DEF none, drawn, granted
<1>8. Conserved
  BY <1>1, <1>4, <1>5, <1>6, <1>7 DEF Conserved, Leg
<1>9. LedgerTypeOK
  BY <1>4 DEF MeteredInit, LedgerTypeOK
<1>10. NoWalletOverdrawn
  BY <1>1, SystemAccounts DEF MeteredInit, NoWalletOverdrawn, System
<1>11. HoldAccountIsOpenHolds
  <2>1. \A h \in 1..MaxHolds : Reservations[h] = 0
    BY DEF MeteredInit, Reservations, Reserved, Unused, HoldId
  <2>2. Total(MaxHolds, Reservations) = 0
    BY <1>9, <2>1, ReservationsType, TotalOfZeros
  <2>3. balance[AcctHold] = 0
    BY <1>1, SystemAccounts DEF MeteredInit
  <2>4. QED
    BY <2>2, <2>3 DEF HoldAccountIsOpenHolds
<1>12. OpenHoldsCanLand
  BY DEF MeteredInit, OpenHoldsCanLand, Unused
<1>13. QED
  BY <1>8, <1>9, <1>10, <1>11, <1>12 DEF LedgerInv

\* Before its first step the agent has its grant, and nothing is recorded.
LEMMA MeteredInitInv == MeteredInit => MeteredInv
<1> SUFFICES ASSUME MeteredInit PROVE MeteredInv
  OBVIOUS
<1>1. LedgerInv /\ LedgerTypeOK
  BY GrantedBook DEF LedgerInv
<1>2. /\ pc = "idle" /\ att = 0 /\ bids = 0 /\ seen = 0 /\ retired = FALSE
      /\ budget = [i \in 1..MaxAttempts |-> 0] /\ outcome = [i \in 1..MaxAttempts |-> "none"]
      /\ result = [i \in 1..MaxAttempts |-> "none"] /\ burned = [i \in 1..MaxAttempts |-> 0]
      /\ tokens = [t \in Token |-> Unauthorized] /\ calls = [c \in Call |-> NewCall] /\ faulted = {}
      /\ holds = [h \in HoldId |-> Unused]
  BY DEF MeteredInit, ProxyInit
<1>3. Types
  <2>1. calls \in [Call -> Handler]
    BY <1>2 DEF Handler, NewCall
  <2>2. ProxyTypeOK
    BY <1>2 DEF ProxyTypeOK, NewCall
  <2>3. /\ budget \in [1..MaxAttempts -> Nat] /\ burned \in [1..MaxAttempts -> Int]
        /\ outcome \in [1..MaxAttempts -> Outcome \cup {"none"}]
        /\ result \in [1..MaxAttempts -> {"none", "solved", "failed", "voided"}]
        /\ att \in 0..MaxAttempts /\ bids \in 0..MaxBids
    BY <1>2, AttemptWallets
  <2>4. MeteredTypeOK
    BY <1>1, <1>2, <2>2, <2>3 DEF MeteredTypeOK
  <2>5. QED
    BY <1>2, <2>1, <2>4 DEF Types, Underway
<1>4. OwnHolds /\ Faults
  BY <1>2 DEF OwnHolds, Faults, Holding, NewCall, Voiding
<1>5. mints[PayoutRef] = 0
  BY MeteredAssumption DEF MeteredInit
<1>6. Solves
  <2>1. Attempts({"solved"}) = {}
    BY <1>2 DEF Attempts
  <2>2. \A i \in 1..MaxAttempts : ~Voiding(i) /\ result[i] # "failed"
    BY <1>2 DEF Voiding
  <2>3. Cardinality(Attempts({"solved"})) = 0
    BY <2>1, FS_EmptySet
  <2>4. QED
    BY <1>2, <1>5, <2>2, <2>3 DEF Solves
<1>7. Budgets
  <2>1. ASSUME NEW i \in 1..MaxAttempts PROVE Worth(AttWallet[i]) = 0
    <3> DEFINE w == AttWallet[i]
    <3>1. w \in Wallet /\ w # Bankroll /\ w # AcctMint /\ w \in Account
      BY AttemptWallets, SystemAccounts DEF System
    <3> HIDE DEF w
    <3>2. balance[w] = 0
      BY <3>1 DEF MeteredInit
    <3>3. HeldBy(w) \in [1..MaxHolds -> Int] /\ MaxHolds \in Nat
      BY <1>1, <3>1, ReservedBounds, BoundAssumption
    <3>4. \A h \in 1..MaxHolds : HeldBy(w)[h] = 0
      BY <1>2 DEF HeldBy, OpenHolds, Unused, HoldId
    <3>5. ReservedFrom(w) = 0
      BY <3>3, <3>4, TotalOfZeros DEF ReservedFrom, HeldBy
    <3>6. QED
      BY <3>2, <3>5 DEF Worth, w
  <2>2. QED
    BY <1>2, <2>1 DEF Budgets, Funded
<1>8. Burns
  BY <1>2 DEF Burns
<1>9. Accounts
  <2>1. RecordedBurn = 0
    <3> DEFINE column == [i \in 1..MaxAttempts |-> BurnedBy(i)]
    <3>1. column \in [1..MaxAttempts -> Int] /\ \A i \in 1..MaxAttempts : column[i] = 0
      BY <1>2 DEF BurnedBy
    <3>2. RecordedBurn = Total(MaxAttempts, column)
      BY DEF RecordedBurn
    <3> HIDE DEF column
    <3>3. QED
      BY <3>1, <3>2, TotalOfZeros, AttemptWallets
  <2>2. Out = 0
    BY <1>2 DEF Out
  <2>3. balance[Bankroll] = Grant /\ balance[AcctBurn] = 0
    BY AttemptWallets, SystemAccounts DEF MeteredInit, System, AcctBurn, AcctMint
  <2>4. AskedPrice * mints[PayoutRef] = 0
    BY <1>5, AttemptWallets
  <2>5. QED
    BY <2>1, <2>2, <2>3, <2>4, AttemptWallets DEF Accounts
<1>10. QED
  BY <1>1, <1>3, <1>4, <1>6, <1>7, <1>8, <1>9 DEF MeteredInv

\* The inductive invariant of an agent's steps under the meter (MeteredInv),
\* in every interleaving of the orchestrator's operations, the handlers' and
\* the clients' (settle.go, proxy.go).
THEOREM MeteredSafe == MeteredSpec => []MeteredInv
<1>1. MeteredInit => MeteredInv
  BY MeteredInitInv
<1>2. MeteredInv /\ [MeteredNext]_meteredVars => MeteredInv'
  <2> SUFFICES ASSUME MeteredInv, [MeteredNext]_meteredVars PROVE MeteredInv'
    OBVIOUS
  <2>1. CASE StartBid \/ EndBid \/ CloseBid \/ StartRound \/ ReadBankroll
    BY <2>1, BidInv
  <2>2. CASE StartAttempt
    BY <2>2, StartAttemptInv
  <2>3. CASE OpenAttempt
    BY <2>3, OpenAttemptInv
  <2>4. CASE FundAttempt
    BY <2>4, FundAttemptInv
  <2>5. CASE EndAttempt \/ CloseAttempt
    BY <2>5, EndAttemptInv
  <2>6. CASE ReadAttempt
    BY <2>6, ReadAttemptInv
  <2>7. CASE MergeBack
    BY <2>7, MergeBackInv
  <2>8. CASE RetireAttempt
    BY <2>8, RetireAttemptInv
  <2>9. CASE Attribute
    BY <2>9, AttributeInv
  <2>10. CASE Pay
    BY <2>10, PayInv
  <2>11. CASE RefundAttempt
    BY <2>11, RefundAttemptInv
  <2>12. CASE BurnDust
    BY <2>12, BurnDustInv
  <2>13. CASE RetireAgent
    BY <2>13, RetireAgentInv
  <2>14. CASE Serve
    BY <2>14, ServeInv
  <2>15. CASE UNCHANGED meteredVars
    <3>1. UNCHANGED ledgerVars /\ UNCHANGED <<tokens, calls, faulted>>
            /\ UNCHANGED <<pc, att, bids, budget, seen, outcome, result, burned, retired>>
      BY <2>15 DEF meteredVars, proxyVars, orchVars
    <3>2. LedgerInv' /\ UNCHANGED <<balance, status, holds, mints>>
            /\ \A w \in Wallet : Worth(w)' = Worth(w)
      BY <3>1, WorthAside DEF MeteredInv
    <3>3. Types'
      <4>1. ProxyTypeOK' /\ calls' \in [Call -> Handler] /\ LedgerTypeOK'
        BY <3>1, <3>2, ProxyAside DEF MeteredInv, LedgerInv, Types, MeteredTypeOK, ProxyTypeOK
      <4>2. MeteredTypeOK'
        BY <3>1, <4>1 DEF MeteredInv, Types, MeteredTypeOK
      <4>3. QED
        BY <3>1, <4>1, <4>2 DEF MeteredInv, Types
    <3>4. OwnHolds' /\ (\A w : Failed(w)' = Failed(w)) /\ EverHeld(Bankroll)' = EverHeld(Bankroll)
      BY <3>1, <3>2, HoldsAside DEF MeteredInv
    <3>5. Faults'
      BY <3>1, <3>4 DEF MeteredInv, Faults, Voiding
    <3>6. RecordedBurn' = RecordedBurn /\ Attempts({"solved"})' = Attempts({"solved"})
      BY <3>1, RecordAside
    <3>7. Solves' /\ Burns' /\ Out' = Out
      BY <3>1, <3>2, <3>6 DEF MeteredInv, Solves, Voiding, Burns, Out
    <3>8. Budgets'
      BY <3>1, <3>2, AttemptWallets DEF MeteredInv, Budgets, Funded
    <3>9. Accounts'
      BY <3>1, <3>2, <3>4, <3>6, <3>7 DEF MeteredInv, Accounts
    <3>10. QED
      BY <3>2, <3>3, <3>4, <3>5, <3>7, <3>8, <3>9 DEF MeteredInv
  <2>16. QED
    BY <2>1, <2>2, <2>3, <2>4, <2>5, <2>6, <2>7, <2>8, <2>9, <2>10, <2>11, <2>12, <2>13,
       <2>14, <2>15 DEF MeteredNext, Orchestrate
<1>3. QED
  BY <1>1, <1>2, PTL DEF MeteredSpec

\* The ladder's burn column is the truth about the bankroll
\* (LadderAccountsForBankroll), for every number of attempts and calls, also
\* of calls that outlive their attempt (settle.go:149-222).
THEOREM LadderIsTrue == MeteredSpec => []LadderAccountsForBankroll
<1>1. ASSUME MeteredInv PROVE LadderAccountsForBankroll
  <2>1. pc = "idle" => Out = 0
    BY DEF Out
  <2>2. RecordedBurn \in Int /\ balance[Bankroll] \in Int /\ balance[AcctBurn] \in Int
    BY <1>1, RecordedType, AttemptWallets, SystemAccounts DEF MeteredInv, LedgerInv, LedgerTypeOK
  <2>3. QED
    BY <1>1, <2>1, <2>2 DEF MeteredInv, Accounts, LadderAccountsForBankroll
<1>2. MeteredInv => LadderAccountsForBankroll
  BY <1>1
<1>3. QED
  BY <1>2, MeteredSafe, PTL

\* No attempt is voided but for the platform's own fault, in that attempt
\* (VoidHasItsOwnFault; orchestrator.go:399-403).
THEOREM VoidsAreJust == MeteredSpec => []VoidHasItsOwnFault
<1>1. MeteredInv => VoidHasItsOwnFault
  BY DEF MeteredInv, Faults, Voiding, Failed, VoidHasItsOwnFault, Attempts
<1>2. QED
  BY <1>1, MeteredSafe, PTL

\* A solve stands whatever the proxy recorded, and is paid once
\* (SolvesArePaidOnce; settle.go:177-183).
THEOREM SolvesStand == MeteredSpec => []SolvesArePaidOnce
<1>1. ASSUME MeteredInv PROVE SolvesArePaidOnce
  <2>1. mints[PayoutRef] \in Nat
    BY <1>1, AttemptWallets DEF MeteredInv, LedgerInv, LedgerTypeOK
  <2>2. QED
    BY <1>1, <2>1 DEF MeteredInv, Solves, Voiding, Attempts, SolvesArePaidOnce
<1>2. MeteredInv => SolvesArePaidOnce
  BY <1>1
<1>3. QED
  BY <1>2, MeteredSafe, PTL

\* The book's own invariant holds through all of it: the handlers' and the
\* orchestrator's postings are operations of the ledger, so no wallet is
\* overdrawn and every open hold can land, under any interleaving.
THEOREM MeteredKeepsTheBook == MeteredSpec => []LedgerInv
<1>1. MeteredInv => LedgerInv
  BY DEF MeteredInv
<1>2. QED
  BY <1>1, MeteredSafe, PTL
=============================================================================
