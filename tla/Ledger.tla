------------------------------- MODULE Ledger -------------------------------
(***************************************************************************)
(* The double-entry book of package ledger (internal/ledger/ledger.go and  *)
(* hold.go).  Every operation of the package takes Ledger.mu for its whole *)
(* duration and commits or rolls back one database transaction, so each is *)
(* one action here; an operation that returns an error rolls back and      *)
(* leaves the book as it was, which is a step that is not taken.           *)
(*                                                                         *)
(* Accounts are rows of one table, so sums over the book are sums over     *)
(* Rows, a fixed enumeration of the accounts the book may ever hold; holds *)
(* are numbered in the order their rows are inserted.                      *)
(***************************************************************************)
EXTENDS Integers, Sums

CONSTANTS
    Wallet,      \* account ids callers may choose: agents, attempts, users
    Ref,         \* the refs mint transactions carry
    Payment,     \* those of payments, which only MintOnce is called with
    NRows,       \* number of accounts
    Rows,        \* 1..NRows -> accounts, the row order of the accounts table
    MaxHolds,    \* bound: holds ever taken
    MaxSupply,   \* bound: credits ever minted
    MaxRefund    \* bound: how far refunds may overdraw the provider account

AcctMint     == "sys:mint"
AcctBurn     == "sys:burn"
AcctProvider == "sys:provider"
AcctHold     == "sys:hold"
System  == {AcctMint, AcctBurn, AcctProvider, AcctHold}
Account == Wallet \cup System
HoldId  == 1..MaxHolds
Amount  == 1..MaxSupply

ASSUME WalletAssumption == Wallet \cap System = {}
ASSUME BoundAssumption == {MaxHolds, MaxSupply, MaxRefund} \subseteq Nat
ASSUME PaymentAssumption == Payment \subseteq Ref
ASSUME RowsAssumption ==
    /\ NRows \in Nat
    /\ Rows \in [1..NRows -> Account]
    /\ \A a \in Account : \E i \in 1..NRows : Rows[i] = a
    /\ \A i, j \in 1..NRows : Rows[i] = Rows[j] => i = j

VARIABLES
    balance,   \* accounts.balance, 0 for an account not yet created
    status,    \* accounts: absent, open, or closed (closed_at set)
    holds,     \* the holds table
    mints      \* per ref, the number of txns of kind 'mint' that carry it

ledgerVars == <<balance, status, holds, mints>>

Unused == [state |-> "unused"]
Reservation == [state : {"open", "settled", "released"}, wallet : Wallet, amount : Amount]

LedgerTypeOK ==
    /\ balance \in [Account -> Int]
    /\ status \in [Wallet -> {"absent", "open", "closed"}]
    /\ holds \in [HoldId -> {Unused} \cup Reservation]
    /\ mints \in [Ref -> Nat]

(***************************************************************************)
(* postTx.  Legs apply in order, each seeing the balances the earlier ones *)
(* left; a zero leg is skipped before its account is even looked up.  A    *)
(* system account never closes and may go negative, a wallet must be open  *)
(* and must not.  No transaction of the package has more than three legs;  *)
(* NoLeg stands for the one a two-leg transaction does not have.           *)
(***************************************************************************)
Leg(account, delta) == [account |-> account, delta |-> delta]
NoLeg == Leg(AcctHold, 0)

Accepts(b, leg) ==
    leg.delta # 0 /\ leg.account \in Wallet =>
        status[leg.account] = "open" /\ b[leg.account] + leg.delta >= 0

Applied(b, leg) == [b EXCEPT ![leg.account] = @ + leg.delta]

CanPost(first, second, third) ==
    /\ first.delta + second.delta + third.delta = 0
    /\ Accepts(balance, first)
    /\ Accepts(Applied(balance, first), second)
    /\ Accepts(Applied(Applied(balance, first), second), third)

\* Mutant: the loop over the legs stops one early.
PostTwoLegs(first, second, third) ==
    /\ CanPost(first, second, third)
    /\ balance' = Applied(Applied(balance, first), second)

Post(first, second, third) ==
    /\ CanPost(first, second, third)
    /\ balance' = Applied(Applied(Applied(balance, first), second), third)

-----------------------------------------------------------------------------
LedgerInit ==
    /\ balance = [a \in Account |-> 0]
    /\ status = [w \in Wallet |-> "absent"]
    /\ holds = [h \in HoldId |-> Unused]
    /\ mints = [r \in Ref |-> 0]

CreateAccount(w) ==
    /\ status[w] = "absent"
    /\ status' = [status EXCEPT ![w] = "open"]
    /\ UNCHANGED <<balance, holds, mints>>

Mint(to, amount, ref) ==
    /\ amount - balance[AcctMint] <= MaxSupply
    /\ Post(Leg(AcctMint, -amount), Leg(to, amount), NoLeg)
    /\ mints' = [mints EXCEPT ![ref] = @ + 1]
    /\ UNCHANGED <<status, holds>>

\* The count of earlier mints and the mint itself share the transaction.
MintOnce(to, amount, ref) ==
    /\ mints[ref] = 0
    /\ Mint(to, amount, ref)

Burn(from, amount) ==
    /\ Post(Leg(from, -amount), Leg(AcctBurn, amount), NoLeg)
    /\ UNCHANGED <<status, holds, mints>>

Transfer(from, to, amount) ==
    /\ Post(Leg(from, -amount), Leg(to, amount), NoLeg)
    /\ UNCHANGED <<status, holds, mints>>

\* The id of a new hold's row: the first one unused.
IsNextHold(h) == \A g \in HoldId : holds[g] = Unused <=> g >= h

Hold(h, w, amount) ==
    /\ IsNextHold(h)
    /\ Post(Leg(w, -amount), Leg(AcctHold, amount), NoLeg)
    /\ holds' = [holds EXCEPT ![h] = [state |-> "open", wallet |-> w, amount |-> amount]]
    /\ UNCHANGED <<status, mints>>

\* Mutant: a hold is resolved again.
ResolveAgain(h, target, actual) ==
    /\ holds[h] # Unused
    /\ actual <= holds[h].amount
    /\ Post(Leg(AcctHold, -holds[h].amount),
            Leg(AcctProvider, actual),
            Leg(holds[h].wallet, holds[h].amount - actual))
    /\ holds' = [holds EXCEPT ![h].state = target]
    /\ UNCHANGED <<status, mints>>

Resolve(h, target, actual) ==
    /\ holds[h].state = "open"
    /\ actual <= holds[h].amount
    /\ Post(Leg(AcctHold, -holds[h].amount),
            Leg(AcctProvider, actual),
            Leg(holds[h].wallet, holds[h].amount - actual))
    /\ holds' = [holds EXCEPT ![h].state = target]
    /\ UNCHANGED <<status, mints>>

Settle(h, actual) == Resolve(h, "settled", actual)
Release(h)        == Resolve(h, "released", 0)

OpenHolds(w) == {h \in HoldId : holds[h].state = "open" /\ holds[h].wallet = w}

\* Mutant: the open holds are not counted.
RetireAnyway(w) ==
    /\ status[w] = "open"
    /\ status' = [status EXCEPT ![w] = "closed"]
    /\ UNCHANGED <<balance, holds, mints>>

Retire(w) ==
    /\ OpenHolds(w) = {}
    /\ status[w] = "open"
    /\ status' = [status EXCEPT ![w] = "closed"]
    /\ UNCHANGED <<balance, holds, mints>>

(***************************************************************************)
(* What the daemon's goroutines do to the book.  Mint is called with refs  *)
(* of its own (a grant, a payout, an endowment) and MintOnce with payment  *)
(* refs, which no Mint carries; transfers leave a wallet or, for a refund, *)
(* the provider account, and always arrive in a wallet.                    *)
(***************************************************************************)
Refund(to, amount) ==
    /\ balance[AcctProvider] - amount >= -MaxRefund
    /\ Transfer(AcctProvider, to, amount)

LedgerNext ==
    \/ \E w \in Wallet : CreateAccount(w)
    \/ \E w \in Wallet, n \in Amount, r \in Ref \ Payment : Mint(w, n, r)
    \/ \E w \in Wallet, n \in Amount, r \in Payment : MintOnce(w, n, r)
    \/ \E w \in Wallet, n \in Amount : Burn(w, n)
    \/ \E from, to \in Wallet, n \in Amount : Transfer(from, to, n)
    \/ \E to \in Wallet, n \in Amount : Refund(to, n)
    \/ \E h \in HoldId, w \in Wallet, n \in Amount : Hold(h, w, n)
    \/ \E h \in HoldId, n \in 0..MaxSupply : Settle(h, n)
    \/ \E h \in HoldId : Release(h)
    \/ \E w \in Wallet : Retire(w)

LedgerSpec == LedgerInit /\ [][LedgerNext]_ledgerVars

-----------------------------------------------------------------------------
\* The columns summed by the audit: balances over the accounts table, and
\* what each row of the holds table still reserves.
Balances(b) == [i \in 1..NRows |-> b[Rows[i]]]
Reserved(h) == IF holds[h].state = "open" THEN holds[h].amount ELSE 0
Reservations == [h \in HoldId |-> Reserved(h)]

\* Conservation.Holds (audit.go:24): minted = wallets + burned + spent +
\* held.  The mint account carries the minted credits negated, so the book
\* balances exactly when all balances sum to zero.
Conserved == Total(NRows, Balances(balance)) = 0

\* No wallet is overdrawn, whatever the order of the legs and of the callers
\* (Verify's third check, audit.go:115).
NoWalletOverdrawn == \A w \in Wallet : balance[w] >= 0

\* The hold account is exactly the open holds (Verify's fourth check,
\* audit.go:123-135).
HoldAccountIsOpenHolds == balance[AcctHold] = Total(MaxHolds, Reservations)

\* Every open hold can still be resolved: its wallet exists and has not been
\* closed under it, so neither Settle nor Release can fail with ErrClosed
\* (the reason Retire counts the holds, ledger.go:445-455).
OpenHoldsCanLand ==
    \A h \in HoldId : holds[h].state = "open" => status[holds[h].wallet] = "open"

\* Nothing ever happens to a retired account again: no credit enters or
\* leaves it, by any leg of any operation, and it is not reopened
\* (ledger.go:439-440).
RetiredIsFinal ==
    [][\A w \in Wallet : status[w] = "closed" =>
          status'[w] = "closed" /\ balance'[w] = balance[w]]_ledgerVars

(***************************************************************************)
(* What a wallet is worth: its balance and what is reserved from it.  In   *)
(* these terms Hold and Release change nothing and Settle charges exactly  *)
(* the measured cost, so the book implements the purses.                   *)
(***************************************************************************)
ReservedFrom(w) ==
    Total(MaxHolds, [h \in HoldId |-> IF h \in OpenHolds(w) THEN holds[h].amount ELSE 0])

Purses == INSTANCE Purse WITH
    Owner   <- Wallet,
    Coin    <- Amount,
    worth   <- [w \in Wallet |-> balance[w] + ReservedFrom(w)],
    state   <- status,
    charged <- balance[AcctProvider],
    burned  <- balance[AcctBurn]

\* The book implements the purses: reservations are never visible in what a
\* wallet is worth, and only a measured cost is ever charged (hold.go:10-17).
ImplementsPurses == Purses!PurseSpec
=============================================================================
