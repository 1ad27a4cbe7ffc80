------------------------------- MODULE Recharge -------------------------------
(***************************************************************************)
(* The recharge (internal/billing/billing.go and Store.Recharge): a person *)
(* pays on the payment provider's page, and the provider announces it to   *)
(* the webhook, again and again until it is answered 200, possibly twice   *)
(* at once, and also afterwards.  A payment is named by its checkout       *)
(* session, which is the ref of its mint.                                  *)
(*                                                                         *)
(* The ledger's mint and the accounts' row are two databases; a handler    *)
(* may be cut short between them, or before its answer is received.        *)
(* Signatures are not modelled: an announcement is the provider's own.     *)
(***************************************************************************)
EXTENDS SignIn, FiniteSetsExt

CONSTANTS
    Hook,      \* webhook handlers that may run at once
    Cents,     \* amounts paid
    MaxCuts    \* bound: handlers cut short

MinCents == 500
MaxCents == 10000

\* credits: what survives both fees, in whole micro-dollars: 10000 to the cent
\* less 2.9% and 30 cents, and 94.5% of that, both fractions in lowest terms
\* (the first division is exact).  Go divides towards zero, which differs
\* only below zero.
Credits(cents) == ((cents * 9710 - 300000) * 189) \div 200

ASSUME RechargeAssumption ==
    /\ Cents \subseteq Nat
    /\ \A c \in Cents : Credits(c) > 0 => Credits(c) \in Amount
    /\ MaxCuts \in Nat

VARIABLES
    payments,   \* the provider's checkout sessions: whose, how much, how far
    hooks,      \* per handler, where it is and what it read
    topups,     \* the topups table: payments with a row
    cuts        \* handlers cut short so far

rechargeVars == <<payments, hooks, topups, cuts>>
allVars == <<ledgerVars, signInVars, rechargeVars>>

Stranger == 0   \* an id nobody has
Unopened == [state |-> "none"]
Checked(user, cents) == [state |-> "open", user |-> user, cents |-> cents, answered |-> FALSE]
Idle == [pc |-> "idle"]

Bill  == [state : {"open", "pending", "paid"}, user : User \cup {Stranger},
          cents : Cents, answered : BOOLEAN]
Event == [pc : {"received", "crediting", "recording", "answering"},
          payment : Payment, status : {"unpaid", "paid"}]

RechargeTypeOK ==
    /\ SignInTypeOK
    /\ LedgerTypeOK
    /\ payments \in [Payment -> {Unopened} \cup Bill]
    /\ hooks \in [Hook -> {Idle} \cup Event]
    /\ topups \subseteq Payment
    /\ cuts \in 0..MaxCuts

RechargeInit ==
    /\ LedgerInit /\ SignInInit
    /\ payments = [p \in Payment |-> Unopened]
    /\ hooks = [h \in Hook |-> Idle]
    /\ topups = {} /\ cuts = 0

-----------------------------------------------------------------------------
\* userByID finds a row.
Known(u) == u \in User /\ users[u] # Nobody

\* The platform's own checkout, by whoever is signed in.
Checkout(p, v, cents) ==
    /\ payments[p] = Unopened
    /\ sessions[v] = "open"
    /\ MinCents <= cents /\ cents <= MaxCents
    /\ payments' = [payments EXCEPT ![p] = Checked(visits[v].user, cents)]
    /\ UNCHANGED <<ledgerVars, signInVars, hooks, topups, cuts>>

\* A session opened by hand with the same key: any amount, for a user or for
\* nobody the platform knows.
CheckoutByHand(p, u, cents) ==
    /\ payments[p] = Unopened
    /\ Known(u) \/ u = Stranger
    /\ payments' = [payments EXCEPT ![p] = Checked(u, cents)]
    /\ UNCHANGED <<ledgerVars, signInVars, hooks, topups, cuts>>

\* The person pays: at once, or by a transfer that clears later.
PayNow(p, state) ==
    /\ \/ payments[p].state = "open" /\ state \in {"pending", "paid"}
       \/ payments[p].state = "pending" /\ state = "paid"
    /\ payments' = [payments EXCEPT ![p].state = state]
    /\ UNCHANGED <<ledgerVars, signInVars, hooks, topups, cuts>>

\* The event carries the payment's status at the time it was sent.
Announce(h, p) ==
    /\ hooks[h] = Idle
    /\ payments[p].state \in {"pending", "paid"}
    /\ hooks' = [hooks EXCEPT ![h] =
          [pc |-> "received", payment |-> p,
           status |-> IF payments[p].state = "paid" THEN "paid" ELSE "unpaid"]]
    /\ UNCHANGED <<ledgerVars, signInVars, payments, topups, cuts>>

-----------------------------------------------------------------------------
Doing(h, pc) == hooks[h].pc = pc
Payer(h)   == payments[hooks[h].payment].user
Due(h)   == Credits(payments[hooks[h].payment].cents)
Step(h, pc) == hooks' = [hooks EXCEPT ![h].pc = pc]

\* Mutant: the status is not looked at.
CreditableUnpaid(h) == Due(h) > 0 /\ Known(Payer(h))

\* An event the platform can credit.  Any other is answered 200 and dropped:
\* a retry could not mend it.
Creditable(h) == hooks[h].status = "paid" /\ Due(h) > 0 /\ Known(Payer(h))

\* Mutant: the answer is sent before the work.
ReceiveAndAnswer(h) ==
    /\ Doing(h, "received")
    /\ Step(h, IF Creditable(h) THEN "crediting" ELSE "answering")
    /\ payments' = IF hooks[h].status = "paid"
                   THEN [payments EXCEPT ![hooks[h].payment].answered = TRUE] ELSE payments
    /\ UNCHANGED <<ledgerVars, signInVars, topups, cuts>>

Receive(h) ==
    /\ Doing(h, "received")
    /\ Step(h, IF Creditable(h) THEN "crediting" ELSE "answering")
    /\ UNCHANGED <<ledgerVars, signInVars, payments, topups, cuts>>

\* Mutant: the ref is not asked for.
MintAgain(wallet, credits, ref) == Mint(wallet, credits, ref)

\* MintOnce, which reports that the ref has been minted before.
MintUnlessMinted(wallet, credits, ref) ==
    \/ MintOnce(wallet, credits, ref)
    \/ mints[ref] > 0 /\ UNCHANGED ledgerVars

\* Mutant: a payment minted before is taken to have been recorded before.
CreditAndForget(h) ==
    /\ Doing(h, "crediting")
    /\ MintUnlessMinted(WalletOf[Payer(h)], Due(h), hooks[h].payment)
    /\ Step(h, IF mints[hooks[h].payment] > 0 THEN "answering" ELSE "recording")
    /\ UNCHANGED <<signInVars, payments, topups, cuts>>

Credit(h) ==
    /\ Doing(h, "crediting")
    /\ MintUnlessMinted(WalletOf[Payer(h)], Due(h), hooks[h].payment)
    /\ Step(h, "recording")
    /\ UNCHANGED <<signInVars, payments, topups, cuts>>

\* INSERT OR IGNORE of the row, after the mint.
Record(h) ==
    /\ Doing(h, "recording")
    /\ topups' = topups \cup {hooks[h].payment}
    /\ Step(h, "answering")
    /\ UNCHANGED <<ledgerVars, signInVars, payments, cuts>>

\* The provider hears 200, and stops announcing a payment it knows is paid.
Answer(h) ==
    /\ Doing(h, "answering")
    /\ payments' = IF hooks[h].status = "paid"
                   THEN [payments EXCEPT ![hooks[h].payment].answered = TRUE] ELSE payments
    /\ hooks' = [hooks EXCEPT ![h] = Idle]
    /\ UNCHANGED <<ledgerVars, signInVars, topups, cuts>>

CutHook(h) ==
    /\ hooks[h] # Idle /\ cuts < MaxCuts
    /\ hooks' = [hooks EXCEPT ![h] = Idle]
    /\ cuts' = cuts + 1
    /\ UNCHANGED <<ledgerVars, signInVars, payments, topups>>

Webhook(h) == Receive(h) \/ Credit(h) \/ Record(h) \/ Answer(h)

RechargeNext ==
    \/ SignInNext /\ UNCHANGED rechargeVars
    \/ \E p \in Payment, v \in Visit, c \in Cents : Checkout(p, v, c)
    \/ \E p \in Payment, u \in User \cup {Stranger}, c \in Cents : CheckoutByHand(p, u, c)
    \/ \E p \in Payment, state \in {"pending", "paid"} : PayNow(p, state)
    \/ \E h \in Hook, p \in Payment : Announce(h, p)
    \/ \E h \in Hook : Webhook(h) \/ CutHook(h)

RechargeSpec == RechargeInit /\ [][RechargeNext]_allVars

\* Handlers run, and the provider announces a payment until it is answered.
\* Strongly fair, because that a handler must be idle is the model's bound:
\* the server takes up every request.
RechargeFairness ==
    /\ \A h \in Hook : WF_allVars(Webhook(h))
    /\ \A p \in Payment : SF_allVars(
          payments[p].state = "paid" /\ ~payments[p].answered /\ \E h \in Hook : Announce(h, p))

FairRechargeSpec == RechargeSpec /\ RechargeFairness

-----------------------------------------------------------------------------
\* What the platform owes credits for.
Owed(p) == /\ payments[p].state = "paid"
           /\ Credits(payments[p].cents) > 0
           /\ payments[p].user # Stranger

PaidBy(u) == {p \in Payment : mints[p] > 0 /\ payments[p].user = u}

\* What these bills come to, after the fees.
CreditsOf(bills, chosen) == MapThenSumSet(LAMBDA p : Credits(bills[p].cents), chosen)

\* Exactly once: a wallet holds its grant and every payment credited to its
\* user, each at its amount and none twice, however often and however much at
\* once they were announced (account.go:412-416).
WalletsAccountForPayments ==
    \A u \in User : balance[WalletOf[u]] =
        NewGrant * mints[GrantRef[u]] + CreditsOf(payments, PaidBy(u))

\* Nothing is minted for a payment before it has cleared, and the row that
\* unlocks the paid models is never there before the credits are
\* (account.go:412-416, billing.go:187-191).
CreditsArePaidFor ==
    \A p \in Payment :
        /\ mints[p] > 0 => Owed(p) /\ mints[p] = 1
        /\ p \in topups => mints[p] = 1

\* A payment the provider has been told 200 about is in both books: nothing
\* the platform owes is dropped by answering too soon (billing.go:189-191).
AnsweredIsCredited ==
    \A p \in Payment : Owed(p) /\ payments[p].answered => mints[p] = 1 /\ p \in topups

\* A payment that has cleared lands in both books in the end, as long as its
\* handlers are cut short only so often: the next announcement finds the mint,
\* skips it, and writes the row (account.go:413-416).
EveryPaymentLands == \A p \in Payment : Owed(p) ~> (mints[p] = 1 /\ p \in topups)
=============================================================================
