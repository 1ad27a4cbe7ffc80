-------------------------------- MODULE Books --------------------------------
(***************************************************************************)
(* The book while somebody reads it.  Ledger.Conservation (internal/       *)
(* ledger/audit.go) takes five totals in five queries and holds no lock    *)
(* between them; the daemon's status handler calls it while an episode is  *)
(* running, so any operation of the ledger may land between two of them.   *)
(***************************************************************************)
EXTENDS Ledger, Sequences

VARIABLES
    next,     \* the totals still to be taken, in order
    report    \* the Conservation struct being filled

booksVars == <<ledgerVars, next, report>>

Reads == <<"minted", "burned", "spent", "held", "wallets">>
Blank == [minted |-> 0, burned |-> 0, spent |-> 0, held |-> 0, wallets |-> 0]

InWallets == Total(NRows, [i \in 1..NRows |-> IF Rows[i] \in Wallet THEN balance[Rows[i]] ELSE 0])

BooksInit == LedgerInit /\ next = 1 /\ report = Blank

\* What one query sees: every transaction committed before it and none after.
Seen(total) ==
    CASE total = "minted"  -> -balance[AcctMint]
      [] total = "burned"  -> balance[AcctBurn]
      [] total = "spent"   -> balance[AcctProvider]
      [] total = "held"    -> balance[AcctHold]
      [] total = "wallets" -> InWallets

Read ==
    /\ next <= Len(Reads)
    /\ report' = [report EXCEPT ![Reads[next]] = Seen(Reads[next])]
    /\ next' = next + 1
    /\ UNCHANGED ledgerVars

BooksNext == Read \/ (LedgerNext /\ UNCHANGED <<next, report>>)

BooksSpec == BooksInit /\ [][BooksNext]_booksVars

\* audit.go:25, "Holds reports whether the invariant is satisfied", and the
\* README's conservation line, "drift=0 is the book proving it to itself"
\* (README.md:267-268): a finished report accounts for every credit.
ReportHasNoDrift ==
    next > Len(Reads) =>
        report.minted = report.wallets + report.burned + report.spent + report.held
=============================================================================
