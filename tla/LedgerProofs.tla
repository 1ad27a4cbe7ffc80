----------------------------- MODULE LedgerProofs -----------------------------
(***************************************************************************)
(* How the sum of a column changes with the column: each fact is an        *)
(* induction over the rows, carried by the least row at which it would     *)
(* fail.                                                                   *)
(*                                                                         *)
(* The safety of the book, for every set of wallets and refs and every     *)
(* bound.  A transaction is one Post, so its effect on the sums is proved  *)
(* once (PostConserves, PostStaysInBounds) and used by every operation.    *)
(* Then that the book implements the purses: every step of the ledger is,  *)
(* in terms of what the wallets are worth, a step of module Purse or none. *)
(***************************************************************************)
EXTENDS Ledger, WellFoundedInduction, TLAPS

\* Every non-empty set of naturals has a least element: the induction
\* principle the other lemmas rest on.
LEMMA LeastElement ==
    ASSUME NEW T, T \subseteq Nat, T # {}
    PROVE  \E x \in T : \A y \in T : x <= y
<1> DEFINE R == OpToRel(<, Nat)
<1>1. IsWellFoundedOn(R, Nat)
  BY NatLessThanWellFounded, Zenon
<1>2. \A x, y \in Nat : x < y => <<x, y>> \in R
  BY DEF OpToRel
<1> HIDE DEF R
<1>3. PICK x \in T : \A y \in T : ~ (<<y, x>> \in R)
  BY <1>1, WFMin
<1>4. \A y \in T : ~ (y < x)
  BY <1>2, <1>3
<1>5. QED
  BY <1>3, <1>4

\* The running totals of a column.
IsRun(n, column, run) ==
    /\ run \in [0..n -> Int]
    /\ run[0] = 0
    /\ \A i \in 1..n : run[i] = run[i - 1] + column[i]

\* Every column of integers has running totals.
LEMMA RunExists ==
    ASSUME NEW n \in Nat, NEW column \in [1..n -> Int]
    PROVE  \E run : IsRun(n, column, run)
<1> DEFINE Bad == {k \in 0..n : ~ \E run : IsRun(k, column, run)}
<1>1. SUFFICES ASSUME Bad # {} PROVE FALSE
  <2>1. n \in 0..n
    OBVIOUS
  <2>2. QED
    BY <2>1
<1>2. Bad \subseteq Nat
  OBVIOUS
<1>3. PICK k \in Bad : \A j \in Bad : k <= j
  BY <1>1, <1>2, LeastElement
<1>4. IsRun(0, column, [i \in 0..0 |-> 0])
  BY DEF IsRun
<1>5. k # 0
  BY <1>3, <1>4
<1>6. k \in 1..n /\ k - 1 \in 0..n /\ k - 1 \notin Bad
  BY <1>3, <1>5
<1>7. PICK run : IsRun(k - 1, column, run)
  BY <1>6
<1> DEFINE longer == [i \in 0..k |-> IF i = k THEN run[k - 1] + column[k] ELSE run[i]]
<1>8. \A i \in 0..(k - 1) : run[i] \in Int /\ longer[i] = run[i]
  BY <1>6, <1>7 DEF IsRun
<1>9. longer[k] = run[k - 1] + column[k] /\ longer[k] \in Int
  <2>1. k - 1 \in 0..(k - 1) /\ k \in 0..k /\ column[k] \in Int
    BY <1>6
  <2>2. run[k - 1] \in Int
    BY <1>8, <2>1
  <2>3. QED
    BY <2>1, <2>2
<1>10. longer \in [0..k -> Int]
  <2>1. \A i \in 0..k : i = k \/ i \in 0..(k - 1)
    BY <1>6
  <2>2. \A i \in 0..k : longer[i] \in Int
    BY <1>8, <1>9, <2>1
  <2>3. QED
    BY <2>2
<1>11. longer[0] = 0
  BY <1>6, <1>7, <1>8 DEF IsRun
<1>12. ASSUME NEW i \in 1..k PROVE longer[i] = longer[i - 1] + column[i]
  <2>1. CASE i = k
    BY <1>6, <1>8, <1>9, <2>1
  <2>2. CASE i # k
    <3>1. i \in 1..(k - 1) /\ i \in 0..(k - 1) /\ i - 1 \in 0..(k - 1)
      BY <1>6, <2>2
    <3>2. run[i] = run[i - 1] + column[i]
      BY <1>7, <3>1 DEF IsRun
    <3>3. QED
      BY <1>8, <3>1, <3>2
  <2>3. QED
    BY <2>1, <2>2
<1>13. IsRun(k, column, longer)
  BY <1>10, <1>11, <1>12 DEF IsRun
<1>14. QED
  BY <1>3, <1>13

\* Total is the last of the running totals.
LEMMA TotalIsRun ==
    ASSUME NEW n \in Nat, NEW column \in [1..n -> Int],
           NEW run, IsRun(n, column, run)
    PROVE  Total(n, column) = run[n]
<1> DEFINE Defines(f) ==
             f = [i \in 0..n |-> IF i = 0 THEN 0 ELSE f[i - 1] + column[i]]
           chosen == CHOOSE f : Defines(f)
           Bad == {i \in 0..n : chosen[i] # run[i]}
<1>1. Defines(run)
  BY DEF IsRun
<1>2. Defines(chosen)
  BY <1>1
<1>3. Total(n, column) = chosen[n]
  BY DEF Total
<1> HIDE DEF chosen
<1>4. chosen[0] = 0 /\ \A i \in 1..n : chosen[i] = chosen[i - 1] + column[i]
  BY <1>2
<1>5. SUFFICES ASSUME Bad # {} PROVE FALSE
  <2>1. n \in 0..n
    OBVIOUS
  <2>2. QED
    BY <1>3, <2>1
<1>6. Bad \subseteq Nat
  OBVIOUS
<1>7. PICK k \in Bad : \A j \in Bad : k <= j
  BY <1>5, <1>6, LeastElement
<1>8. k # 0
  BY <1>4, <1>7 DEF IsRun
<1>9. k \in 1..n /\ k - 1 \in 0..n /\ k - 1 \notin Bad
  BY <1>7, <1>8
<1>10. chosen[k - 1] = run[k - 1]
  BY <1>9
<1>11. chosen[k] = run[k]
  BY <1>4, <1>9, <1>10 DEF IsRun
<1>12. QED
  BY <1>7, <1>11

\* A sum of integers is an integer.
LEMMA TotalType ==
    ASSUME NEW n \in Nat, NEW column \in [1..n -> Int]
    PROVE  Total(n, column) \in Int
<1>1. PICK run : IsRun(n, column, run)
  BY RunExists
<1>2. Total(n, column) = run[n]
  BY <1>1, TotalIsRun
<1>3. QED
  BY <1>1, <1>2 DEF IsRun

\* A column of zeros sums to zero.
LEMMA TotalOfZeros ==
    ASSUME NEW n \in Nat, NEW column \in [1..n -> Int], \A i \in 1..n : column[i] = 0
    PROVE  Total(n, column) = 0
<1> DEFINE run == [i \in 0..n |-> 0]
<1>1. IsRun(n, column, run)
  BY DEF IsRun
<1>2. run[n] = 0
  OBVIOUS
<1>3. QED
  BY <1>1, <1>2, TotalIsRun

\* Adding d to one row adds d to the sum.
LEMMA TotalUpdate ==
    ASSUME NEW n \in Nat, NEW column \in [1..n -> Int], NEW other \in [1..n -> Int],
           NEW k \in 1..n, NEW d \in Int,
           other[k] = column[k] + d,
           \A i \in 1..n : i # k => other[i] = column[i]
    PROVE  Total(n, other) = Total(n, column) + d
<1>1. PICK run : IsRun(n, column, run)
  BY RunExists
<1> DEFINE shifted == [i \in 0..n |-> IF i < k THEN run[i] ELSE run[i] + d]
<1>2. \A i \in 0..n : run[i] \in Int
  BY <1>1 DEF IsRun
<1>3. run[0] = 0 /\ \A i \in 1..n : run[i] = run[i - 1] + column[i]
  BY <1>1 DEF IsRun
<1>4. shifted \in [0..n -> Int]
  BY <1>2
<1>5. shifted[0] = 0
  BY <1>3
<1>6. shifted[n] = run[n] + d
  <2>1. n \in 0..n /\ ~(n < k)
    OBVIOUS
  <2>2. QED
    BY <2>1
<1>7. ASSUME NEW i \in 1..n PROVE shifted[i] = shifted[i - 1] + other[i]
  <2>1. i - 1 \in 0..n /\ i \in 0..n
    OBVIOUS
  <2>2. run[i] = run[i - 1] + column[i] /\ run[i - 1] \in Int /\ run[i] \in Int
    BY <1>2, <1>3, <2>1
  <2>3. CASE i < k
    BY <2>1, <2>2, <2>3
  <2>4. CASE i = k
    BY <2>1, <2>2, <2>4
  <2>5. CASE i > k
    BY <2>1, <2>2, <2>5
  <2>6. QED
    BY <2>3, <2>4, <2>5
<1>8. IsRun(n, other, shifted)
  BY <1>4, <1>5, <1>7 DEF IsRun
<1>9. QED
  BY <1>1, <1>6, <1>8, TotalIsRun

\* A column without negatives has a sum that is not negative.
LEMMA TotalNonNegative ==
    ASSUME NEW n \in Nat, NEW column \in [1..n -> Int], \A i \in 1..n : column[i] >= 0
    PROVE  Total(n, column) >= 0
<1>1. PICK run : IsRun(n, column, run)
  BY RunExists
<1> DEFINE Bad == {i \in 0..n : run[i] < 0}
<1>2. Bad = {}
  <2>1. SUFFICES ASSUME Bad # {} PROVE FALSE
    OBVIOUS
  <2>2. PICK k \in Bad : \A j \in Bad : k <= j
    <3>1. Bad \subseteq Nat
      OBVIOUS
    <3>2. QED
      BY <2>1, <3>1, LeastElement
  <2>3. k \in 1..n /\ k - 1 \in 0..n /\ k - 1 \notin Bad
    BY <1>1, <2>2 DEF IsRun
  <2>4. run[k] = run[k - 1] + column[k] /\ run[k - 1] \in Int /\ run[k] \in Int
    BY <1>1, <2>3 DEF IsRun
  <2>5. QED
    BY <2>2, <2>3, <2>4
<1>3. n \in 0..n /\ run[n] \in Int
  BY <1>1 DEF IsRun
<1>4. run[n] >= 0
  BY <1>2, <1>3
<1>5. QED
  BY <1>1, <1>4, TotalIsRun

\* Of such a column no single row exceeds the sum.
LEMMA TotalAtLeast ==
    ASSUME NEW n \in Nat, NEW column \in [1..n -> Int], \A i \in 1..n : column[i] >= 0,
           NEW k \in 1..n
    PROVE  column[k] <= Total(n, column)
<1> DEFINE rest == [column EXCEPT ![k] = 0]
<1>1. rest \in [1..n -> Int] /\ column[k] \in Int
  OBVIOUS
<1>2. \A i \in 1..n : rest[i] >= 0
  OBVIOUS
<1>3. column[k] = rest[k] + column[k]
  OBVIOUS
<1>4. \A i \in 1..n : i # k => column[i] = rest[i]
  OBVIOUS
<1> HIDE DEF rest
<1>5. Total(n, column) = Total(n, rest) + column[k]
  BY <1>1, <1>3, <1>4, TotalUpdate
<1>6. Total(n, rest) >= 0 /\ Total(n, rest) \in Int
  BY <1>1, <1>2, TotalNonNegative, TotalType
<1>7. QED
  BY <1>1, <1>5, <1>6

-----------------------------------------------------------------------------

ALegs == [account : Account, delta : Int]

\* The system accounts are accounts and no caller's.
LEMMA SystemAccounts ==
    /\ AcctMint \in Account /\ AcctBurn \in Account
    /\ AcctProvider \in Account /\ AcctHold \in Account
    /\ \A w \in Wallet : w \in Account /\ w \notin System
BY WalletAssumption DEF Account, System

\* No operation moves a zero or a negative amount.
LEMMA AmountIsPositive == \A n \in Amount : n \in Nat /\ n > 0 /\ n \in Int /\ -n \in Int
BY BoundAssumption DEF Amount

\* What one leg does to the balances.
LEMMA AppliedLeg ==
    ASSUME NEW b \in [Account -> Int], NEW leg \in ALegs
    PROVE  /\ Applied(b, leg) \in [Account -> Int]
           /\ Applied(b, leg)[leg.account] = b[leg.account] + leg.delta
           /\ \A a \in Account : a # leg.account => Applied(b, leg)[a] = b[a]
BY DEF Applied, ALegs

\* A leg moves the sum of all balances by its delta.
LEMMA LegMovesTotal ==
    ASSUME NEW b \in [Account -> Int], NEW leg \in ALegs
    PROVE  Total(NRows, Balances(Applied(b, leg))) = Total(NRows, Balances(b)) + leg.delta
<1> DEFINE before == Balances(b)
           after  == Balances(Applied(b, leg))
<1>1. before \in [1..NRows -> Int] /\ after \in [1..NRows -> Int]
  BY AppliedLeg, RowsAssumption DEF Balances
<1>2. leg.account \in Account /\ leg.delta \in Int
  BY DEF ALegs
<1>3. PICK k \in 1..NRows : Rows[k] = leg.account
  BY <1>2, RowsAssumption
<1>4. after[k] = before[k] + leg.delta
  BY <1>3, AppliedLeg DEF Balances
<1>5. ASSUME NEW i \in 1..NRows, i # k PROVE after[i] = before[i]
  <2>1. Rows[i] \in Account /\ Rows[i] # leg.account
    BY <1>3, <1>5, RowsAssumption
  <2>2. QED
    BY <2>1, AppliedLeg DEF Balances
<1>6. NRows \in Nat
  BY RowsAssumption
<1> HIDE DEF before, after
<1>7. Total(NRows, after) = Total(NRows, before) + leg.delta
  BY <1>1, <1>2, <1>4, <1>5, <1>6, TotalUpdate
<1>8. QED
  BY <1>7 DEF before, after

\* The zero-sum rule keeps the book balanced, whatever the legs.
LEMMA PostConserves ==
    ASSUME balance \in [Account -> Int],
           NEW l1 \in ALegs, NEW l2 \in ALegs, NEW l3 \in ALegs, Post(l1, l2, l3)
    PROVE  /\ balance' \in [Account -> Int]
           /\ Conserved => Conserved'
<1> DEFINE once == Applied(balance, l1)
           twice == Applied(once, l2)
           thrice == Applied(twice, l3)
<1>1. balance' = thrice /\ l1.delta + l2.delta + l3.delta = 0
  BY DEF Post, CanPost
<1>2. once \in [Account -> Int]
  BY AppliedLeg
<1> HIDE DEF once
<1>3. twice \in [Account -> Int]
  BY <1>2, AppliedLeg
<1> HIDE DEF twice
<1>4. thrice \in [Account -> Int]
  BY <1>3, AppliedLeg
<1>5. Total(NRows, Balances(once)) = Total(NRows, Balances(balance)) + l1.delta
  BY LegMovesTotal DEF once
<1>6. Total(NRows, Balances(twice)) = Total(NRows, Balances(once)) + l2.delta
  BY <1>2, LegMovesTotal DEF twice
<1>7. Total(NRows, Balances(thrice)) = Total(NRows, Balances(twice)) + l3.delta
  BY <1>3, LegMovesTotal
<1> HIDE DEF thrice
<1>8. l1.delta \in Int /\ l2.delta \in Int /\ l3.delta \in Int
  BY DEF ALegs
<1>9. Conserved => Total(NRows, Balances(balance')) = 0
  BY <1>1, <1>5, <1>6, <1>7, <1>8 DEF Conserved
<1>10. QED
  BY <1>1, <1>4, <1>9 DEF Conserved

\* A wallet that loses credits to a transaction is open and not overdrawn by
\* it, and a wallet that is not open keeps its balance.
LEMMA AcceptedLeg ==
    ASSUME NEW b \in [Account -> Int], NEW leg \in ALegs, Accepts(b, leg),
           NEW w \in Wallet
    PROVE  /\ status[w] # "open" => Applied(b, leg)[w] = b[w]
           /\ b[w] >= 0 => Applied(b, leg)[w] >= 0
<1>1. w \in Account /\ leg.account \in Account /\ leg.delta \in Int
  BY SystemAccounts DEF ALegs
<1>2. CASE w # leg.account
  BY <1>1, <1>2, AppliedLeg
<1>3. CASE w = leg.account /\ leg.delta = 0
  BY <1>1, <1>3, AppliedLeg
<1>4. CASE w = leg.account /\ leg.delta # 0
  BY <1>1, <1>4, AppliedLeg DEF Accepts
<1>5. QED
  BY <1>2, <1>3, <1>4

\* What AcceptedLeg says of a leg holds of the transaction.
LEMMA PostStaysInBounds ==
    ASSUME balance \in [Account -> Int],
           NEW l1 \in ALegs, NEW l2 \in ALegs, NEW l3 \in ALegs, Post(l1, l2, l3),
           NEW w \in Wallet
    PROVE  /\ status[w] # "open" => balance'[w] = balance[w]
           /\ balance[w] >= 0 => balance'[w] >= 0
<1> DEFINE once == Applied(balance, l1)
           twice == Applied(once, l2)
<1>1. balance' = Applied(twice, l3) /\ Accepts(balance, l1) /\ Accepts(once, l2)
        /\ Accepts(twice, l3)
  BY DEF Post, CanPost
<1>2. once \in [Account -> Int]
  BY AppliedLeg
<1>3. /\ status[w] # "open" => once[w] = balance[w]
      /\ balance[w] >= 0 => once[w] >= 0
  BY <1>1, AcceptedLeg
<1> HIDE DEF once
<1>4. twice \in [Account -> Int]
  BY <1>2, AppliedLeg
<1>5. /\ status[w] # "open" => twice[w] = once[w]
      /\ once[w] >= 0 => twice[w] >= 0
  BY <1>1, <1>2, AcceptedLeg
<1> HIDE DEF twice
<1>6. /\ status[w] # "open" => balance'[w] = twice[w]
      /\ twice[w] >= 0 => balance'[w] >= 0
  BY <1>1, <1>4, AcceptedLeg
<1>7. QED
  BY <1>3, <1>5, <1>6

\* What a transaction does to one account: the sum of its legs there.
Net(leg, a) == IF leg.account = a THEN leg.delta ELSE 0

\* A transaction changes an account by the sum of its legs there.
LEMMA PostEffect ==
    ASSUME balance \in [Account -> Int],
           NEW l1 \in ALegs, NEW l2 \in ALegs, NEW l3 \in ALegs, Post(l1, l2, l3),
           NEW a \in Account
    PROVE  balance'[a] = balance[a] + Net(l1, a) + Net(l2, a) + Net(l3, a)
<1> DEFINE once == Applied(balance, l1)
           twice == Applied(once, l2)
<1>1. ASSUME NEW b \in [Account -> Int], NEW leg \in ALegs
      PROVE  Applied(b, leg)[a] = b[a] + Net(leg, a)
  BY <1>1, AppliedLeg DEF Net, ALegs
<1>2. balance' = Applied(twice, l3)
  BY DEF Post, CanPost
<1>3. once \in [Account -> Int] /\ once[a] = balance[a] + Net(l1, a)
  BY <1>1, AppliedLeg
<1> HIDE DEF once
<1>4. twice \in [Account -> Int] /\ twice[a] = once[a] + Net(l2, a)
  BY <1>1, <1>3, AppliedLeg
<1> HIDE DEF twice
<1>5. balance'[a] = twice[a] + Net(l3, a)
  BY <1>1, <1>2, <1>4
<1>6. QED
  BY <1>3, <1>4, <1>5

-----------------------------------------------------------------------------
(***************************************************************************)
(* The inductive invariant: the invariants the runs check, together.  No   *)
(* strengthening beyond the type of the tables is needed, because each     *)
(* operation moves the credits and writes the row that explains them in    *)
(* one transaction.                                                        *)
(***************************************************************************)
LedgerInv ==
    /\ LedgerTypeOK
    /\ NoWalletOverdrawn
    /\ Conserved
    /\ HoldAccountIsOpenHolds
    /\ OpenHoldsCanLand

\* What the holds table reserves is a column of integers.
LEMMA ReservationsType ==
    ASSUME LedgerTypeOK
    PROVE  Reservations \in [1..MaxHolds -> Int] /\ MaxHolds \in Nat
<1>1. MaxHolds \in Nat
  BY BoundAssumption
<1>2. ASSUME NEW h \in HoldId PROVE Reserved(h) \in Int
  BY AmountIsPositive DEF LedgerTypeOK, Reserved, Reservation, Unused
<1>3. QED
  BY <1>1, <1>2 DEF Reservations, HoldId

\* A transaction that touches neither the hold account nor the holds table
\* leaves the invariant intact.
LEMMA PlainPost ==
    ASSUME LedgerInv, NEW l1 \in ALegs, NEW l2 \in ALegs, Post(l1, l2, NoLeg),
           l1.account # AcctHold, l2.account # AcctHold,
           UNCHANGED <<status, holds>>, mints' \in [Ref -> Nat]
    PROVE  LedgerInv'
<1>1. NoLeg \in ALegs /\ NoLeg = [account |-> AcctHold, delta |-> 0]
  BY SystemAccounts DEF NoLeg, Leg, ALegs
<1>2. balance \in [Account -> Int]
  BY DEF LedgerInv, LedgerTypeOK
<1>3. LedgerTypeOK' /\ Conserved'
  BY <1>1, <1>2, PostConserves DEF LedgerInv, LedgerTypeOK
<1>4. NoWalletOverdrawn'
  BY <1>1, <1>2, PostStaysInBounds DEF LedgerInv, NoWalletOverdrawn
<1>5. HoldAccountIsOpenHolds'
  <2>1. balance'[AcctHold] = balance[AcctHold] + Net(l1, AcctHold) + Net(l2, AcctHold)
                               + Net(NoLeg, AcctHold)
    BY <1>1, <1>2, PostEffect, SystemAccounts
  <2>2. Net(l1, AcctHold) = 0 /\ Net(l2, AcctHold) = 0 /\ Net(NoLeg, AcctHold) = 0
    BY <1>1 DEF Net
  <2>3. balance[AcctHold] \in Int
    BY <1>2, SystemAccounts
  <2>4. Reservations' = Reservations
    BY DEF Reservations, Reserved
  <2>5. balance'[AcctHold] = balance[AcctHold]
    BY <2>1, <2>2, <2>3
  <2>6. QED
    BY <2>4, <2>5 DEF HoldAccountIsOpenHolds, LedgerInv
<1>6. OpenHoldsCanLand'
  BY DEF LedgerInv, OpenHoldsCanLand
<1>7. QED
  BY <1>3, <1>4, <1>5, <1>6 DEF LedgerInv

\* A mint, with a payment's ref or any other, keeps the invariant.
LEMMA MintInv ==
    ASSUME LedgerInv, NEW w \in Wallet, NEW n \in Nat, NEW r \in Ref, Mint(w, n, r)
    PROVE  LedgerInv'
<1>1. Leg(AcctMint, -n) \in ALegs /\ Leg(w, n) \in ALegs
  BY SystemAccounts, AmountIsPositive DEF Leg, ALegs
<1>2. Leg(AcctMint, -n).account # AcctHold /\ Leg(w, n).account # AcctHold
  BY SystemAccounts DEF Leg, AcctMint, AcctHold, System
<1>3. mints' \in [Ref -> Nat]
  BY DEF Mint, LedgerInv, LedgerTypeOK
<1>4. QED
  BY <1>1, <1>2, <1>3, PlainPost DEF Mint

\* Burning keeps the invariant.
LEMMA BurnInv ==
    ASSUME LedgerInv, NEW w \in Wallet, NEW n \in Nat, Burn(w, n)
    PROVE  LedgerInv'
<1>1. Leg(w, -n) \in ALegs /\ Leg(AcctBurn, n) \in ALegs
  BY SystemAccounts, AmountIsPositive DEF Leg, ALegs
<1>2. Leg(w, -n).account # AcctHold /\ Leg(AcctBurn, n).account # AcctHold
  BY SystemAccounts DEF Leg, AcctBurn, AcctHold, System
<1>3. QED
  BY <1>1, <1>2, PlainPost DEF Burn, LedgerInv, LedgerTypeOK

\* So does a transfer, from a wallet or as a refund by the provider.
LEMMA TransferInv ==
    ASSUME LedgerInv, NEW from \in Wallet \cup {AcctProvider}, NEW w \in Wallet,
           NEW n \in Nat, Transfer(from, w, n)
    PROVE  LedgerInv'
<1>1. Leg(from, -n) \in ALegs /\ Leg(w, n) \in ALegs
  BY SystemAccounts, AmountIsPositive DEF Leg, ALegs
<1>2. Leg(from, -n).account # AcctHold /\ Leg(w, n).account # AcctHold
  BY SystemAccounts DEF Leg, AcctProvider, AcctHold, System
<1>3. QED
  BY <1>1, <1>2, PlainPost DEF Transfer, LedgerInv, LedgerTypeOK

\* Taking a hold reserves in the table what it moves into the hold account,
\* and only an open wallet can be drawn on.
LEMMA HoldInv ==
    ASSUME LedgerInv, NEW h \in HoldId, NEW w \in Wallet, NEW n \in Amount, Hold(h, w, n)
    PROVE  LedgerInv'
<1> DEFINE l1 == Leg(w, -n)
           l2 == Leg(AcctHold, n)
           row == [state |-> "open", wallet |-> w, amount |-> n]
<1>1. l1 \in ALegs /\ l2 \in ALegs /\ NoLeg \in ALegs
  BY SystemAccounts, AmountIsPositive DEF Leg, NoLeg, ALegs
<1>2. balance \in [Account -> Int] /\ Post(l1, l2, NoLeg)
  BY DEF LedgerInv, LedgerTypeOK, Hold
<1>3. holds' = [holds EXCEPT ![h] = row] /\ holds[h] = Unused /\ UNCHANGED <<status, mints>>
  <2>1. h >= h
    BY DEF HoldId
  <2>2. QED
    BY <2>1 DEF Hold, IsNextHold
<1>4. row \in Reservation
  BY DEF Reservation
<1>5. LedgerTypeOK' /\ Conserved'
  <2>1. balance' \in [Account -> Int] /\ Conserved'
    BY <1>1, <1>2, PostConserves DEF LedgerInv
  <2>2. QED
    BY <1>3, <1>4, <2>1 DEF LedgerInv, LedgerTypeOK
<1>6. NoWalletOverdrawn'
  BY <1>1, <1>2, PostStaysInBounds DEF LedgerInv, NoWalletOverdrawn
<1>7. HoldAccountIsOpenHolds'
  <2>1. balance'[AcctHold] = balance[AcctHold] + Net(l1, AcctHold) + Net(l2, AcctHold)
                               + Net(NoLeg, AcctHold)
    BY <1>1, <1>2, PostEffect, SystemAccounts
  <2>2. Net(l1, AcctHold) = 0 /\ Net(l2, AcctHold) = n /\ Net(NoLeg, AcctHold) = 0
    BY SystemAccounts DEF Net, Leg, NoLeg, System
  <2>3. balance[AcctHold] \in Int /\ n \in Int
    BY <1>2, SystemAccounts, AmountIsPositive
  <2>4. /\ Reservations \in [1..MaxHolds -> Int] /\ Reservations' \in [1..MaxHolds -> Int]
        /\ MaxHolds \in Nat
    <3>1. LedgerTypeOK
      BY DEF LedgerInv
    <3>2. (LedgerTypeOK)' => (Reservations' \in [1..MaxHolds -> Int])
      BY AmountIsPositive DEF LedgerTypeOK, Reserved, Reservation, Unused, Reservations, HoldId
    <3>3. QED
      BY <1>5, <3>1, <3>2, ReservationsType
  <2>5. Reservations'[h] = Reservations[h] + n
    BY <1>3, <2>3 DEF Reservations, Reserved, Unused, LedgerInv, LedgerTypeOK
  <2>6. \A g \in 1..MaxHolds : g # h => Reservations'[g] = Reservations[g]
    BY <1>3 DEF Reservations, Reserved, LedgerInv, LedgerTypeOK, HoldId
  <2>7. Total(MaxHolds, Reservations') = Total(MaxHolds, Reservations) + n
    BY <2>3, <2>4, <2>5, <2>6, TotalUpdate DEF HoldId
  <2>8. balance'[AcctHold] = balance[AcctHold] + n
    BY <2>1, <2>2, <2>3
  <2>9. QED
    BY <2>7, <2>8 DEF HoldAccountIsOpenHolds, LedgerInv
<1>8. OpenHoldsCanLand'
  <2>1. status[w] = "open"
    <3>1. Accepts(balance, l1)
      BY <1>2 DEF Post, CanPost
    <3>2. QED
      BY <3>1, AmountIsPositive DEF Accepts, Leg
  <2>2. QED
    BY <1>3, <2>1 DEF OpenHoldsCanLand, LedgerInv, LedgerTypeOK
<1>9. QED
  BY <1>5, <1>6, <1>7, <1>8 DEF LedgerInv

\* Resolving a hold takes out of the hold account what its row reserved.
LEMMA ResolveInv ==
    ASSUME LedgerInv, NEW h \in HoldId, NEW target \in {"settled", "released"},
           NEW n \in Nat, Resolve(h, target, n)
    PROVE  LedgerInv'
<1> DEFINE w == holds[h].wallet
           m == holds[h].amount
           l1 == Leg(AcctHold, -m)
           l2 == Leg(AcctProvider, n)
           l3 == Leg(w, m - n)
<1>1. holds[h] \in Reservation /\ w \in Wallet /\ m \in Amount /\ holds[h].state = "open"
  BY DEF Resolve, LedgerInv, LedgerTypeOK, Unused, Reservation
<1>2. m \in Int /\ n \in Int /\ m > 0
  BY <1>1, AmountIsPositive
<1> HIDE DEF w, m
<1>3. l1 \in ALegs /\ l2 \in ALegs /\ l3 \in ALegs
  BY <1>1, <1>2, SystemAccounts DEF Leg, ALegs
<1>4. balance \in [Account -> Int] /\ Post(l1, l2, l3)
  BY DEF LedgerInv, LedgerTypeOK, Resolve, w, m
<1>5. holds' = [holds EXCEPT ![h].state = target] /\ UNCHANGED <<status, mints>>
  BY DEF Resolve
<1>6. holds' \in [HoldId -> {Unused} \cup Reservation]
  BY <1>1, <1>5 DEF LedgerInv, LedgerTypeOK, Reservation
<1>7. LedgerTypeOK' /\ Conserved'
  <2>1. balance' \in [Account -> Int] /\ Conserved'
    BY <1>3, <1>4, PostConserves DEF LedgerInv
  <2>2. QED
    BY <1>5, <1>6, <2>1 DEF LedgerInv, LedgerTypeOK
<1>8. NoWalletOverdrawn'
  BY <1>3, <1>4, PostStaysInBounds DEF LedgerInv, NoWalletOverdrawn
<1>9. HoldAccountIsOpenHolds'
  <2>1. balance'[AcctHold] = balance[AcctHold] + Net(l1, AcctHold) + Net(l2, AcctHold)
                               + Net(l3, AcctHold)
    BY <1>3, <1>4, PostEffect, SystemAccounts
  <2>2. Net(l1, AcctHold) = -m /\ Net(l2, AcctHold) = 0 /\ Net(l3, AcctHold) = 0
    BY <1>1, SystemAccounts DEF Net, Leg, System, AcctHold, AcctProvider
  <2>3. balance[AcctHold] \in Int /\ -m \in Int
    BY <1>2, <1>4, SystemAccounts
  <2>4. /\ Reservations \in [1..MaxHolds -> Int] /\ Reservations' \in [1..MaxHolds -> Int]
        /\ MaxHolds \in Nat
    <3>1. LedgerTypeOK
      BY DEF LedgerInv
    <3>2. (LedgerTypeOK)' => (Reservations' \in [1..MaxHolds -> Int])
      BY AmountIsPositive DEF LedgerTypeOK, Reserved, Reservation, Unused, Reservations, HoldId
    <3>3. QED
      BY <1>7, <3>1, <3>2, ReservationsType
  <2>5. Reservations'[h] = Reservations[h] + (-m)
    <3>1. holds'[h].state = target /\ target # "open"
      BY <1>1, <1>5 DEF LedgerInv, LedgerTypeOK, Reservation
    <3>2. Reservations'[h] = 0 /\ Reservations[h] = m
      BY <1>1, <3>1 DEF Reservations, Reserved, m
    <3>3. QED
      BY <1>2, <3>2
  <2>6. \A g \in 1..MaxHolds : g # h => Reservations'[g] = Reservations[g]
    BY <1>5 DEF Reservations, Reserved, LedgerInv, LedgerTypeOK, HoldId
  <2>7. Total(MaxHolds, Reservations') = Total(MaxHolds, Reservations) + (-m)
    BY <2>3, <2>4, <2>5, <2>6, TotalUpdate DEF HoldId
  <2>8. balance'[AcctHold] = balance[AcctHold] + (-m)
    BY <2>1, <2>2, <2>3
  <2>9. QED
    BY <2>7, <2>8 DEF HoldAccountIsOpenHolds, LedgerInv
<1>10. OpenHoldsCanLand'
  <2>1. ASSUME NEW g \in HoldId, holds'[g].state = "open" PROVE status'[holds'[g].wallet] = "open"
    <3>1. g # h
      BY <1>1, <1>5, <2>1 DEF LedgerInv, LedgerTypeOK, Reservation
    <3>2. holds'[g] = holds[g]
      BY <1>5, <3>1 DEF LedgerInv, LedgerTypeOK
    <3>3. QED
      BY <1>5, <2>1, <3>2 DEF LedgerInv, OpenHoldsCanLand
  <2>2. QED
    BY <2>1 DEF OpenHoldsCanLand
<1>11. QED
  BY <1>7, <1>8, <1>9, <1>10 DEF LedgerInv

\* An account is created or retired without a credit moving; retiring needs
\* the wallet to have no open hold.
LEMMA StatusInv ==
    ASSUME LedgerInv, NEW w \in Wallet, CreateAccount(w) \/ Retire(w)
    PROVE  LedgerInv'
<1>1. UNCHANGED <<balance, holds, mints>>
  BY DEF CreateAccount, Retire
<1>2. LedgerTypeOK'
  BY <1>1 DEF CreateAccount, Retire, LedgerInv, LedgerTypeOK
<1>3. Conserved' /\ NoWalletOverdrawn' /\ HoldAccountIsOpenHolds'
  <2>1. Reservations' = Reservations
    BY <1>1 DEF Reservations, Reserved
  <2>2. QED
    BY <1>1, <2>1 DEF LedgerInv, Conserved, NoWalletOverdrawn, HoldAccountIsOpenHolds
<1>4. OpenHoldsCanLand'
  <2>1. ASSUME NEW g \in HoldId, holds[g].state = "open"
        PROVE  status'[holds[g].wallet] = "open"
    <3>1. status[holds[g].wallet] = "open"
      BY <2>1 DEF LedgerInv, OpenHoldsCanLand
    <3>2. CASE CreateAccount(w)
      BY <3>1, <3>2 DEF CreateAccount, LedgerInv, LedgerTypeOK
    <3>3. CASE Retire(w)
      <4>1. holds[g].wallet # w
        BY <2>1, <3>3 DEF Retire, OpenHolds
      <4>2. QED
        BY <3>1, <3>3, <4>1 DEF Retire, LedgerInv, LedgerTypeOK
    <3>4. QED
      BY <3>2, <3>3
  <2>2. QED
    BY <1>1, <2>1 DEF OpenHoldsCanLand
<1>5. QED
  BY <1>2, <1>3, <1>4 DEF LedgerInv

\* The empty book satisfies the invariant.
LEMMA InitInv == LedgerInit => LedgerInv
<1> SUFFICES ASSUME LedgerInit PROVE LedgerInv
  OBVIOUS
<1>1. LedgerTypeOK
  BY DEF LedgerInit, LedgerTypeOK
<1>2. NoWalletOverdrawn
  BY SystemAccounts DEF LedgerInit, NoWalletOverdrawn
<1>3. Conserved
  <2>1. NRows \in Nat /\ \A i \in 1..NRows : Balances(balance)[i] = 0
    BY RowsAssumption DEF LedgerInit, Balances
  <2>2. Balances(balance) \in [1..NRows -> Int]
    BY <2>1 DEF Balances
  <2>3. QED
    BY <2>1, <2>2, TotalOfZeros DEF Conserved
<1>4. HoldAccountIsOpenHolds
  <2>1. \A h \in 1..MaxHolds : Reservations[h] = 0
    BY DEF LedgerInit, Reservations, Reserved, Unused, HoldId
  <2>2. Total(MaxHolds, Reservations) = 0
    BY <1>1, <2>1, ReservationsType, TotalOfZeros
  <2>3. QED
    BY <2>2, SystemAccounts DEF LedgerInit, HoldAccountIsOpenHolds
<1>5. OpenHoldsCanLand
  BY DEF LedgerInit, OpenHoldsCanLand, Unused
<1>6. QED
  BY <1>1, <1>2, <1>3, <1>4, <1>5 DEF LedgerInv

\* Every step of the book keeps the invariant: one case per operation.
LEMMA StepInv == LedgerInv /\ [LedgerNext]_ledgerVars => LedgerInv'
<1> SUFFICES ASSUME LedgerInv, [LedgerNext]_ledgerVars PROVE LedgerInv'
  OBVIOUS
<1>1. ASSUME NEW w \in Wallet, CreateAccount(w) PROVE LedgerInv'
  BY <1>1, StatusInv
<1>2. ASSUME NEW w \in Wallet, NEW n \in Amount, NEW r \in Ref, Mint(w, n, r)
      PROVE  LedgerInv'
  BY <1>2, MintInv, AmountIsPositive
<1>3. ASSUME NEW w \in Wallet, NEW n \in Amount, NEW r \in Payment, MintOnce(w, n, r)
      PROVE  LedgerInv'
  BY <1>3, MintInv, AmountIsPositive, PaymentAssumption DEF MintOnce
<1>4. ASSUME NEW w \in Wallet, NEW n \in Amount, Burn(w, n) PROVE LedgerInv'
  BY <1>4, BurnInv, AmountIsPositive
<1>5. ASSUME NEW from \in Wallet, NEW to \in Wallet, NEW n \in Amount, Transfer(from, to, n)
      PROVE  LedgerInv'
  BY <1>5, TransferInv, AmountIsPositive
<1>6. ASSUME NEW to \in Wallet, NEW n \in Amount, Refund(to, n) PROVE LedgerInv'
  BY <1>6, TransferInv, AmountIsPositive DEF Refund
<1>7. ASSUME NEW h \in HoldId, NEW w \in Wallet, NEW n \in Amount, Hold(h, w, n)
      PROVE  LedgerInv'
  BY <1>7, HoldInv
<1>8. ASSUME NEW h \in HoldId, NEW n \in 0..MaxSupply, Settle(h, n) PROVE LedgerInv'
  BY <1>8, ResolveInv, BoundAssumption DEF Settle
<1>9. ASSUME NEW h \in HoldId, Release(h) PROVE LedgerInv'
  BY <1>9, ResolveInv DEF Release
<1>10. ASSUME NEW w \in Wallet, Retire(w) PROVE LedgerInv'
  BY <1>10, StatusInv
<1>11. CASE UNCHANGED ledgerVars
  <2>1. UNCHANGED <<balance, status, holds, mints>>
    BY <1>11 DEF ledgerVars
  <2>2. Reservations' = Reservations
    BY <2>1 DEF Reservations, Reserved
  <2>3. QED
    BY <2>1, <2>2 DEF LedgerInv, LedgerTypeOK, NoWalletOverdrawn, Conserved,
                      HoldAccountIsOpenHolds, OpenHoldsCanLand
<1>12. QED
  BY <1>1, <1>2, <1>3, <1>4, <1>5, <1>6, <1>7, <1>8, <1>9, <1>10, <1>11 DEF LedgerNext

\* The invariant of the book, for every set of wallets, refs and bounds.
THEOREM LedgerSafe == LedgerSpec => []LedgerInv
BY InitInv, StepInv, PTL DEF LedgerSpec

\* The tables keep their types (LedgerTypeOK).
THEOREM LedgerTypes == LedgerSpec => []LedgerTypeOK
<1>1. LedgerInv => LedgerTypeOK
  BY DEF LedgerInv
<1>2. QED
  BY <1>1, LedgerSafe, PTL

\* Every credit ever minted is in a wallet, burned, spent or held.
THEOREM Conservation == LedgerSpec => []Conserved
<1>1. LedgerInv => Conserved
  BY DEF LedgerInv
<1>2. QED
  BY <1>1, LedgerSafe, PTL

\* No wallet is ever overdrawn.
THEOREM NoOverdraft == LedgerSpec => []NoWalletOverdrawn
<1>1. LedgerInv => NoWalletOverdrawn
  BY DEF LedgerInv
<1>2. QED
  BY <1>1, LedgerSafe, PTL

\* The hold account is exactly the sum of the open holds.
THEOREM HoldsAreCovered == LedgerSpec => []HoldAccountIsOpenHolds
<1>1. LedgerInv => HoldAccountIsOpenHolds
  BY DEF LedgerInv
<1>2. QED
  BY <1>1, LedgerSafe, PTL

\* No hold is ever left without an open wallet to return its credits to.
THEOREM HoldsCanLand == LedgerSpec => []OpenHoldsCanLand
<1>1. LedgerInv => OpenHoldsCanLand
  BY DEF LedgerInv
<1>2. QED
  BY <1>1, LedgerSafe, PTL

-----------------------------------------------------------------------------
\* No operation reopens a closed account.
LEMMA StatusStep ==
    ASSUME LedgerInv, LedgerNext, NEW w \in Wallet, status[w] = "closed"
    PROVE  status'[w] = "closed"
BY DEF LedgerNext, LedgerInv, LedgerTypeOK, CreateAccount, Mint, MintOnce, Burn, Transfer,
       Refund, Hold, Settle, Release, Resolve, Retire

\* Every step that moves credits is one transaction of the book.
LEMMA StepIsPost ==
    ASSUME LedgerInv, LedgerNext
    PROVE  \/ balance' = balance
           \/ \E l1, l2, l3 \in ALegs : Post(l1, l2, l3)
<1> USE SystemAccounts, AmountIsPositive DEF Leg, ALegs
<1>1. NoLeg \in ALegs
  BY DEF NoLeg
<1>2. ASSUME NEW w \in Wallet, CreateAccount(w) \/ Retire(w) PROVE balance' = balance
  BY <1>2 DEF CreateAccount, Retire
<1>3. ASSUME NEW w \in Wallet, NEW n \in Amount, NEW r \in Ref, Mint(w, n, r)
      PROVE  \E l1, l2, l3 \in ALegs : Post(l1, l2, l3)
  <2>1. Leg(AcctMint, -n) \in ALegs /\ Leg(w, n) \in ALegs
    OBVIOUS
  <2>2. QED
    BY <1>1, <1>3, <2>1 DEF Mint
<1>4. ASSUME NEW w \in Wallet, NEW n \in Amount, Burn(w, n)
      PROVE  \E l1, l2, l3 \in ALegs : Post(l1, l2, l3)
  <2>1. Leg(w, -n) \in ALegs /\ Leg(AcctBurn, n) \in ALegs
    OBVIOUS
  <2>2. QED
    BY <1>1, <1>4, <2>1 DEF Burn
<1>5. ASSUME NEW from \in Wallet \cup {AcctProvider}, NEW w \in Wallet, NEW n \in Amount,
             Transfer(from, w, n)
      PROVE  \E l1, l2, l3 \in ALegs : Post(l1, l2, l3)
  <2>1. Leg(from, -n) \in ALegs /\ Leg(w, n) \in ALegs
    OBVIOUS
  <2>2. QED
    BY <1>1, <1>5, <2>1 DEF Transfer
<1>6. ASSUME NEW h \in HoldId, NEW w \in Wallet, NEW n \in Amount, Hold(h, w, n)
      PROVE  \E l1, l2, l3 \in ALegs : Post(l1, l2, l3)
  <2>1. Leg(w, -n) \in ALegs /\ Leg(AcctHold, n) \in ALegs
    OBVIOUS
  <2>2. QED
    BY <1>1, <1>6, <2>1 DEF Hold
<1>7. ASSUME NEW h \in HoldId, NEW target \in {"settled", "released"}, NEW n \in Nat,
             Resolve(h, target, n)
      PROVE  \E l1, l2, l3 \in ALegs : Post(l1, l2, l3)
  <2> DEFINE m == holds[h].amount
             w == holds[h].wallet
  <2>1. w \in Wallet /\ m \in Amount
    BY <1>7 DEF Resolve, LedgerInv, LedgerTypeOK, Unused, Reservation
  <2>2. Post(Leg(AcctHold, -m), Leg(AcctProvider, n), Leg(w, m - n))
    BY <1>7 DEF Resolve
  <2> HIDE DEF m, w
  <2>3. /\ Leg(AcctHold, -m) \in ALegs
        /\ Leg(AcctProvider, n) \in ALegs
        /\ Leg(w, m - n) \in ALegs
    BY <2>1
  <2>4. QED
    BY <2>2, <2>3
<1>8. QED
  BY <1>2, <1>3, <1>4, <1>5, <1>6, <1>7, BoundAssumption, PaymentAssumption
     DEF LedgerNext, MintOnce, Refund, Settle, Release

\* A retired account is final: no leg of any operation reaches it and it is
\* never reopened.
THEOREM RetirementIsFinal == LedgerSpec => RetiredIsFinal
<1>1. LedgerInv /\ [LedgerNext]_ledgerVars =>
        [\A w \in Wallet : status[w] = "closed" =>
            status'[w] = "closed" /\ balance'[w] = balance[w]]_ledgerVars
  <2> SUFFICES ASSUME LedgerInv, LedgerNext, NEW w \in Wallet, status[w] = "closed"
               PROVE  status'[w] = "closed" /\ balance'[w] = balance[w]
    OBVIOUS
  <2>1. status'[w] = "closed"
    BY StatusStep
  <2>2. balance \in [Account -> Int]
    BY DEF LedgerInv, LedgerTypeOK
  <2>3. balance'[w] = balance[w]
    <3>1. CASE balance' = balance
      BY <3>1
    <3>2. ASSUME NEW l1 \in ALegs, NEW l2 \in ALegs, NEW l3 \in ALegs, Post(l1, l2, l3)
          PROVE  balance'[w] = balance[w]
      BY <2>2, <3>2, PostStaysInBounds
    <3>3. QED
      BY <3>1, <3>2, StepIsPost
  <2>4. QED
    BY <2>1, <2>3
<1>2. QED
  BY <1>1, LedgerSafe, PTL DEF LedgerSpec, RetiredIsFinal

-----------------------------------------------------------------------------
(***************************************************************************)
(* The refinement of module Purse.                                         *)
(***************************************************************************)
\* What each row of the holds table keeps out of a wallet's balance.
HeldBy(w) == [h \in HoldId |-> IF h \in OpenHolds(w) THEN holds[h].amount ELSE 0]

\* What is reserved from a wallet is a sum of sizes: no less than any one.
LEMMA ReservedBounds ==
    ASSUME LedgerTypeOK, NEW w \in Wallet
    PROVE  /\ ReservedFrom(w) \in Int /\ ReservedFrom(w) >= 0
           /\ HeldBy(w) \in [1..MaxHolds -> Int]
           /\ \A h \in OpenHolds(w) : holds[h].amount <= ReservedFrom(w)
<1>1. MaxHolds \in Nat
  BY BoundAssumption
<1>2. ASSUME NEW h \in OpenHolds(w) PROVE h \in HoldId /\ holds[h].amount \in Amount
  BY <1>2 DEF OpenHolds, LedgerTypeOK, Unused, Reservation
<1>3. HeldBy(w) \in [1..MaxHolds -> Int] /\ \A i \in 1..MaxHolds : HeldBy(w)[i] >= 0
  <2>1. ASSUME NEW i \in HoldId PROVE HeldBy(w)[i] \in Int /\ HeldBy(w)[i] >= 0
    BY <1>2, AmountIsPositive DEF HeldBy
  <2>2. QED
    BY <2>1 DEF HeldBy, HoldId
<1>4. ReservedFrom(w) = Total(MaxHolds, HeldBy(w))
  BY DEF ReservedFrom, HeldBy
<1>5. ReservedFrom(w) \in Int /\ ReservedFrom(w) >= 0
  BY <1>1, <1>3, <1>4, TotalType, TotalNonNegative
<1>6. ASSUME NEW h \in OpenHolds(w) PROVE holds[h].amount <= ReservedFrom(w)
  <2>1. h \in 1..MaxHolds /\ HeldBy(w)[h] = holds[h].amount
    BY <1>2 DEF HeldBy, HoldId
  <2>2. QED
    BY <1>1, <1>3, <1>4, <2>1, TotalAtLeast
<1>7. QED
  BY <1>3, <1>5, <1>6

\* Operations that leave the holds table alone leave the reservations alone.
LEMMA ReservedUnchanged ==
    ASSUME UNCHANGED holds, NEW w \in Wallet
    PROVE  ReservedFrom(w)' = ReservedFrom(w)
BY DEF ReservedFrom, OpenHolds

\* A row that changes moves what its wallet has reserved by its size, and
\* what nobody else has.
LEMMA ReservedRow ==
    ASSUME LedgerTypeOK, LedgerTypeOK', NEW h \in HoldId, NEW w \in Wallet, NEW d \in Int,
           HeldBy(w)'[h] = HeldBy(w)[h] + d,
           \A g \in HoldId : g # h => holds'[g] = holds[g]
    PROVE  ReservedFrom(w)' = ReservedFrom(w) + d
<1>1. MaxHolds \in Nat /\ h \in 1..MaxHolds
  BY BoundAssumption DEF HoldId
<1>2. HeldBy(w) \in [1..MaxHolds -> Int]
  BY ReservedBounds
<1>3. HeldBy(w)' \in [1..MaxHolds -> Int]
  <2>1. ASSUME NEW g \in HoldId PROVE HeldBy(w)'[g] \in Int
    <3>1. g \in OpenHolds(w)' => holds'[g].amount \in Amount
      BY DEF OpenHolds, LedgerTypeOK, Unused, Reservation
    <3>2. QED
      BY <3>1, AmountIsPositive DEF HeldBy
  <2>2. QED
    BY <2>1 DEF HeldBy, HoldId
<1>4. \A g \in 1..MaxHolds : g # h => HeldBy(w)'[g] = HeldBy(w)[g]
  BY DEF HeldBy, OpenHolds, HoldId
<1>5. Total(MaxHolds, HeldBy(w)') = Total(MaxHolds, HeldBy(w)) + d
  BY <1>1, <1>2, <1>3, <1>4, TotalUpdate
<1>6. QED
  BY <1>5 DEF ReservedFrom, HeldBy

-----------------------------------------------------------------------------
\* What a wallet is worth, as the refinement mapping has it.
Worth(w) == balance[w] + ReservedFrom(w)

\* A worth is an integer, and no less than what is spendable or reserved.
LEMMA WorthBounds ==
    ASSUME LedgerInv, NEW w \in Wallet
    PROVE  /\ Worth(w) \in Int /\ balance[w] \in Int
           /\ Worth(w) >= balance[w] /\ Worth(w) >= ReservedFrom(w)
<1>1. balance[w] \in Int /\ balance[w] >= 0
  BY SystemAccounts DEF LedgerInv, LedgerTypeOK, NoWalletOverdrawn
<1>2. ReservedFrom(w) \in Int /\ ReservedFrom(w) >= 0
  BY ReservedBounds DEF LedgerInv
<1>3. QED
  BY <1>1, <1>2 DEF Worth

\* A transaction that leaves the holds table alone changes what a wallet is
\* worth by its legs there.
LEMMA PlainWorth ==
    ASSUME LedgerInv, NEW l1 \in ALegs, NEW l2 \in ALegs, Post(l1, l2, NoLeg),
           UNCHANGED holds, NEW w \in Wallet
    PROVE  Worth(w)' = Worth(w) + Net(l1, w) + Net(l2, w)
<1>1. NoLeg \in ALegs /\ Net(NoLeg, w) = 0 /\ w \in Account
  BY SystemAccounts DEF NoLeg, Leg, ALegs, Net
<1>2. balance \in [Account -> Int]
  BY DEF LedgerInv, LedgerTypeOK
<1>3. balance'[w] = balance[w] + Net(l1, w) + Net(l2, w) + Net(NoLeg, w)
  BY <1>1, <1>2, PostEffect
<1>4. ReservedFrom(w)' = ReservedFrom(w)
  BY ReservedUnchanged
<1>5. Net(l1, w) \in Int /\ Net(l2, w) \in Int /\ balance[w] \in Int
  BY <1>1, <1>2 DEF Net, ALegs
<1>6. ReservedFrom(w) \in Int
  BY ReservedBounds DEF LedgerInv
<1>7. QED
  BY <1>1, <1>3, <1>4, <1>5, <1>6 DEF Worth

\* The first leg of a transaction, if it takes credits from a wallet, takes
\* them from an open one that has them.
LEMMA FirstLegAfforded ==
    ASSUME LedgerInv, NEW w \in Wallet, NEW n \in Amount, NEW l2, NEW l3,
           CanPost(Leg(w, -n), l2, l3)
    PROVE  status[w] = "open" /\ n <= balance[w] /\ n <= Worth(w)
<1>1. Accepts(balance, Leg(w, -n)) /\ n > 0 /\ n \in Int
  BY AmountIsPositive DEF CanPost
<1>2. status[w] = "open" /\ balance[w] + (-n) >= 0
  BY <1>1 DEF Accepts, Leg
<1>3. QED
  BY <1>1, <1>2, WorthBounds

\* A second leg that pays a wallet pays an open one.
LEMMA SecondLegOpen ==
    ASSUME NEW w \in Wallet, NEW n \in Amount, NEW l1, NEW l3, CanPost(l1, Leg(w, n), l3)
    PROVE  status[w] = "open"
<1>1. n > 0 /\ Accepts(Applied(balance, l1), Leg(w, n))
  BY AmountIsPositive DEF CanPost
<1>2. QED
  BY <1>1 DEF Accepts, Leg

\* The refinement mapping, as a function of the wallets.
Worths == [w \in Wallet |-> Worth(w)]

\* The same for the two accounts the purses speak of, charged and burned.
LEMMA PlainSystem ==
    ASSUME LedgerInv, NEW l1 \in ALegs, NEW l2 \in ALegs, Post(l1, l2, NoLeg),
           NEW a \in {AcctProvider, AcctBurn}
    PROVE  balance[a] \in Int /\ balance'[a] = balance[a] + Net(l1, a) + Net(l2, a)
<1>1. NoLeg \in ALegs /\ Net(NoLeg, a) = 0 /\ a \in Account
  BY SystemAccounts DEF NoLeg, Leg, ALegs, Net, AcctProvider, AcctBurn, AcctHold
<1>2. balance \in [Account -> Int]
  BY DEF LedgerInv, LedgerTypeOK
<1>3. balance'[a] = balance[a] + Net(l1, a) + Net(l2, a) + Net(NoLeg, a)
  BY <1>1, <1>2, PostEffect
<1>4. Net(l1, a) \in Int /\ Net(l2, a) \in Int /\ balance[a] \in Int
  BY <1>1, <1>2 DEF Net, ALegs
<1>5. QED
  BY <1>1, <1>3, <1>4

\* A mint funds a purse.
LEMMA MintFunds ==
    ASSUME LedgerInv, NEW w \in Wallet, NEW n \in Amount, NEW r \in Ref, Mint(w, n, r)
    PROVE  Purses!Fund(w, n)
<1> DEFINE l1 == Leg(AcctMint, -n)
           l2 == Leg(w, n)
<1>1. l1 \in ALegs /\ l2 \in ALegs /\ n \in Int
  BY SystemAccounts, AmountIsPositive DEF Leg, ALegs
<1>2. Post(l1, l2, NoLeg) /\ UNCHANGED <<status, holds>>
  BY DEF Mint
<1>3. status[w] = "open"
  BY <1>2, SecondLegOpen DEF Post
<1>4. ASSUME NEW v \in Wallet PROVE Worths'[v] = [Worths EXCEPT ![w] = @ + n][v]
  <2>1. Worth(v)' = Worth(v) + Net(l1, v) + Net(l2, v) /\ Worth(v) \in Int
    BY <1>1, <1>2, PlainWorth, WorthBounds
  <2>2. Net(l1, v) = 0 /\ Net(l2, v) = IF v = w THEN n ELSE 0
    BY SystemAccounts DEF Net, Leg, System
  <2>3. QED
    BY <1>1, <2>1, <2>2 DEF Worths
<1>5. Worths' = [Worths EXCEPT ![w] = @ + n]
  BY <1>4 DEF Worths
<1>6. ASSUME NEW a \in {AcctProvider, AcctBurn} PROVE balance'[a] = balance[a]
  <2>1. Net(l1, a) = 0 /\ Net(l2, a) = 0
    BY SystemAccounts DEF Net, Leg, System, AcctMint, AcctProvider, AcctBurn
  <2>2. QED
    BY <1>1, <1>2, <2>1, PlainSystem
<1>7. QED
  BY <1>2, <1>3, <1>5, <1>6 DEF Purses!Fund, Worths, Worth

\* A burn destroys what leaves the purse.
LEMMA BurnDestroys ==
    ASSUME LedgerInv, NEW w \in Wallet, NEW n \in Amount, Burn(w, n)
    PROVE  Purses!Destroy(w, n)
<1> DEFINE l1 == Leg(w, -n)
           l2 == Leg(AcctBurn, n)
<1>1. l1 \in ALegs /\ l2 \in ALegs /\ n \in Int
  BY SystemAccounts, AmountIsPositive DEF Leg, ALegs
<1>2. Post(l1, l2, NoLeg) /\ UNCHANGED <<status, holds>>
  BY DEF Burn
<1>3. status[w] = "open" /\ n <= Worth(w)
  BY <1>2, FirstLegAfforded DEF Post
<1>4. ASSUME NEW v \in Wallet PROVE Worths'[v] = [Worths EXCEPT ![w] = @ - n][v]
  <2>1. Worth(v)' = Worth(v) + Net(l1, v) + Net(l2, v) /\ Worth(v) \in Int
    BY <1>1, <1>2, PlainWorth, WorthBounds
  <2>2. Net(l2, v) = 0 /\ Net(l1, v) = IF v = w THEN -n ELSE 0
    BY SystemAccounts DEF Net, Leg, System
  <2>3. QED
    BY <1>1, <2>1, <2>2 DEF Worths
<1>5. Worths' = [Worths EXCEPT ![w] = @ - n]
  BY <1>4 DEF Worths
<1>6. balance'[AcctProvider] = balance[AcctProvider]
        /\ balance'[AcctBurn] = balance[AcctBurn] + n
  <2>1. /\ Net(l1, AcctProvider) = 0 /\ Net(l2, AcctProvider) = 0
        /\ Net(l1, AcctBurn) = 0 /\ Net(l2, AcctBurn) = n
    BY SystemAccounts DEF Net, Leg, System, AcctProvider, AcctBurn
  <2>2. QED
    BY <1>1, <1>2, <2>1, PlainSystem
<1>7. QED
  BY <1>2, <1>3, <1>5, <1>6 DEF Purses!Destroy, Purses!Afford, Worths, Worth

\* A transfer between wallets moves a worth, from a purse to itself included.
LEMMA TransferMoves ==
    ASSUME LedgerInv, NEW from \in Wallet, NEW to \in Wallet, NEW n \in Amount,
           Transfer(from, to, n)
    PROVE  Purses!Move(from, to, n)
<1> DEFINE l1 == Leg(from, -n)
           l2 == Leg(to, n)
           moved == [[Worths EXCEPT ![from] = @ - n] EXCEPT ![to] = @ + n]
<1>1. l1 \in ALegs /\ l2 \in ALegs /\ n \in Int
  BY SystemAccounts, AmountIsPositive DEF Leg, ALegs
<1>2. Post(l1, l2, NoLeg) /\ UNCHANGED <<status, holds>>
  BY DEF Transfer
<1>3. status[from] = "open" /\ n <= Worth(from) /\ status[to] = "open"
  BY <1>2, FirstLegAfforded, SecondLegOpen DEF Post
<1>4. ASSUME NEW v \in Wallet PROVE Worths'[v] = moved[v]
  <2>1. Worth(v)' = Worth(v) + Net(l1, v) + Net(l2, v) /\ Worth(v) \in Int
    BY <1>1, <1>2, PlainWorth, WorthBounds
  <2>2. /\ Net(l1, v) = IF v = from THEN -n ELSE 0
        /\ Net(l2, v) = IF v = to THEN n ELSE 0
    BY DEF Net, Leg
  <2>3. QED
    BY <1>1, <2>1, <2>2 DEF Worths
<1>5. Worths' = moved
  BY <1>4 DEF Worths
<1>6. ASSUME NEW a \in {AcctProvider, AcctBurn} PROVE balance'[a] = balance[a]
  <2>1. Net(l1, a) = 0 /\ Net(l2, a) = 0
    BY SystemAccounts DEF Net, Leg, System
  <2>2. QED
    BY <1>1, <1>2, <2>1, PlainSystem
<1>7. QED
  BY <1>2, <1>3, <1>5, <1>6 DEF Purses!Move, Purses!Afford, Worths, Worth

\* A refund pays back what was charged.
LEMMA RefundPaysBack ==
    ASSUME LedgerInv, NEW w \in Wallet, NEW n \in Amount, Refund(w, n)
    PROVE  Purses!PayBack(w, n)
<1> DEFINE l1 == Leg(AcctProvider, -n)
           l2 == Leg(w, n)
<1>1. l1 \in ALegs /\ l2 \in ALegs /\ n \in Int
  BY SystemAccounts, AmountIsPositive DEF Leg, ALegs
<1>2. Post(l1, l2, NoLeg) /\ UNCHANGED <<status, holds>>
  BY DEF Refund, Transfer
<1>3. status[w] = "open"
  BY <1>2, SecondLegOpen DEF Post
<1>4. ASSUME NEW v \in Wallet PROVE Worths'[v] = [Worths EXCEPT ![w] = @ + n][v]
  <2>1. Worth(v)' = Worth(v) + Net(l1, v) + Net(l2, v) /\ Worth(v) \in Int
    BY <1>1, <1>2, PlainWorth, WorthBounds
  <2>2. Net(l1, v) = 0 /\ Net(l2, v) = IF v = w THEN n ELSE 0
    BY SystemAccounts DEF Net, Leg, System
  <2>3. QED
    BY <1>1, <2>1, <2>2 DEF Worths
<1>5. Worths' = [Worths EXCEPT ![w] = @ + n]
  BY <1>4 DEF Worths
<1>6. balance'[AcctProvider] = balance[AcctProvider] - n
        /\ balance'[AcctBurn] = balance[AcctBurn]
  <2>1. /\ Net(l1, AcctProvider) = -n /\ Net(l2, AcctProvider) = 0
        /\ Net(l1, AcctBurn) = 0 /\ Net(l2, AcctBurn) = 0
    BY SystemAccounts DEF Net, Leg, System, AcctProvider, AcctBurn
  <2>2. QED
    BY <1>1, <1>2, <2>1, PlainSystem
<1>7. QED
  BY <1>2, <1>3, <1>5, <1>6 DEF Purses!PayBack, Worths, Worth

\* Nothing the purses show changes.
PursesStutter ==
    Worths' = Worths /\ UNCHANGED <<status, balance[AcctProvider], balance[AcctBurn]>>

\* Reserving credits is not visible: the balance falls by what the new row
\* adds to the reservations.
LEMMA HoldIsHidden ==
    ASSUME LedgerInv, NEW h \in HoldId, NEW w \in Wallet, NEW n \in Amount, Hold(h, w, n)
    PROVE  PursesStutter
<1> DEFINE l1 == Leg(w, -n)
           l2 == Leg(AcctHold, n)
<1>1. l1 \in ALegs /\ l2 \in ALegs /\ NoLeg \in ALegs /\ n \in Int
  BY SystemAccounts, AmountIsPositive DEF Leg, NoLeg, ALegs
<1>2. Post(l1, l2, NoLeg) /\ UNCHANGED status
  BY DEF Hold
<1>3. LedgerTypeOK /\ LedgerTypeOK' /\ balance \in [Account -> Int]
  BY HoldInv DEF LedgerInv, LedgerTypeOK
<1>4. holds[h] = Unused /\ \A g \in HoldId : g # h => holds'[g] = holds[g]
  <2>1. h >= h
    BY DEF HoldId
  <2>2. QED
    BY <1>3, <2>1 DEF Hold, IsNextHold, LedgerTypeOK
<1>5. holds'[h] = [state |-> "open", wallet |-> w, amount |-> n]
  BY <1>3 DEF Hold, LedgerTypeOK
<1>6. ASSUME NEW v \in Wallet PROVE Worths'[v] = Worths[v]
  <2> DEFINE d == IF v = w THEN n ELSE 0
  <2>1. d \in Int
    BY <1>1
  <2>2. HeldBy(v)[h] = 0 /\ HeldBy(v)'[h] = d
    BY <1>4, <1>5 DEF HeldBy, OpenHolds, Unused
  <2>3. HeldBy(v)'[h] = HeldBy(v)[h] + d
    BY <2>1, <2>2
  <2>4. Net(l1, v) = -d /\ Net(l2, v) = 0 /\ Net(NoLeg, v) = 0 /\ v \in Account
    BY SystemAccounts DEF Net, Leg, NoLeg, System
  <2> HIDE DEF d
  <2>5. ReservedFrom(v)' = ReservedFrom(v) + d
    BY <1>3, <1>4, <2>1, <2>3, ReservedRow
  <2>6. balance'[v] = balance[v] + Net(l1, v) + Net(l2, v) + Net(NoLeg, v)
    BY <1>1, <1>2, <1>3, <2>4, PostEffect
  <2>7. balance[v] \in Int /\ ReservedFrom(v) \in Int
    BY <1>3, <2>4, ReservedBounds
  <2>8. QED
    BY <2>1, <2>4, <2>5, <2>6, <2>7 DEF Worths, Worth
<1>7. ASSUME NEW a \in {AcctProvider, AcctBurn} PROVE balance'[a] = balance[a]
  <2>1. Net(l1, a) = 0 /\ Net(l2, a) = 0
    BY SystemAccounts DEF Net, Leg, System, AcctProvider, AcctBurn, AcctHold
  <2>2. QED
    BY <1>1, <1>2, <2>1, PlainSystem
<1>8. QED
  BY <1>2, <1>6, <1>7 DEF PursesStutter, Worths

\* Resolving a hold charges its wallet the actual cost: the rest of what the
\* row reserved is back in the balance.
LEMMA ResolveCharges ==
    ASSUME LedgerInv, NEW h \in HoldId, NEW target \in {"settled", "released"},
           NEW n \in Nat, Resolve(h, target, n)
    PROVE  \/ n = 0 /\ PursesStutter
           \/ n \in Amount /\ Purses!Charge(holds[h].wallet, n)
<1> DEFINE w == holds[h].wallet
           m == holds[h].amount
           l1 == Leg(AcctHold, -m)
           l2 == Leg(AcctProvider, n)
           l3 == Leg(w, m - n)
<1>1. w \in Wallet /\ m \in Amount /\ holds[h].state = "open" /\ n <= m
  BY DEF Resolve, LedgerInv, LedgerTypeOK, Unused, Reservation
<1>2. m \in Int /\ n \in Int /\ m > 0
  BY <1>1, AmountIsPositive
<1>3. status[w] = "open" /\ n <= Worth(w)
  <2>1. m <= ReservedFrom(w)
    BY <1>1, ReservedBounds DEF OpenHolds, LedgerInv
  <2>2. Worth(w) >= ReservedFrom(w) /\ Worth(w) \in Int /\ ReservedFrom(w) \in Int
    BY <1>1, WorthBounds, ReservedBounds DEF LedgerInv
  <2>3. QED
    BY <1>1, <1>2, <2>1, <2>2 DEF LedgerInv, OpenHoldsCanLand
<1>4. Post(l1, l2, l3) /\ UNCHANGED status /\ holds' = [holds EXCEPT ![h].state = target]
  BY DEF Resolve
<1>5. LedgerTypeOK /\ LedgerTypeOK' /\ balance \in [Account -> Int]
  BY ResolveInv DEF LedgerInv, LedgerTypeOK
<1>6. holds'[h].state # "open" /\ \A g \in HoldId : g # h => holds'[g] = holds[g]
  BY <1>4, <1>5 DEF LedgerTypeOK, Reservation, Unused
<1>7. /\ \A v \in Wallet : HeldBy(v)'[h] = 0
      /\ \A v \in Wallet : HeldBy(v)[h] = IF v = w THEN m ELSE 0
  BY <1>1, <1>6 DEF HeldBy, OpenHolds
<1> HIDE DEF w, m
<1>8. l1 \in ALegs /\ l2 \in ALegs /\ l3 \in ALegs
  BY <1>1, <1>2, SystemAccounts DEF Leg, ALegs
<1>9. ASSUME NEW v \in Wallet PROVE Worths'[v] = [Worths EXCEPT ![w] = @ - n][v]
  <2> DEFINE d == IF v = w THEN -m ELSE 0
  <2>1. d \in Int
    BY <1>2
  <2>2. HeldBy(v)'[h] = HeldBy(v)[h] + d
    BY <1>2, <1>7
  <2>3. /\ Net(l1, v) = 0 /\ Net(l2, v) = 0 /\ v \in Account
        /\ Net(l3, v) = IF v = w THEN m - n ELSE 0
    BY SystemAccounts DEF Net, Leg, System
  <2> HIDE DEF d
  <2>4. ReservedFrom(v)' = ReservedFrom(v) + d
    BY <1>5, <1>6, <2>1, <2>2, ReservedRow
  <2>5. balance'[v] = balance[v] + Net(l1, v) + Net(l2, v) + Net(l3, v)
    BY <1>4, <1>5, <1>8, <2>3, PostEffect
  <2>6. balance[v] \in Int /\ ReservedFrom(v) \in Int
    BY <1>5, <2>3, ReservedBounds
  <2>7. Worth(v)' = IF v = w THEN Worth(v) - n ELSE Worth(v)
    BY <1>2, <2>3, <2>4, <2>5, <2>6 DEF Worth, d
  <2>8. QED
    BY <2>7 DEF Worths
<1>10. Worths' = [Worths EXCEPT ![w] = @ - n]
  BY <1>9 DEF Worths
<1>11. ASSUME NEW a \in {AcctProvider, AcctBurn}
       PROVE  balance'[a] = balance[a] + (IF a = AcctProvider THEN n ELSE 0)
                /\ balance[a] \in Int
  <2>1. a \in Account
    BY SystemAccounts
  <2>2. balance'[a] = balance[a] + Net(l1, a) + Net(l2, a) + Net(l3, a)
    BY <1>4, <1>5, <1>8, <2>1, PostEffect
  <2>3. /\ Net(l1, a) = 0 /\ Net(l3, a) = 0
        /\ Net(l2, a) = IF a = AcctProvider THEN n ELSE 0
    BY <1>1, SystemAccounts DEF Net, Leg, System, AcctProvider, AcctBurn, AcctHold
  <2>4. QED
    BY <1>2, <1>5, <2>1, <2>2, <2>3
<1>12. balance'[AcctProvider] = balance[AcctProvider] + n /\ balance'[AcctBurn] = balance[AcctBurn]
  BY <1>2, <1>11 DEF AcctProvider, AcctBurn
<1>13. CASE n = 0
  <2>1. Worths' = Worths
    <3>1. ASSUME NEW v \in Wallet PROVE Worths'[v] = Worths[v]
      <4>1. Worth(v) \in Int /\ Worths[v] = Worth(v)
        BY WorthBounds DEF Worths
      <4>2. [Worths EXCEPT ![w] = @ - n][v] = Worths[v]
        BY <1>13, <4>1 DEF Worths
      <4>3. QED
        BY <1>9, <4>2
    <3>2. QED
      BY <3>1 DEF Worths
  <2>2. balance'[AcctProvider] = balance[AcctProvider]
    BY <1>11, <1>12, <1>13
  <2>3. QED
    BY <1>4, <1>12, <1>13, <2>1, <2>2 DEF PursesStutter
<1>14. CASE n # 0
  <2>1. n \in Amount
    BY <1>1, <1>2, <1>14, BoundAssumption DEF Amount
  <2>2. Purses!Charge(w, n)
    BY <1>1, <1>3, <1>4, <1>10, <1>12 DEF Purses!Charge, Purses!Afford, Worths, Worth
  <2>3. QED
    BY <2>1, <2>2 DEF w
<1>15. QED
  BY <1>13, <1>14

\* Creating and retiring accounts open and close purses of the same worth.
LEMMA StatusMapped ==
    ASSUME LedgerInv, NEW w \in Wallet
    PROVE  /\ CreateAccount(w) => Purses!OpenPurse(w)
           /\ Retire(w) => Purses!ClosePurse(w)
<1>1. ASSUME CreateAccount(w) \/ Retire(w)
      PROVE  Worths' = Worths /\ UNCHANGED <<balance[AcctProvider], balance[AcctBurn]>>
  <2>1. UNCHANGED <<balance, holds>>
    BY <1>1 DEF CreateAccount, Retire
  <2>2. \A v \in Wallet : ReservedFrom(v)' = ReservedFrom(v)
    BY <2>1, ReservedUnchanged
  <2>3. QED
    BY <2>1, <2>2 DEF Worths, Worth
<1>2. QED
  BY <1>1 DEF CreateAccount, Retire, Purses!OpenPurse, Purses!ClosePurse, Worths, Worth

\* Before anything happens every purse is absent and worth nothing.
LEMMA PurseInitially == LedgerInit => Purses!PurseInit
<1> SUFFICES ASSUME LedgerInit PROVE Purses!PurseInit
  OBVIOUS
<1>1. LedgerTypeOK
  BY InitInv DEF LedgerInv
<1>2. ASSUME NEW w \in Wallet PROVE balance[w] + ReservedFrom(w) = 0
  <2>1. HeldBy(w) \in [1..MaxHolds -> Int] /\ MaxHolds \in Nat
    BY <1>1, ReservedBounds, BoundAssumption
  <2>2. \A i \in 1..MaxHolds : HeldBy(w)[i] = 0
    BY DEF LedgerInit, HeldBy, OpenHolds, Unused, HoldId
  <2>3. ReservedFrom(w) = 0
    BY <2>1, <2>2, TotalOfZeros DEF ReservedFrom, HeldBy
  <2>4. QED
    BY <2>3, SystemAccounts DEF LedgerInit
<1>3. QED
  BY <1>2, SystemAccounts DEF LedgerInit, Purses!PurseInit

\* A step that shows nothing is a stutter of the purses.
LEMMA StutterMapped == ASSUME PursesStutter PROVE UNCHANGED Purses!purseVars
BY DEF PursesStutter, Worths, Worth, Purses!purseVars

\* Every step of the book is a step of the purses or none.
LEMMA StepMapped ==
    ASSUME LedgerInv, [LedgerNext]_ledgerVars
    PROVE  [Purses!PurseNext]_Purses!purseVars
<1> DEFINE Goal == Purses!PurseNext \/ UNCHANGED Purses!purseVars
<1>1. ASSUME NEW w \in Wallet, CreateAccount(w) PROVE Goal
  BY <1>1, StatusMapped DEF Purses!PurseNext
<1>2. ASSUME NEW w \in Wallet, NEW n \in Amount, NEW r \in Ref, Mint(w, n, r) PROVE Goal
  BY <1>2, MintFunds DEF Purses!PurseNext
<1>3. ASSUME NEW w \in Wallet, NEW n \in Amount, NEW r \in Payment, MintOnce(w, n, r)
      PROVE  Goal
  BY <1>3, <1>2, PaymentAssumption DEF MintOnce
<1>4. ASSUME NEW w \in Wallet, NEW n \in Amount, Burn(w, n) PROVE Goal
  BY <1>4, BurnDestroys DEF Purses!PurseNext
<1>5. ASSUME NEW from \in Wallet, NEW to \in Wallet, NEW n \in Amount, Transfer(from, to, n)
      PROVE  Goal
  BY <1>5, TransferMoves DEF Purses!PurseNext
<1>6. ASSUME NEW to \in Wallet, NEW n \in Amount, Refund(to, n) PROVE Goal
  BY <1>6, RefundPaysBack DEF Purses!PurseNext
<1>7. ASSUME NEW h \in HoldId, NEW w \in Wallet, NEW n \in Amount, Hold(h, w, n) PROVE Goal
  BY <1>7, HoldIsHidden, StutterMapped
<1>8. ASSUME NEW h \in HoldId, NEW target \in {"settled", "released"}, NEW n \in Nat,
             Resolve(h, target, n)
      PROVE  Goal
  <2>1. holds[h].wallet \in Wallet
    BY <1>8 DEF Resolve, LedgerInv, LedgerTypeOK, Unused, Reservation
  <2>2. QED
    BY <1>8, <2>1, ResolveCharges, StutterMapped DEF Purses!PurseNext
<1>9. ASSUME NEW w \in Wallet, Retire(w) PROVE Goal
  BY <1>9, StatusMapped DEF Purses!PurseNext
<1>10. ASSUME UNCHANGED ledgerVars PROVE Goal
  <2>1. UNCHANGED <<balance, status, holds>>
    BY <1>10 DEF ledgerVars
  <2>2. \A v \in Wallet : ReservedFrom(v)' = ReservedFrom(v)
    BY <2>1, ReservedUnchanged
  <2>3. PursesStutter
    BY <2>1, <2>2 DEF PursesStutter, Worths, Worth
  <2>4. QED
    BY <2>3, StutterMapped
<1> HIDE DEF Goal
<1>11. Goal
  <2>1. CASE UNCHANGED ledgerVars
    BY <1>10, <2>1
  <2>2. CASE LedgerNext
    BY <1>1, <1>2, <1>3, <1>4, <1>5, <1>6, <1>7, <1>8, <1>9, <2>2, BoundAssumption
       DEF LedgerNext, Settle, Release
  <2>3. QED
    BY <2>1, <2>2
<1>12. QED
  BY <1>11 DEF Goal

\* The book implements the purses (ImplementsPurses), for every set of
\* wallets and refs and every bound: holds are never visible in what a
\* wallet is worth.
THEOREM RefinesPurses == LedgerSpec => ImplementsPurses
<1>1. LedgerInit => Purses!PurseInit
  BY PurseInitially
<1>2. LedgerInv /\ [LedgerNext]_ledgerVars => [Purses!PurseNext]_Purses!purseVars
  BY StepMapped
<1>3. QED
  BY <1>1, <1>2, LedgerSafe, PTL DEF LedgerSpec, ImplementsPurses, Purses!PurseSpec
=============================================================================
