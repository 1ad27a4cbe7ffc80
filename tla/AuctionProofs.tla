---------------------------- MODULE AuctionProofs ----------------------------
(***************************************************************************)
(* The award is the lawful one for every book and every rule.  The two     *)
(* scans are followed index by index; that the book is in arrival order,   *)
(* and that a checkpoint restores it so, is the invariant that makes the   *)
(* first scan's comparison of arrival numbers mean what it says.           *)
(***************************************************************************)
EXTENDS Auction, WellFoundedInduction, TLAPS

\* Every non-empty set of naturals has a least element: the
\* first turn of a loop at which something would go wrong.
LEMMA LeastElement ==
    ASSUME NEW T, T \subseteq Nat, T # {}
    PROVE  \E x \in T : \A y \in T : x <= y
<1> DEFINE R == OpToRel(<, Nat)
<1>1. IsWellFoundedOn(R, Nat)
  BY NatLessThanWellFounded, Zenon
<1>2. \A x, y \in Nat : x < y => <<x, y>> \in R
  BY DEF OpToRel
<1> HIDE DEF R
<1>3. PICK x \in T : \A y \in T : ~ (<<y, x>> \in R)
  BY <1>1, WFMin
<1>4. \A y \in T : ~ (y < x)
  BY <1>2, <1>3
<1>5. QED
  BY <1>3, <1>4

\* A loop over 1..n that replaces one bid at every turn is a function
\* of the turn.
LEMMA ScanExists ==
    ASSUME NEW n \in Nat, NEW start \in Bid, NEW step \in [(1..n) \X Bid -> Bid]
    PROVE  \E run \in [0..n -> Bid] :
              /\ run[0] = start
              /\ \A i \in 1..n : run[i] = step[<<i, run[i - 1]>>]
<1> DEFINE IsScan(k, run) == /\ run \in [0..k -> Bid]
                             /\ run[0] = start
                             /\ \A i \in 1..k : run[i] = step[<<i, run[i - 1]>>]
           Bad == {k \in 0..n : ~ \E run : IsScan(k, run)}
<1>1. SUFFICES ASSUME Bad # {} PROVE FALSE
  <2>1. n \in 0..n
    OBVIOUS
  <2>2. QED
    BY <2>1
<1>2. Bad \subseteq Nat
  OBVIOUS
<1>3. PICK k \in Bad : \A j \in Bad : k <= j
  BY <1>1, <1>2, LeastElement
<1>4. IsScan(0, [i \in 0..0 |-> start])
  OBVIOUS
<1>5. k # 0
  BY <1>3, <1>4
<1>6. k \in 1..n /\ k - 1 \in 0..n /\ k - 1 \notin Bad
  BY <1>3, <1>5
<1>7. PICK run : IsScan(k - 1, run)
  BY <1>6
<1> DEFINE longer == [i \in 0..k |-> IF i = k THEN step[<<k, run[k - 1]>>] ELSE run[i]]
<1>8. \A i \in 0..(k - 1) : run[i] \in Bid /\ longer[i] = run[i]
  BY <1>6, <1>7
<1>9. longer[k] = step[<<k, run[k - 1]>>] /\ longer[k] \in Bid
  <2>1. k - 1 \in 0..(k - 1) /\ k \in 0..k
    BY <1>6
  <2>2. <<k, run[k - 1]>> \in (1..n) \X Bid
    BY <1>6, <1>8, <2>1
  <2>3. QED
    BY <2>1, <2>2
<1>10. longer \in [0..k -> Bid]
  <2>1. \A i \in 0..k : i = k \/ i \in 0..(k - 1)
    BY <1>6
  <2>2. \A i \in 0..k : longer[i] \in Bid
    BY <1>8, <1>9, <2>1
  <2>3. QED
    BY <2>2
<1>11. longer[0] = start
  BY <1>6, <1>7, <1>8
<1>12. ASSUME NEW i \in 1..k PROVE longer[i] = step[<<i, longer[i - 1]>>]
  <2>1. CASE i = k
    <3>1. i - 1 = k - 1 /\ k - 1 \in 0..(k - 1)
      BY <1>6, <2>1
    <3>2. longer[i - 1] = run[k - 1]
      BY <1>8, <3>1
    <3>3. QED
      BY <1>9, <2>1, <3>2
  <2>2. CASE i # k
    <3>1. i \in 1..(k - 1) /\ i \in 0..(k - 1) /\ i - 1 \in 0..(k - 1)
      BY <1>6, <2>2
    <3>2. run[i] = step[<<i, run[i - 1]>>]
      BY <1>7, <3>1
    <3>3. QED
      BY <1>8, <3>1, <3>2
  <2>3. QED
    BY <2>1, <2>2
<1>13. IsScan(k, longer)
  BY <1>10, <1>11, <1>12
<1>14. QED
  BY <1>3, <1>13

InArrivalOrder(book) == \A i \in 1..Len(book) : book[i].seq = i - 1

\* The first scan finds the lowest ask, and of the lowest the first to arrive.
LEMMA EarliestIsLowest ==
    ASSUME NEW book \in Seq(Bid), book # <<>>, InArrivalOrder(book)
    PROVE  \E k \in 1..Len(book) :
              /\ Earliest(book) = book[k]
              /\ \A j \in 1..Len(book) :
                    book[k].price < book[j].price
                    \/ (book[k].price = book[j].price /\ k <= j)
<1> DEFINE n == Len(book)
           better(i, c) == \/ book[i].price < c.price
                           \/ book[i].price = c.price /\ book[i].seq < c.seq
           Defines(f) == f = [i \in 0..n |-> IF i = 0 THEN book[1]
                                             ELSE IF better(i, f[i - 1]) THEN book[i] ELSE f[i - 1]]
           chosen == CHOOSE f : Defines(f)
<1>1. n \in Nat /\ n >= 1 /\ \A i \in 1..n : book[i] \in Bid
  OBVIOUS
<1>2. \E f : Defines(f)
  <2> DEFINE step == [p \in (1..n) \X Bid |-> IF better(p[1], p[2]) THEN book[p[1]] ELSE p[2]]
  <2>1. step \in [(1..n) \X Bid -> Bid]
    BY <1>1
  <2>2. book[1] \in Bid
    BY <1>1
  <2> HIDE DEF step, n
  <2>3. PICK run \in [0..n -> Bid] :
            run[0] = book[1] /\ \A i \in 1..n : run[i] = step[<<i, run[i - 1]>>]
    <3>1. n \in Nat
      BY <1>1
    <3>2. QED
      BY <3>1, <2>1, <2>2, ScanExists
  <2>4. \A i \in 1..n : run[i] = IF better(i, run[i - 1]) THEN book[i] ELSE run[i - 1]
    <3>1. \A i \in 1..n : <<i, run[i - 1]>> \in (1..n) \X Bid
      BY <1>1, <2>3
    <3>2. QED
      BY <2>3, <3>1 DEF step
  <2>5. Defines(run)
    BY <1>1, <2>3, <2>4
  <2>6. QED
    BY <2>5
<1>3. Defines(chosen)
  BY <1>2
<1>4. Earliest(book) = chosen[n]
  BY DEF Earliest
<1> HIDE DEF chosen, n
<1>5. chosen[0] = book[1]
      /\ \A i \in 1..n : chosen[i] = IF better(i, chosen[i - 1]) THEN book[i] ELSE chosen[i - 1]
  BY <1>1, <1>3
<1> DEFINE Upto(i) == IF i = 0 THEN 1 ELSE i
           Good(i) == \E k \in 1..Upto(i) :
                         /\ chosen[i] = book[k]
                         /\ \A j \in 1..Upto(i) :
                               book[k].price < book[j].price
                               \/ (book[k].price = book[j].price /\ k <= j)
           Bad == {i \in 0..n : ~Good(i)}
<1>6. Bad = {}
  <2>1. SUFFICES ASSUME Bad # {} PROVE FALSE
    OBVIOUS
  <2>2. PICK i \in Bad : \A j \in Bad : i <= j
    <3>1. Bad \subseteq Nat
      BY <1>1
    <3>2. QED
      BY <2>1, <3>1, LeastElement
  <2>3. Good(0)
    BY <1>1, <1>5
  <2>4. i \in 1..n /\ i - 1 \in 0..n /\ Good(i - 1)
    BY <1>1, <2>2, <2>3
  <2>5. PICK k \in 1..Upto(i - 1) :
            /\ chosen[i - 1] = book[k]
            /\ \A j \in 1..Upto(i - 1) :
                  book[k].price < book[j].price \/ (book[k].price = book[j].price /\ k <= j)
    BY <2>4
  <2>6. k \in 1..n /\ k <= i /\ book[k] \in Bid /\ book[i] \in Bid
    BY <1>1, <2>4, <2>5
  <2>7. book[k].seq = k - 1 /\ book[i].seq = i - 1 /\ book[k].price \in Int /\ book[i].price \in Int
    BY <2>4, <2>6 DEF InArrivalOrder, Bid, n
  <2>8. chosen[i] = IF book[i].price < book[k].price THEN book[i] ELSE book[k]
    BY <1>5, <2>4, <2>5, <2>6, <2>7
  <2>9. \A j \in 1..i : j = i \/ j \in 1..Upto(i - 1)
    BY <2>4
  <2>10. \A j \in 1..n : book[j].price \in Int
    BY <1>1 DEF Bid
  <2>11. CASE book[i].price < book[k].price
    <3>1. \A j \in 1..i : book[i].price < book[j].price \/ (book[i].price = book[j].price /\ i <= j)
      <4>1. SUFFICES ASSUME NEW j \in 1..i, j # i PROVE book[i].price < book[j].price
        BY <2>4, <2>7
      <4>2. j \in 1..Upto(i - 1) /\ book[j].price \in Int
        BY <1>1, <2>4, <2>9, <2>10, <4>1
      <4>3. book[k].price <= book[j].price
        BY <2>5, <2>7, <4>2
      <4>4. QED
        BY <2>7, <2>11, <4>2, <4>3
    <3>2. QED
      BY <2>2, <2>4, <2>8, <2>11, <3>1
  <2>12. CASE ~(book[i].price < book[k].price)
    <3>1. \A j \in 1..i : book[k].price < book[j].price \/ (book[k].price = book[j].price /\ k <= j)
      BY <2>4, <2>5, <2>6, <2>7, <2>9, <2>12
    <3>2. QED
      BY <2>2, <2>4, <2>6, <2>8, <2>12, <3>1
  <2>13. QED
    BY <2>11, <2>12
<1>7. Good(n)
  BY <1>1, <1>6
<1>8. QED
  BY <1>1, <1>4, <1>7 DEF n

\* The second scan keeps the price and finds the smallest draw, and of equal
\* draws the first to arrive.
LEMMA DrawnIsSmallest ==
    ASSUME NEW book \in Seq(Bid), NEW s \in Salt, NEW f \in 1..Len(book),
           \A j \in 1..Len(book) :
              book[f].price < book[j].price \/ (book[f].price = book[j].price /\ f <= j)
    PROVE  \E k \in 1..Len(book) :
              /\ Drawn(book, book[f], s) = book[k]
              /\ book[k].price = book[f].price
              /\ \A j \in 1..Len(book) : book[j].price = book[f].price =>
                    Draw[s][book[k].agent] < Draw[s][book[j].agent]
                    \/ (Draw[s][book[k].agent] = Draw[s][book[j].agent] /\ k <= j)
<1> DEFINE n == Len(book)
           lot(b) == Draw[s][b.agent]
           better(i, c) == book[i].price = c.price /\ lot(book[i]) < lot(c)
           Defines(g) == g = [i \in 0..n |-> IF i = 0 THEN book[f]
                                             ELSE IF better(i, g[i - 1]) THEN book[i] ELSE g[i - 1]]
           chosen == CHOOSE g : Defines(g)
<1>1. n \in Nat /\ f \in 1..n /\ \A i \in 1..n : book[i] \in Bid
  OBVIOUS
<1>2. \E g : Defines(g)
  <2> DEFINE step == [p \in (1..n) \X Bid |-> IF better(p[1], p[2]) THEN book[p[1]] ELSE p[2]]
  <2>1. step \in [(1..n) \X Bid -> Bid]
    BY <1>1
  <2>2. book[f] \in Bid
    BY <1>1
  <2> HIDE DEF step, n
  <2>3. PICK run \in [0..n -> Bid] :
            run[0] = book[f] /\ \A i \in 1..n : run[i] = step[<<i, run[i - 1]>>]
    <3>1. n \in Nat
      BY <1>1
    <3>2. QED
      BY <3>1, <2>1, <2>2, ScanExists
  <2>4. \A i \in 1..n : run[i] = IF better(i, run[i - 1]) THEN book[i] ELSE run[i - 1]
    <3>1. \A i \in 1..n : <<i, run[i - 1]>> \in (1..n) \X Bid
      BY <1>1, <2>3
    <3>2. QED
      BY <2>3, <3>1 DEF step
  <2> HIDE DEF better
  <2>5. Defines(run)
    BY <1>1, <2>3, <2>4
  <2>6. QED
    BY <2>5
<1>3. Defines(chosen)
  BY <1>2
<1>4. Drawn(book, book[f], s) = chosen[n]
  BY DEF Drawn
<1>5. \A i \in 1..n : lot(book[i]) \in Nat /\ book[i].price \in Int
  <2>1. \A i \in 1..n : book[i].agent \in Bidder /\ book[i].price \in Int
    BY <1>1 DEF Bid
  <2>2. QED
    BY <2>1, DrawAssumption
<1> HIDE DEF chosen, n, lot
<1>6. chosen[0] = book[f]
      /\ \A i \in 1..n : chosen[i] = IF better(i, chosen[i - 1]) THEN book[i] ELSE chosen[i - 1]
  BY <1>1, <1>3
<1>7. \A j \in 1..n : book[f].price < book[j].price \/ (book[f].price = book[j].price /\ f <= j)
  BY DEF n
<1> DEFINE Ahead(k, j) == lot(book[k]) < lot(book[j]) \/ (lot(book[k]) = lot(book[j]) /\ k <= j)
           Good(i) == \E k \in 1..n :
                         /\ k = f \/ k <= i
                         /\ chosen[i] = book[k]
                         /\ book[k].price = book[f].price
                         /\ \A j \in 1..n : (j <= i \/ j = f) /\ book[j].price = book[f].price
                                               => Ahead(k, j)
           Bad == {i \in 0..n : ~Good(i)}
<1>8. Bad = {}
  <2>1. SUFFICES ASSUME Bad # {} PROVE FALSE
    OBVIOUS
  <2>2. PICK i \in Bad : \A j \in Bad : i <= j
    <3>1. Bad \subseteq Nat
      BY <1>1
    <3>2. QED
      BY <2>1, <3>1, LeastElement
  <2>3. Good(0)
    <3>1. \A j \in 1..n : (j <= 0 \/ j = f) => j = f
      BY <1>1
    <3>2. Ahead(f, f)
      BY <1>1, <1>5
    <3>3. QED
      BY <1>1, <1>6, <3>1, <3>2
  <2>4. i \in 1..n /\ i - 1 \in 0..n /\ Good(i - 1)
    BY <1>1, <2>2, <2>3
  <2>5. PICK k \in 1..n :
            /\ k = f \/ k <= i - 1
            /\ chosen[i - 1] = book[k]
            /\ book[k].price = book[f].price
            /\ \A j \in 1..n : (j <= i - 1 \/ j = f) /\ book[j].price = book[f].price
                                  => Ahead(k, j)
    BY <2>4
  <2>6. chosen[i] = IF better(i, book[k]) THEN book[i] ELSE book[k]
    BY <1>6, <2>4, <2>5
  <2>7. \A j \in 1..n : j <= i => j = i \/ j <= i - 1
    BY <1>1, <2>4
  <2>8. lot(book[i]) \in Nat /\ lot(book[k]) \in Nat /\ lot(book[f]) \in Nat
    BY <1>1, <1>5, <2>4, <2>5
  <2>9. CASE better(i, book[k])
    <3>1. lot(book[i]) < lot(book[k]) /\ book[i].price = book[f].price /\ chosen[i] = book[i]
      BY <2>5, <2>6, <2>9
    <3>2. ASSUME NEW j \in 1..n, j <= i \/ j = f, book[j].price = book[f].price
          PROVE  Ahead(i, j)
      <4>1. CASE j = i
        BY <2>4, <4>1
      <4>2. CASE j # i
        <5>1. Ahead(k, j)
          BY <2>5, <2>7, <3>2, <4>2
        <5>2. lot(book[k]) <= lot(book[j]) /\ lot(book[j]) \in Nat
          BY <1>5, <2>8, <5>1
        <5>3. QED
          BY <2>8, <3>1, <5>2
      <4>3. QED
        BY <4>1, <4>2
    <3>3. Good(i)
      BY <1>1, <2>4, <3>1, <3>2
    <3>4. QED
      BY <2>2, <3>3
  <2>10. CASE ~better(i, book[k])
    <3>1. chosen[i] = book[k] /\ (k = f \/ k <= i)
      BY <1>1, <2>4, <2>5, <2>6, <2>10
    <3>2. ASSUME NEW j \in 1..n, j <= i \/ j = f, book[j].price = book[f].price
          PROVE  Ahead(k, j)
      <4>1. CASE j <= i - 1 \/ j = f
        BY <2>5, <3>2, <4>1
      <4>2. CASE j = i
        <5>1. ~ (lot(book[i]) < lot(book[k]))
          BY <2>5, <2>10, <3>2, <4>2
        <5>2. k <= i
          BY <1>1, <1>5, <1>7, <2>4, <3>1, <3>2, <4>2
        <5>3. QED
          BY <2>8, <4>2, <5>1, <5>2
      <4>3. QED
        BY <2>7, <3>2, <4>1, <4>2
    <3>3. Good(i)
      BY <2>5, <3>1, <3>2
    <3>4. QED
      BY <2>2, <3>3
  <2>11. QED
    BY <2>9, <2>10
<1>9. PICK k \in 1..n : /\ chosen[n] = book[k]
                        /\ book[k].price = book[f].price
                        /\ \A j \in 1..n : book[j].price = book[f].price => Ahead(k, j)
  <2>1. Good(n)
    BY <1>1, <1>8
  <2>2. \A j \in 1..n : j <= n
    BY <1>1
  <2>3. QED
    BY <2>1, <2>2
<1>10. QED
  BY <1>4, <1>9 DEF n, lot

\* The inductive invariant: the book is in arrival order, also after a
\* restart, and there is no award before the book is closed.
AuctionInv ==
    /\ AuctionTypeOK
    /\ InArrivalOrder(bids)
    /\ awarded # {} => closed
    /\ AwardIsLawful

\* A bid taken keeps the book in arrival order.
LEMMA PlaceKeepsOrder ==
    ASSUME AuctionInv, NEW a \in Bidder, NEW p \in Asks, Place(a, p)
    PROVE  bids' \in Seq(Bid) /\ InArrivalOrder(bids')
<1> DEFINE new == [agent |-> a, price |-> p, seq |-> Len(bids)]
<1>1. bids \in Seq(Bid) /\ Len(bids) \in Nat /\ InArrivalOrder(bids)
  BY DEF AuctionInv, AuctionTypeOK
<1>2. bids' = Append(bids, new) /\ Reserve <= p /\ p <= MaxPayout
  BY DEF Place, Placed, Takes
<1>3. p \in Int
  BY AsksAssumption
<1>4. new \in Bid
  BY <1>1, <1>3 DEF Bid
<1>5. bids' \in Seq(Bid) /\ Len(bids') = Len(bids) + 1
  BY <1>1, <1>2, <1>4
<1>6. \A i \in 1..Len(bids') : bids'[i] = IF i = Len(bids) + 1 THEN new ELSE bids[i]
  BY <1>1, <1>2, <1>4, <1>5
<1>7. InArrivalOrder(bids')
  <2>1. SUFFICES ASSUME NEW i \in 1..Len(bids') PROVE bids'[i].seq = i - 1
    BY DEF InArrivalOrder
  <2>2. CASE i = Len(bids) + 1
    BY <1>1, <1>6, <2>2
  <2>3. CASE i # Len(bids) + 1
    BY <1>1, <1>5, <1>6, <2>3 DEF InArrivalOrder
  <2>4. QED
    BY <2>2, <2>3
<1>8. QED
  BY <1>5, <1>7

\* The award of a book in arrival order is lawful.
LEMMA AwardLemma ==
    ASSUME AuctionInv, Award
    PROVE  awarded' \subseteq Bid /\ AwardIsLawful'
<1>1. bids \in Seq(Bid) /\ InArrivalOrder(bids) /\ tie \in TieBreak /\ salt \in Salt
  BY DEF AuctionInv, AuctionTypeOK
<1>2. bids' = bids /\ tie' = tie /\ salt' = salt
      /\ awarded' = IF bids = <<>> THEN {} ELSE {Winner(bids, tie, salt)}
  BY DEF Award
<1>3. CASE bids = <<>>
  BY <1>2, <1>3 DEF AwardIsLawful
<1>4. CASE bids # <<>>
  <2>1. PICK f \in 1..Len(bids) :
            /\ Earliest(bids) = bids[f]
            /\ \A j \in 1..Len(bids) :
                  bids[f].price < bids[j].price \/ (bids[f].price = bids[j].price /\ f <= j)
    BY <1>1, <1>4, EarliestIsLowest
  <2>2. PICK k \in 1..Len(bids) :
            /\ Drawn(bids, bids[f], salt) = bids[k]
            /\ bids[k].price = bids[f].price
            /\ \A j \in 1..Len(bids) : bids[j].price = bids[f].price =>
                  Draw[salt][bids[k].agent] < Draw[salt][bids[j].agent]
                  \/ (Draw[salt][bids[k].agent] = Draw[salt][bids[j].agent] /\ k <= j)
    BY <1>1, <2>1, DrawnIsSmallest
  <2>3. \E i \in DOMAIN bids : Winner(bids, tie, salt) = bids[i] /\ \A j \in DOMAIN bids : GoesBefore(i, j)
    <3>1. DOMAIN bids = 1..Len(bids)
      BY <1>1
    <3>2. CASE tie = "ByArrival"
      <4>1. Winner(bids, tie, salt) = bids[f]
        BY <2>1, <3>2 DEF Winner
      <4>2. \A j \in 1..Len(bids) : GoesBefore(f, j)
        BY <2>1, <3>2 DEF GoesBefore
      <4>3. QED
        BY <3>1, <4>1, <4>2
    <3>3. CASE tie = "ByLot"
      <4>1. Winner(bids, tie, salt) = bids[k]
        BY <2>1, <2>2, <3>3 DEF Winner
      <4>2. \A j \in 1..Len(bids) : GoesBefore(k, j)
        BY <2>1, <2>2, <3>3 DEF GoesBefore
      <4>3. QED
        BY <3>1, <4>1, <4>2
    <3>4. QED
      BY <1>1, <3>2, <3>3 DEF TieBreak
  <2>4. Winner(bids, tie, salt) \in Bid
    BY <1>1, <2>3
  <2>5. AwardIsLawful'
    BY <1>2, <1>4, <2>3 DEF AwardIsLawful, GoesBefore
  <2>6. QED
    BY <1>2, <1>4, <2>4, <2>5
<1>5. QED
  BY <1>3, <1>4

\* A book put back by Load is in arrival order whatever the file kept.
LEMMA RestartLemma ==
    ASSUME AuctionInv, Restart
    PROVE  bids' \in Seq(Bid) /\ InArrivalOrder(bids')
<1>1. saved \in Seq(Bid) /\ Len(saved) \in Nat /\ bids' = Loaded(saved)
  BY DEF AuctionInv, AuctionTypeOK, Restart
<1>2. \A i \in 1..Len(saved) : [saved[i] EXCEPT !.seq = i - 1] \in Bid
                                /\ [saved[i] EXCEPT !.seq = i - 1].seq = i - 1
  <2>1. \A i \in 1..Len(saved) : saved[i] \in Bid /\ i - 1 \in Nat
    BY <1>1
  <2>2. QED
    BY <2>1 DEF Bid
<1>3. Len(bids') = Len(saved) /\ bids' \in Seq(Bid)
  BY <1>1, <1>2 DEF Loaded
<1>4. \A i \in 1..Len(saved) : bids'[i] = [saved[i] EXCEPT !.seq = i - 1]
  BY <1>1 DEF Loaded
<1>5. QED
  BY <1>2, <1>3, <1>4 DEF InArrivalOrder

\* The book of an auction, through any number of checkpoints and restarts, is
\* in arrival order, and awarded only once closed and lawfully.
THEOREM AuctionSafe == AuctionSpec => []AuctionInv
<1>1. AuctionInit => AuctionInv
  <2> SUFFICES ASSUME AuctionInit PROVE AuctionInv
    OBVIOUS
  <2>1. AuctionTypeOK
    <3>1. <<>> \in Seq(Bid)
      OBVIOUS
    <3>2. QED
      BY <3>1, Zenon DEF AuctionInit, AuctionTypeOK
  <2>2. Len(bids) = 0 /\ awarded = {}
    BY DEF AuctionInit
  <2>3. InArrivalOrder(bids) /\ AwardIsLawful
    BY <2>2 DEF InArrivalOrder, AwardIsLawful
  <2>4. QED
    BY <2>1, <2>2, <2>3 DEF AuctionInv
<1>2. AuctionInv /\ [AuctionNext]_auctionVars => AuctionInv'
  <2> SUFFICES ASSUME AuctionInv, [AuctionNext]_auctionVars PROVE AuctionInv'
    OBVIOUS
  <2>1. AuctionTypeOK /\ InArrivalOrder(bids) /\ (awarded # {} => closed) /\ AwardIsLawful
    BY DEF AuctionInv
  <2>2. ASSUME NEW a \in Bidder, NEW p \in Asks, Place(a, p) PROVE AuctionInv'
    <3>1. awarded = {} /\ awarded' = {}
      BY <2>1, <2>2 DEF Place
    <3>2. bids' \in Seq(Bid) /\ InArrivalOrder(bids')
      BY <2>2, PlaceKeepsOrder
    <3>3. AuctionTypeOK'
      BY <2>1, <2>2, <3>1, <3>2 DEF Place, AuctionTypeOK
    <3>4. QED
      BY <3>1, <3>2, <3>3 DEF AuctionInv, AwardIsLawful, InArrivalOrder
  <2>3. CASE Award
    <3>1. awarded' \subseteq Bid /\ AwardIsLawful'
      BY <2>3, AwardLemma
    <3>2. QED
      BY <2>1, <2>3, <3>1 DEF Award, AuctionInv, AuctionTypeOK, InArrivalOrder
  <2>4. CASE Save
    <3>1. saved' \in Seq(Bid)
      <4>1. bids \in Seq(Bid) /\ Len(bids) \in Nat
        BY <2>1 DEF AuctionTypeOK
      <4>2. \A i \in 1..Len(bids) : [bids[i] EXCEPT !.seq = 0] \in Bid
        <5>1. \A i \in 1..Len(bids) : bids[i] \in Bid
          BY <4>1
        <5>2. QED
          BY <5>1 DEF Bid
      <4>3. QED
        BY <2>4, <4>1, <4>2 DEF Save
    <3>2. QED
      BY <2>1, <2>4, <3>1 DEF Save, AuctionInv, AuctionTypeOK, InArrivalOrder, AwardIsLawful, GoesBefore
  <2>5. CASE Restart
    <3>1. bids' \in Seq(Bid) /\ InArrivalOrder(bids')
      BY <2>5, RestartLemma
    <3>2. QED
      BY <2>1, <2>5, <3>1 DEF Restart, AuctionInv, AuctionTypeOK, InArrivalOrder, AwardIsLawful
  <2>6. CASE UNCHANGED auctionVars
    BY <2>1, <2>6 DEF auctionVars, AuctionInv, AuctionTypeOK, InArrivalOrder, AwardIsLawful, GoesBefore
  <2>7. QED
    BY <2>2, <2>3, <2>4, <2>5, <2>6 DEF AuctionNext
<1>3. QED
  BY <1>1, <1>2, PTL DEF AuctionSpec

\* For every set of bidders, salts, draws and asks, an auction only ever
\* awards to the bid that goes before every other (auction.go:141-145), also
\* when it was checkpointed and restored in between.
THEOREM AwardsAreLawful == AuctionSpec => []AwardIsLawful
<1>1. AuctionInv => AwardIsLawful
  BY DEF AuctionInv
<1>2. QED
  BY <1>1, AuctionSafe, PTL

-----------------------------------------------------------------------------
\* The checkpointed book is the beginning of the book, but for the arrival
\* numbers.
SavedBegins ==
    /\ Len(saved) <= Len(bids)
    /\ \A i \in 1..Len(saved) : saved[i].agent = bids[i].agent /\ saved[i].price = bids[i].price

\* A bid is its agent, its price and its number.
LEMMA BidsAreTheirFields ==
    ASSUME NEW b \in Bid, NEW c \in Bid, b.agent = c.agent, b.price = c.price, b.seq = c.seq
    PROVE  b = c
<1>1. b = [agent |-> b.agent, price |-> b.price, seq |-> b.seq]
  BY DEF Bid
<1>2. c = [agent |-> c.agent, price |-> c.price, seq |-> c.seq]
  BY DEF Bid
<1>3. QED
  BY <1>1, <1>2, Zenon

\* What Load puts back is, number for number, the book as it was saved.
LEMMA LoadedIsTheBook ==
    ASSUME AuctionInv, SavedBegins
    PROVE  Loaded(saved) = SubSeq(bids, 1, Len(saved))
<1>1. /\ saved \in Seq(Bid) /\ Len(saved) \in Nat /\ bids \in Seq(Bid) /\ InArrivalOrder(bids)
      /\ Len(bids) \in Nat
  BY DEF AuctionInv, AuctionTypeOK
<1>2. ASSUME NEW i \in 1..Len(saved)
      PROVE  [saved[i] EXCEPT !.seq = i - 1] = bids[i]
  <2> DEFINE b == [saved[i] EXCEPT !.seq = i - 1]
  <2>1. saved[i] \in Bid /\ i - 1 \in Nat /\ i \in 1..Len(bids) /\ bids[i] \in Bid
    BY <1>1 DEF SavedBegins
  <2>2. b \in Bid /\ b.agent = saved[i].agent /\ b.price = saved[i].price /\ b.seq = i - 1
    BY <2>1 DEF Bid
  <2>3. bids[i].seq = i - 1 /\ saved[i].agent = bids[i].agent /\ saved[i].price = bids[i].price
    BY <1>1, <2>1 DEF SavedBegins, InArrivalOrder
  <2> HIDE DEF b
  <2>4. b = bids[i]
    BY <2>1, <2>2, <2>3, BidsAreTheirFields
  <2>5. QED
    BY <2>4 DEF b
<1>3. Loaded(saved) = [i \in 1..Len(saved) |-> bids[i]]
  BY <1>2 DEF Loaded
<1>4. SubSeq(bids, 1, Len(saved)) = [i \in 1..Len(saved) |-> bids[i]]
  BY <1>1 DEF SavedBegins
<1>5. QED
  BY <1>3, <1>4

\* An award on a restored book falls exactly as it would have on the original
\* at its checkpoint, whoever bid, drew or restarted since (auction.go:81-85).
THEOREM RestoredBooksAwardAlike == AuctionSpec => []RestoredBookAwardsAlike
<1>1. AuctionInit => SavedBegins
  <2>1. ASSUME AuctionInit PROVE SavedBegins
    <3>1. Len(saved) = 0 /\ Len(bids) = 0
      BY <2>1 DEF AuctionInit
    <3>2. QED
      BY <3>1 DEF SavedBegins
  <2>2. QED
    BY <2>1
<1>2. ASSUME AuctionInv, SavedBegins, [AuctionNext]_auctionVars PROVE SavedBegins'
  <2>1. /\ saved \in Seq(Bid) /\ Len(saved) \in Nat /\ bids \in Seq(Bid) /\ Len(bids) \in Nat
    BY <1>2 DEF AuctionInv, AuctionTypeOK
  <2>2. ASSUME NEW a \in Bidder, NEW p \in Asks, Place(a, p) PROVE SavedBegins'
    <3> DEFINE new == [agent |-> a, price |-> p, seq |-> Len(bids)]
    <3>1. bids' = Append(bids, new) /\ saved' = saved
      BY <2>2 DEF Place, Placed
    <3> HIDE DEF new
    <3>2. Len(bids') = Len(bids) + 1 /\ \A i \in 1..Len(bids) : bids'[i] = bids[i]
      BY <2>1, <3>1
    <3>3. QED
      BY <1>2, <2>1, <3>1, <3>2 DEF SavedBegins
  <2>3. CASE Save
    <3>1. /\ bids' = bids
          /\ saved' = [i \in 1..Len(bids) |-> [bids[i] EXCEPT !.seq = 0]]
      BY <2>3 DEF Save
    <3>2. Len(saved') = Len(bids) /\ \A i \in 1..Len(bids) : saved'[i] = [bids[i] EXCEPT !.seq = 0]
      BY <2>1, <3>1
    <3>3. \A i \in 1..Len(bids) : /\ [bids[i] EXCEPT !.seq = 0].agent = bids[i].agent
                                   /\ [bids[i] EXCEPT !.seq = 0].price = bids[i].price
      <4>1. \A b \in Bid : [b EXCEPT !.seq = 0].agent = b.agent /\ [b EXCEPT !.seq = 0].price = b.price
        BY DEF Bid
      <4>2. \A i \in 1..Len(bids) : bids[i] \in Bid
        BY <2>1
      <4>3. QED
        BY <4>1, <4>2
    <3>4. Len(saved') <= Len(bids') /\ Len(saved') = Len(bids)
      BY <2>1, <3>1, <3>2
    <3>5. \A i \in 1..Len(saved') : saved'[i].agent = bids'[i].agent /\ saved'[i].price = bids'[i].price
      BY <3>1, <3>2, <3>3, <3>4
    <3>6. QED
      BY <3>4, <3>5 DEF SavedBegins
  <2>4. CASE Restart
    <3>1. saved' = saved /\ bids' = [i \in 1..Len(saved) |-> [saved[i] EXCEPT !.seq = i - 1]]
      BY <2>4 DEF Restart, Loaded
    <3>2. Len(bids') = Len(saved) /\ \A i \in 1..Len(saved) : bids'[i] = [saved[i] EXCEPT !.seq = i - 1]
      BY <2>1, <3>1
    <3>3. \A i \in 1..Len(saved) : /\ [saved[i] EXCEPT !.seq = i - 1].agent = saved[i].agent
                                    /\ [saved[i] EXCEPT !.seq = i - 1].price = saved[i].price
      <4>1. \A b \in Bid : \A n : [b EXCEPT !.seq = n].agent = b.agent /\ [b EXCEPT !.seq = n].price = b.price
        BY DEF Bid
      <4>2. \A i \in 1..Len(saved) : saved[i] \in Bid
        BY <2>1
      <4>3. QED
        BY <4>1, <4>2
    <3>4. Len(saved') <= Len(bids') /\ Len(saved') = Len(saved)
      BY <2>1, <3>1, <3>2
    <3>5. \A i \in 1..Len(saved') : saved'[i].agent = bids'[i].agent /\ saved'[i].price = bids'[i].price
      <4> DEFINE put(i) == [saved[i] EXCEPT !.seq = i - 1]
      <4>1. \A i \in 1..Len(saved) : /\ bids'[i] = put(i)
                                      /\ put(i).agent = saved[i].agent /\ put(i).price = saved[i].price
        BY <3>2, <3>3
      <4> HIDE DEF put
      <4>2. QED
        BY <3>1, <3>4, <4>1
    <3>6. QED
      BY <3>4, <3>5 DEF SavedBegins
  <2>5. CASE Award \/ UNCHANGED auctionVars
    <3>1. bids' = bids /\ saved' = saved
      BY <2>5 DEF Award, auctionVars
    <3>2. QED
      BY <1>2, <3>1 DEF SavedBegins
  <2>6. QED
    BY <1>2, <2>2, <2>3, <2>4, <2>5 DEF AuctionNext
<1>3. AuctionInv /\ SavedBegins => RestoredBookAwardsAlike
  BY LoadedIsTheBook DEF RestoredBookAwardsAlike
<1>4. QED
  BY <1>1, <1>2, <1>3, AuctionSafe, PTL DEF AuctionSpec
=============================================================================
