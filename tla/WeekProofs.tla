------------------------------ MODULE WeekProofs ------------------------------
(***************************************************************************)
(* The fair in its town, for every cast, every settings and any number of  *)
(* ticks, guests, callers and kills.                                       *)
(***************************************************************************)
EXTENDS Week, FiniteSetTheorems, WellFoundedInduction, TLAPS

-----------------------------------------------------------------------------
\* What the model's choice of a least number returns.
LEMMA MinIsLeast ==
    ASSUME NEW S, S \subseteq Nat, S # {}
    PROVE  Min(S) \in S /\ \A y \in S : Min(S) <= y
<1> DEFINE R == OpToRel(<, Nat)
<1>1. IsWellFoundedOn(R, Nat)
  BY NatLessThanWellFounded, Zenon
<1>2. \A x, y \in Nat : x < y => <<x, y>> \in R
  BY DEF OpToRel
<1> HIDE DEF R
<1>3. PICK x \in S : \A y \in S : ~ (<<y, x>> \in R)
  BY <1>1, WFMin
<1>4. \A y \in S : ~ (y < x)
  BY <1>2, <1>3
<1>5. \A y \in S : x <= y
  BY <1>3, <1>4
<1>6. QED
  BY <1>5 DEF Min

\* Who is together: two of a place, and which.
LEMMA PresencePairs ==
    ASSUME NEW who, NEW where, NEW p
    PROVE  p \in Presence(who, where) <=>
             \E a, b \in who : a # b /\ where[a] = where[b] /\ where[a] # "street"
                               /\ p = <<{a, b}, where[a]>>
<1> DEFINE Pairs == {q \in who \X who : q[1] # q[2] /\ where[q[1]] = where[q[2]] /\ where[q[1]] # "street"}
           Named(q) == <<{q[1], q[2]}, where[q[1]]>>
<1>1. p \in Presence(who, where) <=> \E q \in Pairs : p = Named(q)
  BY DEF Presence
<1>2. ASSUME NEW q \in Pairs, p = Named(q)
      PROVE  \E a, b \in who : a # b /\ where[a] = where[b] /\ where[a] # "street"
                               /\ p = <<{a, b}, where[a]>>
  <2>1. q[1] \in who /\ q[2] \in who
    OBVIOUS
  <2>2. QED
    BY <1>2, <2>1
<1>3. ASSUME NEW a \in who, NEW b \in who, a # b, where[a] = where[b], where[a] # "street",
             p = <<{a, b}, where[a]>>
      PROVE  \E q \in Pairs : p = Named(q)
  <2>1. <<a, b>> \in Pairs /\ p = Named(<<a, b>>)
    BY <1>3
  <2>2. QED
    BY <2>1
<1> HIDE DEF Pairs, Named
<1>4. QED
  BY <1>1, <1>2, <1>3

-----------------------------------------------------------------------------
\* The filter is a loop over the sequence, and such a loop has a function.
IsKept(s, S, n, kept) ==
    /\ kept = [i \in 0..n |-> kept[i]]
    /\ kept[0] = <<>>
    /\ \A i \in 1..n : kept[i] = IF s[i] \in S THEN Append(kept[i - 1], s[i]) ELSE kept[i - 1]

LEMMA KeptExists ==
    ASSUME NEW s, NEW S, NEW n \in Nat
    PROVE  \E kept : IsKept(s, S, n, kept)
<1> DEFINE Bad == {k \in 0..n : ~ \E kept : IsKept(s, S, k, kept)}
<1>1. SUFFICES ASSUME Bad # {} PROVE FALSE
  OBVIOUS
<1>2. PICK k \in Bad : \A j \in Bad : k <= j
  <2>1. Bad \subseteq Nat
    OBVIOUS
  <2> HIDE DEF Bad
  <2>2. QED
    BY <1>1, <2>1, MinIsLeast
<1>3. k # 0
  <2>1. IsKept(s, S, 0, [i \in 0..0 |-> <<>>])
    BY DEF IsKept
  <2>2. QED
    BY <2>1
<1>4. k \in 1..n /\ k - 1 \in 0..n /\ k - 1 \notin Bad
  BY <1>2, <1>3
<1>5. PICK kept : IsKept(s, S, k - 1, kept)
  BY <1>4
<1> DEFINE last == IF s[k] \in S THEN Append(kept[k - 1], s[k]) ELSE kept[k - 1]
           longer == [i \in 0..k |-> IF i = k THEN last ELSE kept[i]]
<1>6. longer[k] = last /\ \A i \in 0..(k - 1) : longer[i] = kept[i]
  BY <1>4
<1>7. longer[0] = <<>>
  BY <1>4, <1>5, <1>6 DEF IsKept
<1>8. ASSUME NEW i \in 1..k
      PROVE  longer[i] = IF s[i] \in S THEN Append(longer[i - 1], s[i]) ELSE longer[i - 1]
  <2> HIDE DEF longer
  <2>1. CASE i = k
    <3>1. k - 1 \in 0..(k - 1)
      BY <1>4
    <3>2. longer[k - 1] = kept[k - 1]
      BY <1>6, <3>1
    <3>3. QED
      BY <1>6, <2>1, <3>2
  <2>2. CASE i # k
    <3>1. i \in 1..(k - 1) /\ i \in 0..(k - 1) /\ i - 1 \in 0..(k - 1)
      BY <1>4, <2>2
    <3>2. QED
      BY <1>5, <1>6, <3>1 DEF IsKept
  <2>3. QED
    BY <2>1, <2>2
<1>9. longer = [i \in 0..k |-> longer[i]]
  OBVIOUS
<1> HIDE DEF longer
<1>10. IsKept(s, S, k, longer)
  BY <1>7, <1>8, <1>9 DEF IsKept
<1>11. QED
  BY <1>2, <1>10

LEMMA ThoseAreKept ==
    ASSUME NEW s, NEW S, Len(s) \in Nat
    PROVE  \E kept : IsKept(s, S, Len(s), kept) /\ Those(s, S) = kept[Len(s)]
<1> DEFINE n == Len(s)
           Body(f) == [i \in 0..n |->
                          IF i = 0 THEN <<>>
                          ELSE IF s[i] \in S THEN Append(f[i - 1], s[i]) ELSE f[i - 1]]
           Chosen == CHOOSE f : f = Body(f)
<1>1. PICK kept : IsKept(s, S, n, kept)
  BY KeptExists
<1>2. kept = Body(kept)
  <2>1. ASSUME NEW i \in 0..n PROVE kept[i] = Body(kept)[i]
    <3>1. i = 0 \/ i \in 1..n
      OBVIOUS
    <3>2. QED
      BY <1>1, <3>1 DEF IsKept
  <2>2. kept = [i \in 0..n |-> kept[i]]
    BY <1>1 DEF IsKept
  <2>3. QED
    BY <2>1, <2>2
<1>3. Chosen = Body(Chosen)
  <2> HIDE DEF Body
  <2>1. QED
    BY <1>2
<1>4. IsKept(s, S, n, Chosen)
  <2> HIDE DEF Chosen
  <2>1. ASSUME NEW i \in 0..n
        PROVE  Chosen[i] = IF i = 0 THEN <<>>
                           ELSE IF s[i] \in S THEN Append(Chosen[i - 1], s[i]) ELSE Chosen[i - 1]
    BY <1>3
  <2>2. \A i \in 1..n : i \in 0..n /\ i # 0
    OBVIOUS
  <2>3. Chosen = [i \in 0..n |-> Chosen[i]]
    BY <1>3
  <2>4. 0 \in 0..n
    OBVIOUS
  <2> HIDE DEF Body
  <2>5. QED
    BY <2>1, <2>2, <2>3, <2>4 DEF IsKept
<1>5. Those(s, S) = Chosen[n]
  BY DEF Those
<1>6. QED
  BY <1>4, <1>5

\* What is kept is of the sequence and of the set, and of each entry once.
LEMMA ThoseOfTheSet ==
    ASSUME NEW T, NEW s \in Seq(T), NEW S
    PROVE  /\ Those(s, S) \in Seq(T \cap S)
           /\ (\A i, j \in DOMAIN s : s[i] = s[j] => i = j) =>
                 \A i, j \in DOMAIN Those(s, S) : Those(s, S)[i] = Those(s, S)[j] => i = j
<1> DEFINE n == Len(s)
           Distinct == \A i, j \in DOMAIN s : s[i] = s[j] => i = j
<1>1. PICK kept : IsKept(s, S, n, kept) /\ Those(s, S) = kept[n]
  BY ThoseAreKept
<1> DEFINE Good(k) ==
              /\ kept[k] \in Seq(T \cap S)
              /\ \A i \in DOMAIN kept[k] : \E j \in 1..k : kept[k][i] = s[j]
              /\ Distinct => \A i, j \in DOMAIN kept[k] : kept[k][i] = kept[k][j] => i = j
           Bad == {k \in 0..n : ~Good(k)}
<1>2. Bad = {}
  <2>1. SUFFICES ASSUME Bad # {} PROVE FALSE
    OBVIOUS
  <2>2. PICK k \in Bad : \A j \in Bad : k <= j
    <3>1. Bad \subseteq Nat
      OBVIOUS
    <3> HIDE DEF Bad
    <3>2. QED
      BY <2>1, <3>1, MinIsLeast
  <2>3. Good(0)
    <3>1. kept[0] = <<>>
      BY <1>1 DEF IsKept
    <3>2. QED
      BY <3>1
  <2>4. k \in 1..n /\ k - 1 \in 0..n /\ Good(k - 1)
    <3>1. k # 0
      BY <2>2, <2>3
    <3>2. k \in 1..n /\ k - 1 \in 0..n
      BY <2>2, <3>1
    <3>3. k - 1 \notin Bad
      BY <2>2, <3>2
    <3>4. QED
      BY <3>2, <3>3
  <2>5. kept[k] = IF s[k] \in S THEN Append(kept[k - 1], s[k]) ELSE kept[k - 1]
    BY <1>1, <2>4 DEF IsKept
  <2> DEFINE old == kept[k - 1]
  <2>6. s[k] \in T /\ k \in DOMAIN s
    BY <2>4
  <2>7. CASE s[k] \notin S
    <3>1. kept[k] = old
      BY <2>5, <2>7
    <3>2. \A j \in 1..(k - 1) : j \in 1..k
      BY <2>4
    <3>3. Good(k)
      BY <2>4, <3>1, <3>2
    <3>4. QED
      BY <2>2, <3>3
  <2>8. CASE s[k] \in S
    <3>1. kept[k] = Append(old, s[k])
      BY <2>5, <2>8
    <3>2. old \in Seq(T \cap S)
      BY <2>4
    <3>3. kept[k] \in Seq(T \cap S) /\ DOMAIN kept[k] = 1..(Len(old) + 1)
            /\ kept[k][Len(old) + 1] = s[k] /\ \A i \in DOMAIN old : kept[k][i] = old[i]
            /\ Len(old) \in Nat /\ DOMAIN old = 1..Len(old)
      BY <2>6, <2>8, <3>1, <3>2
    <3>4. ASSUME NEW i \in DOMAIN kept[k] PROVE \E j \in 1..k : kept[k][i] = s[j]
      <4>1. CASE i = Len(old) + 1
        BY <2>4, <3>3, <4>1
      <4>2. CASE i # Len(old) + 1
        <5>1. i \in DOMAIN old
          BY <3>3, <4>2
        <5>2. PICK j \in 1..(k - 1) : old[i] = s[j]
          BY <2>4, <5>1
        <5>3. j \in 1..k
          BY <2>4
        <5>4. QED
          BY <3>3, <5>1, <5>2, <5>3
      <4>3. QED
        BY <4>1, <4>2
    <3>5. ASSUME Distinct, NEW i \in DOMAIN old PROVE old[i] # s[k]
      <4>1. PICK j \in 1..(k - 1) : old[i] = s[j]
        BY <2>4
      <4>2. j \in DOMAIN s /\ j # k
        BY <2>4
      <4>3. QED
        BY <2>6, <3>5, <4>1, <4>2
    <3>6. ASSUME Distinct, NEW i \in DOMAIN kept[k], NEW j \in DOMAIN kept[k], kept[k][i] = kept[k][j]
          PROVE  i = j
      <4>1. \A a, b \in DOMAIN old : old[a] = old[b] => a = b
        BY <2>4, <3>6
      <4> HIDE DEF Distinct, old, Bad
      <4>2. (i = Len(old) + 1 \/ i \in DOMAIN old) /\ (j = Len(old) + 1 \/ j \in DOMAIN old)
        BY <3>3
      <4>3. QED
        BY <3>3, <3>5, <3>6, <4>1, <4>2
    <3>7. Good(k)
      BY <3>3, <3>4, <3>6
    <3>8. QED
      BY <2>2, <3>7
  <2>9. QED
    BY <2>7, <2>8
<1>3. Good(n)
  <2>1. n \in 0..n
    OBVIOUS
  <2>2. QED
    BY <1>2, <2>1
<1>4. QED
  BY <1>1, <1>3

-----------------------------------------------------------------------------
(***************************************************************************)
(* The parts of the invariant that are written to the record are operators *)
(* of what is recorded, for they hold of the record too.                   *)
(***************************************************************************)
Fates == {"absent", "here", "retired", "left"}

\* Whoever was ever let in is in the roster.
Known(names, fates) ==
    /\ names \in Seq(Bidder) /\ fates \in [Bidder -> Fates]
    /\ \A a \in Bidder : fates[a] # "absent" => \E i \in DOMAIN names : names[i] = a

\* Whoever is in the fair has a body in the town.
Embodied(present, fates) ==
    /\ present \subseteq Bidder
    /\ \A a \in present : fates[a] # "absent"
    /\ \A a \in Bidder : fates[a] = "here" => a \in present

InBooks(books, fates) == \A a \in Bidder : books[a] = "absent" => fates[a] = "absent"

\* A turn is asked of an agent that is here: nobody goes while a line is asked.
Folk ==
    /\ week \in Week /\ crashes \in Nat
    /\ Known(roster, fate) /\ Embodied(bodies, fate)
    /\ DOMAIN accounts = Bidder /\ DOMAIN balance = Bidder
    /\ stage # "refused" => InBooks(accounts, fate)
    /\ line \in Seq(Bidder)
    /\ stage \in {"office", "square", "sit"} => \A i \in DOMAIN line : fate[line[i]] = "here"

FolkRecorded ==
    /\ disk = [books |-> disk.books, record |-> disk.record]
    /\ disk.books # NoFile => DOMAIN disk.books.accounts = Bidder /\ DOMAIN disk.books.balance = Bidder
    /\ stage = "copied" \/ disk.record # NoFile => disk.books # NoFile
    /\ disk.record # NoFile =>
          Known(disk.record.roster, disk.record.fate) /\ Embodied(disk.record.bodies, disk.record.fate)

Verb == {"none", "join", "leave"}
Reply == {"none", "in", "out", "refused"}
Request == [at : {"away", "knocking", "inside", "told"}, verb : Verb, name : Guest \cup {"nobody"},
            reply : Reply, told : Reply \cup {"nothing", "closed"}]

\* A request the town has taken has its reply, and what it was told is that.
AtTheDoor ==
    /\ calls \in [Caller -> Request]
    /\ \A c \in Caller :
          LET r == calls[c]
          IN  /\ r.at # "away" => r.name \in Guest
              /\ r.at = "knocking" => r.reply = "none"
              /\ r.at = "inside" => r.reply # "none"
              /\ r.at = "told" => r.told = IF r.reply = "none" THEN "closed" ELSE r.reply
              /\ crashes = 0 /\ r.at \in {"inside", "told"} =>
                    /\ r.reply = "in" => fate[r.name] # "absent"
                    /\ r.reply = "out" => fate[r.name] = "left"

\* Of those who have a body, who is together is who stands together.
Met ==
    /\ Presence(bodies, place) \subseteq together
    /\ \A p \in together :
          /\ p[1] \subseteq Bidder /\ \A a \in p[1] : fate[a] # "absent"
          /\ p[1] \subseteq bodies => p \in Presence(bodies, place)

\* What is left of a stay at a tick.
Remaining(until, now) == IF until > now THEN until - now ELSE 0

Stood(until, bought, present, now) ==
    /\ until \in [Bidder -> Nat] /\ bought \in [Bidder -> Nat] /\ now \in Nat
    /\ \A a \in Bidder : IF a \in present THEN bought[a] = Remaining(until[a], now)
                                          ELSE until[a] = 0 /\ bought[a] = 0

\* The walk has stood the tick that the visit then counts.
Standings ==
    /\ Stood(held, paid, bodies, IF stage = "visit" THEN tick + 1 ELSE tick) /\ tick \in Nat
    /\ disk.record # NoFile =>
          Stood(disk.record.held, disk.record.paid, disk.record.bodies, disk.record.tick)

Owners(things) == {a \in Bidder : "stall" \in things[a]}

Grounds(things, lines, free, fates) ==
    /\ DOMAIN things = Bidder /\ DOMAIN lines = Bidder
    /\ IsFiniteSet(Owners(things)) /\ free \in Nat /\ free + Cardinality(Owners(things)) = Pitches
    /\ \A a \in Bidder : lines[a] # None =>
          /\ lines[a][1].item \notin {"notebook", "stall"}
          /\ "stall" \in things[a] /\ fates[a] # "left"

Ground ==
    /\ Grounds(owned, stock, pitches, fate)
    /\ disk.record # NoFile =>
          Grounds(disk.record.owned, disk.record.stock, disk.record.pitches, disk.record.fate)

-----------------------------------------------------------------------------
\* What a step may do to who is here and to who is not.
Untouched(a) ==
    /\ fate'[a] = fate[a] /\ accounts'[a] = accounts[a] /\ balance'[a] = balance[a]
    /\ owned'[a] = owned[a] /\ held'[a] = held[a]

Moves ==
    /\ fate' \in [Bidder -> Fates] /\ DOMAIN accounts' = Bidder /\ DOMAIN balance' = Bidder
    /\ \A a \in Bidder :
          /\ fate'[a] # fate[a] => fate[a] = "here" /\ fate'[a] = "retired"
          /\ accounts'[a] # accounts[a] => accounts'[a] = "closed"
          /\ fate[a] # "here" => Untouched(a)

Tables ==
    /\ fate \in [Bidder -> Fates] /\ DOMAIN accounts = Bidder /\ DOMAIN balance = Bidder
    /\ DOMAIN owned = Bidder /\ DOMAIN held = Bidder

\* The line is asked from its head.
LEMMA LineGoesOn ==
    ASSUME line \in Seq(Bidder), line # <<>>
    PROVE  /\ Head(line) \in Bidder /\ Head(line) = line[1] /\ 1 \in DOMAIN line
           /\ Tail(line) \in Seq(Bidder)
           /\ \A i \in DOMAIN Tail(line) : i + 1 \in DOMAIN line /\ Tail(line)[i] = line[i + 1]
OBVIOUS

\* Of the lines that answer a wish, the first is one of those on offer.
LEMMA AnswersAreLines ==
    ASSUME NEW lines, lines \in Seq(ToSet(lines)), NEW wish, Answers(lines, wish) # <<>>
    PROVE  /\ Answers(lines, wish)[1] \in ToSet(lines)
           /\ Answers(lines, wish)[1].item = wish.item
<1> DEFINE Fit == {o \in ToSet(lines) : o.item = wish.item /\ wish.seller \in {Nobody, o.seller}}
<1>1. Answers(lines, wish) = Those(lines, Fit)
  BY DEF Answers
<1>2. Those(lines, Fit) \in Seq(ToSet(lines) \cap Fit)
  BY ThoseOfTheSet
<1>3. Those(lines, Fit)[1] \in Fit
  <2> HIDE DEF Fit
  <2>1. QED
    BY <1>1, <1>2
<1>4. QED
  BY <1>1, <1>3

LEMMA ShortSequences ==
    ASSUME NEW x, NEW y
    PROVE  /\ <<>> \o <<>> = <<>> /\ <<>> \o <<x>> = <<x>> /\ <<x>> \o <<>> = <<x>>
           /\ <<x>> \o <<y>> = <<x, y>>
<1>1. <<x>> \in Seq({x, y}) /\ <<y>> \in Seq({x, y}) /\ <<>> \in Seq({x, y})
  OBVIOUS
<1>2. <<>> \o <<>> = <<>>
  OBVIOUS
<1>3. <<>> \o <<x>> = <<x>> /\ <<x>> \o <<>> = <<x>>
  BY <1>1
<1>4. <<x>> \o <<y>> = <<x, y>>
  <2> DEFINE two == <<x>> \o <<y>>
  <2>1. two \in Seq({x, y}) /\ Len(two) = 2
    BY <1>1
  <2>2. two[1] = x /\ two[2] = y
    BY <1>1
  <2> HIDE DEF two
  <2>3. \A i \in 1..2 : two[i] = <<x, y>>[i]
    BY <2>2
  <2>4. two = [i \in 1..2 |-> two[i]]
    BY <2>1
  <2>5. <<x, y>> = [i \in 1..2 |-> <<x, y>>[i]]
    OBVIOUS
  <2>6. QED
    BY <2>3, <2>4, <2>5 DEF two
<1>5. QED
  BY <1>2, <1>3, <1>4

\* What the office sells is nobody's, and a stall is on offer while there is room.
LEMMA CatalogueLines ==
    /\ catalogue \in Seq(ToSet(catalogue))
    /\ \A o \in ToSet(catalogue) :
          /\ o.seller = Nobody
          /\ o.item = "stall" => pitches > 0
<1> DEFINE books == Offer("notebook", week.notebook, Nobody)
           plot == Offer("stall", week.stall, Nobody)
<1>1. \/ catalogue = <<>> \/ catalogue = <<books>>
      \/ pitches > 0 /\ catalogue = <<plot>>
      \/ pitches > 0 /\ catalogue = <<books, plot>>
  <2> DEFINE first == IF week.notebook > 0 THEN <<books>> ELSE <<>>
             second == IF week.stall > 0 /\ pitches > 0 THEN <<plot>> ELSE <<>>
  <2>1. catalogue = first \o second
    BY DEF catalogue
  <2>2. first = <<>> \/ first = <<books>>
    OBVIOUS
  <2>3. second = <<>> \/ (pitches > 0 /\ second = <<plot>>)
    OBVIOUS
  <2> HIDE DEF books, plot, first, second
  <2>4. <<>> \o <<>> = <<>> /\ <<>> \o <<plot>> = <<plot>> /\ <<books>> \o <<>> = <<books>>
          /\ <<books>> \o <<plot>> = <<books, plot>>
    BY ShortSequences
  <2>5. QED
    BY <2>1, <2>2, <2>3, <2>4
<1>2. books.seller = Nobody /\ books.item # "stall" /\ plot.seller = Nobody
  BY DEF Offer
<1> HIDE DEF books, plot
<1>3. CASE catalogue = <<>>
  BY <1>3 DEF ToSet
<1>4. CASE catalogue = <<books>>
  BY <1>2, <1>4 DEF ToSet
<1>5. CASE pitches > 0 /\ catalogue = <<plot>>
  BY <1>2, <1>5 DEF ToSet
<1>6. CASE pitches > 0 /\ catalogue = <<books, plot>>
  BY <1>2, <1>6 DEF ToSet
<1>7. QED
  BY <1>1, <1>3, <1>4, <1>5, <1>6

\* What the square sells is set out by agents that are here.
LEMMA WaresLines ==
    ASSUME roster \in Seq(Bidder), NEW buyer
    PROVE  /\ wares(buyer) \in Seq(ToSet(wares(buyer)))
           /\ \A o \in ToSet(wares(buyer)) :
                 \E a \in Bidder : Here(a) /\ stock[a] # None /\ o.seller = a /\ o.item = stock[a][1].item
<1> DEFINE Out == {a \in Bidder \ {buyer} : Here(a) /\ stock[a] # None}
           sellers == Those(roster, Out)
<1>1. sellers \in Seq(Bidder \cap Out)
  BY ThoseOfTheSet
<1>2. wares(buyer) = [i \in DOMAIN sellers |->
                         Offer(stock[sellers[i]][1].item, stock[sellers[i]][1].price, sellers[i])]
  BY DEF wares
<1> HIDE DEF sellers
<1>3. DOMAIN sellers = 1..Len(sellers) /\ Len(sellers) \in Nat /\ \A i \in DOMAIN sellers : sellers[i] \in Out
  BY <1>1
<1>4. wares(buyer) \in Seq(ToSet(wares(buyer)))
  BY <1>2, <1>3 DEF ToSet
<1>5. ASSUME NEW o \in ToSet(wares(buyer))
      PROVE  \E a \in Bidder : Here(a) /\ stock[a] # None /\ o.seller = a /\ o.item = stock[a][1].item
  <2>1. PICK i \in DOMAIN sellers : o = Offer(stock[sellers[i]][1].item, stock[sellers[i]][1].price, sellers[i])
    BY <1>2, <1>5 DEF ToSet
  <2>2. sellers[i] \in Out
    BY <1>3
  <2>3. QED
    BY <2>1, <2>2 DEF Offer
<1>6. QED
  BY <1>4, <1>5

\* A purchase is between the buyer and a seller that is here.
LEMMA BuyMoves ==
    ASSUME Tables, NEW a \in Bidder, Here(a), NEW lines, lines \in Seq(ToSet(lines)),
           \A o \in ToSet(lines) : o.seller = Nobody \/ (o.seller \in Bidder /\ Here(o.seller)),
           NEW wish, NEW purse, DOMAIN purse = Bidder, \A b \in Bidder \ {a} : purse[b] = balance[b],
           Buy(a, lines, wish, purse)
    PROVE  /\ DOMAIN balance' = Bidder
           /\ \A b \in Bidder : ~Here(b) => balance'[b] = balance[b] /\ owned'[b] = owned[b]
<1> DEFINE offers == IF wish = None THEN <<>> ELSE Answers(lines, wish[1])
           bought == CanBuy(a, lines, wish, purse)
           o == offers[1]
           left == [purse EXCEPT ![a] = @ - o.price]
<1>1. CASE ~bought
  <2>1. balance' = purse /\ owned' = owned
    BY <1>1 DEF Buy
  <2>2. QED
    BY <2>1 DEF Tables
<1>2. CASE bought
  <2>1. /\ balance' = IF o.seller = Nobody THEN left ELSE [left EXCEPT ![o.seller] = @ + o.price]
        /\ owned' = [owned EXCEPT ![a] = @ \cup {o.item}]
    BY <1>2 DEF Buy
  <2>2. o \in ToSet(lines)
    <3>1. wish # None /\ Answers(lines, wish[1]) # <<>>
      BY <1>2 DEF CanBuy
    <3>2. QED
      BY <3>1, AnswersAreLines
  <2> HIDE DEF offers, bought, o
  <2>3. o.seller = Nobody \/ (o.seller \in Bidder /\ Here(o.seller))
    BY <2>2
  <2>4. DOMAIN left = Bidder /\ \A b \in Bidder \ {a} : left[b] = balance[b]
    OBVIOUS
  <2> HIDE DEF left
  <2>5. DOMAIN balance' = Bidder
    BY <2>1, <2>4
  <2>6. ASSUME NEW b \in Bidder, ~Here(b) PROVE balance'[b] = balance[b] /\ owned'[b] = owned[b]
    <3>1. b # a
      BY <2>6
    <3>2. owned'[b] = owned[b]
      BY <2>1, <3>1 DEF Tables
    <3>3. balance'[b] = left[b]
      BY <2>1, <2>3, <2>4, <2>6
    <3>4. QED
      BY <2>4, <3>1, <3>2, <3>3
  <2>7. QED
    BY <2>5, <2>6
<1> HIDE DEF bought
<1>3. QED
  BY <1>1, <1>2

LEMMA NobodyMoves ==
    ASSUME Tables, UNCHANGED <<fate, accounts, balance, owned, held>>
    PROVE  Moves
BY DEF Tables, Moves, Untouched

LEMMA AttemptMoves ==
    ASSUME Tables, NEW b, NEW a, NEW board, Attempt(b, a, board), UNCHANGED <<owned, held>>
    PROVE  Moves
<1>1. CASE UNCHANGED <<fate, accounts, balance>>
  BY <1>1, NobodyMoves
<1>2. ASSUME Here(a), NEW left, Left(a, left) PROVE Moves
  <2>1. /\ balance' = [balance EXCEPT ![a] = IF left <= Dust THEN 0 ELSE left]
        /\ fate' = IF left <= Dust THEN [fate EXCEPT ![a] = "retired"] ELSE fate
        /\ accounts' = IF left <= Dust THEN [accounts EXCEPT ![a] = "closed"] ELSE accounts
    BY <1>2 DEF Left
  <2>2. fate' \in [Bidder -> Fates] /\ DOMAIN accounts' = Bidder /\ DOMAIN balance' = Bidder
    BY <2>1 DEF Tables, Fates
  <2>3. ASSUME NEW x \in Bidder
        PROVE  /\ fate'[x] # fate[x] => fate[x] = "here" /\ fate'[x] = "retired"
               /\ accounts'[x] # accounts[x] => accounts'[x] = "closed"
               /\ fate[x] # "here" => Untouched(x)
    <3>1. CASE x = a
      BY <1>2, <2>1, <3>1 DEF Tables, Here
    <3>2. CASE x # a
      BY <2>1, <3>2 DEF Tables, Untouched
    <3>3. QED
      BY <3>1, <3>2
  <2>4. QED
    BY <2>2, <2>3 DEF Moves
<1>3. ASSUME Here(a), NEW sum, balance' = [balance EXCEPT ![a] = sum], UNCHANGED <<fate, accounts>> PROVE Moves
  BY <1>3 DEF Moves, Untouched, Tables, Here
<1>4. CASE Here(a) /\ Perform(b, a, board)
  <2>1. UNCHANGED <<balance, fate, accounts>> \/ \E left : Left(a, left) \/ LeftRefused(a, left)
    BY <1>4 DEF Perform
  <2>2. ASSUME NEW left, LeftRefused(a, left) PROVE Moves
    BY <1>3, <1>4, <2>2 DEF LeftRefused
  <2>3. QED
    BY <1>1, <1>2, <1>4, <2>1, <2>2
<1>5. CASE FundRefused(a, board)
  BY <1>1, <1>5 DEF FundRefused
<1>6. CASE Here(a) /\ MergeRefused(a, board)
  <2> DEFINE sum == balance[a] - budgetOf(a)
  <2>1. balance' = [balance EXCEPT ![a] = sum] /\ UNCHANGED <<fate, accounts>>
    BY <1>6 DEF MergeRefused
  <2> HIDE DEF sum
  <2>2. QED
    BY <1>3, <1>6, <2>1
<1>7. QED
  BY <1>1, <1>4, <1>5, <1>6 DEF Attempt, VoidForGone

\* The stages an award leads to.
LEMMA AttemptStages ==
    ASSUME NEW b, NEW a, NEW board, Attempt(b, a, board)
    PROVE  stage' \in {stage, "stuck", "broken"}
<1>1. ASSUME Perform(b, a, board) PROVE stage' \in {stage, "stuck"}
  BY <1>1 DEF Perform, LeftRefused
<1>2. QED
  BY <1>1 DEF Attempt, VoidForGone, FundRefused, MergeRefused

\* A sweep that is refused has retired whoever was before.
LEMMA SweepStops ==
    ASSUME Folk, Tables, SweepRefused
    PROVE  Moves
<1>1. PICK n \in DOMAIN roster :
          LET late == roster[n]
              broke == {a \in Bidder : Here(a) /\ balance[a] <= Dust}
              before == (broke \ {late}) \cap {roster[i] : i \in 1..(n - 1)}
          IN  /\ late \in broke \cap outlived
              /\ fate' = [a \in Bidder |-> IF a \in before THEN "retired" ELSE fate[a]]
              /\ accounts' = [a \in Bidder |-> IF a \in before THEN "closed" ELSE accounts[a]]
              /\ \E rest \in 0..balance[late] :
                    balance' = [a \in Bidder |-> IF a \in before THEN 0
                                                 ELSE IF a = late THEN rest ELSE balance[a]]
  BY DEF SweepRefused
<1> DEFINE late == roster[n]
           broke == {a \in Bidder : Here(a) /\ balance[a] <= Dust}
           before == (broke \ {late}) \cap {roster[i] : i \in 1..(n - 1)}
<1>2. PICK rest : /\ fate' = [a \in Bidder |-> IF a \in before THEN "retired" ELSE fate[a]]
                  /\ accounts' = [a \in Bidder |-> IF a \in before THEN "closed" ELSE accounts[a]]
                  /\ balance' = [a \in Bidder |-> IF a \in before THEN 0
                                                   ELSE IF a = late THEN rest ELSE balance[a]]
  BY <1>1
<1>3. late \in Bidder /\ Here(late) /\ \A a \in before : fate[a] = "here"
  BY <1>1 DEF Here
<1>4. owned' = owned /\ held' = held
  BY DEF SweepRefused, shopVars
<1> HIDE DEF before, late
<1>5. fate' \in [Bidder -> Fates] /\ DOMAIN accounts' = Bidder /\ DOMAIN balance' = Bidder
  BY <1>2 DEF Tables, Fates
<1>6. QED
  BY <1>2, <1>3, <1>4, <1>5 DEF Moves, Untouched, Here

LEMMA OfficeOpens ==
    ASSUME Folk, Tables, OpenOffice
    PROVE  /\ Moves /\ line' \in Seq(Bidder) /\ stage' = "office"
           /\ \A i \in DOMAIN line' : fate'[line'[i]] = "here"
<1> DEFINE broke == {a \in Bidder : Here(a) /\ balance[a] <= Dust}
<1>1. /\ fate' = [a \in Bidder |-> IF a \in broke THEN "retired" ELSE fate[a]]
      /\ accounts' = [a \in Bidder |-> IF a \in broke THEN "closed" ELSE accounts[a]]
      /\ balance' = [a \in Bidder |-> IF a \in broke THEN 0 ELSE balance[a]]
      /\ line' = Standing("office", fate') /\ stage' = "office"
      /\ owned' = owned /\ held' = held
  BY DEF OpenOffice, shopVars
<1>2. \A a \in broke : fate[a] = "here"
  BY DEF Here
<1> HIDE DEF broke
<1>3. fate' \in [Bidder -> Fates] /\ DOMAIN accounts' = Bidder /\ DOMAIN balance' = Bidder
  BY <1>1 DEF Tables, Fates
<1>4. Moves
  BY <1>1, <1>2, <1>3 DEF Moves, Untouched
<1> DEFINE There == {a \in Bidder : place[a] = "office" /\ fate'[a] = "here"}
<1>5. line' = Those(roster, There)
  BY <1>1 DEF Standing
<1>6. line' \in Seq(Bidder \cap There)
  BY <1>5, ThoseOfTheSet DEF Folk, Known
<1>7. line' \in Seq(Bidder) /\ \A i \in DOMAIN line' : line'[i] \in There
  <2> HIDE DEF There
  <2>1. QED
    BY <1>6
<1>8. QED
  BY <1>1, <1>4, <1>7

LEMMA OfficeTurn ==
    ASSUME Folk, Tables, AtOffice
    PROVE  Moves
<1> DEFINE a == Head(line)
<1>1. a \in Bidder /\ Here(a)
  <2>1. line \in Seq(Bidder) /\ line # <<>> /\ \A i \in DOMAIN line : fate[line[i]] = "here"
    BY DEF Folk, AtOffice
  <2>2. QED
    BY <2>1, LineGoesOn DEF Here
<1>2. fate' = fate /\ accounts' = accounts
  BY DEF AtOffice
<1>3. \/ UNCHANGED <<held, balance, owned>>
      \/ \E cost \in Thought(a), wanted \in Maybe(week.stays) :
            LET step == [balance EXCEPT ![a] = @ - cost]
            IN  /\ ChargeStays(a, wanted, step)
                /\ \E wish \in Wishes(catalogue) : Buy(a, catalogue, wish, AfterStay(a, wanted, step))
  BY DEF AtOffice
<1>4. CASE UNCHANGED <<held, balance, owned>>
  BY <1>2, <1>4, NobodyMoves
<1>5. CASE \E cost \in Thought(a), wanted \in Maybe(week.stays) :
            LET step == [balance EXCEPT ![a] = @ - cost]
            IN  /\ ChargeStays(a, wanted, step)
                /\ \E wish \in Wishes(catalogue) : Buy(a, catalogue, wish, AfterStay(a, wanted, step))
  <2>1. PICK cost \in Thought(a), wanted \in Maybe(week.stays), wish \in Wishes(catalogue) :
            LET step == [balance EXCEPT ![a] = @ - cost]
            IN  ChargeStays(a, wanted, step) /\ Buy(a, catalogue, wish, AfterStay(a, wanted, step))
    BY <1>5
  <2> DEFINE step == [balance EXCEPT ![a] = @ - cost]
             purse == AfterStay(a, wanted, step)
  <2> HIDE DEF a
  <2>2. DOMAIN step = Bidder /\ \A b \in Bidder \ {a} : step[b] = balance[b]
    BY DEF Tables
  <2> HIDE DEF step
  <2>3. DOMAIN purse = Bidder /\ \A b \in Bidder \ {a} : purse[b] = balance[b]
    BY <2>2 DEF AfterStay
  <2> HIDE DEF purse
  <2>4. Buy(a, catalogue, wish, purse) /\ ChargeStays(a, wanted, step)
    BY <2>1 DEF a, step, purse
  <2>5. DOMAIN balance' = Bidder /\ \A b \in Bidder : ~Here(b) => balance'[b] = balance[b] /\ owned'[b] = owned[b]
    BY <1>1, <2>3, <2>4, BuyMoves, CatalogueLines
  <2>6. \A b \in Bidder : ~Here(b) => held'[b] = held[b]
    <3>1. held' = held \/ held' = [held EXCEPT ![a] = Extended(a, wanted[1])]
      BY <2>4 DEF ChargeStays
    <3>2. QED
      BY <1>1, <3>1 DEF Tables
  <2>7. QED
    BY <1>2, <2>5, <2>6 DEF Moves, Untouched, Tables, Here
<1>6. QED
  BY <1>3, <1>4, <1>5

LEMMA SquareTurn ==
    ASSUME Folk, Tables, AtSquare
    PROVE  Moves
<1> DEFINE a == Head(line)
<1>1. a \in Bidder /\ Here(a)
  <2>1. line \in Seq(Bidder) /\ line # <<>> /\ \A i \in DOMAIN line : fate[line[i]] = "here"
    BY DEF Folk, AtSquare
  <2>2. QED
    BY <2>1, LineGoesOn DEF Here
<1>2. fate' = fate /\ accounts' = accounts /\ held' = held
  BY DEF AtSquare
<1>3. \/ UNCHANGED <<balance, owned>>
      \/ \E cost \in Thought(a), wish \in Wishes(wares(a)) :
            Buy(a, wares(a), wish, [balance EXCEPT ![a] = @ - cost])
  BY DEF AtSquare
<1>4. CASE UNCHANGED <<balance, owned>>
  BY <1>2, <1>4, NobodyMoves
<1>5. CASE \E cost \in Thought(a), wish \in Wishes(wares(a)) :
            Buy(a, wares(a), wish, [balance EXCEPT ![a] = @ - cost])
  <2> HIDE DEF a
  <2>1. PICK cost \in Thought(a), wish \in Wishes(wares(a)) :
            Buy(a, wares(a), wish, [balance EXCEPT ![a] = @ - cost])
    BY <1>5
  <2> DEFINE purse == [balance EXCEPT ![a] = @ - cost]
  <2>2. DOMAIN purse = Bidder /\ \A b \in Bidder \ {a} : purse[b] = balance[b]
    BY DEF Tables
  <2> HIDE DEF purse
  <2>3. Buy(a, wares(a), wish, purse)
    BY <2>1 DEF purse
  <2>4. wares(a) \in Seq(ToSet(wares(a)))
        /\ \A o \in ToSet(wares(a)) : o.seller \in Bidder /\ Here(o.seller)
    <3>1. roster \in Seq(Bidder)
      BY DEF Folk, Known
    <3>2. QED
      BY <3>1, WaresLines
  <2>5. DOMAIN balance' = Bidder /\ \A b \in Bidder : ~Here(b) => balance'[b] = balance[b] /\ owned'[b] = owned[b]
    BY <1>1, <2>2, <2>3, <2>4, BuyMoves
  <2>6. QED
    BY <1>2, <2>5 DEF Moves, Untouched, Tables, Here
<1>6. QED
  BY <1>3, <1>4, <1>5

\* A charge that is refused has charged whoever is at the office or the square.
LEMMA ChargeStops ==
    ASSUME Folk, Tables, OfficeRefused \/ SquareRefused
    PROVE  Moves
<1> DEFINE a == Head(line)
<1>1. a \in Bidder /\ Here(a)
  <2>1. line \in Seq(Bidder) /\ line # <<>> /\ \A i \in DOMAIN line : fate[line[i]] = "here"
    BY DEF Folk, OfficeRefused, SquareRefused
  <2>2. QED
    BY <2>1, LineGoesOn DEF Here
<1>2. fate' = fate /\ accounts' = accounts /\ owned' = owned
  BY DEF OfficeRefused, SquareRefused, shopVars
<1>3. /\ DOMAIN balance' = Bidder /\ \A b \in Bidder \ {a} : balance'[b] = balance[b]
      /\ held' = held \/ \E until : held' = [held EXCEPT ![a] = until]
  <2>1. CASE OfficeRefused
    <3>1. PICK cost \in Thought(a), wanted \in Maybe(week.stays) :
            LET step == [balance EXCEPT ![a] = @ - cost]
            IN  \/ balance' = step /\ held' = held
                \/ ChargeStays(a, wanted, step) /\ balance' = AfterStay(a, wanted, step)
      BY <2>1 DEF OfficeRefused
    <3> HIDE DEF a
    <3> DEFINE step == [balance EXCEPT ![a] = @ - cost]
    <3>2. DOMAIN step = Bidder /\ \A b \in Bidder \ {a} : step[b] = balance[b]
      BY DEF Tables
    <3> HIDE DEF step
    <3>3. CASE balance' = step /\ held' = held
      BY <3>2, <3>3
    <3>4. CASE ChargeStays(a, wanted, step) /\ balance' = AfterStay(a, wanted, step)
      BY <3>2, <3>4 DEF ChargeStays, AfterStay
    <3>5. QED
      BY <3>1, <3>3, <3>4 DEF step
  <2>2. CASE SquareRefused
    <3>1. held' = held /\ \E cost : balance' = [balance EXCEPT ![a] = @ - cost]
      BY <2>2 DEF SquareRefused
    <3> HIDE DEF a
    <3>2. QED
      BY <3>1 DEF Tables
  <2>3. QED
    BY <2>1, <2>2
<1> HIDE DEF a
<1>4. \A b \in Bidder : ~Here(b) => held'[b] = held[b]
  BY <1>1, <1>3 DEF Tables
<1>5. QED
  BY <1>1, <1>2, <1>3, <1>4 DEF Moves, Untouched, Tables, Here

LEMMA SitterTurn ==
    ASSUME Folk, Tables, AtSitting, line # <<>>
    PROVE  Moves
<1> DEFINE a == Head(line)
<1>1. a \in Bidder /\ Here(a)
  <2>1. line \in Seq(Bidder) /\ \A i \in DOMAIN line : fate[line[i]] = "here"
    BY DEF Folk, AtSitting
  <2>2. QED
    BY <2>1, LineGoesOn DEF Here
<1>2. fate' = fate /\ accounts' = accounts /\ held' = held /\ owned' = owned
  BY DEF AtSitting, shopVars
<1>3. PICK cost \in Thought(a) : balance' = [balance EXCEPT ![a] = @ - cost]
  BY DEF AtSitting
<1>4. QED
  BY <1>1, <1>2, <1>3 DEF Moves, Untouched, Tables, Here

\* The line after a step: kept, walked on, or taken anew from the roster.
LineKept ==
    /\ line' \in Seq(Bidder)
    /\ stage' \in {"office", "square", "sit"} => \A i \in DOMAIN line' : fate'[line'[i]] = "here"

LEMMA TailKept ==
    ASSUME Folk, stage \in {"office", "square", "sit"}, line # <<>>, line' = Tail(line), fate' = fate
    PROVE  LineKept
<1>1. line \in Seq(Bidder) /\ \A i \in DOMAIN line : fate[line[i]] = "here"
  BY DEF Folk
<1>2. QED
  BY <1>1, LineGoesOn DEF LineKept

LEMMA SittersAreHere ==
    ASSUME Folk
    PROVE  sitters \in Seq(Bidder) /\ \A i \in DOMAIN sitters : fate[sitters[i]] = "here"
<1> DEFINE Ready == {a \in ranked : Here(a)}
<1>1. sitters \in Seq(Bidder \cap Ready)
  BY ThoseOfTheSet DEF Folk, Known, sitters
<1> HIDE DEF sitters
<1>2. sitters \in Seq(Bidder) /\ \A i \in DOMAIN sitters : sitters[i] \in Ready
  <2> HIDE DEF Ready
  <2>1. QED
    BY <1>1
<1>3. QED
  BY <1>2 DEF Here

LEMMA StandingAreHere ==
    ASSUME Folk, NEW where
    PROVE  /\ Standing(where, fate) \in Seq(Bidder)
           /\ \A i \in DOMAIN Standing(where, fate) : fate[Standing(where, fate)[i]] = "here"
<1> DEFINE There == {a \in Bidder : place[a] = where /\ fate[a] = "here"}
           line2 == Standing(where, fate)
<1>1. line2 \in Seq(Bidder \cap There)
  BY ThoseOfTheSet DEF Folk, Known, Standing
<1> HIDE DEF line2
<1>2. line2 \in Seq(Bidder) /\ \A i \in DOMAIN line2 : line2[i] \in There
  <2> HIDE DEF There
  <2>1. QED
    BY <1>1
<1>3. line2 \in Seq(Bidder) /\ \A i \in DOMAIN line2 : fate[line2[i]] = "here"
  BY <1>2
<1>4. QED
  BY <1>3 DEF line2

\* The stages of a visit.
LEMMA VisitStages ==
    ASSUME Visit
    PROVE  /\ stage \in {"visit", "office", "square", "close", "sit", "award"}
           /\ stage' \in {"office", "square", "close", "sit", "award", "boundary", "stuck", "broken"}
<1>1. CASE CloseWindow \/ AwardCard
  <2>1. stage \in {"close", "award"}
    BY <1>1 DEF CloseWindow, AwardCard
  <2>2. \/ stage' = stage
        \/ \E b, a, board : Attempt(b, a, board)
    BY <1>1 DEF CloseWindow, AwardCard, AwardAndAttempt
  <2>3. stage' \in {stage, "stuck", "broken"}
    BY <2>2, AttemptStages
  <2>4. QED
    BY <2>1, <2>3
<1>2. CASE OpenOffice \/ AtOffice \/ LeaveOffice \/ AtSquare \/ LeaveSquare
  BY <1>2 DEF OpenOffice, AtOffice, LeaveOffice, AtSquare, LeaveSquare
<1>3. CASE SweepRefused \/ OfficeRefused \/ SquareRefused
  BY <1>3 DEF SweepRefused, OfficeRefused, SquareRefused
<1>4. CASE EndOfVisit \/ DealCards \/ AtSitting \/ ClearTable
  BY <1>4 DEF EndOfVisit, DealCards, AtSitting, ClearTable
<1>5. QED
  BY <1>1, <1>2, <1>3, <1>4 DEF Visit

\* A sitting that is asked has somebody left to ask.
Seats == stage = "sit" => line # <<>>

\* What a step of the visit does to people: it charges and retires those who
\* are here, and nobody else.
LEMMA VisitMoves ==
    ASSUME Folk, Tables, Seats, Visit
    PROVE  Moves /\ LineKept /\ UNCHANGED <<week, roster, place>> /\ stage' # "refused"
<1>1. CASE OpenOffice
  <2>1. stage' = "office" /\ UNCHANGED <<week, roster, place>>
    BY <1>1 DEF OpenOffice
  <2>2. QED
    BY <1>1, <2>1, OfficeOpens DEF LineKept
<1>2. CASE AtOffice
  <2>1. /\ stage = "office" /\ stage' = stage /\ line # <<>> /\ line' = Tail(line) /\ fate' = fate
        /\ UNCHANGED <<week, roster, place>>
    BY <1>2 DEF AtOffice
  <2>2. QED
    BY <1>2, <2>1, OfficeTurn, TailKept
<1>3. CASE LeaveOffice
  <2>1. /\ stage' = "square" /\ line' = Standing("square", fate)
        /\ UNCHANGED <<week, roster, place, fate, accounts, balance, owned, held>>
    BY <1>3 DEF LeaveOffice, peopleVars, shopVars
  <2>2. QED
    BY <2>1, NobodyMoves, StandingAreHere DEF LineKept
<1>4. CASE AtSquare
  <2>1. /\ stage = "square" /\ stage' = stage /\ line # <<>> /\ line' = Tail(line) /\ fate' = fate
        /\ UNCHANGED <<week, roster, place>>
    BY <1>4 DEF AtSquare
  <2>2. QED
    BY <1>4, <2>1, SquareTurn, TailKept
<1>5. CASE LeaveSquare \/ EndOfVisit \/ ClearTable
  <2>1. /\ stage' \in {"close", "boundary"} /\ line' = line
        /\ UNCHANGED <<week, roster, place, fate, accounts, balance, owned, held>>
    BY <1>5 DEF LeaveSquare, EndOfVisit, ClearTable, peopleVars, shopVars
  <2>2. QED
    BY <2>1, NobodyMoves DEF LineKept, Folk
<1>6. CASE CloseWindow \/ AwardCard
  <2>1. /\ stage \in {"close", "award"} /\ line' = line
        /\ UNCHANGED <<week, roster, place, owned, held>>
    BY <1>6 DEF CloseWindow, AwardCard, shopVars
  <2>2. \/ UNCHANGED <<stage, fate, accounts, balance>>
        \/ \E b, a, board : Attempt(b, a, board)
    BY <1>6 DEF CloseWindow, AwardCard, AwardAndAttempt
  <2>3. CASE UNCHANGED <<stage, fate, accounts, balance>>
    BY <2>1, <2>3, NobodyMoves DEF LineKept, Folk
  <2>4. ASSUME NEW b, NEW a, NEW board, Attempt(b, a, board)
        PROVE  Moves /\ stage' \in {stage, "stuck", "broken"}
    BY <2>1, <2>4, AttemptStages, AttemptMoves
  <2>5. QED
    BY <2>1, <2>2, <2>3, <2>4 DEF LineKept, Folk
<1>7. CASE DealCards
  <2>1. /\ stage' = "sit" /\ line' = sitters
        /\ UNCHANGED <<week, roster, place, fate, accounts, balance, owned, held>>
    BY <1>7 DEF DealCards, peopleVars, shopVars
  <2>2. QED
    BY <2>1, NobodyMoves, SittersAreHere DEF LineKept
<1>8. CASE AtSitting
  <2>1. /\ stage = "sit" /\ stage' \in {"sit", "award"} /\ line # <<>> /\ line' = Tail(line) /\ fate' = fate
        /\ UNCHANGED <<week, roster, place>>
    BY <1>8 DEF AtSitting, Seats
  <2>2. QED
    BY <1>8, <2>1, SitterTurn, TailKept
<1>9. CASE SweepRefused \/ OfficeRefused \/ SquareRefused
  <2>1. stage' = "stuck" /\ UNCHANGED <<week, line, roster, place>>
    BY <1>9 DEF SweepRefused, OfficeRefused, SquareRefused
  <2>2. QED
    BY <1>9, <2>1, SweepStops, ChargeStops DEF LineKept, Folk
<1>10. QED
  BY <1>1, <1>2, <1>3, <1>4, <1>5, <1>6, <1>7, <1>8, <1>9 DEF Visit

-----------------------------------------------------------------------------
\* What the door does to people: a knock lets in somebody nobody knows, or
\* nobody; a leaving lets a guest go, or is refused.
LetIn(a) ==
    /\ accounts[a] = "absent" /\ fate[a] = "absent"
    /\ accounts' = [accounts EXCEPT ![a] = "open"] /\ balance' = [balance EXCEPT ![a] = Grant]
    /\ roster' = Append(roster, a) /\ fate' = [fate EXCEPT ![a] = "here"]
    /\ place' = [place EXCEPT ![a] = "home"] /\ bodies' = bodies \cup {a}
    /\ together' = Seated(a)

PeopleStay == UNCHANGED <<roster, fate, accounts, balance, place, bodies, together>>

LEMMA KnockMoves ==
    ASSUME Folk, AtTheDoor, NEW c \in Caller, Knock(c)
    PROVE  LET a == calls[c].name
           IN  /\ a \in Bidder /\ a \in Guest /\ stage' = "arrive"
               /\ UNCHANGED <<week, line, crashes, disk, tick, owned, held, paid, stock, pitches>>
               /\ \/ calls' = Replied(c, "refused") /\ PeopleStay
                  \/ calls' = Replied(c, "in") /\ LetIn(a)
<1> DEFINE a == calls[c].name
<1>1. a \in Guest /\ a \in Bidder
  BY WeekAssumption DEF Knock, AtTheDoor
<1>2. stage' = "arrive" /\ stage # "refused"
        /\ UNCHANGED <<week, line, crashes, disk, tick, owned, held, paid, stock, pitches>>
  BY DEF Knock, shopVars
<1>3. accounts[a] = "absent" => fate[a] = "absent"
  BY <1>1, <1>2 DEF Folk, InBooks
<1>4. PICK guests \in guestRoster(a) :
          \/ /\ guests = {}
             /\ calls' = Replied(c, "refused")
             /\ UNCHANGED <<roster, fate, balance, accounts, place, bodies, together>>
          \/ \E x \in guests :
                /\ calls' = Replied(c, IF accounts[x] = "absent" THEN "in" ELSE "refused")
                /\ Admit(x)
  BY DEF Knock
<1>5. \A x \in guests : x = a
  BY <1>4 DEF guestRoster
<1>6. CASE calls' = Replied(c, "refused") /\ UNCHANGED <<roster, fate, balance, accounts, place, bodies, together>>
  BY <1>1, <1>2, <1>6 DEF PeopleStay
<1>7. CASE calls' = Replied(c, IF accounts[a] = "absent" THEN "in" ELSE "refused") /\ Admit(a)
  <2>1. CASE accounts[a] # "absent"
    BY <1>1, <1>2, <1>7, <2>1 DEF PeopleStay, Admit
  <2>2. CASE accounts[a] = "absent"
    BY <1>1, <1>2, <1>3, <1>7, <2>2 DEF LetIn, Admit
  <2>3. QED
    BY <2>1, <2>2
<1>8. QED
  BY <1>4, <1>5, <1>6, <1>7

LEMMA DepartMoves ==
    ASSUME AtTheDoor, NEW c \in Caller, Depart(c)
    PROVE  LET a == calls[c].name
           IN  /\ a \in Bidder /\ a \in Guest /\ stage' = "leave" /\ stage \in {"door", "arrive", "leave"}
               /\ UNCHANGED <<week, line, crashes, disk, tick, owned, roster, accounts, balance, place,
                              together, pitches>>
               /\ \/ /\ calls' = Replied(c, "refused")
                     /\ UNCHANGED <<fate, bodies, held, paid, stock>>
                  \/ /\ calls' = Replied(c, "out") /\ fate[a] = "here"
                     /\ fate' = [fate EXCEPT ![a] = "left"] /\ bodies' = bodies \ {a}
                     /\ held' = [held EXCEPT ![a] = 0] /\ paid' = [paid EXCEPT ![a] = 0]
                     /\ stock' = [stock EXCEPT ![a] = None]
<1> DEFINE a == calls[c].name
<1>1. a \in Guest /\ a \in Bidder
  BY WeekAssumption DEF Depart, AtTheDoor
<1>2. stage' = "leave" /\ stage \in {"door", "arrive", "leave"}
        /\ UNCHANGED <<week, line, crashes, disk, tick, owned, roster, accounts, balance, place, together, pitches>>
  BY DEF Depart, Leave, shopVars, peopleVars
<1>3. \/ a \in admitted /\ Leave(a) /\ bodies' = bodies \ {a} /\ calls' = Replied(c, "out")
      \/ calls' = Replied(c, "refused") /\ UNCHANGED <<fate, bodies, held, paid, stock>>
  BY DEF Depart, shopVars, peopleVars
<1>4. CASE calls' = Replied(c, "refused") /\ UNCHANGED <<fate, bodies, held, paid, stock>>
  BY <1>1, <1>2, <1>4
<1>5. CASE Leave(a) /\ bodies' = bodies \ {a} /\ calls' = Replied(c, "out")
  BY <1>1, <1>2, <1>5 DEF Leave, Here, TakesStockDown
<1>6. QED
  BY <1>3, <1>4, <1>5

\* The town's steps that are about nobody.
TownGoesOn ==
    /\ UNCHANGED <<week, line, crashes, tick, held, roster, fate, accounts, balance, bodies, owned,
                   stock, pitches, calls>>
    /\ stage' \notin {"office", "square", "sit", "refused"}

LEMMA TownMoves ==
    ASSUME Walk \/ NextTick \/ CopyBooks \/ WriteRecord \/ Close
    PROVE  TownGoesOn
BY DEF Walk, NextTick, CopyBooks, WriteRecord, Close, TownGoesOn, shopVars, peopleVars

\* The record, field by field.
LEMMA RecordFields ==
    /\ Record.tick = tick /\ Record.dealt = dealt /\ Record.lastID = Len(bounties)
    /\ Record.reopens = reopens /\ Record.shelved = shelved /\ Record.draws = draws
    /\ Record.held = held /\ Record.paid = paid /\ Record.owned = owned /\ Record.stock = stock
    /\ Record.stockRev = stockRev /\ Record.shopped = shopped /\ Record.pitches = pitches
    /\ Record.ranked = ranked /\ Record.withdrawn = withdrawn /\ Record.cards = cards
    /\ Record.ladder = ladder /\ Record.roster = roster /\ Record.fate = fate
    /\ Record.pending = pending /\ Record.place = place /\ Record.bodies = bodies
    /\ Record.guests = admitted /\ Record.seq = trace
BY DEF Record

\* What a boot over a record makes of the people.
LEMMA ResumeMoves ==
    ASSUME Folk, FolkRecorded, Resume
    PROVE  LET r == disk.record
           IN  /\ r # NoFile /\ disk' = disk /\ week' = week /\ crashes' = crashes + 1
               /\ balance' = disk.books.balance /\ accounts' = disk.books.accounts
               /\ roster' = r.roster /\ fate' = r.fate /\ bodies' = r.bodies /\ place' = r.place
               /\ together' = Presence(r.bodies, r.place)
               /\ tick' = r.tick /\ held' = r.held /\ paid' = r.paid /\ line' = <<>>
               /\ owned' = r.owned /\ stock' = r.stock /\ pitches' = r.pitches
               /\ calls' = [c \in Caller |-> IF calls[c].at = "told" THEN calls[c] ELSE NoCall]
               /\ stage' \in {"door", "refused"}
               /\ stage' = "door" => InBooks(accounts', fate')
<1> DEFINE r == disk.record
<1>1. /\ r # NoFile /\ disk' = disk /\ week' = week /\ crashes' = crashes + 1
      /\ balance' = disk.books.balance /\ accounts' = disk.books.accounts
      /\ roster' = r.roster /\ fate' = r.fate /\ bodies' = r.bodies /\ place' = r.place
      /\ together' = Presence(r.bodies, r.place)
      /\ tick' = r.tick /\ held' = r.held /\ paid' = r.paid /\ line' = <<>>
      /\ owned' = r.owned /\ stock' = r.stock /\ pitches' = r.pitches
      /\ calls' = [c \in Caller |-> IF calls[c].at = "told" THEN calls[c] ELSE NoCall]
      /\ stage' = IF Agree(disk.books, r) /\ trace >= r.seq THEN "door" ELSE "refused"
  BY DEF Resume, BooksBack, FairBack, TownBack
<1>2. ASSUME stage' = "door" PROVE InBooks(accounts', fate')
  <2>1. Agree(disk.books, r)
    BY <1>1, <1>2
  <2>2. Known(r.roster, r.fate)
    BY <1>1 DEF FolkRecorded
  <2>3. QED
    BY <1>1, <2>1, <2>2 DEF InBooks, Agree, Known, ToSet
<1>3. stage' \in {"door", "refused"}
  BY <1>1
<1>4. QED
  BY <1>1, <1>2, <1>3

-----------------------------------------------------------------------------
\* Every step is one of these.
LEMMA WeekSteps ==
    ASSUME [WeekNext]_weekVars
    PROVE  \/ \E c \in Caller : Knock(c)
           \/ \E c \in Caller : Depart(c)
           \/ \E c \in Caller : Call(c) \/ HangUp(c) \/ Answer(c)
           \/ VisitFair
           \/ Walk \/ NextTick \/ CopyBooks \/ WriteRecord \/ Close
           \/ Resume
           \/ UNCHANGED weekVars
BY DEF WeekNext

LEMMA FolkKept ==
    ASSUME Folk, FolkRecorded, AtTheDoor, Tables, Seats, [WeekNext]_weekVars
    PROVE  Folk'
<1>1. ASSUME NEW c \in Caller, Knock(c) PROVE Folk'
  <2> DEFINE a == calls[c].name
  <2>1. /\ a \in Bidder /\ stage' = "arrive" /\ UNCHANGED <<week, line, crashes>>
        /\ PeopleStay \/ LetIn(a)
    BY <1>1, KnockMoves
  <2>2. stage # "refused"
    BY <1>1 DEF Knock
  <2>3. CASE PeopleStay
    BY <2>1, <2>2, <2>3 DEF PeopleStay, Folk
  <2>4. CASE LetIn(a)
    <3> HIDE DEF a
    <3>1. Known(roster, fate) /\ Embodied(bodies, fate) /\ InBooks(accounts, fate)
            /\ DOMAIN accounts = Bidder /\ DOMAIN balance = Bidder
      BY <2>2 DEF Folk
    <3>2. fate' \in [Bidder -> Fates] /\ fate'[a] = "here" /\ \A x \in Bidder \ {a} : fate'[x] = fate[x]
      BY <2>1, <2>4, <3>1 DEF LetIn, Known, Fates
    <3>3. roster' \in Seq(Bidder) /\ Len(roster') = Len(roster) + 1 /\ roster'[Len(roster) + 1] = a
            /\ \A i \in DOMAIN roster : i \in DOMAIN roster' /\ roster'[i] = roster[i]
      BY <2>1, <2>4, <3>1 DEF LetIn, Known
    <3>4. Known(roster', fate')
      <4>1. ASSUME NEW x \in Bidder, fate'[x] # "absent" PROVE \E i \in DOMAIN roster' : roster'[i] = x
        <5>1. CASE x = a
          <6>1. Len(roster) + 1 \in DOMAIN roster'
            BY <3>1, <3>3 DEF Known
          <6>2. QED
            BY <3>3, <5>1, <6>1
        <5>2. CASE x # a
          BY <3>1, <3>2, <3>3, <4>1, <5>2 DEF Known
        <5>3. QED
          BY <5>1, <5>2
      <4>2. QED
        BY <3>2, <3>3, <4>1 DEF Known
    <3>5. Embodied(bodies', fate')
      BY <2>1, <2>4, <3>1, <3>2 DEF LetIn, Embodied
    <3>6. InBooks(accounts', fate') /\ DOMAIN accounts' = Bidder /\ DOMAIN balance' = Bidder
      BY <2>1, <2>4, <3>1, <3>2 DEF LetIn, InBooks
    <3>7. QED
      BY <2>1, <3>4, <3>5, <3>6 DEF Folk
  <2>5. QED
    BY <2>1, <2>3, <2>4
<1>2. ASSUME NEW c \in Caller, Depart(c) PROVE Folk'
  <2> DEFINE a == calls[c].name
  <2>1. /\ a \in Bidder /\ stage' = "leave" /\ stage \in {"door", "arrive", "leave"}
        /\ UNCHANGED <<week, line, crashes, roster, accounts, balance>>
        /\ \/ UNCHANGED <<fate, bodies>>
           \/ fate[a] = "here" /\ fate' = [fate EXCEPT ![a] = "left"] /\ bodies' = bodies \ {a}
    BY <1>2, DepartMoves
  <2>2. CASE UNCHANGED <<fate, bodies>>
    BY <2>1, <2>2 DEF Folk
  <2>3. CASE fate[a] = "here" /\ fate' = [fate EXCEPT ![a] = "left"] /\ bodies' = bodies \ {a}
    <3> HIDE DEF a
    <3>1. Known(roster, fate) /\ Embodied(bodies, fate) /\ InBooks(accounts, fate)
      BY <2>1 DEF Folk
    <3>2. fate' \in [Bidder -> Fates] /\ fate'[a] = "left" /\ \A x \in Bidder \ {a} : fate'[x] = fate[x]
      BY <2>1, <2>3, <3>1 DEF Known, Fates
    <3>3. \A x \in Bidder : fate'[x] = "absent" <=> fate[x] = "absent"
      BY <2>3, <3>2
    <3>4. Known(roster', fate') /\ Embodied(bodies', fate') /\ InBooks(accounts', fate')
      BY <2>1, <2>3, <3>1, <3>2, <3>3 DEF Known, Embodied, InBooks
    <3>5. QED
      BY <2>1, <3>4 DEF Folk
  <2>4. QED
    BY <2>1, <2>2, <2>3
<1>3. ASSUME NEW c \in Caller, Call(c) \/ HangUp(c) \/ Answer(c) PROVE Folk'
  BY <1>3 DEF Call, HangUp, Answer, Townless, Folk, peopleVars
<1>4. CASE VisitFair
  <2>1. Visit /\ UNCHANGED <<bodies, crashes>>
    BY <1>4 DEF VisitFair
  <2>2. Moves /\ LineKept /\ UNCHANGED <<week, roster, place>> /\ stage' # "refused"
    BY <2>1, VisitMoves
  <2>3. stage # "refused"
    BY <2>1, VisitStages
  <2>4. \A x \in Bidder : (fate'[x] = "absent" <=> fate[x] = "absent") /\ (fate'[x] = "here" => fate[x] = "here")
                            /\ (accounts'[x] = "absent" => accounts[x] = "absent")
    BY <2>2 DEF Moves
  <2>5. Known(roster', fate') /\ Embodied(bodies', fate') /\ InBooks(accounts', fate')
    BY <2>1, <2>2, <2>3, <2>4 DEF Folk, Known, Embodied, InBooks, Moves
  <2>6. QED
    BY <2>1, <2>2, <2>5 DEF Folk, Moves, LineKept
<1>5. CASE Walk \/ NextTick \/ CopyBooks \/ WriteRecord \/ Close
  <2>1. stage # "refused"
    BY <1>5 DEF Walk, NextTick, CopyBooks, WriteRecord, Close
  <2>2. QED
    BY <1>5, <2>1, TownMoves DEF TownGoesOn, Folk
<1>6. CASE Resume
  <2> DEFINE r == disk.record
  <2>1. /\ r # NoFile /\ week' = week /\ crashes' = crashes + 1
        /\ balance' = disk.books.balance /\ accounts' = disk.books.accounts
        /\ roster' = r.roster /\ fate' = r.fate /\ bodies' = r.bodies /\ line' = <<>>
        /\ stage' \in {"door", "refused"} /\ (stage' = "door" => InBooks(accounts', fate'))
    BY <1>6, ResumeMoves
  <2>2. Known(r.roster, r.fate) /\ Embodied(r.bodies, r.fate)
          /\ DOMAIN disk.books.accounts = Bidder /\ DOMAIN disk.books.balance = Bidder
    BY <2>1 DEF FolkRecorded
  <2> HIDE DEF r
  <2>3. line' \in Seq(Bidder)
    BY <2>1
  <2>4. QED
    BY <2>1, <2>2, <2>3 DEF Folk
<1>7. CASE UNCHANGED weekVars
  BY <1>7 DEF weekVars, fairVars, peopleVars, Folk
<1>8. QED
  BY <1>1, <1>2, <1>3, <1>4, <1>5, <1>6, <1>7, WeekSteps

\* Only the town's two steps at a boundary write to the disk.
LEMMA DiskMoves ==
    ASSUME [WeekNext]_weekVars
    PROVE  \/ disk' = disk /\ (stage' = "copied" => stage = "copied")
           \/ CopyBooks
           \/ WriteRecord
<1>1. CASE VisitFair
  BY <1>1, VisitStages DEF VisitFair
<1>2. ASSUME NEW c \in Caller, Call(c) \/ HangUp(c) \/ Answer(c)
      PROVE  disk' = disk /\ (stage' = "copied" => stage = "copied")
  BY <1>2 DEF Call, HangUp, Answer, Townless
<1>3. ASSUME NEW c \in Caller, Knock(c) \/ Depart(c) PROVE disk' = disk /\ stage' \in {"arrive", "leave"}
  BY <1>3 DEF Knock, Depart
<1>4. CASE Walk \/ NextTick \/ Close \/ Resume
  BY <1>4 DEF Walk, NextTick, Close, Resume, FairBack
<1>5. CASE UNCHANGED weekVars
  BY <1>5 DEF weekVars, fairVars
<1>6. QED
  BY <1>1, <1>2, <1>3, <1>4, <1>5, WeekSteps

LEMMA RecordedKept ==
    ASSUME Folk, FolkRecorded, tick \in Nat, [WeekNext]_weekVars
    PROVE  FolkRecorded'
<1>1. CASE disk' = disk /\ (stage' = "copied" => stage = "copied")
  BY <1>1 DEF FolkRecorded
<1>2. CASE CopyBooks
  <2>1. disk' = [disk EXCEPT !.books = Books]
    BY <1>2 DEF CopyBooks
  <2>2. disk' = [books |-> Books, record |-> disk.record]
    BY <2>1 DEF FolkRecorded
  <2>3. Books.tick = tick /\ Books.accounts = accounts /\ Books.balance = balance
    BY DEF Books
  <2> HIDE DEF Books
  <2>4. Books # NoFile
    BY <2>3 DEF NoFile
  <2>5. QED
    BY <2>2, <2>3, <2>4 DEF FolkRecorded, Folk
<1>3. CASE WriteRecord
  <2>1. disk' = [disk EXCEPT !.record = Record] /\ stage = "copied" /\ stage' = "door"
    BY <1>3 DEF WriteRecord
  <2>2. disk' = [books |-> disk.books, record |-> Record]
    BY <2>1 DEF FolkRecorded
  <2>3. Known(Record.roster, Record.fate) /\ Embodied(Record.bodies, Record.fate)
    BY RecordFields DEF Folk
  <2> HIDE DEF Record
  <2>4. QED
    BY <2>1, <2>2, <2>3 DEF FolkRecorded
<1>4. QED
  BY <1>1, <1>2, <1>3, DiskMoves

LEMMA SeatsKept ==
    ASSUME Seats, [WeekNext]_weekVars
    PROVE  Seats'
<1>1. CASE VisitFair
  <2>1. Visit
    BY <1>1 DEF VisitFair
  <2>2. CASE DealCards
    BY <2>2 DEF DealCards, SitsNow, Seats
  <2>3. CASE AtSitting
    BY <2>3 DEF AtSitting, Seats
  <2>4. CASE CloseWindow \/ AwardCard
    <3>1. \/ stage' = stage
          \/ \E b, a, board : Attempt(b, a, board)
      BY <2>4 DEF CloseWindow, AwardCard, AwardAndAttempt
    <3>2. stage' \in {stage, "stuck", "broken"} /\ stage # "sit"
      BY <2>4, <3>1, AttemptStages DEF CloseWindow, AwardCard
    <3>3. QED
      BY <3>2 DEF Seats
  <2>5. CASE OpenOffice \/ AtOffice \/ LeaveOffice \/ AtSquare \/ LeaveSquare
    BY <2>5 DEF OpenOffice, AtOffice, LeaveOffice, AtSquare, LeaveSquare, Seats
  <2>6. CASE SweepRefused \/ OfficeRefused \/ SquareRefused \/ EndOfVisit \/ ClearTable
    BY <2>6 DEF SweepRefused, OfficeRefused, SquareRefused, EndOfVisit, ClearTable, Seats
  <2>7. QED
    BY <2>1, <2>2, <2>3, <2>4, <2>5, <2>6 DEF Visit
<1>2. ASSUME NEW c \in Caller, Call(c) \/ HangUp(c) \/ Answer(c) PROVE Seats'
  BY <1>2 DEF Call, HangUp, Answer, Townless, Seats
<1>3. ASSUME NEW c \in Caller, Knock(c) \/ Depart(c) PROVE Seats'
  BY <1>3 DEF Knock, Depart, Seats
<1>4. CASE Walk \/ NextTick \/ CopyBooks \/ WriteRecord \/ Close
  BY <1>4, TownMoves DEF TownGoesOn, Seats
<1>5. CASE Resume
  BY <1>5 DEF Resume, FairBack, Seats
<1>6. CASE UNCHANGED weekVars
  BY <1>6 DEF weekVars, fairVars, Seats
<1>7. QED
  BY <1>1, <1>2, <1>3, <1>4, <1>5, <1>6, WeekSteps

-----------------------------------------------------------------------------
\* Without a kill nobody is forgotten, and nobody comes back.
FatesGoOn ==
    \A a \in Bidder : /\ fate[a] # "absent" => fate'[a] # "absent"
                      /\ fate[a] = "left" => fate'[a] = "left"

LEMMA FatesMove ==
    ASSUME Folk, AtTheDoor, Tables, Seats, [WeekNext]_weekVars, ~Resume
    PROVE  FatesGoOn /\ crashes' = crashes
<1>1. ASSUME NEW c \in Caller, Knock(c) PROVE FatesGoOn /\ crashes' = crashes
  <2> DEFINE a == calls[c].name
  <2>1. a \in Bidder /\ crashes' = crashes /\ (PeopleStay \/ LetIn(a))
    BY <1>1, KnockMoves
  <2>2. CASE PeopleStay
    BY <2>1, <2>2 DEF PeopleStay, FatesGoOn
  <2>3. CASE LetIn(a)
    BY <2>1, <2>3 DEF LetIn, FatesGoOn, Folk, Known
  <2>4. QED
    BY <2>1, <2>2, <2>3
<1>2. ASSUME NEW c \in Caller, Depart(c) PROVE FatesGoOn /\ crashes' = crashes
  <2> DEFINE a == calls[c].name
  <2>1. a \in Bidder /\ crashes' = crashes /\ (fate' = fate \/ fate' = [fate EXCEPT ![a] = "left"])
    BY <1>2, DepartMoves
  <2>2. QED
    BY <2>1 DEF FatesGoOn, Folk, Known
<1>3. ASSUME NEW c \in Caller, Call(c) \/ HangUp(c) \/ Answer(c) PROVE FatesGoOn /\ crashes' = crashes
  BY <1>3 DEF Call, HangUp, Answer, Townless, FatesGoOn, peopleVars
<1>4. CASE VisitFair
  <2>1. Visit /\ crashes' = crashes
    BY <1>4 DEF VisitFair
  <2>2. Moves
    BY <2>1, VisitMoves
  <2>3. QED
    BY <2>1, <2>2 DEF Moves, FatesGoOn
<1>5. CASE Walk \/ NextTick \/ CopyBooks \/ WriteRecord \/ Close
  BY <1>5, TownMoves DEF TownGoesOn, FatesGoOn
<1>6. CASE UNCHANGED weekVars
  BY <1>6 DEF weekVars, fairVars, peopleVars, FatesGoOn
<1>7. QED
  BY <1>1, <1>2, <1>3, <1>4, <1>5, <1>6, WeekSteps

\* What is right of one request.
Right(r, fates, kills) ==
    /\ r.at # "away" => r.name \in Guest
    /\ r.at = "knocking" => r.reply = "none"
    /\ r.at = "inside" => r.reply # "none"
    /\ r.at = "told" => r.told = IF r.reply = "none" THEN "closed" ELSE r.reply
    /\ kills = 0 /\ r.at \in {"inside", "told"} =>
          /\ r.reply = "in" => fates[r.name] # "absent"
          /\ r.reply = "out" => fates[r.name] = "left"

LEMMA RightGoesOn ==
    ASSUME NEW r, Right(r, fate, crashes), FatesGoOn, crashes' = crashes
    PROVE  Right(r, fate', crashes')
<1>1. r.at # "away" => r.name \in Bidder
  BY WeekAssumption DEF Right
<1>2. QED
  BY <1>1 DEF Right, FatesGoOn

\* One request is handled, and the others wait.
LEMMA DoorGoesOn ==
    ASSUME AtTheDoor, FatesGoOn, crashes' = crashes, NEW c \in Caller, NEW r \in Request,
           calls' = [calls EXCEPT ![c] = r], Right(r, fate', crashes')
    PROVE  AtTheDoor'
<1>1. calls' \in [Caller -> Request]
  BY DEF AtTheDoor
<1>2. ASSUME NEW d \in Caller PROVE Right(calls'[d], fate', crashes')
  <2>1. CASE d = c
    BY <2>1 DEF AtTheDoor
  <2>2. CASE d # c
    <3>1. calls'[d] = calls[d] /\ Right(calls[d], fate, crashes)
      BY <2>2 DEF AtTheDoor, Right
    <3>2. QED
      BY <3>1, RightGoesOn
  <2>3. QED
    BY <2>1, <2>2
<1>3. QED
  BY <1>1, <1>2 DEF AtTheDoor, Right

LEMMA DoorStays ==
    ASSUME AtTheDoor, FatesGoOn, crashes' = crashes, calls' = calls
    PROVE  AtTheDoor'
<1>1. ASSUME NEW d \in Caller PROVE Right(calls'[d], fate', crashes')
  <2>1. Right(calls[d], fate, crashes)
    BY DEF AtTheDoor, Right
  <2>2. QED
    BY <2>1, RightGoesOn
<1>2. QED
  BY <1>1 DEF AtTheDoor, Right

LEMMA AtTheDoorKept ==
    ASSUME Folk, AtTheDoor, Tables, Seats, FolkRecorded, [WeekNext]_weekVars
    PROVE  AtTheDoor'
<1>1. ASSUME NEW c \in Caller, Knock(c) PROVE AtTheDoor'
  <2> DEFINE a == calls[c].name
  <2>1. /\ a \in Bidder /\ a \in Guest
        /\ \/ calls' = Replied(c, "refused")
           \/ calls' = Replied(c, "in") /\ LetIn(a)
    BY <1>1, KnockMoves
  <2>2. FatesGoOn /\ crashes' = crashes
    <3>1. ~Resume
      BY <1>1 DEF Knock, Resume, FairBack
    <3>2. QED
      BY <1>1, <3>1, FatesMove
  <2>3. PICK reply \in {"refused", "in"} : calls' = Replied(c, reply) /\ (reply = "in" => LetIn(a))
    BY <2>1
  <2> DEFINE r == [calls[c] EXCEPT !.at = "inside", !.reply = reply]
  <2>4. calls' = [calls EXCEPT ![c] = r]
    BY <2>3 DEF Replied
  <2>5. calls[c] \in Request
    BY DEF AtTheDoor
  <2>6. r \in Request /\ r.at = "inside" /\ r.reply = reply /\ r.name = a
    BY <2>3, <2>5 DEF Request, Reply
  <2>7. reply = "in" => fate'[a] = "here"
    BY <2>1, <2>3 DEF LetIn, Folk, Known
  <2> HIDE DEF r, a
  <2>8. Right(r, fate', crashes')
    BY <2>1, <2>3, <2>6, <2>7 DEF Right
  <2>9. QED
    BY <2>2, <2>4, <2>6, <2>8, DoorGoesOn
<1>2. ASSUME NEW c \in Caller, Depart(c) PROVE AtTheDoor'
  <2> DEFINE a == calls[c].name
  <2>1. /\ a \in Bidder /\ a \in Guest
        /\ \/ calls' = Replied(c, "refused")
           \/ calls' = Replied(c, "out") /\ fate' = [fate EXCEPT ![a] = "left"]
    BY <1>2, DepartMoves
  <2>2. FatesGoOn /\ crashes' = crashes
    <3>1. ~Resume
      BY <1>2 DEF Depart, Resume, FairBack
    <3>2. QED
      BY <1>2, <3>1, FatesMove
  <2>3. PICK reply \in {"refused", "out"} :
            calls' = Replied(c, reply) /\ (reply = "out" => fate' = [fate EXCEPT ![a] = "left"])
    BY <2>1
  <2> DEFINE r == [calls[c] EXCEPT !.at = "inside", !.reply = reply]
  <2>4. calls' = [calls EXCEPT ![c] = r]
    BY <2>3 DEF Replied
  <2>5. calls[c] \in Request
    BY DEF AtTheDoor
  <2>6. r \in Request /\ r.at = "inside" /\ r.reply = reply /\ r.name = a
    BY <2>3, <2>5 DEF Request, Reply
  <2>7. reply = "out" => fate'[a] = "left"
    BY <2>1, <2>3 DEF Folk, Known
  <2> HIDE DEF r, a
  <2>8. Right(r, fate', crashes')
    BY <2>1, <2>3, <2>6, <2>7 DEF Right
  <2>9. QED
    BY <2>2, <2>4, <2>6, <2>8, DoorGoesOn
<1>3. ASSUME NEW c \in Caller, Call(c) \/ HangUp(c) \/ Answer(c) PROVE AtTheDoor'
  <2>1. FatesGoOn /\ crashes' = crashes
    BY <1>3 DEF Call, HangUp, Answer, Townless, FatesGoOn, peopleVars
  <2>2. NoCall \in Request /\ Right(NoCall, fate', crashes')
    BY DEF NoCall, Request, Right, Verb, Reply
  <2>3. calls[c] \in Request /\ Right(calls[c], fate, crashes)
    BY DEF AtTheDoor, Right
  <2>4. CASE Call(c)
    <3>1. PICK verb \in {"join", "leave"}, a \in week.knocks :
             calls' = [calls EXCEPT ![c] = [NoCall EXCEPT !.at = "knocking", !.verb = verb, !.name = a]]
      BY <2>4 DEF Call
    <3>2. a \in Guest
      BY WeekAssumption DEF Folk
    <3> DEFINE r == [NoCall EXCEPT !.at = "knocking", !.verb = verb, !.name = a]
    <3>3. r \in Request /\ r.at = "knocking" /\ r.name = a /\ r.reply = "none"
      BY <3>1, <3>2 DEF NoCall, Request, Verb, Reply
    <3> HIDE DEF r
    <3>4. Right(r, fate', crashes')
      BY <3>2, <3>3 DEF Right
    <3>5. QED
      BY <2>1, <3>1, <3>3, <3>4, DoorGoesOn DEF r
  <2>5. CASE HangUp(c)
    BY <2>1, <2>2, <2>5, DoorGoesOn DEF HangUp
  <2>6. CASE Answer(c)
    <3> DEFINE said == AnswerFor(c)
               r == [calls[c] EXCEPT !.at = "told", !.told = said]
    <3>1. calls' = [calls EXCEPT ![c] = r]
      BY <2>6 DEF Answer
    <3>2. calls[c].at = "inside" \/ (calls[c].at = "knocking" /\ WeekIsOver)
      BY <2>6 DEF Answer
    <3>3. said = IF calls[c].reply = "none" THEN "closed" ELSE calls[c].reply
      BY <2>3, <3>2 DEF AnswerFor, Right
    <3>4. said \in Reply \cup {"nothing", "closed"}
      BY <2>3, <3>3 DEF Request, Reply
    <3> HIDE DEF said
    <3>5. r \in Request /\ r.at = "told" /\ r.told = said /\ r.name = calls[c].name /\ r.reply = calls[c].reply
      BY <2>3, <3>4 DEF Request
    <3> HIDE DEF r
    <3>6. Right(calls[c], fate', crashes')
      BY <2>1, <2>3, RightGoesOn
    <3>7. Right(r, fate', crashes')
      BY <3>2, <3>3, <3>5, <3>6 DEF Right
    <3>8. QED
      BY <2>1, <3>1, <3>5, <3>7, DoorGoesOn
  <2>7. QED
    BY <1>3, <2>4, <2>5, <2>6
<1>4. CASE VisitFair \/ Walk \/ NextTick \/ CopyBooks \/ WriteRecord \/ Close
  <2>1. calls' = calls /\ crashes' = crashes
    BY <1>4, TownMoves DEF VisitFair, TownGoesOn
  <2>2. ~Resume
    BY <2>1 DEF Resume, Folk
  <2>3. FatesGoOn
    BY <1>4, <2>2, FatesMove DEF WeekNext
  <2>4. QED
    BY <2>1, <2>3, DoorStays
<1>5. CASE Resume
  <2>1. /\ crashes' = crashes + 1
        /\ calls' = [c \in Caller |-> IF calls[c].at = "told" THEN calls[c] ELSE NoCall]
    BY <1>5, ResumeMoves
  <2>2. NoCall \in Request /\ NoCall.at = "away"
    BY DEF NoCall, Request, Verb, Reply
  <2> HIDE DEF NoCall
  <2>3. crashes' # 0
    BY <2>1 DEF Folk
  <2>4. ASSUME NEW c \in Caller PROVE calls'[c] \in Request /\ Right(calls'[c], fate', crashes')
    BY <2>1, <2>2, <2>3 DEF AtTheDoor, Right
  <2>5. calls' \in [Caller -> Request]
    BY <2>1, <2>4
  <2>6. QED
    BY <2>4, <2>5 DEF AtTheDoor, Right
<1>6. CASE UNCHANGED weekVars
  BY <1>6, DoorStays DEF weekVars, fairVars, peopleVars, FatesGoOn
<1>7. QED
  BY <1>1, <1>2, <1>3, <1>4, <1>5, <1>6, WeekSteps

-----------------------------------------------------------------------------
\* Who has a body, and where, decides who is together.
MetAt(present, where, pairs, fates) ==
    /\ Presence(present, where) \subseteq pairs
    /\ \A p \in pairs :
          /\ p[1] \subseteq Bidder /\ \A a \in p[1] : fates[a] # "absent"
          /\ p[1] \subseteq present => p \in Presence(present, where)

LEMMA PresenceIsMet ==
    ASSUME NEW present, present \subseteq Bidder, NEW where, NEW fates, \A a \in present : fates[a] # "absent"
    PROVE  MetAt(present, where, Presence(present, where), fates)
<1>1. ASSUME NEW p \in Presence(present, where)
      PROVE  p[1] \subseteq Bidder /\ \A a \in p[1] : fates[a] # "absent"
  <2>1. PICK a, b \in present : p = <<{a, b}, where[a]>>
    BY PresencePairs
  <2>2. p[1] = {a, b}
    BY <2>1
  <2>3. QED
    BY <2>2
<1>2. QED
  BY <1>1 DEF MetAt

\* A pair of which one has no body any more is not of those who are together.
LEMMA PresenceOfFewer ==
    ASSUME NEW present, NEW fewer, fewer \subseteq present, NEW where, NEW p
    PROVE  p \in Presence(fewer, where) <=> p \in Presence(present, where) /\ p[1] \subseteq fewer
<1>1. ASSUME p \in Presence(fewer, where)
      PROVE  p \in Presence(present, where) /\ p[1] \subseteq fewer
  <2>1. PICK a, b \in fewer : a # b /\ where[a] = where[b] /\ where[a] # "street" /\ p = <<{a, b}, where[a]>>
    BY <1>1, PresencePairs
  <2>2. p[1] = {a, b}
    BY <2>1
  <2>3. p \in Presence(present, where)
    BY <2>1, PresencePairs
  <2>4. QED
    BY <2>2, <2>3
<1>2. ASSUME p \in Presence(present, where), p[1] \subseteq fewer
      PROVE  p \in Presence(fewer, where)
  <2>1. PICK a, b \in present : a # b /\ where[a] = where[b] /\ where[a] # "street" /\ p = <<{a, b}, where[a]>>
    BY <1>2, PresencePairs
  <2>2. p[1] = {a, b}
    BY <2>1
  <2>3. a \in fewer /\ b \in fewer
    BY <1>2, <2>2
  <2>4. QED
    BY <2>1, <2>3, PresencePairs
<1>3. QED
  BY <1>1, <1>2

LEMMA PresenceElsewhere ==
    ASSUME NEW present, NEW where, NEW there, \A a \in present : where[a] = there[a], NEW p
    PROVE  p \in Presence(present, where) <=> p \in Presence(present, there)
BY PresencePairs

LEMMA MetKept ==
    ASSUME Folk, AtTheDoor, Tables, Seats, FolkRecorded, Met, DOMAIN place = Bidder, [WeekNext]_weekVars
    PROVE  Met'
<1>0. MetAt(bodies, place, together, fate)
  BY DEF Met, MetAt
<1> SUFFICES MetAt(bodies', place', together', fate')
  BY DEF Met, MetAt
<1>1. ASSUME FatesGoOn, UNCHANGED <<bodies, place, together>>
      PROVE  MetAt(bodies', place', together', fate')
  BY <1>0, <1>1 DEF MetAt, FatesGoOn
<1>2. ASSUME NEW c \in Caller, Knock(c) PROVE MetAt(bodies', place', together', fate')
  <2> DEFINE a == calls[c].name
  <2>1. a \in Bidder /\ (PeopleStay \/ LetIn(a))
    BY <1>2, KnockMoves
  <2>2. FatesGoOn
    <3>1. ~Resume
      BY <1>2 DEF Knock, Resume, FairBack
    <3>2. QED
      BY <1>2, <3>1, FatesMove
  <2>3. CASE PeopleStay
    BY <1>1, <2>2, <2>3 DEF PeopleStay
  <2>4. CASE LetIn(a)
    <3> HIDE DEF a
    <3>1. /\ fate[a] = "absent" /\ fate' = [fate EXCEPT ![a] = "here"]
          /\ place' = [place EXCEPT ![a] = "home"] /\ bodies' = bodies \cup {a}
          /\ together' = together \cup Presence(bodies', place')
      BY <2>4 DEF LetIn, Seated
    <3>2. a \notin bodies /\ bodies \subseteq Bidder
      BY <3>1 DEF Folk, Embodied
    <3>3. \A x \in bodies : place'[x] = place[x]
      BY <3>1, <3>2
    <3>4. \A x \in bodies' : fate'[x] # "absent"
      BY <2>1, <3>1 DEF Folk, Embodied, Known
    <3>5. MetAt(bodies', place', Presence(bodies', place'), fate')
      <4>1. bodies' \subseteq Bidder
        BY <2>1, <3>1, <3>2
      <4>2. QED
        BY <3>4, <4>1, PresenceIsMet
    <3>6. ASSUME NEW p \in together
          PROVE  /\ p[1] \subseteq Bidder /\ \A x \in p[1] : fate'[x] # "absent"
                 /\ p[1] \subseteq bodies' => p \in Presence(bodies', place')
      <4>1. p[1] \subseteq Bidder /\ \A x \in p[1] : fate[x] # "absent"
        BY <1>0 DEF MetAt
      <4>2. \A x \in p[1] : fate'[x] # "absent"
        BY <2>2, <4>1 DEF FatesGoOn
      <4>3. ASSUME p[1] \subseteq bodies' PROVE p \in Presence(bodies', place')
        <5>1. p[1] \subseteq bodies
          BY <3>1, <4>1, <4>3
        <5>2. p \in Presence(bodies, place)
          BY <1>0, <5>1 DEF MetAt
        <5>3. p \in Presence(bodies, place')
          BY <3>3, <5>2, PresenceElsewhere
        <5>4. bodies \subseteq bodies'
          BY <3>1
        <5>5. QED
          BY <5>3, <5>4, PresenceOfFewer
      <4>4. QED
        BY <4>1, <4>2, <4>3
    <3>7. QED
      BY <3>1, <3>5, <3>6 DEF MetAt
  <2>5. QED
    BY <2>1, <2>3, <2>4
<1>3. ASSUME NEW c \in Caller, Depart(c) PROVE MetAt(bodies', place', together', fate')
  <2>1. UNCHANGED <<place, together>> /\ bodies' \subseteq bodies
    BY <1>3, DepartMoves
  <2>2. FatesGoOn
    <3>1. ~Resume
      BY <1>3 DEF Depart, Resume, FairBack
    <3>2. QED
      BY <1>3, <3>1, FatesMove
  <2>3. Presence(bodies', place') \subseteq Presence(bodies, place)
    BY <2>1, PresenceOfFewer
  <2>4. ASSUME NEW p \in together
        PROVE  /\ p[1] \subseteq Bidder /\ \A x \in p[1] : fate'[x] # "absent"
               /\ p[1] \subseteq bodies' => p \in Presence(bodies', place')
    <3>1. p[1] \subseteq Bidder /\ \A x \in p[1] : fate'[x] # "absent"
      BY <1>0, <2>2 DEF MetAt, FatesGoOn
    <3>2. p[1] \subseteq bodies' => p \in Presence(bodies, place)
      BY <1>0, <2>1 DEF MetAt
    <3>3. QED
      BY <2>1, <3>1, <3>2, PresenceOfFewer
  <2>5. QED
    BY <1>0, <2>1, <2>3, <2>4 DEF MetAt
<1>4. CASE Walk
  <2>1. together' = Presence(bodies', place') /\ bodies' = bodies /\ fate' = fate
    BY <1>4 DEF Walk, peopleVars
  <2>2. bodies' \subseteq Bidder /\ \A x \in bodies' : fate'[x] # "absent"
    BY <2>1 DEF Folk, Embodied
  <2>3. QED
    BY <2>1, <2>2, PresenceIsMet
<1>5. CASE Resume
  <2>1. /\ disk.record # NoFile /\ fate' = disk.record.fate
        /\ bodies' = disk.record.bodies /\ place' = disk.record.place /\ together' = Presence(bodies', place')
    BY <1>5, ResumeMoves
  <2>2. bodies' \subseteq Bidder /\ \A x \in bodies' : fate'[x] # "absent"
    BY <2>1 DEF FolkRecorded, Embodied
  <2>3. QED
    BY <2>1, <2>2, PresenceIsMet
<1>6. ASSUME NEW c \in Caller, Call(c) \/ HangUp(c) \/ Answer(c)
      PROVE  MetAt(bodies', place', together', fate')
  <2>1. UNCHANGED <<bodies, place, together, fate>>
    BY <1>6 DEF Call, HangUp, Answer, Townless, peopleVars
  <2>2. QED
    BY <1>1, <2>1 DEF FatesGoOn
<1>7. CASE VisitFair
  <2>1. Visit /\ UNCHANGED <<bodies, together, crashes>>
    BY <1>7 DEF VisitFair
  <2>2. place' = place /\ Moves
    BY <2>1, VisitMoves
  <2>3. FatesGoOn
    BY <2>2 DEF Moves, FatesGoOn
  <2>4. QED
    BY <1>1, <2>1, <2>2, <2>3
<1>8. CASE NextTick \/ CopyBooks \/ WriteRecord \/ Close
  <2>1. UNCHANGED <<bodies, place, together, fate>>
    BY <1>8 DEF NextTick, CopyBooks, WriteRecord, Close, peopleVars
  <2>2. QED
    BY <1>1, <2>1 DEF FatesGoOn
<1>9. CASE UNCHANGED weekVars
  <2>1. UNCHANGED <<bodies, place, together, fate>>
    BY <1>9 DEF weekVars, fairVars, peopleVars
  <2>2. QED
    BY <1>1, <2>1 DEF FatesGoOn
<1>10. QED
  BY <1>2, <1>3, <1>4, <1>5, <1>6, <1>7, <1>8, <1>9, WeekSteps

-----------------------------------------------------------------------------
Places ==
    /\ DOMAIN place = Bidder
    /\ disk.record # NoFile => DOMAIN disk.record.place = Bidder

LEMMA PlacesKept ==
    ASSUME Folk, AtTheDoor, Tables, Seats, FolkRecorded, Places, [WeekNext]_weekVars
    PROVE  Places'
<1>1. DOMAIN place' = Bidder
  <2>1. ASSUME NEW c \in Caller, Knock(c) PROVE DOMAIN place' = Bidder
    BY <2>1, KnockMoves DEF PeopleStay, LetIn, Places
  <2>2. ASSUME NEW c \in Caller, Depart(c) PROVE DOMAIN place' = Bidder
    BY <2>2, DepartMoves DEF Places
  <2>3. ASSUME NEW c \in Caller, Call(c) \/ HangUp(c) \/ Answer(c) PROVE DOMAIN place' = Bidder
    BY <2>3 DEF Call, HangUp, Answer, Townless, Places
  <2>4. CASE VisitFair
    BY <2>4, VisitMoves DEF VisitFair, Places
  <2>5. CASE Walk
    BY <2>5 DEF Walk, Walked
  <2>6. CASE NextTick \/ CopyBooks \/ WriteRecord \/ Close
    BY <2>6 DEF NextTick, CopyBooks, WriteRecord, Close, Places
  <2>7. CASE Resume
    BY <2>7, ResumeMoves DEF Places
  <2>8. CASE UNCHANGED weekVars
    BY <2>8 DEF weekVars, fairVars, Places
  <2>9. QED
    BY <2>1, <2>2, <2>3, <2>4, <2>5, <2>6, <2>7, <2>8, WeekSteps
<1>2. disk'.record # NoFile => DOMAIN disk'.record.place = Bidder
  <2>1. CASE disk' = disk
    BY <2>1 DEF Places
  <2>2. CASE CopyBooks
    <3>1. disk'.record = disk.record
      BY <2>2 DEF CopyBooks, FolkRecorded
    <3>2. QED
      BY <3>1 DEF Places
  <2>3. CASE WriteRecord
    <3>1. disk'.record = Record
      BY <2>3 DEF WriteRecord, FolkRecorded
    <3>2. QED
      BY <3>1, RecordFields DEF Places
  <2>4. QED
    BY <2>1, <2>2, <2>3, DiskMoves
<1>3. QED
  BY <1>1, <1>2 DEF Places

-----------------------------------------------------------------------------
LEMMA StayPaid ==
    ASSUME NEW until \in Nat, NEW now \in Nat, NEW n \in Int
    PROVE  /\ Ticks(n) \in Nat
           /\ now + Ticks(n) > until =>
                 Remaining(now + Ticks(n), now) =
                    IF Ticks(n) > Remaining(until, now) THEN Ticks(n) ELSE Remaining(until, now)
           /\ ~ (now + Ticks(n) > until) =>
                 Remaining(until, now) =
                    IF Ticks(n) > Remaining(until, now) THEN Ticks(n) ELSE Remaining(until, now)
<1>1. Ticks(n) \in Nat /\ Ticks(n) > 0
  <2>1. MaxStayTicks \in Nat \ {0}
    BY FairAssumption, Zenon
  <2>2. QED
    BY <2>1 DEF Ticks
<1>2. QED
  BY <1>1 DEF Remaining

\* A stay bought at the office is the later of two, and so is what it paid for.
LEMMA ChargedStays ==
    ASSUME Stood(held, paid, bodies, tick), NEW a \in bodies, bodies \subseteq Bidder,
           NEW wanted, wanted # None => wanted[1] \in Int, NEW purse, ChargeStays(a, wanted, purse)
    PROVE  Stood(held', paid', bodies, tick)
<1>1. CASE UNCHANGED <<held, paid>>
  BY <1>1
<1>2. CASE CanStay(a, wanted, purse)
  <2> DEFINE n == wanted[1]
  <2>1. n \in Int
    BY <1>2 DEF CanStay
  <2>2. /\ held' = [held EXCEPT ![a] = Extended(a, n)]
        /\ paid' = IF Ticks(n) > paid[a] THEN [paid EXCEPT ![a] = Ticks(n)] ELSE paid
    BY <1>2 DEF ChargeStays
  <2> HIDE DEF n
  <2>3. held \in [Bidder -> Nat] /\ paid \in [Bidder -> Nat] /\ tick \in Nat /\ a \in Bidder
        /\ paid[a] = Remaining(held[a], tick)
    BY DEF Stood
  <2>4. Ticks(n) \in Nat
    BY <2>1, <2>3, StayPaid
  <2>5. Extended(a, n) \in Nat
    BY <2>3, <2>4 DEF Extended
  <2>6. held' \in [Bidder -> Nat] /\ paid' \in [Bidder -> Nat]
    BY <2>2, <2>3, <2>4, <2>5
  <2>7. paid'[a] = Remaining(held'[a], tick)
    <3>1. paid'[a] = IF Ticks(n) > paid[a] THEN Ticks(n) ELSE paid[a]
      BY <2>2, <2>3
    <3>2. held'[a] = IF tick + Ticks(n) > held[a] THEN tick + Ticks(n) ELSE held[a]
      BY <2>2, <2>3 DEF Extended
    <3>3. QED
      BY <2>1, <2>3, <3>1, <3>2, StayPaid
  <2>8. \A x \in Bidder \ {a} : held'[x] = held[x] /\ paid'[x] = paid[x]
    BY <2>2, <2>3
  <2>9. QED
    BY <2>3, <2>6, <2>7, <2>8 DEF Stood
<1>3. QED
  BY <1>1, <1>2 DEF ChargeStays

LEMMA StandingsKept ==
    ASSUME Folk, AtTheDoor, Tables, Seats, FolkRecorded, Standings, [WeekNext]_weekVars
    PROVE  Standings'
<1> DEFINE Now == IF stage = "visit" THEN tick + 1 ELSE tick
<1>0. Stood(held, paid, bodies, Now) /\ tick \in Nat
  BY DEF Standings
<1>1. Stood(held', paid', bodies', Now') /\ tick' \in Nat
  <2>1. ASSUME NEW c \in Caller, Knock(c) PROVE Stood(held', paid', bodies', Now') /\ tick' \in Nat
    <3> DEFINE a == calls[c].name
    <3>1. /\ a \in Bidder /\ UNCHANGED <<tick, held, paid>> /\ stage' = "arrive"
          /\ bodies' = bodies \/ (bodies' = bodies \cup {a} /\ fate[a] = "absent")
      BY <2>1, KnockMoves DEF PeopleStay, LetIn
    <3>2. stage # "visit"
      BY <2>1 DEF Knock
    <3> HIDE DEF a
    <3>3. CASE bodies' = bodies
      BY <1>0, <3>1, <3>2, <3>3 DEF Stood
    <3>4. CASE bodies' = bodies \cup {a} /\ fate[a] = "absent"
      <4>1. a \notin bodies
        BY <3>4 DEF Folk, Embodied
      <4>2. held[a] = 0 /\ paid[a] = 0
        BY <1>0, <3>1, <4>1 DEF Stood
      <4>3. paid[a] = Remaining(held[a], tick)
        BY <1>0, <4>2 DEF Remaining
      <4>4. Now = tick /\ Now' = tick
        BY <3>1, <3>2
      <4>5. ASSUME NEW x \in Bidder
            PROVE  IF x \in bodies' THEN paid[x] = Remaining(held[x], tick) ELSE held[x] = 0 /\ paid[x] = 0
        BY <1>0, <3>4, <4>3, <4>4 DEF Stood
      <4>6. QED
        BY <1>0, <3>1, <4>4, <4>5 DEF Stood
    <3>5. QED
      BY <3>1, <3>3, <3>4
  <2>2. ASSUME NEW c \in Caller, Depart(c) PROVE Stood(held', paid', bodies', Now') /\ tick' \in Nat
    <3> DEFINE a == calls[c].name
    <3>1. /\ a \in Bidder /\ UNCHANGED tick /\ stage' = "leave" /\ stage \in {"door", "arrive", "leave"}
          /\ \/ UNCHANGED <<held, paid, bodies>>
             \/ /\ bodies' = bodies \ {a}
                /\ held' = [held EXCEPT ![a] = 0] /\ paid' = [paid EXCEPT ![a] = 0]
      BY <2>2, DepartMoves
    <3> HIDE DEF a
    <3>2. Now = tick /\ Now' = tick
      BY <3>1
    <3>3. QED
      BY <1>0, <3>1, <3>2 DEF Stood
  <2>3. CASE Walk
    <3>1. /\ stage \in {"door", "arrive", "leave"} /\ stage' = "visit" /\ UNCHANGED <<tick, held, bodies>>
          /\ paid' = [a \in Bidder |-> IF a \in bodies /\ Hold(a) THEN paid[a] - 1 ELSE paid[a]]
      BY <2>3 DEF Walk, peopleVars
    <3>2. Now = tick /\ Now' = tick + 1
      BY <3>1
    <3>3. held \in [Bidder -> Nat] /\ paid \in [Bidder -> Nat]
      BY <1>0 DEF Stood
    <3>4. ASSUME NEW a \in Bidder
          PROVE  paid'[a] \in Nat /\ IF a \in bodies THEN paid'[a] = Remaining(held[a], tick + 1)
                                                     ELSE held[a] = 0 /\ paid'[a] = 0
      <4>1. held[a] \in Nat /\ paid[a] \in Nat /\ tick \in Nat
        BY <1>0, <3>3
      <4>2. paid'[a] = IF a \in bodies /\ held[a] >= tick + 1 THEN paid[a] - 1 ELSE paid[a]
        BY <3>1 DEF Hold
      <4>3. IF a \in bodies THEN paid[a] = Remaining(held[a], tick) ELSE held[a] = 0 /\ paid[a] = 0
        BY <1>0, <3>2 DEF Stood
      <4>4. QED
        BY <4>1, <4>2, <4>3 DEF Remaining
    <3>5. paid' \in [Bidder -> Nat]
      BY <3>1, <3>4
    <3>6. tick + 1 \in Nat
      BY <1>0
    <3>7. QED
      BY <1>0, <3>1, <3>2, <3>3, <3>4, <3>5, <3>6 DEF Stood
  <2>4. CASE VisitFair
    <3>1. Visit /\ bodies' = bodies
      BY <2>4 DEF VisitFair
    <3>2. CASE OpenOffice \/ SweepRefused
      <4>1. /\ stage = "visit" /\ stage' # "visit"
            /\ tick' = tick + 1 /\ UNCHANGED <<held, paid>>
        BY <3>2 DEF OpenOffice, SweepRefused
      <4>2. QED
        BY <1>0, <3>1, <4>1 DEF Stood
    <3>3. CASE AtOffice \/ OfficeRefused
      <4> DEFINE a == Head(line)
      <4>1. stage = "office" /\ stage' \in {"office", "stuck"} /\ tick' = tick /\ line # <<>>
        BY <3>3 DEF AtOffice, OfficeRefused
      <4>2. a \in bodies /\ bodies \subseteq Bidder
        <5>1. line \in Seq(Bidder) /\ \A i \in DOMAIN line : fate[line[i]] = "here"
          BY <4>1 DEF Folk
        <5>2. QED
          BY <4>1, <5>1, LineGoesOn DEF Folk, Embodied
      <4>3. UNCHANGED <<held, paid>>
            \/ \E wanted \in Maybe(week.stays) : \E purse : ChargeStays(a, wanted, purse)
        BY <3>3 DEF AtOffice, OfficeRefused
      <4>4. Stood(held, paid, bodies, tick)
        BY <1>0, <4>1
      <4>5. \A wanted \in Maybe(week.stays) : wanted # None => wanted[1] \in Int
        <5>1. week.stays \subseteq Int
          BY FairAssumption DEF Folk
        <5>2. QED
          BY <5>1 DEF Maybe, None
      <4> HIDE DEF a
      <4>6. Stood(held', paid', bodies, tick)
        BY <4>2, <4>3, <4>4, <4>5, ChargedStays
      <4>7. QED
        BY <1>0, <3>1, <4>1, <4>6
    <3>4. ASSUME UNCHANGED <<tick, held, paid>>, stage # "visit"
          PROVE  Stood(held', paid', bodies', Now') /\ tick' \in Nat
      <4>1. stage' # "visit"
        BY <3>1, VisitStages
      <4>2. QED
        BY <1>0, <3>1, <3>4, <4>1
    <3>5. CASE AtSquare \/ SquareRefused \/ LeaveOffice \/ LeaveSquare \/ EndOfVisit
      BY <3>4, <3>5 DEF AtSquare, SquareRefused, LeaveOffice, LeaveSquare, EndOfVisit
    <3>6. CASE CloseWindow \/ DealCards \/ AtSitting \/ AwardCard \/ ClearTable
      BY <3>4, <3>6 DEF CloseWindow, DealCards, AtSitting, AwardCard, ClearTable
    <3>7. QED
      BY <3>1, <3>2, <3>3, <3>5, <3>6 DEF Visit
  <2>5. ASSUME NEW c \in Caller, Call(c) \/ HangUp(c) \/ Answer(c)
        PROVE  Stood(held', paid', bodies', Now') /\ tick' \in Nat
    <3>1. UNCHANGED <<held, paid, bodies, tick, stage>>
      BY <2>5 DEF Call, HangUp, Answer, Townless
    <3>2. QED
      BY <1>0, <3>1
  <2>6. CASE NextTick \/ CopyBooks \/ WriteRecord \/ Close
    <3>1. UNCHANGED <<held, paid, bodies, tick>> /\ stage # "visit" /\ stage' # "visit"
      BY <2>6 DEF NextTick, CopyBooks, WriteRecord, Close
    <3>2. QED
      BY <1>0, <3>1
  <2>7. CASE Resume
    <3> DEFINE r == disk.record
    <3>1. r # NoFile /\ tick' = r.tick /\ held' = r.held /\ paid' = r.paid /\ bodies' = r.bodies /\ stage' # "visit"
      BY <2>7, ResumeMoves
    <3>2. Stood(r.held, r.paid, r.bodies, r.tick)
      BY <3>1 DEF Standings
    <3>3. QED
      BY <3>1, <3>2 DEF Stood
  <2>8. CASE UNCHANGED weekVars
    <3>1. UNCHANGED <<held, paid, bodies, tick, stage>>
      BY <2>8 DEF weekVars, fairVars
    <3>2. QED
      BY <1>0, <3>1
  <2>9. QED
    BY <2>1, <2>2, <2>3, <2>4, <2>5, <2>6, <2>7, <2>8, WeekSteps
<1>2. disk'.record # NoFile =>
          Stood(disk'.record.held, disk'.record.paid, disk'.record.bodies, disk'.record.tick)
  <2>1. CASE disk' = disk
    BY <2>1 DEF Standings
  <2>2. CASE CopyBooks
    <3>1. disk'.record = disk.record
      BY <2>2 DEF CopyBooks, FolkRecorded
    <3>2. QED
      BY <3>1 DEF Standings
  <2>3. CASE WriteRecord
    <3>1. disk'.record = Record /\ stage = "copied"
      BY <2>3 DEF WriteRecord, FolkRecorded
    <3>2. Now = tick
      BY <3>1
    <3>3. QED
      BY <1>0, <3>1, <3>2, RecordFields
  <2>4. QED
    BY <2>1, <2>2, <2>3, DiskMoves
<1>3. QED
  BY <1>1, <1>2 DEF Standings

-----------------------------------------------------------------------------
\* The next pitch goes to an owner more, and a stall is sold while there is one.
LEMMA BuyKeepsGround ==
    ASSUME Grounds(owned, stock, pitches, fate), NEW a \in Bidder, NEW lines, lines \in Seq(ToSet(lines)),
           \A o \in ToSet(lines) : o.item = "stall" => pitches > 0,
           NEW wish, NEW purse, Buy(a, lines, wish, purse)
    PROVE  Grounds(owned', stock, pitches', fate)
<1> DEFINE offers == IF wish = None THEN <<>> ELSE Answers(lines, wish[1])
           bought == CanBuy(a, lines, wish, purse)
           item == offers[1].item
<1>1. CASE ~bought
  <2>1. UNCHANGED <<owned, pitches>>
    BY <1>1 DEF Buy
  <2>2. QED
    BY <2>1
<1>2. CASE bought
  <2>1. /\ owned' = [owned EXCEPT ![a] = @ \cup {item}]
        /\ pitches' = IF item = "stall" THEN pitches - 1 ELSE pitches
        /\ item \notin owned[a]
    BY <1>2 DEF Buy, CanBuy
  <2>0. item = "stall" => pitches > 0
    <3>1. wish # None /\ Answers(lines, wish[1]) # <<>>
      BY <1>2 DEF CanBuy
    <3>2. QED
      BY <3>1, AnswersAreLines
  <2> HIDE DEF offers, bought, item
  <2>2. /\ DOMAIN owned = Bidder /\ DOMAIN stock = Bidder /\ IsFiniteSet(Owners(owned))
        /\ pitches \in Nat /\ pitches + Cardinality(Owners(owned)) = Pitches
    BY DEF Grounds
  <2>3. DOMAIN owned' = Bidder /\ \A x \in Bidder : owned[x] \subseteq owned'[x]
    BY <2>1, <2>2
  <2>4. CASE item = "stall"
    <3>1. Owners(owned') = Owners(owned) \cup {a} /\ a \notin Owners(owned)
      BY <2>1, <2>2, <2>4 DEF Owners
    <3>2. IsFiniteSet(Owners(owned')) /\ Cardinality(Owners(owned')) = Cardinality(Owners(owned)) + 1
      BY <2>2, <3>1, FS_AddElement
    <3>3. Cardinality(Owners(owned)) \in Nat
      BY <2>2, FS_CardinalityType
    <3>4. pitches' = pitches - 1 /\ pitches > 0
      BY <2>0, <2>1, <2>4
    <3>5. pitches' \in Nat /\ pitches' + Cardinality(Owners(owned')) = Pitches
      BY <2>2, <3>2, <3>3, <3>4
    <3>6. QED
      BY <2>2, <2>3, <3>2, <3>5 DEF Grounds
  <2>5. CASE item # "stall"
    <3>1. Owners(owned') = Owners(owned) /\ pitches' = pitches
      BY <2>1, <2>2, <2>5 DEF Owners
    <3>2. QED
      BY <2>2, <2>3, <3>1 DEF Grounds
  <2>6. QED
    BY <2>4, <2>5
<1> HIDE DEF bought
<1>3. QED
  BY <1>1, <1>2

\* What is put up is put up by the owner of a stall, and is no stall.
LEMMA StockKeepsGround ==
    ASSUME Grounds(owned', stock, pitches', fate), NEW a \in Bidder, Here(a), NEW ware, Stock(a, ware)
    PROVE  Grounds(owned', stock', pitches', fate)
<1> DEFINE refused == \/ ware = None \/ "stall" \notin owned'[a] \/ stock[a] = ware
                      \/ ware[1].item \in {"notebook", "stall"}
<1>1. stock' = IF refused THEN stock ELSE [stock EXCEPT ![a] = ware]
  BY DEF Stock
<1>2. CASE refused
  <2>1. stock' = stock
    BY <1>1, <1>2
  <2>2. QED
    BY <2>1
<1>3. CASE ~refused
  <2>1. stock' = [stock EXCEPT ![a] = ware] /\ "stall" \in owned'[a] /\ ware[1].item \notin {"notebook", "stall"}
    BY <1>1, <1>3
  <2>2. DOMAIN stock = Bidder /\ fate[a] # "left"
    BY DEF Grounds, Here
  <2>3. ASSUME NEW x \in Bidder, stock'[x] # None
        PROVE  stock'[x][1].item \notin {"notebook", "stall"} /\ "stall" \in owned'[x] /\ fate[x] # "left"
    <3>1. CASE x = a
      BY <2>1, <2>2, <3>1
    <3>2. CASE x # a
      <4>1. stock'[x] = stock[x]
        BY <2>1, <2>2, <3>2
      <4>2. QED
        BY <2>3, <4>1 DEF Grounds
    <3>3. QED
      BY <3>1, <3>2
  <2>4. QED
    BY <2>1, <2>2, <2>3 DEF Grounds
<1> HIDE DEF refused
<1>4. QED
  BY <1>2, <1>3

\* A turn at the office or on the square.
LEMMA TurnKeepsGround ==
    ASSUME Folk, Tables, Grounds(owned, stock, pitches, fate), AtOffice \/ AtSquare
    PROVE  Grounds(owned', stock', pitches', fate')
<1> DEFINE a == Head(line)
<1>1. a \in Bidder /\ Here(a)
  <2>1. line \in Seq(Bidder) /\ line # <<>> /\ \A i \in DOMAIN line : fate[line[i]] = "here"
    BY DEF Folk, AtOffice, AtSquare
  <2>2. QED
    BY <2>1, LineGoesOn DEF Here
<1>2. fate' = fate
  BY DEF AtOffice, AtSquare
<1>3. \/ UNCHANGED <<owned, pitches, stock>>
      \/ /\ \E wish, purse : Buy(a, catalogue, wish, purse) \/ Buy(a, wares(a), wish, purse)
         /\ \E ware \in Lines : Stock(a, ware)
  <2>1. CASE AtOffice
    BY <2>1 DEF AtOffice
  <2>2. CASE AtSquare
    BY <2>2 DEF AtSquare
  <2>3. QED
    BY <2>1, <2>2
<1>4. CASE UNCHANGED <<owned, pitches, stock>>
  BY <1>2, <1>4
<1> HIDE DEF a
<1>5. ASSUME NEW wish, NEW purse, Buy(a, catalogue, wish, purse) \/ Buy(a, wares(a), wish, purse),
             NEW ware, Stock(a, ware)
      PROVE  Grounds(owned', stock', pitches', fate')
  <2>1. catalogue \in Seq(ToSet(catalogue)) /\ wares(a) \in Seq(ToSet(wares(a)))
    BY CatalogueLines, WaresLines DEF Folk, Known
  <2>2. (\A o \in ToSet(catalogue) : o.item = "stall" => pitches > 0)
        /\ \A o \in ToSet(wares(a)) : o.item # "stall"
    <3>1. ASSUME NEW o \in ToSet(wares(a)) PROVE o.item # "stall"
      <4>1. PICK x \in Bidder : stock[x] # None /\ o.item = stock[x][1].item
        BY WaresLines DEF Folk, Known
      <4>2. QED
        BY <4>1 DEF Grounds
    <3>2. QED
      BY <3>1, CatalogueLines
  <2>3. Grounds(owned', stock, pitches', fate)
    BY <1>1, <1>5, <2>1, <2>2, BuyKeepsGround
  <2>4. QED
    BY <1>1, <1>2, <1>5, <2>3, StockKeepsGround
<1>6. QED
  BY <1>3, <1>4, <1>5

\* Nobody who does not leave is any nearer to having left.
LEMMA FatesKeepGround ==
    ASSUME Grounds(owned, stock, pitches, fate), UNCHANGED <<owned, stock, pitches>>,
           \A a \in Bidder : fate'[a] = "left" => fate[a] = "left"
    PROVE  Grounds(owned', stock', pitches', fate')
<1>1. \A a \in Bidder : stock[a] # None => fate'[a] # "left"
  BY DEF Grounds
<1>2. Grounds(owned, stock, pitches, fate')
  BY <1>1 DEF Grounds
<1>3. QED
  BY <1>2

LEMMA GroundKept ==
    ASSUME Folk, AtTheDoor, Tables, Seats, FolkRecorded, Ground, [WeekNext]_weekVars
    PROVE  Ground'
<1>0. Grounds(owned, stock, pitches, fate)
  BY DEF Ground
<1>1. Grounds(owned', stock', pitches', fate')
  <2>1. ASSUME NEW c \in Caller, Knock(c) PROVE Grounds(owned', stock', pitches', fate')
    <3> DEFINE a == calls[c].name
    <3>1. a \in Bidder /\ UNCHANGED <<owned, stock, pitches>>
          /\ (fate' = fate \/ fate' = [fate EXCEPT ![a] = "here"])
      BY <2>1, KnockMoves DEF PeopleStay, LetIn
    <3> HIDE DEF a
    <3>2. \A x \in Bidder : fate'[x] = "left" => fate[x] = "left"
      BY <3>1 DEF Tables
    <3>3. QED
      BY <1>0, <3>1, <3>2, FatesKeepGround
  <2>2. ASSUME NEW c \in Caller, Depart(c) PROVE Grounds(owned', stock', pitches', fate')
    <3> DEFINE a == calls[c].name
    <3>1. a \in Bidder /\ UNCHANGED <<owned, pitches>>
          /\ \/ UNCHANGED <<fate, stock>>
             \/ fate' = [fate EXCEPT ![a] = "left"] /\ stock' = [stock EXCEPT ![a] = None]
      BY <2>2, DepartMoves
    <3> HIDE DEF a
    <3>2. CASE UNCHANGED <<fate, stock>>
      BY <1>0, <3>1, <3>2
    <3>3. CASE fate' = [fate EXCEPT ![a] = "left"] /\ stock' = [stock EXCEPT ![a] = None]
      <4>1. DOMAIN stock' = Bidder /\ DOMAIN stock = Bidder /\ DOMAIN fate = Bidder
        BY <1>0, <3>3 DEF Grounds, Tables
      <4>2. ASSUME NEW x \in Bidder, stock'[x] # None
            PROVE  stock'[x] = stock[x] /\ fate'[x] = fate[x]
        BY <3>1, <3>3, <4>1, <4>2
      <4>3. QED
        BY <1>0, <3>1, <4>1, <4>2 DEF Grounds
    <3>4. QED
      BY <3>1, <3>2, <3>3
  <2>3. CASE VisitFair
    <3>1. Visit
      BY <2>3 DEF VisitFair
    <3>2. Moves
      BY <3>1, VisitMoves
    <3>3. \A x \in Bidder : fate'[x] = "left" => fate[x] = "left"
      BY <3>2 DEF Moves
    <3>4. AtOffice \/ AtSquare \/ UNCHANGED <<owned, stock, pitches>>
      <4>1. CASE OpenOffice \/ SweepRefused \/ OfficeRefused \/ LeaveOffice \/ SquareRefused \/ LeaveSquare
        BY <4>1 DEF OpenOffice, SweepRefused, OfficeRefused, LeaveOffice, SquareRefused, LeaveSquare, shopVars
      <4>2. CASE CloseWindow \/ EndOfVisit \/ DealCards \/ AtSitting \/ AwardCard \/ ClearTable
        BY <4>2 DEF CloseWindow, EndOfVisit, DealCards, AtSitting, AwardCard, ClearTable, shopVars
      <4>3. QED
        BY <3>1, <4>1, <4>2 DEF Visit
    <3>5. QED
      BY <1>0, <3>3, <3>4, TurnKeepsGround, FatesKeepGround
  <2>4. ASSUME NEW c \in Caller, Call(c) \/ HangUp(c) \/ Answer(c)
        PROVE  Grounds(owned', stock', pitches', fate')
    <3>1. UNCHANGED <<owned, stock, pitches, fate>>
      BY <2>4 DEF Call, HangUp, Answer, Townless, shopVars, peopleVars
    <3>2. QED
      BY <1>0, <3>1
  <2>5. CASE Walk \/ NextTick \/ CopyBooks \/ WriteRecord \/ Close
    <3>1. UNCHANGED <<owned, stock, pitches, fate>>
      BY <2>5, TownMoves DEF TownGoesOn
    <3>2. QED
      BY <1>0, <3>1
  <2>6. CASE Resume
    BY <2>6, ResumeMoves DEF Ground
  <2>7. CASE UNCHANGED weekVars
    <3>1. UNCHANGED <<owned, stock, pitches, fate>>
      BY <2>7 DEF weekVars, fairVars, shopVars, peopleVars
    <3>2. QED
      BY <1>0, <3>1
  <2>8. QED
    BY <2>1, <2>2, <2>3, <2>4, <2>5, <2>6, <2>7, WeekSteps
<1>2. disk'.record # NoFile =>
          Grounds(disk'.record.owned, disk'.record.stock, disk'.record.pitches, disk'.record.fate)
  <2>1. CASE disk' = disk
    BY <2>1 DEF Ground
  <2>2. CASE CopyBooks
    <3>1. disk'.record = disk.record
      BY <2>2 DEF CopyBooks, FolkRecorded
    <3>2. QED
      BY <3>1 DEF Ground
  <2>3. CASE WriteRecord
    <3>1. disk'.record = Record
      BY <2>3 DEF WriteRecord, FolkRecorded
    <3>2. QED
      BY <1>0, <3>1, RecordFields
  <2>4. QED
    BY <2>1, <2>2, <2>3, DiskMoves
<1>3. QED
  BY <1>1, <1>2 DEF Ground

-----------------------------------------------------------------------------
WeekInv == Folk /\ FolkRecorded /\ Seats /\ AtTheDoor /\ Places /\ Met /\ Standings /\ Ground

LEMMA InvTables ==
    ASSUME WeekInv
    PROVE  Tables
BY DEF WeekInv, Folk, Known, Standings, Stood, Ground, Grounds, Tables

LEMMA WeekBegins ==
    ASSUME WeekInit
    PROVE  WeekInv
<1> DEFINE seated == ToSet(Cast)
<1>1. Cast \in Seq(Bidder) /\ seated \subseteq Bidder /\ seated = {Cast[i] : i \in DOMAIN Cast}
  <2>1. Cast \in Seq(Bidder)
    BY FairAssumption
  <2>2. QED
    BY <2>1 DEF ToSet
<1>2. /\ week \in Week /\ stage = "door" /\ line = <<>> /\ roster = Cast /\ crashes = 0 /\ tick = 0
      /\ fate = [a \in Bidder |-> IF a \in seated THEN "here" ELSE "absent"]
      /\ accounts = [a \in Bidder |-> IF a \in seated THEN "open" ELSE "absent"]
      /\ balance = [a \in Bidder |-> IF a \in seated THEN Grant ELSE 0]
      /\ held = [a \in Bidder |-> 0] /\ paid = [a \in Bidder |-> 0]
      /\ owned = [a \in Bidder |-> {}] /\ stock = [a \in Bidder |-> None] /\ pitches = Pitches
      /\ place = [a \in Bidder |-> IF a \in seated THEN "home" ELSE "street"]
      /\ bodies = seated
      /\ together = {<<{a, b}, "home">> : a \in bodies, b \in bodies} \ {<<{a}, "home">> : a \in bodies}
      /\ calls = [c \in Caller |-> NoCall]
      /\ disk = [books |-> NoFile, record |-> NoFile]
  BY DEF WeekInit, FairInit
<1> HIDE DEF seated
<1>3. Folk
  <2>1. \A a \in seated : \E i \in DOMAIN Cast : Cast[i] = a
    BY <1>1
  <2>2. Known(roster, fate)
    BY <1>1, <1>2, <2>1 DEF Known, Fates
  <2>3. Embodied(bodies, fate) /\ InBooks(accounts, fate)
    BY <1>1, <1>2 DEF Embodied, InBooks
  <2>4. line \in Seq(Bidder)
    BY <1>2
  <2>5. QED
    BY <1>2, <2>2, <2>3, <2>4 DEF Folk
<1>4. FolkRecorded /\ Seats
  BY <1>2 DEF FolkRecorded, Seats
<1>5. AtTheDoor
  BY <1>2 DEF AtTheDoor, NoCall, Request, Verb, Reply
<1>6. Places
  BY <1>2 DEF Places
<1>7. Met
  <2>1. \A a \in bodies : place[a] = "home" /\ a \in Bidder /\ fate[a] = "here"
    BY <1>1, <1>2
  <2>2. ASSUME NEW p \in Presence(bodies, place) PROVE p \in together
    <3>1. PICK a, b \in bodies : a # b /\ place[a] = place[b] /\ p = <<{a, b}, place[a]>>
      BY PresencePairs
    <3>2. p = <<{a, b}, "home">>
      BY <2>1, <3>1
    <3>3. \A x \in bodies : p # <<{x}, "home">>
      BY <3>1, <3>2
    <3>4. /\ p \in {<<{x, y}, "home">> : x \in bodies, y \in bodies}
          /\ p \notin {<<{x}, "home">> : x \in bodies}
      BY <3>1, <3>2, <3>3
    <3>5. QED
      BY <1>2, <3>4
  <2>3. ASSUME NEW p \in together
        PROVE  /\ p[1] \subseteq Bidder /\ \A a \in p[1] : fate[a] # "absent"
               /\ p \in Presence(bodies, place)
    <3>1. PICK a, b \in bodies : p = <<{a, b}, "home">>
      BY <1>2
    <3>2. \A x \in bodies : p # <<{x}, "home">>
      BY <1>2
    <3>3. a # b
      BY <3>1, <3>2
    <3>4. place[a] = "home" /\ place[b] = "home"
      BY <2>1
    <3>5. p \in Presence(bodies, place)
      BY <3>1, <3>3, <3>4, PresencePairs
    <3>6. p[1] = {a, b}
      BY <3>1
    <3>7. QED
      BY <2>1, <3>5, <3>6
  <2>4. QED
    BY <2>2, <2>3 DEF Met
<1>8. Standings
  <2>1. Remaining(0, 0) = 0
    BY DEF Remaining
  <2>2. Stood(held, paid, bodies, tick)
    BY <1>2, <2>1 DEF Stood
  <2>3. QED
    BY <1>2, <2>2 DEF Standings
<1>9. Ground
  <2>1. Owners(owned) = {}
    BY <1>2 DEF Owners
  <2>2. IsFiniteSet(Owners(owned)) /\ Cardinality(Owners(owned)) = 0
    BY <2>1, FS_EmptySet
  <2>3. Pitches \in Nat
    BY FairAssumption, Zenon
  <2>4. Grounds(owned, stock, pitches, fate)
    BY <1>2, <2>2, <2>3 DEF Grounds
  <2>5. QED
    BY <1>2, <2>4 DEF Ground
<1>10. QED
  BY <1>3, <1>4, <1>5, <1>6, <1>7, <1>8, <1>9 DEF WeekInv

LEMMA WeekStep ==
    ASSUME WeekInv, [WeekNext]_weekVars
    PROVE  WeekInv'
<1>1. Tables
  BY InvTables
<1>2. Folk'
  BY <1>1, FolkKept DEF WeekInv
<1>3. FolkRecorded'
  BY RecordedKept DEF WeekInv, Standings
<1>4. Seats'
  BY SeatsKept DEF WeekInv
<1>5. AtTheDoor'
  BY <1>1, AtTheDoorKept DEF WeekInv
<1>6. Places'
  BY <1>1, PlacesKept DEF WeekInv
<1>7. Met'
  <2>1. DOMAIN place = Bidder
    BY DEF WeekInv, Places
  <2>2. QED
    BY <1>1, <2>1, MetKept DEF WeekInv
<1>8. Standings'
  BY <1>1, StandingsKept DEF WeekInv
<1>9. Ground'
  BY <1>1, GroundKept DEF WeekInv
<1>10. QED
  BY <1>2, <1>3, <1>4, <1>5, <1>6, <1>7, <1>8, <1>9 DEF WeekInv

\* The fair in its town never leaves its invariant: the people agree with the
\* books, a stay with what was paid for it, the ground with its owners, the
\* answers at the door with what was done there, and those who are together
\* with where they stand - in the world and in its record.
THEOREM WeekSafe == WeekSpec => []WeekInv
<1>1. WeekInit => WeekInv
  BY WeekBegins
<1>2. WeekInv /\ [WeekNext]_weekVars => WeekInv'
  BY WeekStep
<1>3. QED
  BY <1>1, <1>2, PTL DEF WeekSpec

\* A stay is what was paid for (fair.go:778-802, 849-855): however long the
\* stays, however they are renewed, and through every kill.
THEOREM StaysArePaidFor == WeekSpec => []StandingIsPaidFor
<1>1. ASSUME WeekInv PROVE StandingIsPaidFor
  <2>1. ASSUME stage # "visit", NEW a \in bodies PROVE paid[a] = staying(a)
    <3>1. a \in Bidder
      BY <1>1 DEF WeekInv, Folk, Embodied
    <3>2. paid[a] = Remaining(held[a], tick)
      BY <1>1, <2>1, <3>1 DEF WeekInv, Standings, Stood
    <3>3. QED
      BY <3>2 DEF Remaining, staying
  <2>2. QED
    BY <2>1 DEF StandingIsPaidFor
<1>2. QED
  BY <1>1, WeekSafe, PTL

\* The ground has as many owners as pitches are gone, and nobody who left
\* sells (fair.go:885-895, 1026-1038, leave.go:41-46), for every ground.
THEOREM GroundIsSold == WeekSpec => []GroundIsSoldOnce
<1>1. ASSUME WeekInv PROVE GroundIsSoldOnce
  <2>1. Grounds(owned, stock, pitches, fate)
    BY <1>1 DEF WeekInv, Ground
  <2>2. QED
    BY <2>1 DEF Grounds, Owners, GroundIsSoldOnce
<1>2. QED
  BY <1>1, WeekSafe, PTL

\* What a caller is told is what the town did (join.go:53-58, 83-106), for any
\* number of callers, requests and kills.
THEOREM CallersHearTheTruth == WeekSpec => []AnswerIsWhatHappened
<1>1. ASSUME WeekInv PROVE AnswerIsWhatHappened
  <2>1. ASSUME NEW c \in Caller, calls[c].at = "told"
        PROVE  /\ calls[c].told = "closed" <=> calls[c].reply = "none"
               /\ crashes = 0 =>
                     /\ calls[c].told = "in" => fate[calls[c].name] # "absent"
                     /\ calls[c].told = "out" => fate[calls[c].name] = "left"
    <3>1. calls[c] \in Request /\ calls[c].told = IF calls[c].reply = "none" THEN "closed" ELSE calls[c].reply
      BY <1>1, <2>1 DEF WeekInv, AtTheDoor
    <3>2. calls[c].reply \in Reply
      BY <3>1 DEF Request
    <3>3. crashes = 0 => /\ calls[c].reply = "in" => fate[calls[c].name] # "absent"
                         /\ calls[c].reply = "out" => fate[calls[c].name] = "left"
      BY <1>1, <2>1 DEF WeekInv, AtTheDoor
    <3>4. QED
      BY <3>1, <3>2, <3>3 DEF Reply
  <2>2. QED
    BY <2>1 DEF AnswerIsWhatHappened
<1>2. QED
  BY <1>1, WeekSafe, PTL

\* The wallet of an agent that is gone never moves again (leave.go:12-26):
\* not in a purchase, a close, an award, a leaving or a knock under its name.
THEOREM TheGoneAreFrozen == WeekSpec => GoneIsFrozen
<1> DEFINE Frozen ==
        crashes' = crashes => \A a \in Bidder :
            fate[a] \in {"retired", "left"} =>
                /\ balance'[a] = balance[a] /\ fate'[a] = fate[a] /\ accounts'[a] = accounts[a]
                /\ owned'[a] = owned[a] /\ held'[a] = held[a]
<1>1. ASSUME WeekInv, [WeekNext]_weekVars PROVE Frozen
  <2>0. Tables /\ Folk /\ AtTheDoor /\ Seats /\ FolkRecorded
    BY <1>1, InvTables DEF WeekInv
  <2>1. SUFFICES ASSUME crashes' = crashes, NEW a \in Bidder, fate[a] \in {"retired", "left"}
                 PROVE  Untouched(a)
    BY DEF Untouched
  <2>2. ASSUME NEW c \in Caller, Knock(c) PROVE Untouched(a)
    <3> DEFINE b == calls[c].name
    <3>1. b \in Bidder /\ UNCHANGED <<owned, held>> /\ (PeopleStay \/ LetIn(b))
      BY <2>0, <2>2, KnockMoves
    <3> HIDE DEF b
    <3>2. CASE PeopleStay
      BY <3>1, <3>2 DEF PeopleStay, Untouched
    <3>3. CASE LetIn(b)
      <4>1. a # b
        BY <2>1, <3>3 DEF LetIn
      <4>2. QED
        BY <2>0, <3>1, <3>3, <4>1 DEF LetIn, Untouched, Tables
    <3>4. QED
      BY <3>1, <3>2, <3>3
  <2>3. ASSUME NEW c \in Caller, Depart(c) PROVE Untouched(a)
    <3> DEFINE b == calls[c].name
    <3>1. /\ UNCHANGED <<owned, accounts, balance>>
          /\ \/ UNCHANGED <<fate, held>>
             \/ fate[b] = "here" /\ fate' = [fate EXCEPT ![b] = "left"] /\ held' = [held EXCEPT ![b] = 0]
      BY <2>0, <2>3, DepartMoves
    <3> HIDE DEF b
    <3>2. CASE UNCHANGED <<fate, held>>
      BY <3>1, <3>2 DEF Untouched
    <3>3. CASE fate[b] = "here" /\ fate' = [fate EXCEPT ![b] = "left"] /\ held' = [held EXCEPT ![b] = 0]
      <4>1. a # b
        BY <2>1, <3>3
      <4>2. QED
        BY <2>0, <3>1, <3>3, <4>1 DEF Untouched, Tables
    <3>4. QED
      BY <3>1, <3>2, <3>3
  <2>4. ASSUME NEW c \in Caller, Call(c) \/ HangUp(c) \/ Answer(c) PROVE Untouched(a)
    BY <2>4 DEF Call, HangUp, Answer, Townless, peopleVars, shopVars, Untouched
  <2>5. CASE VisitFair
    <3>1. Moves
      BY <2>0, <2>5, VisitMoves DEF VisitFair
    <3>2. QED
      BY <2>1, <3>1 DEF Moves
  <2>6. CASE Walk \/ NextTick \/ CopyBooks \/ WriteRecord \/ Close
    BY <2>6, TownMoves DEF TownGoesOn, Untouched
  <2>7. CASE Resume
    <3>1. crashes' = crashes + 1 /\ crashes \in Nat
      BY <2>0, <2>7 DEF Resume, Folk
    <3>2. QED
      BY <2>1, <3>1
  <2>8. CASE UNCHANGED weekVars
    BY <2>8 DEF weekVars, fairVars, peopleVars, shopVars, Untouched
  <2>9. QED
    BY <1>1, <2>2, <2>3, <2>4, <2>5, <2>6, <2>7, <2>8, WeekSteps
<1>2. WeekInv /\ [WeekNext]_weekVars => [Frozen]_weekVars
  BY <1>1
<1>3. QED
  BY <1>2, WeekSafe, PTL DEF WeekSpec, GoneIsFrozen

\* Nobody is met for standing where they stood, nor on the way in
\* (run.go:294-302, 354-361, 483-519), after any number of resumes.
THEOREM MeetingsAreOnlyNews == WeekSpec => MeetingsAreNews
<1> DEFINE News ==
        stage' = "visit" => together' \ together = Presence(bodies', place') \ Presence(bodies, place)
<1>1. ASSUME WeekInv, WeekNext PROVE News
  <2>1. SUFFICES ASSUME stage' = "visit" PROVE together' \ together = Presence(bodies', place') \ Presence(bodies, place)
    OBVIOUS
  <2>2. CASE Walk
    <3>1. bodies' = bodies /\ together' = Presence(bodies', place')
      BY <2>2 DEF Walk
    <3>2. Presence(bodies, place) \subseteq together
      BY <1>1 DEF WeekInv, Met
    <3>3. ASSUME NEW p \in Presence(bodies', place'), p \in together PROVE p \in Presence(bodies, place)
      <4>1. p[1] \subseteq bodies
        <5>1. PICK a, b \in bodies : p = <<{a, b}, place'[a]>>
          BY <3>1, PresencePairs
        <5>2. p[1] = {a, b}
          BY <5>1
        <5>3. QED
          BY <5>2
      <4>2. QED
        BY <1>1, <3>3, <4>1 DEF WeekInv, Met
    <3>4. QED
      BY <3>1, <3>2, <3>3
  <2>3. ASSUME UNCHANGED <<bodies, place, together>>
        PROVE  together' \ together = Presence(bodies', place') \ Presence(bodies, place)
    BY <2>3
  <2>4. ASSUME NEW c \in Caller, Call(c) \/ HangUp(c) \/ Answer(c)
        PROVE  UNCHANGED <<bodies, place, together>>
    BY <2>4 DEF Call, HangUp, Answer, Townless
  <2>5. ASSUME NEW c \in Caller, Knock(c) \/ Depart(c) PROVE FALSE
    BY <2>1, <2>5 DEF Knock, Depart
  <2>6. CASE VisitFair
    BY <2>1, <2>6, VisitStages DEF VisitFair
  <2>7. CASE NextTick \/ CopyBooks \/ WriteRecord \/ Close \/ Resume
    BY <2>1, <2>7 DEF NextTick, CopyBooks, WriteRecord, Close, Resume, FairBack
  <2>8. CASE UNCHANGED weekVars
    BY <2>3, <2>8 DEF weekVars, fairVars
  <2>9. QED
    BY <1>1, <2>2, <2>3, <2>4, <2>5, <2>6, <2>7, <2>8, WeekSteps
<1>2. WeekInv /\ [WeekNext]_weekVars => [News]_weekVars
  BY <1>1
<1>3. QED
  BY <1>2, WeekSafe, PTL DEF WeekSpec, MeetingsAreNews
-----------------------------------------------------------------------------
(***************************************************************************)
(* The market of the week: what is for sale, what is under a window and    *)
(* what is on the table, each operator again of the world or its record.   *)
(***************************************************************************)
Tender == [agent : Bidder, price : Int]

\* A window, its book a sequence of such bids, all of agents it was shown to.
IsWindow(w, bids) ==
    /\ w = [bounty |-> w.bounty, book |-> w.book, salt |-> w.salt, close |-> w.close, shown |-> w.shown]
    /\ w.book \in Seq(bids) /\ \A j \in DOMAIN w.book : w.book[j].agent \in w.shown
    /\ w.close \in Int

\* The windows are of different bounties, all of them free for a window.
Offered(open, bids, free) ==
    /\ open \in Seq(ToSet(open))
    /\ \A i \in DOMAIN open : IsWindow(open[i], bids) /\ open[i].bounty \in free
    /\ \A i, j \in DOMAIN open : open[i].bounty = open[j].bounty => i = j

Ranks(rank, dealtCards) ==
    /\ rank \in Seq(dealtCards)
    /\ \A i, j \in DOMAIN rank : rank[i] = rank[j] => i = j

States == {"open", "awarded", "solved"}

IsPosting(p) == DOMAIN p = {"state", "judged", "winner", "price", "failures"} /\ p.state \in States

Postings ==
    /\ bounties \in Seq(ToSet(bounties))
    /\ \A b \in DOMAIN bounties : IsPosting(bounties[b])
    /\ stage \notin {"stuck", "broken"} => \A b \in DOMAIN bounties : bounties[b].state # "awarded"

Free == OnSale(bounties) \ (shelved \cup withdrawn \cup cards)

Market ==
    /\ Postings
    /\ Offered(windows, Bid, Free)
    /\ stage \in {"sit", "award", "boundary"} => \A i \in DOMAIN windows : windows[i].close > tick
    /\ cards \subseteq DOMAIN bounties
    /\ stage \notin {"sit", "award", "stuck", "broken"} => cards \cap OnSale(bounties) \subseteq withdrawn
    /\ Ranks(ladder, cards)

\* The cards on the table are dealt, different and not yet ranked.
Table ==
    stage \in {"sit", "award"} =>
        /\ table \in Seq(ToSet(table))
        /\ \A i \in DOMAIN table :
              /\ "bounty" \in DOMAIN table[i] /\ table[i].bounty \in cards /\ table[i].bounty \notin ToSet(ladder)
        /\ \A i, j \in DOMAIN table : table[i].bounty = table[j].bounty => i = j

MarketRecorded ==
    disk.record # NoFile =>
        LET r == disk.record
        IN  /\ r.lastID \in Nat /\ r.board = [b \in DOMAIN r.board |-> r.board[b]]
            /\ DOMAIN r.board \subseteq 1..r.lastID /\ r.cards \subseteq 1..r.lastID
            /\ Offered(r.windows, Tender, DOMAIN r.board \ (r.shelved \cup r.withdrawn \cup r.cards))
            /\ r.cards \cap DOMAIN r.board \subseteq r.withdrawn
            /\ Ranks(r.ladder, r.cards)

\* The record has these fields and no others.
Written ==
    disk.record # NoFile =>
        LET r == disk.record
        IN  r = [tick |-> r.tick, dealt |-> r.dealt, lastID |-> r.lastID, board |-> r.board,
                 windows |-> r.windows, reopens |-> r.reopens, shelved |-> r.shelved, draws |-> r.draws,
                 held |-> r.held, paid |-> r.paid, owned |-> r.owned, stock |-> r.stock,
                 stockRev |-> r.stockRev, shopped |-> r.shopped, pitches |-> r.pitches,
                 ranked |-> r.ranked, withdrawn |-> r.withdrawn, cards |-> r.cards,
                 ladder |-> r.ladder, roster |-> r.roster, fate |-> r.fate, pending |-> r.pending,
                 place |-> r.place, bodies |-> r.bodies, guests |-> r.guests, seq |-> r.seq]

\* Whoever is in the roster was let in, and is closed in the books if bankrupt.
Squared(names, fates, books) ==
    /\ \A i \in DOMAIN names : fates[names[i]] # "absent"
    /\ \A a \in Bidder : fates[a] # "absent" => (books[a] = "closed" <=> fates[a] = "retired")

Square ==
    /\ \A i \in DOMAIN roster : fate[roster[i]] # "absent"
    /\ stage # "refused" => Squared(roster, fate, accounts)
    /\ disk.record # NoFile => \A i \in DOMAIN disk.record.roster : disk.record.fate[disk.record.roster[i]] # "absent"
    /\ disk.record # NoFile /\ ~Torn => Agree(disk.books, disk.record)

Late == {"office", "square", "close", "sit", "award", "boundary", "copied", "stuck", "broken"}

\* Which boundary the copy and the record are of, and the world after.
Clock ==
    /\ trace \in Nat
    /\ \A p \in attempts : p[2] \in Int /\ (p[2] <= tick \/ p[2] <= disk.books.tick)
    /\ disk.books # NoFile => \A p \in disk.books.attempts : p[2] \in Int /\ p[2] <= disk.books.tick
    /\ stage = "copied" => disk.books = Books /\ week.saved
    /\ disk.record = NoFile /\ disk.books # NoFile => stage = "copied"
    /\ disk.record # NoFile =>
          /\ week.saved /\ disk.record.seq \in Nat /\ trace >= disk.record.seq
          /\ disk.record.tick \in Nat /\ disk.books.tick \in {disk.record.tick, disk.record.tick + 1}
          /\ tick = IF stage \in Late THEN disk.record.tick + 1 ELSE disk.record.tick

Turning == {"office", "square", "close", "sit", "award"}

\* Of one boundary, nothing under a window or on the table was attempted this tick.
Fresh ==
    ~Torn /\ stage \in Turning =>
        /\ \A p \in attempts : p[2] = tick => p[1] \in DOMAIN bounties
        /\ \A i \in DOMAIN windows : <<windows[i].bounty, tick>> \notin attempts
        /\ stage \in {"sit", "award"} => \A i \in DOMAIN table : <<table[i].bounty, tick>> \notin attempts

-----------------------------------------------------------------------------
\* A sequence of anything is one of its own entries.
LEMMA OfItself ==
    ASSUME NEW S, NEW s \in Seq(S)
    PROVE  s \in Seq(ToSet(s)) /\ DOMAIN s = 1..Len(s) /\ Len(s) \in Nat /\ \A i \in DOMAIN s : s[i] \in S
<1>1. DOMAIN s = 1..Len(s) /\ Len(s) \in Nat /\ \A i \in DOMAIN s : s[i] \in S
  OBVIOUS
<1>2. s \in [1..Len(s) -> ToSet(s)]
  BY <1>1 DEF ToSet
<1>3. \A n \in Nat : \A f \in [1..n -> ToSet(s)] : f \in Seq(ToSet(s))
  OBVIOUS
<1>4. QED
  BY <1>1, <1>2, <1>3

\* What is computed entry by entry is a sequence as long.
LEMMA Mapped ==
    ASSUME NEW s, s \in Seq(ToSet(s)), NEW t, t = [i \in DOMAIN s |-> t[i]]
    PROVE  t \in Seq(ToSet(t)) /\ DOMAIN t = DOMAIN s /\ Len(t) = Len(s)
<1>1. DOMAIN s = 1..Len(s) /\ Len(s) \in Nat
  OBVIOUS
<1>2. t \in [1..Len(s) -> ToSet(t)]
  BY <1>1 DEF ToSet
<1>3. \A n \in Nat : \A f \in [1..n -> ToSet(t)] : f \in Seq(ToSet(t)) /\ Len(f) = n /\ DOMAIN f = 1..n
  OBVIOUS
<1>4. QED
  BY <1>1, <1>2, <1>3

LEMMA Joined ==
    ASSUME NEW s, s \in Seq(ToSet(s)), NEW t, t \in Seq(ToSet(t)), NEW u, u = s \o t
    PROVE  /\ u \in Seq(ToSet(u)) /\ DOMAIN u = 1..(Len(s) + Len(t))
           /\ \A i \in DOMAIN s : i \in DOMAIN u /\ u[i] = s[i]
           /\ \A i \in DOMAIN u \ DOMAIN s : i - Len(s) \in DOMAIN t /\ u[i] = t[i - Len(s)]
<1> DEFINE S == ToSet(s) \cup ToSet(t)
<1>1. s \in Seq(S) /\ t \in Seq(S)
  <2>1. \A A, B : \A x \in Seq(A) : A \subseteq B => x \in Seq(B)
    OBVIOUS
  <2>2. ToSet(s) \subseteq S /\ ToSet(t) \subseteq S
    OBVIOUS
  <2> HIDE DEF S
  <2>3. QED
    BY <2>1, <2>2
<1> HIDE DEF S
<1>2. u \in Seq(S) /\ Len(u) = Len(s) + Len(t) /\ DOMAIN u = 1..Len(u)
  BY <1>1
<1>3. \A i \in 1..Len(u) : u[i] = IF i <= Len(s) THEN s[i] ELSE t[i - Len(s)]
  BY <1>1, <1>2
<1>4. /\ DOMAIN s = 1..Len(s) /\ Len(s) \in Nat /\ DOMAIN t = 1..Len(t) /\ Len(t) \in Nat
  BY <1>1
<1>5. \A i \in DOMAIN s : i \in DOMAIN u /\ u[i] = s[i]
  BY <1>2, <1>3, <1>4
<1>6. \A i \in DOMAIN u \ DOMAIN s : i - Len(s) \in DOMAIN t /\ u[i] = t[i - Len(s)]
  BY <1>2, <1>3, <1>4
<1>7. QED
  BY <1>2, <1>5, <1>6, OfItself

LEMMA Removed ==
    ASSUME NEW s, s \in Seq(ToSet(s)), NEW k \in DOMAIN s, NEW t, t = RemoveAt(s, k)
    PROVE  /\ t \in Seq(ToSet(t))
           /\ \A i \in DOMAIN t : LET j == IF i < k THEN i ELSE i + 1
                                  IN  i \in Nat /\ j \in DOMAIN s /\ j # k /\ t[i] = s[j]
<1> DEFINE S == ToSet(s)
<1>1. s \in Seq(S) /\ DOMAIN s = 1..Len(s) /\ Len(s) \in Nat
  OBVIOUS
<1> DEFINE u == SubSeq(s, 1, k - 1)
           v == SubSeq(s, k + 1, Len(s))
<1>2. t = u \o v
  BY DEF RemoveAt
<1> HIDE DEF S
<1>3. u \in Seq(S) /\ Len(u) = k - 1 /\ \A i \in 1..(k - 1) : u[i] = s[i]
  BY <1>1
<1>4. v \in Seq(S) /\ Len(v) = Len(s) - k /\ \A i \in 1..(Len(s) - k) : v[i] = s[k + i]
  BY <1>1
<1> HIDE DEF u, v
<1>5. t \in Seq(S) /\ Len(t) = Len(s) - 1 /\ DOMAIN t = 1..(Len(s) - 1)
  <2>1. t \in Seq(S) /\ Len(t) = Len(u) + Len(v) /\ DOMAIN t = 1..Len(t)
    <3>1. \A x, y \in Seq(S) : x \o y \in Seq(S) /\ Len(x \o y) = Len(x) + Len(y)
      OBVIOUS
    <3>2. t \in Seq(S) /\ Len(t) = Len(u) + Len(v)
      BY <1>2, <1>3, <1>4, <3>1
    <3>3. QED
      BY <3>2
  <2>2. k \in Int
    BY <1>1
  <2>3. QED
    BY <1>1, <1>3, <1>4, <2>1, <2>2
<1>6. ASSUME NEW i \in DOMAIN t
      PROVE  LET j == IF i < k THEN i ELSE i + 1
             IN  i \in Nat /\ j \in DOMAIN s /\ j # k /\ t[i] = s[j]
  <2>1. i \in 1..(Len(s) - 1) /\ k \in 1..Len(s)
    BY <1>1, <1>5
  <2>2. t[i] = IF i <= k - 1 THEN u[i] ELSE v[i - (k - 1)]
    BY <1>1, <1>2, <1>3, <1>4, <2>1
  <2>3. CASE i < k
    BY <1>1, <1>3, <2>1, <2>2, <2>3
  <2>4. CASE ~ (i < k)
    <3>1. i - (k - 1) \in 1..(Len(s) - k) /\ k + (i - (k - 1)) = i + 1
      BY <1>1, <2>1, <2>4
    <3>2. t[i] = s[i + 1]
      BY <1>1, <1>4, <2>1, <2>2, <2>4, <3>1
    <3>3. QED
      BY <1>1, <2>1, <2>4, <3>2
  <2>5. QED
    BY <2>3, <2>4
<1>7. QED
  BY <1>5, <1>6, OfItself

\* A board with one bounty changed.
LEMMA BoardWith ==
    ASSUME NEW board, board \in Seq(ToSet(board)), NEW b \in DOMAIN board, NEW p, NEW after,
           after = [board EXCEPT ![b] = p]
    PROVE  /\ after \in Seq(ToSet(after)) /\ DOMAIN after = DOMAIN board /\ Len(after) = Len(board)
           /\ after[b] = p /\ \A c \in DOMAIN board \ {b} : after[c] = board[c]
<1>1. after = [i \in DOMAIN board |-> after[i]]
  OBVIOUS
<1>2. QED
  BY <1>1, Mapped

LEMMA ReturnedPosting ==
    ASSUME NEW p, IsPosting(p)
    PROVE  IsPosting(Returned(p)) /\ Returned(p).state = "open"
BY DEF IsPosting, Returned, States

\* What an attempt leaves on the board: its bounty solved or back for sale, or
\* still awarded, in a fair that has stopped.
BoardAfter(b) ==
    /\ bounties' \in Seq(ToSet(bounties')) /\ DOMAIN bounties' = DOMAIN bounties
    /\ \A c \in DOMAIN bounties \ {b} : bounties'[c] = bounties[c]
    /\ IsPosting(bounties'[b])
    /\ \/ stage' = stage /\ bounties'[b].state # "awarded"
       \/ stage' = "stuck"
       \/ stage' = "broken" /\ <<b, tick>> \in attempts

LEMMA AttemptOnBoard ==
    ASSUME Postings, NEW b \in DOMAIN bounties, NEW a, NEW x, NEW price,
           Attempt(b, a, Awarded(bounties, b, x, price))
    PROVE  /\ BoardAfter(b)
           /\ attempts' = attempts \/ attempts' = attempts \cup {<<b, tick>>}
           /\ ladder' = ladder \/ ladder' = Tallied(b)
<1> DEFINE board == Awarded(bounties, b, x, price)
           sold == [bounties[b] EXCEPT !.state = "awarded", !.winner = x, !.price = price]
<1>1. /\ board \in Seq(ToSet(board)) /\ DOMAIN board = DOMAIN bounties
      /\ board[b] = sold /\ \A c \in DOMAIN bounties \ {b} : board[c] = bounties[c]
  <2>1. board = [bounties EXCEPT ![b] = sold]
    BY DEF Awarded
  <2> HIDE DEF board, sold
  <2>2. QED
    BY <2>1, BoardWith DEF Postings
<1>2. IsPosting(sold)
  BY DEF Postings, IsPosting, States
<1>3. Attempt(b, a, board)
  OBVIOUS
<1> HIDE DEF board, sold
<1>4. ASSUME NEW p, IsPosting(p), p.state # "awarded", NEW after, after = [board EXCEPT ![b] = p],
             bounties' = after, stage' \in {stage, "stuck"}
      PROVE  BoardAfter(b)
  BY <1>1, <1>4, BoardWith DEF BoardAfter
<1>5. ASSUME bounties' = Voided(board, b), stage' \in {stage, "stuck"}
      PROVE  BoardAfter(b)
  <2>1. bounties' = [board EXCEPT ![b] = Returned(sold)]
    BY <1>1, <1>5 DEF Voided
  <2>2. QED
    BY <1>2, <1>4, <1>5, <2>1, ReturnedPosting
<1>6. ASSUME NEW solved \in BOOLEAN, bounties' = Resolved(board, b, solved), stage' \in {stage, "stuck"}
      PROVE  BoardAfter(b)
  <2> DEFINE won == [sold EXCEPT !.state = "solved"]
             lost == [Returned(sold) EXCEPT !.failures = sold.failures + 1]
  <2>1. bounties' = [board EXCEPT ![b] = IF solved THEN won ELSE lost]
    BY <1>1, <1>6 DEF Resolved
  <2>2. IsPosting(won) /\ won.state = "solved"
    BY <1>2 DEF IsPosting, States
  <2>3. IsPosting(lost) /\ lost.state = "open"
    BY <1>2, ReturnedPosting DEF IsPosting, States
  <2> HIDE DEF won, lost
  <2>4. CASE solved
    BY <1>4, <1>6, <2>1, <2>2, <2>4
  <2>5. CASE ~solved
    BY <1>4, <1>6, <2>1, <2>3, <2>5
  <2>6. QED
    BY <2>4, <2>5
<1>7. ASSUME VoidForGone(b, a, board) PROVE BoardAfter(b)
  BY <1>5, <1>7 DEF VoidForGone
<1>8. CASE /\ <<b, tick>> \in attempts /\ stage' = "broken" /\ bounties' = board
           /\ attempts' = attempts /\ ladder' = ladder
  BY <1>1, <1>2, <1>8 DEF BoardAfter
<1>9. ASSUME Perform(b, a, board)
      PROVE  BoardAfter(b) /\ (ladder' = ladder \/ ladder' = Tallied(b))
  <2>1. stage' \in {stage, "stuck"}
    BY <1>9 DEF Perform, LeftRefused
  <2>2. \/ \E solved \in BOOLEAN : bounties' = Resolved(board, b, solved) /\ ladder' = Tallied(b)
        \/ bounties' = Voided(board, b) /\ ladder' = ladder
    BY <1>9 DEF Perform
  <2>3. QED
    BY <1>5, <1>6, <1>9, <2>1, <2>2
<1>10. ASSUME FundRefused(a, board) \/ MergeRefused(a, board)
       PROVE  BoardAfter(b) /\ ladder' = ladder
  <2>1. bounties' = board /\ stage' = "stuck" /\ ladder' = ladder
    BY <1>10 DEF FundRefused, MergeRefused
  <2>2. QED
    BY <1>1, <1>2, <2>1 DEF BoardAfter
<1>11. CASE /\ attempts' = attempts \cup {<<b, tick>>}
            /\ Perform(b, a, board) \/ FundRefused(a, board) \/ MergeRefused(a, board)
  BY <1>9, <1>10, <1>11
<1>12. CASE VoidForGone(b, a, board) /\ attempts' = attempts /\ ladder' = ladder
  BY <1>7, <1>12
<1>13. QED
  BY <1>3, <1>8, <1>11, <1>12 DEF Attempt, VoidForGone

-----------------------------------------------------------------------------
\* Whoever a step retires it closes the account of, and nobody else's.
Closing ==
    \A a \in Bidder :
        \/ fate'[a] = fate[a] /\ accounts'[a] = accounts[a]
        \/ fate[a] = "here" /\ fate'[a] = "retired" /\ accounts'[a] = "closed"

LEMMA AttemptCloses ==
    ASSUME Tables, NEW b, NEW a, NEW board, Attempt(b, a, board)
    PROVE  Closing
<1>1. ASSUME Here(a), NEW left, Left(a, left) PROVE Closing
  <2>1. /\ fate' = IF left <= Dust THEN [fate EXCEPT ![a] = "retired"] ELSE fate
        /\ accounts' = IF left <= Dust THEN [accounts EXCEPT ![a] = "closed"] ELSE accounts
    BY <1>1 DEF Left
  <2>2. QED
    BY <1>1, <2>1 DEF Tables, Closing, Here
<1>2. CASE UNCHANGED <<fate, accounts>>
  BY <1>2 DEF Closing
<1>3. CASE Here(a) /\ Perform(b, a, board)
  <2>1. UNCHANGED <<fate, accounts>> \/ \E left : Left(a, left)
    BY <1>3 DEF Perform, LeftRefused
  <2>2. QED
    BY <1>1, <1>2, <1>3, <2>1
<1>4. QED
  BY <1>2, <1>3 DEF Attempt, VoidForGone, FundRefused, MergeRefused

LEMMA VisitCloses ==
    ASSUME Tables, Visit
    PROVE  Closing
<1>1. CASE OpenOffice
  <2> DEFINE broke == {a \in Bidder : Here(a) /\ balance[a] <= Dust}
  <2>1. /\ fate' = [a \in Bidder |-> IF a \in broke THEN "retired" ELSE fate[a]]
        /\ accounts' = [a \in Bidder |-> IF a \in broke THEN "closed" ELSE accounts[a]]
    BY <1>1 DEF OpenOffice
  <2>2. \A a \in broke : fate[a] = "here"
    BY DEF Here
  <2> HIDE DEF broke
  <2>3. QED
    BY <2>1, <2>2 DEF Closing
<1>2. CASE CloseWindow \/ AwardCard
  <2>1. UNCHANGED <<fate, accounts>> \/ \E b, a, board : Attempt(b, a, board)
    BY <1>2 DEF CloseWindow, AwardCard, AwardAndAttempt
  <2>2. CASE UNCHANGED <<fate, accounts>>
    BY <2>2 DEF Closing
  <2>3. QED
    BY <2>1, <2>2, AttemptCloses
<1>3. CASE SweepRefused
  <2>1. PICK before : /\ \A a \in before : a \in Bidder /\ Here(a)
                      /\ fate' = [a \in Bidder |-> IF a \in before THEN "retired" ELSE fate[a]]
                      /\ accounts' = [a \in Bidder |-> IF a \in before THEN "closed" ELSE accounts[a]]
    <3>1. PICK n \in DOMAIN roster :
              LET late == roster[n]
                  broke == {a \in Bidder : Here(a) /\ balance[a] <= Dust}
                  before == (broke \ {late}) \cap {roster[i] : i \in 1..(n - 1)}
              IN  /\ fate' = [a \in Bidder |-> IF a \in before THEN "retired" ELSE fate[a]]
                  /\ accounts' = [a \in Bidder |-> IF a \in before THEN "closed" ELSE accounts[a]]
      BY <1>3 DEF SweepRefused
    <3> DEFINE before == ({a \in Bidder : Here(a) /\ balance[a] <= Dust} \ {roster[n]})
                              \cap {roster[i] : i \in 1..(n - 1)}
    <3>2. /\ \A a \in before : a \in Bidder /\ Here(a)
          /\ fate' = [a \in Bidder |-> IF a \in before THEN "retired" ELSE fate[a]]
          /\ accounts' = [a \in Bidder |-> IF a \in before THEN "closed" ELSE accounts[a]]
      BY <3>1
    <3> HIDE DEF before
    <3>3. QED
      BY <3>2
  <2>2. QED
    BY <2>1 DEF Closing, Here
<1>4. CASE AtOffice \/ OfficeRefused \/ LeaveOffice \/ AtSquare \/ SquareRefused
  <2>1. UNCHANGED <<fate, accounts>>
    BY <1>4 DEF AtOffice, OfficeRefused, LeaveOffice, AtSquare, SquareRefused, peopleVars
  <2>2. QED
    BY <2>1 DEF Closing
<1>5. CASE LeaveSquare \/ EndOfVisit \/ DealCards \/ AtSitting \/ ClearTable
  <2>1. UNCHANGED <<fate, accounts>>
    BY <1>5 DEF LeaveSquare, EndOfVisit, DealCards, AtSitting, ClearTable, peopleVars
  <2>2. QED
    BY <2>1 DEF Closing
<1>6. QED
  BY <1>1, <1>2, <1>3, <1>4, <1>5 DEF Visit

\* The tear moves only where the disk is written.
LEMMA SquareKept ==
    ASSUME Folk, FolkRecorded, AtTheDoor, Tables, Seats, Clock, Square, tick \in Nat, [WeekNext]_weekVars
    PROVE  Square'
<1> DEFINE Rostered(names, fates) == \A i \in DOMAIN names : fates[names[i]] # "absent"
           Copied(d) == d.record # NoFile => Rostered(d.record.roster, d.record.fate)
           Torn2(d) == d.books.tick # d.record.tick
           Agreed(d) == d.record # NoFile /\ ~Torn2(d) => Agree(d.books, d.record)
<1>0. /\ Rostered(roster, fate) /\ Copied(disk) /\ Agreed(disk)
      /\ stage # "refused" => Squared(roster, fate, accounts)
  BY DEF Square, Torn
<1>1. /\ Rostered(roster', fate')
      /\ stage' # "refused" => Squared(roster', fate', accounts')
  <2>1. ASSUME UNCHANGED <<roster, fate, accounts>>, stage = "refused" => stage' = "refused"
        PROVE  /\ Rostered(roster', fate')
               /\ stage' # "refused" => Squared(roster', fate', accounts')
    BY <1>0, <2>1
  <2>2. ASSUME NEW c \in Caller, Knock(c)
        PROVE  Rostered(roster', fate') /\ Squared(roster', fate', accounts')
    <3> DEFINE a == calls[c].name
    <3>1. a \in Bidder /\ (PeopleStay \/ LetIn(a)) /\ stage # "refused"
      BY <2>2, KnockMoves DEF Knock
    <3> HIDE DEF a
    <3>2. CASE PeopleStay
      BY <1>0, <3>1, <3>2 DEF PeopleStay
    <3>3. CASE LetIn(a)
      <4>1. /\ roster' = Append(roster, a) /\ fate' = [fate EXCEPT ![a] = "here"]
            /\ accounts' = [accounts EXCEPT ![a] = "open"]
        BY <3>3 DEF LetIn
      <4>2. roster \in Seq(Bidder) /\ \A x \in Bidder : fate'[x] = IF x = a THEN "here" ELSE fate[x]
        BY <4>1 DEF Folk, Known
      <4>3. \A x \in Bidder : accounts'[x] = IF x = a THEN "open" ELSE accounts[x]
        BY <4>1 DEF Tables
      <4>4. /\ DOMAIN roster' = 1..(Len(roster) + 1) /\ DOMAIN roster = 1..Len(roster) /\ Len(roster) \in Nat
            /\ \A i \in DOMAIN roster : roster'[i] = roster[i] /\ roster[i] \in Bidder
            /\ roster'[Len(roster) + 1] = a
        BY <3>1, <4>1, <4>2
      <4>5. ASSUME NEW i \in DOMAIN roster' PROVE fate'[roster'[i]] # "absent"
        <5>1. i = Len(roster) + 1 \/ i \in DOMAIN roster
          BY <4>4
        <5>2. QED
          BY <1>0, <3>1, <4>2, <4>4, <5>1
      <4>6. Squared(roster', fate', accounts')
        BY <1>0, <3>1, <4>2, <4>3, <4>5 DEF Squared
      <4>7. QED
        BY <4>5, <4>6
    <3>4. QED
      BY <3>1, <3>2, <3>3
  <2>3. ASSUME NEW c \in Caller, Depart(c)
        PROVE  Rostered(roster', fate') /\ Squared(roster', fate', accounts')
    <3> DEFINE a == calls[c].name
    <3>1. /\ a \in Bidder /\ UNCHANGED <<roster, accounts>> /\ stage # "refused"
          /\ fate' = fate \/ (fate[a] = "here" /\ fate' = [fate EXCEPT ![a] = "left"])
      BY <2>3, DepartMoves
    <3> HIDE DEF a
    <3>2. CASE fate[a] = "here" /\ fate' = [fate EXCEPT ![a] = "left"]
      <4>1. \A x \in Bidder : fate'[x] = IF x = a THEN "left" ELSE fate[x]
        BY <3>2 DEF Folk, Known
      <4>2. roster \in Seq(Bidder)
        BY DEF Folk, Known
      <4>3. \A i \in DOMAIN roster : roster[i] \in Bidder
        BY <4>2
      <4>4. QED
        BY <1>0, <3>1, <3>2, <4>1, <4>3 DEF Squared
    <3>3. QED
      BY <1>0, <3>1, <3>2
  <2>4. CASE VisitFair
    <3>1. Visit /\ roster' = roster /\ stage # "refused" /\ Closing
      BY <2>4, VisitMoves, VisitStages, VisitCloses DEF VisitFair
    <3>2. \A i \in DOMAIN roster : roster[i] \in Bidder
      BY DEF Folk, Known
    <3>3. QED
      BY <1>0, <3>1, <3>2 DEF Closing, Squared
  <2>5. ASSUME NEW c \in Caller, Call(c) \/ HangUp(c) \/ Answer(c)
        PROVE  UNCHANGED <<roster, fate, accounts, stage>>
    BY <2>5 DEF Call, HangUp, Answer, Townless, peopleVars
  <2>6. CASE Walk \/ NextTick \/ CopyBooks \/ WriteRecord \/ Close
    <3>1. stage # "refused"
      BY <2>6 DEF Walk, NextTick, CopyBooks, WriteRecord, Close
    <3>2. QED
      BY <2>1, <2>6, <3>1, TownMoves DEF TownGoesOn
  <2>7. CASE Resume
    <3> DEFINE r == disk.record
    <3>1. /\ r # NoFile /\ roster' = r.roster /\ fate' = r.fate /\ accounts' = disk.books.accounts
          /\ stage' = IF Agree(disk.books, r) /\ trace >= r.seq THEN "door" ELSE "refused"
      BY <2>7 DEF Resume, BooksBack, FairBack
    <3>2. Known(r.roster, r.fate)
      BY <3>1 DEF FolkRecorded
    <3>3. ASSUME Agree(disk.books, r) PROVE Squared(r.roster, r.fate, disk.books.accounts)
      BY <1>0, <3>1, <3>2, <3>3 DEF Squared, Agree, Known, ToSet
    <3>4. QED
      BY <1>0, <3>1, <3>3
  <2>8. CASE UNCHANGED weekVars
    <3>1. UNCHANGED <<roster, fate, accounts, stage>>
      BY <2>8 DEF weekVars, fairVars, peopleVars
    <3>2. QED
      BY <2>1, <3>1
  <2>9. QED
    BY <2>1, <2>2, <2>3, <2>4, <2>5, <2>6, <2>7, <2>8, WeekSteps
<1>2. Copied(disk') /\ Agreed(disk')
  <2>1. CASE disk' = disk
    BY <1>0, <2>1
  <2>2. CASE CopyBooks
    <3>1. disk'.books.tick = tick /\ disk'.record = disk.record /\ stage = "boundary"
      BY <2>2 DEF CopyBooks, FolkRecorded, Books
    <3>2. disk.record # NoFile => tick = disk.record.tick + 1 /\ disk.record.tick \in Nat
      BY <3>1 DEF Clock, Late
    <3>3. disk.record # NoFile => Torn2(disk')
      BY <3>1, <3>2
    <3>4. QED
      BY <1>0, <3>1, <3>3
  <2>3. CASE WriteRecord
    <3>1. disk'.books = Books /\ disk'.record = Record /\ stage = "copied"
      BY <2>3 DEF WriteRecord, FolkRecorded, Clock
    <3>2. Books.accounts = accounts
      BY DEF Books
    <3>3. ASSUME NEW a \in ToSet(roster)
          PROVE  accounts[a] # "absent" /\ (accounts[a] = "closed" <=> fate[a] = "retired")
      <4>1. a \in Bidder /\ fate[a] # "absent"
        BY <1>0, <3>3 DEF Folk, Known, ToSet
      <4>2. QED
        BY <1>0, <3>1, <4>1 DEF Squared, Folk, InBooks
    <3>4. Agree(Books, Record)
      BY <3>2, <3>3, RecordFields DEF Agree
    <3>5. Rostered(Record.roster, Record.fate)
      BY <1>0, RecordFields
    <3> HIDE DEF Books, Record
    <3>6. QED
      BY <3>1, <3>4, <3>5
  <2>4. QED
    BY <2>1, <2>2, <2>3, DiskMoves
<1>3. QED
  BY <1>1, <1>2 DEF Square, Torn

-----------------------------------------------------------------------------
\* What the tick's steps do to the clock and to the attempts of the tick.
LEMMA VisitTicks ==
    ASSUME Visit
    PROVE  /\ stage' \in Late \ {"copied"} /\ UNCHANGED week
           /\ IF stage = "visit" THEN tick' = tick + 1 /\ attempts' = attempts ELSE tick' = tick /\ stage \in Late
           /\ attempts' = attempts \/ \E b : attempts' = attempts \cup {<<b, tick>>}
<1>1. stage \in {"visit", "office", "square", "close", "sit", "award"}
        /\ stage' \in {"office", "square", "close", "sit", "award", "boundary", "stuck", "broken"}
  BY VisitStages
<1>2. CASE OpenOffice \/ SweepRefused
  BY <1>1, <1>2 DEF OpenOffice, SweepRefused, Late
<1>3. CASE CloseWindow \/ AwardCard
  <2>1. stage # "visit" /\ tick' = tick /\ week' = week
    BY <1>3 DEF CloseWindow, AwardCard
  <2>2. attempts' = attempts \/ \E b, a, board : Attempt(b, a, board)
    BY <1>3 DEF CloseWindow, AwardCard, AwardAndAttempt
  <2>3. attempts' = attempts \/ \E b : attempts' = attempts \cup {<<b, tick>>}
    BY <2>2 DEF Attempt, VoidForGone
  <2>4. QED
    BY <1>1, <2>1, <2>3 DEF Late
<1>4. CASE AtOffice \/ OfficeRefused \/ LeaveOffice \/ AtSquare \/ SquareRefused
  <2>1. stage # "visit" /\ tick' = tick /\ attempts' = attempts /\ week' = week
    BY <1>4 DEF AtOffice, OfficeRefused, LeaveOffice, AtSquare, SquareRefused, peopleVars
  <2>2. QED
    BY <1>1, <2>1 DEF Late
<1>5. CASE LeaveSquare \/ EndOfVisit \/ DealCards \/ AtSitting \/ ClearTable
  <2>1. stage # "visit" /\ tick' = tick /\ attempts' = attempts /\ week' = week
    BY <1>5 DEF LeaveSquare, EndOfVisit, DealCards, AtSitting, ClearTable, peopleVars
  <2>2. QED
    BY <1>1, <2>1 DEF Late
<1>6. QED
  BY <1>2, <1>3, <1>4, <1>5 DEF Visit

\* The clock of the record, of the copy and of the world is one, or one apart.
LEMMA ClockKept ==
    ASSUME FolkRecorded, Clock, tick \in Nat, tick' \in Nat, [WeekNext]_weekVars
    PROVE  Clock'
<1> DEFINE Tried(s, d, now) == \A p \in s : p[2] \in Int /\ (p[2] <= now \/ p[2] <= d.books.tick)
           Copied(d) == d.books # NoFile => \A p \in d.books.attempts : p[2] \in Int /\ p[2] <= d.books.tick
           Whole(d, s, saved) ==
               /\ s = "copied" => saved
               /\ d.record = NoFile /\ d.books # NoFile => s = "copied"
           Dated(d, s, lines, now, saved) ==
               d.record # NoFile =>
                   /\ saved /\ d.record.seq \in Nat /\ lines >= d.record.seq
                   /\ d.record.tick \in Nat /\ d.books.tick \in {d.record.tick, d.record.tick + 1}
                   /\ now = IF s \in Late THEN d.record.tick + 1 ELSE d.record.tick
           All == /\ trace \in Nat /\ Tried(attempts, disk, tick) /\ Copied(disk)
                  /\ stage = "copied" => disk.books = Books
                  /\ Whole(disk, stage, week.saved) /\ Dated(disk, stage, trace, tick, week.saved)
<1>0. All /\ NoFile.tick = -1
  BY DEF Clock, NoFile
<1>1. SUFFICES All'
  BY DEF Clock
<1>2. ASSUME UNCHANGED <<week, disk, tick, attempts>>, trace' \in {trace, trace + 1},
             stage' \in Late <=> stage \in Late,
             stage' # "copied",
             stage # "copied" \/ disk.record # NoFile \/ disk.books = NoFile
      PROVE  All'
  BY <1>0, <1>2
<1>3. ASSUME UNCHANGED <<week, disk, tick, stage, trace, attempts, Books>> PROVE All'
  BY <1>0, <1>3
<1>4. ASSUME NEW c \in Caller, Knock(c) \/ Depart(c) PROVE All'
  <2>1. /\ UNCHANGED <<week, disk, tick, attempts, trace>>
        /\ stage \in {"door", "arrive", "leave"} /\ stage' \in {"arrive", "leave"}
    BY <1>4 DEF Knock, Depart, Leave, peopleVars
  <2>2. QED
    BY <1>2, <2>1 DEF Late
<1>5. ASSUME NEW c \in Caller, Call(c) \/ HangUp(c) \/ Answer(c) PROVE All'
  <2>1. UNCHANGED <<week, disk, tick, stage, trace, attempts, outlived, balance, accounts>>
    BY <1>5 DEF Call, HangUp, Answer, Townless, peopleVars
  <2>2. UNCHANGED Books
    BY <2>1 DEF Books
  <2>3. QED
    BY <1>3, <2>1, <2>2
<1>6. CASE VisitFair
  <2>1. Visit /\ UNCHANGED <<disk, trace>>
    BY <1>6 DEF VisitFair
  <2>2. /\ stage' \in Late /\ stage' # "copied" /\ UNCHANGED week
        /\ IF stage = "visit" THEN tick' = tick + 1 /\ attempts' = attempts ELSE tick' = tick /\ stage \in Late
        /\ attempts' = attempts \/ \E b : attempts' = attempts \cup {<<b, tick>>}
    BY <2>1, VisitTicks
  <2>3. stage # "copied"
    BY <2>1, VisitStages
  <2>4. Tried(attempts', disk', tick')
    <3>1. ASSUME NEW p \in attempts' PROVE p[2] \in Int /\ (p[2] <= tick' \/ p[2] <= disk.books.tick)
      <4>1. CASE p \in attempts
        <5>1. p[2] \in Int /\ (p[2] <= tick \/ p[2] <= disk.books.tick)
          BY <1>0, <4>1
        <5>2. tick' = tick \/ tick' = tick + 1
          BY <2>2
        <5>3. QED
          BY <5>1, <5>2
      <4>2. CASE p \notin attempts
        <5>1. p[2] = tick /\ (tick' = tick \/ tick' = tick + 1)
          BY <2>2, <3>1, <4>2
        <5>2. QED
          BY <5>1
      <4>3. QED
        BY <4>1, <4>2
    <3>2. QED
      BY <2>1, <3>1
  <2>5. Dated(disk', stage', trace', tick', week'.saved)
    <3>1. stage = "visit" => stage \notin Late
      BY DEF Late
    <3>2. QED
      BY <1>0, <2>1, <2>2, <3>1
  <2>6. QED
    BY <1>0, <2>1, <2>2, <2>3, <2>4, <2>5
<1>7. CASE Walk
  <2>1. /\ UNCHANGED <<week, disk, tick, attempts>> /\ trace' = trace + 1
        /\ stage \in {"door", "arrive", "leave"} /\ stage' = "visit"
    BY <1>7 DEF Walk, peopleVars
  <2>2. QED
    BY <1>2, <2>1 DEF Late
<1>8. CASE NextTick
  <2>1. /\ UNCHANGED <<week, disk, tick, attempts, trace>> /\ stage = "boundary" /\ stage' = "door" /\ ~week.saved
    BY <1>8 DEF NextTick, peopleVars
  <2>2. QED
    BY <1>0, <2>1
<1>9. CASE CopyBooks
  <2>1. /\ UNCHANGED <<week, tick, attempts, trace>> /\ stage = "boundary" /\ stage' = "copied" /\ week.saved
        /\ disk'.books = Books /\ disk'.record = disk.record /\ UNCHANGED <<balance, accounts, outlived>>
    BY <1>9 DEF CopyBooks, peopleVars, FolkRecorded
  <2>2. Books.tick = tick /\ Books.attempts = attempts /\ Books' = Books
    BY <2>1 DEF Books
  <2>3. \A p \in attempts : p[2] \in Int /\ p[2] <= tick
    <3>1. disk.record # NoFile => disk.books.tick <= tick
      BY <1>0, <2>1 DEF Late
    <3>2. disk.record = NoFile => disk.books.tick <= tick
      BY <1>0, <2>1
    <3>3. ASSUME NEW p \in attempts PROVE p[2] \in Int /\ p[2] <= tick
      <4>1. disk.books.tick = -1 \/ disk.books.tick \in Int
        BY <1>0, <2>1
      <4>2. QED
        BY <1>0, <3>1, <3>2, <4>1
    <3>4. QED
      BY <3>3
  <2> HIDE DEF Books
  <2>4. QED
    BY <1>0, <2>1, <2>2, <2>3 DEF Late
<1>10. CASE WriteRecord
  <2>1. /\ UNCHANGED <<week, tick, attempts, trace>> /\ stage = "copied" /\ stage' = "door"
        /\ disk'.books = disk.books /\ disk'.record = Record
    BY <1>10 DEF WriteRecord, peopleVars, FolkRecorded
  <2>2. Books.tick = tick /\ disk.books = Books
    BY <1>0, <2>1 DEF Books
  <2>3. Record.tick = tick /\ Record.seq = trace
    BY RecordFields
  <2>4. Record # NoFile
    BY DEF Record, NoFile
  <2> HIDE DEF Books, Record
  <2>5. QED
    BY <1>0, <2>1, <2>2, <2>3, <2>4 DEF Late
<1>11. CASE Close
  <2>1. /\ UNCHANGED <<week, disk, tick, attempts>> /\ trace' = trace + 1
        /\ stage = "door" /\ stage' = "closed"
    BY <1>11 DEF Close, peopleVars
  <2>2. QED
    BY <1>2, <2>1 DEF Late
<1>12. CASE Resume
  <2>1. /\ UNCHANGED <<week, disk>> /\ disk.record # NoFile /\ stage' \in {"door", "refused"}
        /\ tick' = disk.record.tick /\ attempts' = disk.books.attempts
        /\ trace' = IF trace >= disk.record.seq THEN disk.record.seq ELSE trace
    BY <1>12 DEF Resume, BooksBack, FairBack, TraceBack
  <2>2. disk.books # NoFile
    BY <2>1 DEF FolkRecorded
  <2>3. QED
    BY <1>0, <2>1, <2>2 DEF Late
<1>13. CASE UNCHANGED weekVars
  <2>1. UNCHANGED <<week, disk, tick, stage, trace, attempts, outlived, balance, accounts>>
    BY <1>13 DEF weekVars, fairVars, peopleVars
  <2>2. UNCHANGED Books
    BY <2>1 DEF Books
  <2>3. QED
    BY <1>3, <2>1, <2>2
<1>14. QED
  BY <1>4, <1>5, <1>6, <1>7, <1>8, <1>9, <1>10, <1>11, <1>12, <1>13, WeekSteps

-----------------------------------------------------------------------------
LEMMA MarketWaits ==
    ASSUME Market, Table, UNCHANGED <<bounties, windows, shelved, withdrawn, cards, ladder, table>>,
           stage' \in {"sit", "award", "boundary"} => stage' = stage /\ tick' = tick,
           stage \in {"sit", "award", "stuck", "broken"} => stage' \in {stage, "stuck"}
    PROVE  Market' /\ Table'
<1>1. Postings'
  BY DEF Market, Postings
<1>2. Free' = Free
  BY DEF Free
<1>3. Offered(windows', Bid, Free')
  BY <1>2 DEF Market
<1>4. Market'
  BY <1>1, <1>3 DEF Market
<1>5. Table'
  BY DEF Table
<1>6. QED
  BY <1>4, <1>5

LEMMA WindowShown ==
    ASSUME NEW w, IsWindow(w, Bid), NEW a
    PROVE  /\ IsWindow(Shown(w, a), Bid) /\ a \in Shown(w, a).shown
           /\ Shown(w, a).bounty = w.bounty /\ Shown(w, a).close = w.close
<1> DEFINE seen == Shown(w, a)
<1>1. PICK b, book, salt, close, shown :
          w = [bounty |-> b, book |-> book, salt |-> salt, close |-> close, shown |-> shown]
  BY DEF IsWindow
<1>2. /\ w.bounty = b /\ w.book = book /\ w.salt = salt /\ w.close = close /\ w.shown = shown
      /\ seen.bounty = b /\ seen.book = book /\ seen.salt = salt /\ seen.close = close
      /\ seen.shown = shown \cup {a}
      /\ seen = [bounty |-> seen.bounty, book |-> seen.book, salt |-> seen.salt, close |-> seen.close,
                 shown |-> seen.shown]
  BY <1>1 DEF Shown
<1> HIDE DEF seen
<1>3. /\ seen.book \in Seq(Bid) /\ \A j \in DOMAIN seen.book : seen.book[j].agent \in seen.shown
      /\ seen.close \in Int
  BY <1>2 DEF IsWindow
<1>4. IsWindow(seen, Bid) /\ a \in seen.shown /\ seen.bounty = w.bounty /\ seen.close = w.close
  BY <1>2, <1>3 DEF IsWindow
<1>5. QED
  BY <1>4 DEF seen

\* A bid of whoever was shown the window.
LEMMA BidEntered ==
    ASSUME NEW w, IsWindow(w, Bid), NEW a \in Bidder, a \in w.shown, NEW price \in Int, NEW after,
           after = [w EXCEPT !.book = Placed(@, a, price)]
    PROVE  IsWindow(after, Bid) /\ after.bounty = w.bounty /\ after.close = w.close
<1> DEFINE bid == [agent |-> a, price |-> price, seq |-> Len(w.book)]
           more == Placed(w.book, a, price)
<1>1. PICK b, book, salt, close, shown :
          w = [bounty |-> b, book |-> book, salt |-> salt, close |-> close, shown |-> shown]
  BY DEF IsWindow
<1>2. more \in Seq(Bid) /\ \A j \in DOMAIN more : more[j].agent \in w.shown
  <2>1. bid \in Bid /\ bid.agent = a
    BY DEF Bid, IsWindow
  <2>2. more = Append(w.book, bid)
    BY DEF Placed
  <2> HIDE DEF bid, more
  <2>3. QED
    BY <2>1, <2>2 DEF IsWindow
<1>3. after = [w EXCEPT !.book = more]
  BY <1>1
<1> HIDE DEF more
<1>4. /\ w.bounty = b /\ w.salt = salt /\ w.close = close /\ w.shown = shown
      /\ after.bounty = b /\ after.book = more /\ after.salt = salt /\ after.close = close
      /\ after.shown = shown
      /\ after = [bounty |-> after.bounty, book |-> after.book, salt |-> after.salt, close |-> after.close,
                  shown |-> after.shown]
  BY <1>1, <1>3
<1>5. QED
  BY <1>2, <1>4 DEF IsWindow

\* A window that opens has no bid and was shown to nobody.
LEMMA WindowOpens ==
    ASSUME NEW b, NEW close \in Int
    PROVE  IsWindow(Window(b, close), Bid) /\ Window(b, close).bounty = b /\ Window(b, close).close = close
<1> DEFINE w == Window(b, close)
<1>1. /\ w = [bounty |-> w.bounty, book |-> w.book, salt |-> w.salt, close |-> w.close, shown |-> w.shown]
      /\ w.bounty = b /\ w.book = <<>> /\ w.close = close
  BY DEF Window
<1> HIDE DEF w
<1>2. IsWindow(w, Bid) /\ w.bounty = b /\ w.close = close
  BY <1>1 DEF IsWindow
<1>3. QED
  BY <1>2 DEF w

\* A board with more on it.
LEMMA BoardPosted ==
    ASSUME NEW old, old \in Seq(ToSet(old)), NEW fresh, fresh \in Seq(ToSet(fresh))
    PROVE  LET all == old \o fresh
           IN  /\ all \in Seq(ToSet(all)) /\ DOMAIN all = 1..(Len(old) + Len(fresh))
               /\ DOMAIN old \subseteq DOMAIN all
               /\ \A b \in DOMAIN old : all[b] = old[b]
               /\ \A b \in DOMAIN all \ DOMAIN old : all[b] \in ToSet(fresh)
<1> DEFINE all == old \o fresh
<1>1. all \in Seq(ToSet(all))
  BY Joined
<1>2. \A i \in DOMAIN old : i \in DOMAIN all /\ all[i] = old[i]
  BY Joined
<1>3. DOMAIN all = 1..(Len(old) + Len(fresh))
  BY Joined
<1>4. \A i \in DOMAIN all \ DOMAIN old : i - Len(old) \in DOMAIN fresh /\ all[i] = fresh[i - Len(old)]
  BY Joined
<1> HIDE DEF all
<1>5. QED
  BY <1>1, <1>2, <1>3, <1>4 DEF ToSet, all

LEMMA OnePosted ==
    ASSUME NEW old, old \in Seq(ToSet(old)), NEW p
    PROVE  LET all == Append(old, p)
           IN  /\ all \in Seq(ToSet(all)) /\ DOMAIN all = 1..Len(all) /\ DOMAIN old \subseteq DOMAIN all
               /\ \A b \in DOMAIN old : all[b] = old[b]
               /\ \A b \in DOMAIN all \ DOMAIN old : all[b] = p
<1> DEFINE all == Append(old, p)
<1> DEFINE S == ToSet(old) \cup {p}
<1>1. old \in Seq(S) /\ p \in S
  <2>1. \A A, B : \A x \in Seq(A) : A \subseteq B => x \in Seq(B)
    OBVIOUS
  <2>2. ToSet(old) \subseteq S
    OBVIOUS
  <2> HIDE DEF S
  <2>3. QED
    BY <2>1, <2>2 DEF S
<1> HIDE DEF S
<1>2. /\ all \in Seq(S) /\ Len(all) = Len(old) + 1 /\ Len(old) \in Nat /\ DOMAIN old = 1..Len(old)
      /\ \A i \in 1..Len(old) : all[i] = old[i]
      /\ all[Len(old) + 1] = p
  BY <1>1
<1>3. all \in Seq(ToSet(all)) /\ DOMAIN all = 1..Len(all)
  BY <1>2, OfItself
<1>4. QED
  BY <1>2, <1>3

\* A turn at the office leaves every window where it was.
LEMMA BidsEntered ==
    ASSUME week \in Week, NEW free, Offered(windows, Bid, free), NEW a \in Bidder, NEW asks \in Asks(windows),
           windows' = Entered([i \in DOMAIN windows |-> Shown(windows[i], a)], a, asks)
    PROVE  /\ Offered(windows', Bid, free) /\ DOMAIN windows' = DOMAIN windows
           /\ \A i \in DOMAIN windows : windows'[i].bounty = windows[i].bounty /\ windows'[i].close = windows[i].close
<1> DEFINE open == [i \in DOMAIN windows |-> Shown(windows[i], a)]
<1>1. /\ windows \in Seq(ToSet(windows))
      /\ \A i \in DOMAIN windows : IsWindow(windows[i], Bid) /\ windows[i].bounty \in free
      /\ \A i, j \in DOMAIN windows : windows[i].bounty = windows[j].bounty => i = j
  BY DEF Offered
<1>2. \A b \in DOMAIN asks : asks[b] \in Int
  <2>1. week.asks \subseteq Int
    <3>1. \A w \in Week : w.asks \subseteq Int
      BY FairAssumption, Zenon
    <3>2. QED
      BY <3>1
  <2>2. QED
    BY <2>1 DEF Asks
<1>3. ASSUME NEW i \in DOMAIN windows
      PROVE  /\ IsWindow(open[i], Bid) /\ a \in open[i].shown
             /\ open[i].bounty = windows[i].bounty /\ open[i].close = windows[i].close
  BY <1>1, WindowShown
<1>4. DOMAIN open = DOMAIN windows
  OBVIOUS
<1> HIDE DEF open
<1>5. windows' = [i \in DOMAIN windows |->
        IF open[i].bounty \in DOMAIN asks /\ Takes(open[i].book, a, asks[open[i].bounty])
        THEN [open[i] EXCEPT !.book = Placed(@, a, asks[open[i].bounty])] ELSE open[i]]
  BY <1>4 DEF Entered, open
<1>6. ASSUME NEW i \in DOMAIN windows
      PROVE  /\ IsWindow(windows'[i], Bid)
             /\ windows'[i].bounty = windows[i].bounty /\ windows'[i].close = windows[i].close
  <2>1. CASE open[i].bounty \in DOMAIN asks /\ Takes(open[i].book, a, asks[open[i].bounty])
    <3>1. windows'[i] = [open[i] EXCEPT !.book = Placed(@, a, asks[open[i].bounty])]
      BY <1>5, <2>1
    <3>2. asks[open[i].bounty] \in Int
      BY <1>2, <2>1
    <3>3. QED
      BY <1>3, <3>1, <3>2, BidEntered
  <2>2. CASE ~(open[i].bounty \in DOMAIN asks /\ Takes(open[i].book, a, asks[open[i].bounty]))
    BY <1>3, <1>5, <2>2
  <2>3. QED
    BY <2>1, <2>2
<1>7. windows' \in Seq(ToSet(windows')) /\ DOMAIN windows' = DOMAIN windows
  BY <1>1, <1>5, Mapped
<1>8. QED
  BY <1>1, <1>6, <1>7 DEF Offered

\* What the office posts is for sale, and whatever is for sale and under no
\* window gets one: not a card, for those were withdrawn.
LEMMA OfficePosts ==
    ASSUME Market, tick \in Nat, OpenOffice
    PROVE  Market'
<1> DEFINE old == bounties
           all == bounties'
           unsold == Those([b \in DOMAIN all |-> b], Unsold(all))
           opened == [i \in DOMAIN unsold |-> Window(unsold[i], tick + 1 + WindowTicks)]
<1>1. /\ all = old \/ all = Append(old, Bounty(FALSE))
      /\ windows' = windows \o opened
      /\ stage = "visit" /\ stage' = "office" /\ tick' = tick + 1
      /\ UNCHANGED <<shelved, withdrawn, cards, ladder>>
  BY DEF OpenOffice, Posted, sitVars
<1>2. /\ old \in Seq(ToSet(old)) /\ cards \subseteq DOMAIN old /\ cards \cap OnSale(old) \subseteq withdrawn
      /\ Offered(windows, Bid, Free) /\ Ranks(ladder, cards)
      /\ \A b \in DOMAIN old : IsPosting(old[b]) /\ old[b].state # "awarded"
  BY <1>1 DEF Market, Postings
<1>3. /\ all \in Seq(ToSet(all)) /\ DOMAIN all = 1..Len(all) /\ DOMAIN old \subseteq DOMAIN all
      /\ \A b \in DOMAIN old : all[b] = old[b]
      /\ \A b \in DOMAIN all \ DOMAIN old : all[b] = Bounty(FALSE)
  <2>1. CASE all = old
    BY <1>2, <2>1, OfItself
  <2>2. CASE all = Append(old, Bounty(FALSE))
    <3> DEFINE post == Bounty(FALSE)
    <3>1. old \in Seq(ToSet(old)) /\ all = Append(old, post)
      BY <1>2, <2>2
    <3> HIDE DEF all, old, post
    <3>2. /\ all \in Seq(ToSet(all)) /\ DOMAIN all = 1..Len(all)
          /\ DOMAIN old \subseteq DOMAIN all /\ \A b \in DOMAIN old : all[b] = old[b]
          /\ \A b \in DOMAIN all \ DOMAIN old : all[b] = post
      BY <3>1, OnePosted
    <3>3. QED
      BY <3>2 DEF post
  <2>3. QED
    BY <1>1, <2>1, <2>2
<1>4. IsPosting(Bounty(FALSE)) /\ Bounty(FALSE).state = "open"
  BY DEF Bounty, IsPosting, States
<1>5. Postings'
  BY <1>2, <1>3, <1>4 DEF Postings
<1>6. /\ unsold \in Seq(ToSet(unsold)) /\ \A i \in DOMAIN unsold : unsold[i] \in Unsold(all)
      /\ \A i, j \in DOMAIN unsold : unsold[i] = unsold[j] => i = j
  <2> DEFINE ids == [b \in DOMAIN all |-> b]
  <2>1. ids \in Seq(DOMAIN all) /\ DOMAIN ids = DOMAIN all
    <3>1. \A n \in Nat : [b \in 1..n |-> b] \in Seq(1..n)
      OBVIOUS
    <3>2. Len(all) \in Nat
      BY <1>3
    <3>3. QED
      BY <1>3, <3>1, <3>2
  <2>2. \A i, j \in DOMAIN ids : ids[i] = ids[j] => i = j
    OBVIOUS
  <2>3. unsold = Those(ids, Unsold(all))
    OBVIOUS
  <2> DEFINE left == Unsold(all)
             ground == DOMAIN all
  <2> HIDE DEF ids, left, ground
  <2>4. /\ Those(ids, left) \in Seq(ground \cap left)
        /\ \A i, j \in DOMAIN Those(ids, left) : Those(ids, left)[i] = Those(ids, left)[j] => i = j
    <3>1. ids \in Seq(ground)
      BY <2>1 DEF ground
    <3>2. QED
      BY <2>2, <3>1, ThoseOfTheSet
  <2>5. unsold = Those(ids, left)
    BY <2>3 DEF left
  <2> HIDE DEF unsold
  <2>6. unsold \in Seq(ToSet(unsold)) /\ \A i \in DOMAIN unsold : unsold[i] \in ground \cap left
    BY <2>4, <2>5, OfItself
  <2>7. QED
    BY <2>4, <2>5, <2>6 DEF left
<1> HIDE DEF unsold
<1>7. /\ opened \in Seq(ToSet(opened)) /\ DOMAIN opened = DOMAIN unsold
      /\ \A i \in DOMAIN opened :
            /\ IsWindow(opened[i], Bid) /\ opened[i].bounty = unsold[i]
  <2>1. opened \in Seq(ToSet(opened)) /\ DOMAIN opened = DOMAIN unsold
    <3>1. opened = [i \in DOMAIN unsold |-> opened[i]]
      OBVIOUS
    <3> HIDE DEF opened
    <3>2. QED
      BY <1>6, <3>1, Mapped
  <2>2. WindowTicks \in Nat \ {0}
    BY FairAssumption, Zenon
  <2>3. tick + 1 + WindowTicks \in Int
    BY <2>2
  <2>4. ASSUME NEW i \in DOMAIN unsold
        PROVE  IsWindow(opened[i], Bid) /\ opened[i].bounty = unsold[i]
    BY <2>3, WindowOpens
  <2>5. QED
    BY <2>1, <2>4
<1> HIDE DEF opened
<1>8. /\ windows' \in Seq(ToSet(windows'))
      /\ \A i \in DOMAIN windows : i \in DOMAIN windows' /\ windows'[i] = windows[i]
      /\ \A i \in DOMAIN windows' \ DOMAIN windows :
            i - Len(windows) \in DOMAIN opened /\ windows'[i] = opened[i - Len(windows)]
      /\ DOMAIN windows' \subseteq Int /\ Len(windows) \in Int
  <2>1. windows \in Seq(ToSet(windows))
    BY <1>2 DEF Offered
  <2>2. opened \in Seq(ToSet(opened)) /\ windows' = windows \o opened
    BY <1>1, <1>7
  <2>3. DOMAIN windows' = 1..(Len(windows) + Len(opened)) /\ Len(windows) \in Nat
    BY <2>1, <2>2, Joined
  <2>4. windows' \in Seq(ToSet(windows'))
    BY <2>1, <2>2, Joined
  <2>5. \A i \in DOMAIN windows : i \in DOMAIN windows' /\ windows'[i] = windows[i]
    BY <2>1, <2>2, Joined
  <2>6. \A i \in DOMAIN windows' \ DOMAIN windows :
            i - Len(windows) \in DOMAIN opened /\ windows'[i] = opened[i - Len(windows)]
    BY <2>1, <2>2, Joined
  <2>7. QED
    BY <2>3, <2>4, <2>5, <2>6
<1>9. Free \subseteq Free'
  BY <1>1, <1>2, <1>3 DEF Free, OnSale
<1>10. ASSUME NEW b \in Unsold(all)
       PROVE  b \in Free' /\ \A i \in DOMAIN windows : windows[i].bounty # b
  <2>1. b \in OnSale(all) \ (shelved \cup withdrawn) /\ \A i \in DOMAIN windows : windows[i].bounty # b
    BY DEF Unsold
  <2>2. b \notin cards
    BY <1>2, <1>3, <2>1 DEF OnSale
  <2>3. QED
    BY <1>1, <2>1, <2>2 DEF Free
<1>11. Offered(windows', Bid, Free')
  <2>1. ASSUME NEW i \in DOMAIN windows' PROVE IsWindow(windows'[i], Bid) /\ windows'[i].bounty \in Free'
    <3>1. CASE i \in DOMAIN windows
      BY <1>2, <1>8, <1>9, <3>1 DEF Offered
    <3>2. CASE i \notin DOMAIN windows
      <4>1. i - Len(windows) \in DOMAIN opened /\ windows'[i] = opened[i - Len(windows)]
        BY <1>8, <3>2
      <4>2. QED
        BY <1>6, <1>7, <1>10, <4>1
    <3>3. QED
      BY <3>1, <3>2
  <2>2. ASSUME NEW i \in DOMAIN windows', NEW j \in DOMAIN windows', windows'[i].bounty = windows'[j].bounty
        PROVE  i = j
    <3>1. ASSUME NEW k \in DOMAIN windows', k \notin DOMAIN windows
          PROVE  windows'[k].bounty = unsold[k - Len(windows)] /\ k - Len(windows) \in DOMAIN unsold
                 /\ windows'[k].bounty \in Unsold(all)
      <4>1. k - Len(windows) \in DOMAIN opened /\ windows'[k] = opened[k - Len(windows)]
        BY <1>8, <3>1
      <4>2. QED
        BY <1>6, <1>7, <4>1
    <3>2. CASE i \in DOMAIN windows /\ j \in DOMAIN windows
      BY <1>2, <1>8, <2>2, <3>2 DEF Offered
    <3>3. CASE i \notin DOMAIN windows /\ j \notin DOMAIN windows
      <4>1. i - Len(windows) = j - Len(windows)
        BY <1>6, <2>2, <3>1, <3>3
      <4>2. QED
        BY <1>8, <4>1
    <3>4. CASE ~(i \in DOMAIN windows <=> j \in DOMAIN windows)
      BY <1>8, <1>10, <2>2, <3>1, <3>4
    <3>5. QED
      BY <3>2, <3>3, <3>4
  <2>3. QED
    BY <1>8, <2>1, <2>2 DEF Offered
<1>12. cards' \subseteq DOMAIN bounties' /\ cards' \cap OnSale(bounties') \subseteq withdrawn'
  BY <1>1, <1>2, <1>3 DEF OnSale
<1>13. QED
  BY <1>1, <1>2, <1>5, <1>11, <1>12 DEF Market

-----------------------------------------------------------------------------
\* An attempt changes what is for sale by its own bounty at most.
LEMMA AttemptOnSale ==
    ASSUME Postings, stage \notin {"stuck", "broken"}, NEW b \in DOMAIN bounties, BoardAfter(b)
    PROVE  /\ Postings' /\ DOMAIN bounties' = DOMAIN bounties /\ stage' \in {stage, "stuck", "broken"}
           /\ \A c : c # b => (c \in OnSale(bounties') <=> c \in OnSale(bounties))
<1>1. /\ bounties' \in Seq(ToSet(bounties')) /\ DOMAIN bounties' = DOMAIN bounties
      /\ \A c \in DOMAIN bounties : c # b => bounties'[c] = bounties[c]
      /\ IsPosting(bounties'[b])
      /\ \/ stage' = stage /\ bounties'[b].state # "awarded"
         \/ stage' \in {"stuck", "broken"}
  BY DEF BoardAfter
<1>2. \A c \in DOMAIN bounties : IsPosting(bounties[c]) /\ bounties[c].state # "awarded"
  BY DEF Postings
<1>3. Postings'
  BY <1>1, <1>2 DEF Postings
<1>4. \A c : c # b => (c \in OnSale(bounties') <=> c \in OnSale(bounties))
  BY <1>1 DEF OnSale
<1>5. QED
  BY <1>1, <1>3, <1>4

\* The window that closes is the first that is due.
LEMMA WindowCloses ==
    ASSUME Market, CloseWindow
    PROVE  Market'
<1> DEFINE k == Min(Due)
           w == windows[k]
           b == w.bounty
<1>1. /\ windows \in Seq(ToSet(windows))
      /\ \A i \in DOMAIN windows : IsWindow(windows[i], Bid) /\ windows[i].bounty \in Free
      /\ \A i, j \in DOMAIN windows : windows[i].bounty = windows[j].bounty => i = j
      /\ cards \subseteq DOMAIN bounties /\ Ranks(ladder, cards) /\ Postings
  BY DEF Market, Offered
<1>2. /\ stage = "close" /\ Due # {} /\ windows' = RemoveAt(windows, k)
      /\ UNCHANGED <<tick, withdrawn, cards>>
  BY DEF CloseWindow
<1>3. k \in DOMAIN windows /\ DOMAIN windows \subseteq Nat
  <2>1. DOMAIN windows \subseteq Nat /\ Due \subseteq DOMAIN windows
    BY <1>1 DEF Due
  <2>2. QED
    BY <1>2, <2>1, MinIsLeast
<1>4. b \in Free /\ b \in DOMAIN bounties /\ b \notin cards
  BY <1>1, <1>3 DEF Free, OnSale
<1>5. cards \cap OnSale(bounties) \subseteq withdrawn
  BY <1>2 DEF Market
<1>6. \/ /\ w.book = <<>>
         /\ shelved' = IF reopens[b] + 1 >= MaxReopens THEN shelved \cup {b} ELSE shelved
         /\ UNCHANGED <<bounties, stage, ladder>>
      \/ AwardAndAttempt(b, w.book, w.salt) /\ UNCHANGED shelved
  BY DEF CloseWindow
<1> HIDE DEF k
<1>7. /\ windows' \in Seq(ToSet(windows'))
      /\ \A i \in DOMAIN windows' : LET j == IF i < k THEN i ELSE i + 1
                                    IN  i \in Nat /\ j \in DOMAIN windows /\ j # k /\ windows'[i] = windows[j]
  BY <1>1, <1>2, <1>3, Removed
<1> HIDE DEF w, b
<1>8. ASSUME NEW i \in DOMAIN windows'
      PROVE  IsWindow(windows'[i], Bid) /\ windows'[i].bounty \in Free \ {b}
  <2>1. PICK j \in DOMAIN windows : j # k /\ windows'[i] = windows[j]
    BY <1>7
  <2>2. windows[j].bounty # b
    BY <1>1, <1>3, <2>1 DEF w, b
  <2>3. QED
    BY <1>1, <2>1, <2>2
<1>9. ASSUME NEW i \in DOMAIN windows', NEW j \in DOMAIN windows', windows'[i].bounty = windows'[j].bounty
      PROVE  i = j
  <2> DEFINE at(n) == IF n < k THEN n ELSE n + 1
  <2>1. i \in Nat /\ j \in Nat /\ k \in Nat
    BY <1>3, <1>7
  <2>2. /\ at(i) \in DOMAIN windows /\ at(j) \in DOMAIN windows
        /\ windows'[i] = windows[at(i)] /\ windows'[j] = windows[at(j)]
    BY <1>7
  <2> HIDE DEF at
  <2>3. at(i) = at(j)
    BY <1>1, <1>9, <2>2
  <2>4. QED
    BY <2>1, <2>3 DEF at
<1>10. ASSUME Postings', Free \ {b} \subseteq Free', cards' \subseteq DOMAIN bounties',
              cards' \cap OnSale(bounties') \subseteq withdrawn', ladder' = ladder,
              stage' \in {"close", "stuck", "broken"}
       PROVE  Market'
  <2>1. Offered(windows', Bid, Free')
    BY <1>7, <1>8, <1>9, <1>10 DEF Offered
  <2>2. Ranks(ladder', cards')
    BY <1>1, <1>2, <1>10
  <2>3. QED
    BY <1>10, <2>1, <2>2 DEF Market
<1>11. CASE shelved' \subseteq shelved \cup {b} /\ UNCHANGED <<bounties, stage, ladder>>
  <2>1. Postings'
    BY <1>1, <1>11 DEF Postings
  <2>2. Free \ {b} \subseteq Free'
    BY <1>2, <1>11 DEF Free
  <2>3. QED
    BY <1>1, <1>2, <1>5, <1>10, <1>11, <2>1, <2>2
<1>12. CASE AwardAndAttempt(b, w.book, w.salt) /\ UNCHANGED shelved
  <2>1. \E a, x, price : Attempt(b, a, Awarded(bounties, b, x, price))
    BY <1>12 DEF AwardAndAttempt
  <2>2. BoardAfter(b) /\ (ladder' = ladder \/ ladder' = Tallied(b))
    BY <1>1, <1>4, <2>1, AttemptOnBoard
  <2>3. /\ Postings' /\ DOMAIN bounties' = DOMAIN bounties /\ stage' \in {"close", "stuck", "broken"}
        /\ \A c : c # b => (c \in OnSale(bounties') <=> c \in OnSale(bounties))
    BY <1>1, <1>2, <1>4, <2>2, AttemptOnSale
  <2>4. ladder' = ladder
    BY <1>2, <2>2 DEF Tallied
  <2>5. Free \ {b} \subseteq Free'
    BY <1>2, <1>12, <2>3 DEF Free
  <2>6. cards' \subseteq DOMAIN bounties' /\ cards' \cap OnSale(bounties') \subseteq withdrawn'
    BY <1>1, <1>2, <1>4, <1>5, <2>3
  <2>7. QED
    BY <1>10, <2>3, <2>4, <2>5, <2>6
<1>13. QED
  BY <1>6, <1>11, <1>12

\* A visit ends when nothing is due.
LEMMA NothingDue ==
    ASSUME Market, tick \in Nat, Due = {}
    PROVE  \A i \in DOMAIN windows : windows[i].close > tick
<1>1. \A i \in DOMAIN windows : windows[i].close \in Int /\ ~ (windows[i].close <= tick)
  BY DEF Market, Offered, IsWindow, Due
<1>2. QED
  BY <1>1

\* The cards are new numbers: under no window, in no rank.
LEMMA CardsDealt ==
    ASSUME Market, tick \in Nat, DealCards
    PROVE  Market' /\ Table'
<1> DEFINE n == Len(bounties)
           dealtNow == [i \in 1..Cards |-> n + i]
           posts == [i \in 1..Cards |-> Bounty(FALSE)]
<1>1. /\ stage = "close" /\ Due = {} /\ stage' = "sit" /\ UNCHANGED <<tick, windows, shelved, withdrawn, ladder>>
      /\ bounties' = bounties \o posts /\ cards' = cards \cup ToSet(dealtNow)
      /\ table' = [i \in 1..Cards |-> Window(dealtNow[i], tick)]
  BY DEF DealCards
<1>2. /\ bounties \in Seq(ToSet(bounties)) /\ cards \subseteq DOMAIN bounties
      /\ Offered(windows, Bid, Free) /\ Ranks(ladder, cards)
      /\ \A c \in DOMAIN bounties : IsPosting(bounties[c]) /\ bounties[c].state # "awarded"
  BY <1>1 DEF Market, Postings
<1>3. n \in Nat /\ DOMAIN bounties = 1..n /\ Cards \in Nat
  <2>1. Cards \in Nat \ {0}
    BY FairAssumption, Zenon
  <2>2. QED
    BY <1>2, <2>1
<1>4. posts \in Seq(ToSet(posts)) /\ Len(posts) = Cards /\ \A x \in ToSet(posts) : x = Bounty(FALSE)
  <2>1. DOMAIN posts = 1..Cards /\ \A i \in 1..Cards : posts[i] = Bounty(FALSE)
    OBVIOUS
  <2> HIDE DEF posts
  <2>2. \A m \in Nat : \A f : f = [i \in 1..m |-> f[i]] => f \in Seq(ToSet(f)) /\ Len(f) = m
    <3>1. ASSUME NEW m \in Nat, NEW f, f = [i \in 1..m |-> f[i]] PROVE f \in Seq(ToSet(f)) /\ Len(f) = m
      <4>1. f \in [1..m -> ToSet(f)]
        BY <3>1 DEF ToSet
      <4>2. \A g \in [1..m -> ToSet(f)] : g \in Seq(ToSet(f)) /\ Len(g) = m
        OBVIOUS
      <4>3. QED
        BY <4>1, <4>2
    <3>2. QED
      BY <3>1
  <2>3. posts = [i \in 1..Cards |-> posts[i]]
    BY DEF posts
  <2>4. QED
    BY <1>3, <2>1, <2>2, <2>3 DEF ToSet
<1> HIDE DEF posts, n
<1>5. /\ bounties' \in Seq(ToSet(bounties')) /\ DOMAIN bounties \subseteq DOMAIN bounties'
      /\ DOMAIN bounties' = 1..(n + Cards)
      /\ \A b \in DOMAIN bounties : bounties'[b] = bounties[b]
      /\ \A b \in DOMAIN bounties' \ DOMAIN bounties : bounties'[b] = Bounty(FALSE)
  <2>1. /\ bounties' \in Seq(ToSet(bounties')) /\ DOMAIN bounties' = 1..(n + Len(posts))
        /\ DOMAIN bounties \subseteq DOMAIN bounties'
        /\ \A b \in DOMAIN bounties : bounties'[b] = bounties[b]
        /\ \A b \in DOMAIN bounties' \ DOMAIN bounties : bounties'[b] \in ToSet(posts)
    BY <1>1, <1>2, <1>4, BoardPosted DEF n
  <2>2. QED
    BY <1>4, <2>1
<1>6. IsPosting(Bounty(FALSE)) /\ Bounty(FALSE).state = "open"
  BY DEF Bounty, IsPosting, States
<1>7. Postings'
  BY <1>2, <1>5, <1>6 DEF Postings
<1>8. ToSet(dealtNow) = (n + 1)..(n + Cards)
  <2>1. ASSUME NEW x \in (n + 1)..(n + Cards) PROVE x \in ToSet(dealtNow)
    <3>1. x - n \in 1..Cards /\ x = n + (x - n)
      BY <1>3
    <3>2. QED
      BY <3>1 DEF ToSet
  <2>2. \A i \in 1..Cards : n + i \in (n + 1)..(n + Cards)
    BY <1>3
  <2>3. QED
    BY <2>1, <2>2 DEF ToSet
<1> HIDE DEF dealtNow
<1>9. /\ cards' \subseteq DOMAIN bounties' /\ ToSet(dealtNow) \cap DOMAIN bounties = {}
      /\ cards' = cards \cup ToSet(dealtNow)
  <2>1. cards' = cards \cup ToSet(dealtNow)
    BY <1>1 DEF dealtNow
  <2>2. ToSet(dealtNow) \subseteq DOMAIN bounties' /\ ToSet(dealtNow) \cap DOMAIN bounties = {}
    BY <1>3, <1>5, <1>8
  <2>3. QED
    BY <1>2, <1>5, <2>1, <2>2
<1>10. Free \subseteq Free'
  BY <1>1, <1>5, <1>9 DEF Free, OnSale
<1>11. Offered(windows', Bid, Free')
  BY <1>1, <1>2, <1>10 DEF Offered
<1>12. Ranks(ladder', cards')
  <2>1. \A A, B : \A x \in Seq(A) : A \subseteq B => x \in Seq(B)
    OBVIOUS
  <2>2. QED
    BY <1>1, <1>2, <1>9, <2>1 DEF Ranks
<1>13. \A i \in DOMAIN windows : windows[i].close > tick
  BY <1>1, NothingDue
<1>14. Market'
  BY <1>1, <1>7, <1>9, <1>11, <1>12, <1>13 DEF Market
<1>15. ASSUME NEW i \in 1..Cards
       PROVE  /\ "bounty" \in DOMAIN table'[i] /\ table'[i].bounty = n + i
              /\ n + i \in cards' /\ n + i \notin ToSet(ladder)
  <2>1. table'[i] = Window(n + i, tick)
    BY <1>1 DEF dealtNow
  <2>2. n + i \in ToSet(dealtNow) /\ n + i \notin DOMAIN bounties
    BY <1>3, <1>8
  <2>3. ToSet(ladder) \subseteq cards
    BY <1>2 DEF Ranks, ToSet
  <2>4. QED
    BY <1>2, <1>9, <2>1, <2>2, <2>3 DEF Window
<1>16. table' \in Seq(ToSet(table')) /\ DOMAIN table' = 1..Cards
  <2>1. table' \in [1..Cards -> ToSet(table')]
    BY <1>1 DEF ToSet
  <2>2. \A m \in Nat : \A S : \A f \in [1..m -> S] : f \in Seq(S) /\ DOMAIN f = 1..m
    OBVIOUS
  <2>3. QED
    BY <1>3, <2>1, <2>2
<1>17. Table'
  BY <1>1, <1>3, <1>15, <1>16 DEF Table
<1>18. QED
  BY <1>14, <1>17

-----------------------------------------------------------------------------
\* Whoever sits bids on the cards that lie there.
LEMMA SitterBids ==
    ASSUME Table, AtSitting
    PROVE  /\ Table' /\ DOMAIN table' = DOMAIN table
           /\ \A i \in DOMAIN table : table'[i].bounty = table[i].bounty
<1> DEFINE a == Head(line)
<1>1. PICK asks : table' = Entered(table, a, asks)
  BY DEF AtSitting
<1>2. /\ table \in Seq(ToSet(table)) /\ stage = "sit" /\ UNCHANGED <<cards, ladder>>
      /\ \A i \in DOMAIN table :
            "bounty" \in DOMAIN table[i] /\ table[i].bounty \in cards /\ table[i].bounty \notin ToSet(ladder)
      /\ \A i, j \in DOMAIN table : table[i].bounty = table[j].bounty => i = j
  BY DEF Table, AtSitting
<1>3. table' = [i \in DOMAIN table |->
          IF table[i].bounty \in DOMAIN asks /\ Takes(table[i].book, a, asks[table[i].bounty])
          THEN [table[i] EXCEPT !.book = Placed(@, a, asks[table[i].bounty])] ELSE table[i]]
  BY <1>1 DEF Entered
<1> HIDE DEF a
<1>4. ASSUME NEW i \in DOMAIN table
      PROVE  "bounty" \in DOMAIN table'[i] /\ table'[i].bounty = table[i].bounty
  <2> DEFINE more == Placed(table[i].book, a, asks[table[i].bounty])
  <2>1. table'[i] = table[i] \/ table'[i] = [table[i] EXCEPT !.book = more]
    BY <1>3
  <2> HIDE DEF more
  <2>2. QED
    BY <1>2, <2>1
<1>5. table' \in Seq(ToSet(table')) /\ DOMAIN table' = DOMAIN table
  <2>1. table' = [i \in DOMAIN table |-> table'[i]]
    BY <1>3
  <2>2. QED
    BY <1>2, <2>1, Mapped
<1>6. Table'
  BY <1>2, <1>4, <1>5 DEF Table
<1>7. QED
  BY <1>4, <1>5, <1>6

\* A card is attempted, and ranked, as it leaves the table.
LEMMA CardAwarded ==
    ASSUME Market, Table, AwardCard
    PROVE  Market' /\ Table'
<1> DEFINE card == Head(table)
           b == card.bounty
<1>1. /\ stage = "award" /\ table # <<>> /\ table' = Tail(table)
      /\ UNCHANGED <<tick, windows, shelved, withdrawn, cards>>
      /\ \/ UNCHANGED <<bounties, stage, ladder>>
         \/ AwardAndAttempt(b, card.book, card.salt)
  BY DEF AwardCard, officeVars
<1>2. /\ table \in Seq(ToSet(table))
      /\ \A i \in DOMAIN table :
            "bounty" \in DOMAIN table[i] /\ table[i].bounty \in cards /\ table[i].bounty \notin ToSet(ladder)
      /\ \A i, j \in DOMAIN table : table[i].bounty = table[j].bounty => i = j
  BY <1>1 DEF Table
<1>3. /\ Postings /\ Offered(windows, Bid, Free) /\ cards \subseteq DOMAIN bounties /\ Ranks(ladder, cards)
      /\ \A i \in DOMAIN windows : windows[i].close > tick
  BY <1>1 DEF Market
<1>4. /\ card = table[1] /\ 1 \in DOMAIN table
      /\ table' \in Seq(ToSet(table)) /\ DOMAIN table' \subseteq Int
      /\ \A i \in DOMAIN table' : i + 1 \in DOMAIN table /\ i + 1 # 1 /\ table'[i] = table[i + 1]
  BY <1>1, <1>2
<1> HIDE DEF card
<1>5. b \in cards /\ b \in DOMAIN bounties /\ b \notin ToSet(ladder) /\ b \notin Free
  BY <1>2, <1>3, <1>4 DEF Free
<1> HIDE DEF b
<1>6. \/ bounties' = bounties /\ stage' = stage /\ ladder' = ladder
      \/ BoardAfter(b) /\ (ladder' = ladder \/ ladder' = Append(ladder, b))
  <2>1. CASE AwardAndAttempt(b, card.book, card.salt)
    <3>1. \E a, x, price : Attempt(b, a, Awarded(bounties, b, x, price))
      BY <2>1 DEF AwardAndAttempt
    <3>2. BoardAfter(b) /\ (ladder' = ladder \/ ladder' = Tallied(b))
      BY <1>3, <1>5, <3>1, AttemptOnBoard
    <3>3. QED
      BY <1>1, <3>2 DEF Tallied
  <2>2. QED
    BY <1>1, <2>1 DEF b
<1>7. /\ Postings' /\ DOMAIN bounties' = DOMAIN bounties /\ stage' \in {"award", "stuck", "broken"}
      /\ \A c : c # b => (c \in OnSale(bounties') <=> c \in OnSale(bounties))
  <2>1. CASE bounties' = bounties /\ stage' = stage
    BY <1>1, <1>3, <2>1 DEF Postings
  <2>2. CASE BoardAfter(b)
    BY <1>1, <1>3, <1>5, <2>2, AttemptOnSale
  <2>3. QED
    BY <1>6, <2>1, <2>2
<1>8. Free \subseteq Free'
  BY <1>1, <1>5, <1>7 DEF Free
<1>9. Offered(windows', Bid, Free')
  BY <1>1, <1>3, <1>8 DEF Offered
<1>10. ladder \in Seq(cards) /\ \A i, j \in DOMAIN ladder : ladder[i] = ladder[j] => i = j
  BY <1>3 DEF Ranks
<1>11. Ranks(ladder', cards') /\ ToSet(ladder') \subseteq ToSet(ladder) \cup {b}
  <2>1. CASE ladder' = ladder
    BY <1>1, <1>3, <2>1
  <2>2. CASE ladder' = Append(ladder, b)
    <3>1. /\ ladder' \in Seq(cards) /\ DOMAIN ladder' = 1..(Len(ladder) + 1) /\ DOMAIN ladder = 1..Len(ladder)
          /\ Len(ladder) \in Nat /\ ladder'[Len(ladder) + 1] = b
          /\ \A i \in DOMAIN ladder : ladder'[i] = ladder[i]
      BY <1>5, <1>10, <2>2
    <3>2. \A i \in DOMAIN ladder : ladder[i] # b
      BY <1>5 DEF ToSet
    <3>3. ASSUME NEW i \in DOMAIN ladder', NEW j \in DOMAIN ladder', ladder'[i] = ladder'[j] PROVE i = j
      <4>1. (i \in DOMAIN ladder \/ i = Len(ladder) + 1) /\ (j \in DOMAIN ladder \/ j = Len(ladder) + 1)
        BY <3>1
      <4>2. QED
        BY <1>10, <3>1, <3>2, <3>3, <4>1
    <3>4. ToSet(ladder') \subseteq ToSet(ladder) \cup {b}
      <4>1. ASSUME NEW i \in DOMAIN ladder' PROVE ladder'[i] \in ToSet(ladder) \cup {b}
        <5>1. i \in DOMAIN ladder \/ i = Len(ladder) + 1
          BY <3>1
        <5>2. QED
          BY <3>1, <5>1 DEF ToSet
      <4>2. \A x \in ToSet(ladder') : \E i \in DOMAIN ladder' : x = ladder'[i]
        BY DEF ToSet
      <4>3. QED
        BY <4>1, <4>2
    <3>5. QED
      BY <1>1, <3>1, <3>3, <3>4 DEF Ranks
  <2>3. QED
    BY <1>6, <2>1, <2>2
<1>12. Market'
  <2>1. cards' \subseteq DOMAIN bounties' /\ \A i \in DOMAIN windows' : windows'[i].close > tick'
    BY <1>1, <1>3, <1>7
  <2>2. QED
    BY <1>7, <1>9, <1>11, <2>1 DEF Market
<1>13. Table'
  <2>1. table' \in Seq(ToSet(table'))
    BY <1>4, OfItself
  <2>2. ASSUME NEW i \in DOMAIN table'
        PROVE  "bounty" \in DOMAIN table'[i] /\ table'[i].bounty \in cards' /\ table'[i].bounty \notin ToSet(ladder')
    <3>1. i + 1 \in DOMAIN table /\ i + 1 # 1 /\ table'[i] = table[i + 1]
      BY <1>4
    <3>2. table[i + 1].bounty # b
      BY <1>2, <1>4, <3>1 DEF b
    <3>3. QED
      BY <1>1, <1>2, <1>11, <3>1, <3>2
  <2>3. ASSUME NEW i \in DOMAIN table', NEW j \in DOMAIN table', table'[i].bounty = table'[j].bounty
        PROVE  i = j
    <3>1. i + 1 = j + 1
      BY <1>2, <1>4, <2>3
    <3>2. QED
      BY <1>4, <3>1
  <2>4. QED
    BY <2>1, <2>2, <2>3 DEF Table
<1>14. QED
  BY <1>12, <1>13

\* A card that is still open when the table is cleared is withdrawn.
LEMMA TableCleared ==
    ASSUME Market, ClearTable
    PROVE  Market' /\ Table'
<1>1. /\ stage = "award" /\ stage' = "boundary" /\ withdrawn' = withdrawn \cup (cards \cap OnSale(bounties))
      /\ UNCHANGED <<tick, bounties, windows, shelved, cards, ladder>>
  BY DEF ClearTable, Withdrawn, officeVars
<1>2. Free' = Free
  BY <1>1 DEF Free
<1>3. Postings'
  BY <1>1 DEF Market, Postings
<1>4. Market'
  BY <1>1, <1>2, <1>3 DEF Market
<1>5. QED
  BY <1>1, <1>4 DEF Table

LEMMA VisitMarket ==
    ASSUME Folk, Market, Table, tick \in Nat, Visit
    PROVE  Market' /\ Table'
<1>1. CASE OpenOffice
  BY <1>1, OfficePosts DEF OpenOffice, Table
<1>2. CASE AtOffice \/ OfficeRefused
  <2>1. /\ stage = "office" /\ stage' \in {stage, "stuck"} /\ line # <<>>
        /\ UNCHANGED <<bounties, shelved, withdrawn, cards, ladder, table, tick>>
    BY <1>2 DEF AtOffice, OfficeRefused, sitVars
  <2>2. CASE UNCHANGED windows
    BY <2>1, <2>2, MarketWaits
  <2>3. CASE \E asks \in Asks(windows) :
                windows' = Entered([i \in DOMAIN windows |-> Shown(windows[i], Head(line))], Head(line), asks)
    <3>1. Head(line) \in Bidder /\ week \in Week
      BY <2>1, LineGoesOn DEF Folk
    <3>2. Offered(windows', Bid, Free)
      BY <2>3, <3>1, BidsEntered DEF Market
    <3>3. Postings' /\ Free' = Free
      BY <2>1 DEF Market, Postings, Free
    <3>4. Market'
      BY <2>1, <3>2, <3>3 DEF Market
    <3>5. QED
      BY <2>1, <3>4 DEF Table
  <2>4. QED
    BY <1>2, <2>2, <2>3 DEF AtOffice, OfficeRefused
<1>3. CASE LeaveOffice \/ AtSquare \/ SquareRefused \/ LeaveSquare
  <2>1. /\ UNCHANGED <<bounties, windows, shelved, withdrawn, cards, ladder, table, tick>>
        /\ stage' \in {"square", "close", "stuck"} /\ stage \in {"office", "square"}
    BY <1>3 DEF LeaveOffice, AtSquare, SquareRefused, LeaveSquare, officeVars, sitVars
  <2>2. QED
    BY <2>1, MarketWaits
<1>4. CASE CloseWindow
  <2>1. Table'
    <3>1. stage' \in {"close", "stuck", "broken"}
      BY <1>4, AttemptStages DEF CloseWindow, AwardAndAttempt
    <3>2. QED
      BY <3>1 DEF Table
  <2>2. QED
    BY <1>4, <2>1, WindowCloses
<1>5. CASE EndOfVisit
  <2>1. /\ UNCHANGED <<bounties, windows, shelved, withdrawn, cards, ladder, tick>>
        /\ stage = "close" /\ stage' = "boundary" /\ Due = {}
    BY <1>5 DEF EndOfVisit, officeVars, sitVars
  <2>2. \A i \in DOMAIN windows : windows[i].close > tick
    BY <2>1, NothingDue
  <2>3. Postings' /\ Free' = Free
    BY <2>1 DEF Market, Postings, Free
  <2>4. Market'
    BY <2>1, <2>2, <2>3 DEF Market
  <2>5. QED
    BY <2>1, <2>4 DEF Table
<1>6. CASE DealCards
  BY <1>6, CardsDealt
<1>7. CASE AtSitting
  <2>1. /\ UNCHANGED <<bounties, windows, shelved, withdrawn, cards, ladder, tick>>
        /\ stage = "sit" /\ stage' \in {"sit", "award"}
    BY <1>7 DEF AtSitting, officeVars
  <2>2. Postings' /\ Free' = Free
    BY <2>1 DEF Market, Postings, Free
  <2>3. Market'
    BY <2>1, <2>2 DEF Market
  <2>4. QED
    BY <1>7, <2>3, SitterBids
<1>8. CASE AwardCard
  BY <1>8, CardAwarded
<1>9. CASE ClearTable
  BY <1>9, TableCleared
<1>10. CASE SweepRefused
  <2>1. /\ UNCHANGED <<bounties, windows, shelved, withdrawn, cards, ladder, table>>
        /\ stage = "visit" /\ stage' = "stuck"
    BY <1>10 DEF SweepRefused, officeVars, sitVars
  <2>2. QED
    BY <2>1, MarketWaits
<1>11. QED
  BY <1>1, <1>2, <1>3, <1>4, <1>5, <1>6, <1>7, <1>8, <1>9, <1>10 DEF Visit

-----------------------------------------------------------------------------
\* What is awarded, of the close and of the table.
LEMMA DueIsOpen ==
    ASSUME Market, CloseWindow
    PROVE  LET k == Min(Due)
           IN  /\ k \in DOMAIN windows /\ windows[k].bounty \in DOMAIN bounties
               /\ \A i \in DOMAIN windows' : \E j \in DOMAIN windows :
                     windows'[i] = windows[j] /\ windows[j].bounty # windows[k].bounty
<1> DEFINE k == Min(Due)
<1>1. /\ windows \in Seq(ToSet(windows)) /\ \A i \in DOMAIN windows : windows[i].bounty \in DOMAIN bounties
      /\ \A i, j \in DOMAIN windows : windows[i].bounty = windows[j].bounty => i = j
  BY DEF Market, Offered, Free, OnSale
<1>2. Due # {} /\ windows' = RemoveAt(windows, k)
  BY DEF CloseWindow
<1>3. k \in DOMAIN windows
  <2>1. DOMAIN windows \subseteq Nat /\ Due \subseteq DOMAIN windows
    BY <1>1 DEF Due
  <2>2. QED
    BY <1>2, <2>1, MinIsLeast
<1> HIDE DEF k
<1>4. \A i \in DOMAIN windows' : LET j == IF i < k THEN i ELSE i + 1
                                 IN  i \in Nat /\ j \in DOMAIN windows /\ j # k /\ windows'[i] = windows[j]
  BY <1>1, <1>2, <1>3, Removed
<1>5. \A i \in DOMAIN windows' : \E j \in DOMAIN windows : j # k /\ windows'[i] = windows[j]
  BY <1>4
<1>6. QED
  BY <1>1, <1>3, <1>5 DEF k

LEMMA CardIsDealt ==
    ASSUME Market, Table, AwardCard
    PROVE  /\ 1 \in DOMAIN table /\ Head(table) = table[1] /\ table[1].bounty \in cards
           /\ table[1].bounty \in DOMAIN bounties
           /\ \A i \in DOMAIN windows : windows[i].bounty # table[1].bounty
           /\ \A i \in DOMAIN table' : \E j \in DOMAIN table :
                 table'[i] = table[j] /\ table[j].bounty # table[1].bounty
<1>1. stage = "award" /\ table # <<>> /\ table' = Tail(table)
  BY DEF AwardCard
<1>2. /\ table \in Seq(ToSet(table)) /\ cards \subseteq DOMAIN bounties
      /\ \A i \in DOMAIN table : table[i].bounty \in cards
      /\ \A i, j \in DOMAIN table : table[i].bounty = table[j].bounty => i = j
      /\ \A i \in DOMAIN windows : windows[i].bounty \in Free
  BY <1>1 DEF Table, Market, Offered
<1>3. /\ Head(table) = table[1] /\ 1 \in DOMAIN table
      /\ \A i \in DOMAIN table' : i + 1 \in DOMAIN table /\ i + 1 # 1 /\ table'[i] = table[i + 1]
  BY <1>1, <1>2
<1>4. \A i \in DOMAIN windows : windows[i].bounty # table[1].bounty
  BY <1>2, <1>3 DEF Free
<1>5. QED
  BY <1>2, <1>3, <1>4

LEMMA AwardAttempts ==
    ASSUME Postings, NEW b \in DOMAIN bounties, NEW book, NEW salt, AwardAndAttempt(b, book, salt)
    PROVE  /\ DOMAIN bounties' = DOMAIN bounties
           /\ attempts' = attempts \/ attempts' = attempts \cup {<<b, tick>>}
           /\ stage' \in {stage, "stuck"} \/ <<b, tick>> \in attempts
<1>1. PICK a, x, price : Attempt(b, a, Awarded(bounties, b, x, price))
  BY DEF AwardAndAttempt
<1>2. BoardAfter(b) /\ (attempts' = attempts \/ attempts' = attempts \cup {<<b, tick>>})
  BY <1>1, AttemptOnBoard
<1>3. stage' \in {stage, "stuck"} \/ <<b, tick>> \in attempts
  BY <1>2 DEF BoardAfter
<1>4. QED
  BY <1>2, <1>3 DEF BoardAfter

\* The fair breaks only on an attempt the books know, and of one boundary they
\* know none.
LEMMA BreaksTorn ==
    ASSUME Market, Table, Fresh, Visit, stage' = "broken"
    PROVE  Torn
<1>1. stage \in {"visit", "office", "square", "close", "sit", "award"}
  BY VisitStages
<1>2. CASE CloseWindow
  <2> DEFINE w == windows[Min(Due)]
  <2>1. stage = "close" /\ (stage' = stage \/ AwardAndAttempt(w.bounty, w.book, w.salt))
    BY <1>2 DEF CloseWindow
  <2>2. Min(Due) \in DOMAIN windows /\ w.bounty \in DOMAIN bounties
    BY <1>2, DueIsOpen
  <2> HIDE DEF w
  <2>3. <<w.bounty, tick>> \in attempts
    BY <2>1, <2>2, AwardAttempts DEF Market
  <2>4. QED
    BY <2>1, <2>2, <2>3 DEF Fresh, Turning, w
<1>3. CASE AwardCard
  <2> DEFINE card == Head(table)
  <2>1. stage = "award" /\ (stage' = stage \/ AwardAndAttempt(card.bounty, card.book, card.salt))
    BY <1>3 DEF AwardCard
  <2>2. 1 \in DOMAIN table /\ card = table[1] /\ table[1].bounty \in DOMAIN bounties
    BY <1>3, CardIsDealt
  <2> HIDE DEF card
  <2>3. <<card.bounty, tick>> \in attempts
    BY <2>1, <2>2, AwardAttempts DEF Market
  <2>4. QED
    BY <2>1, <2>2, <2>3 DEF Fresh, Turning
<1>4. CASE OpenOffice \/ AtOffice \/ LeaveOffice \/ AtSquare \/ LeaveSquare
  BY <1>1, <1>4 DEF OpenOffice, AtOffice, LeaveOffice, AtSquare, LeaveSquare
<1>5. CASE SweepRefused \/ OfficeRefused \/ SquareRefused
  BY <1>5 DEF SweepRefused, OfficeRefused, SquareRefused
<1>6. CASE EndOfVisit \/ DealCards \/ AtSitting \/ ClearTable
  BY <1>1, <1>6 DEF EndOfVisit, DealCards, AtSitting, ClearTable
<1>7. QED
  BY <1>2, <1>3, <1>4, <1>5, <1>6 DEF Visit

\* Before the office opens nothing was attempted at the tick it opens.
LEMMA TickIsNew ==
    ASSUME Clock, tick \in Nat, stage = "visit", ~Torn, NEW b
    PROVE  <<b, tick + 1>> \notin attempts
<1>1. disk.books.tick <= tick
  <2>1. CASE disk.record = NoFile
    BY <2>1 DEF Torn, NoFile
  <2>2. CASE disk.record # NoFile
    BY <2>2 DEF Clock, Torn, Late
  <2>3. QED
    BY <2>1, <2>2
<1>2. disk.books.tick \in Int
  BY DEF Clock, Torn, NoFile
<1>3. ASSUME NEW p \in attempts PROVE p[2] <= tick /\ p[2] \in Int
  BY <1>1, <1>2 DEF Clock
<1>4. ASSUME <<b, tick + 1>> \in attempts PROVE FALSE
  <2> DEFINE p == <<b, tick + 1>>
  <2>1. p[2] = tick + 1
    OBVIOUS
  <2>2. p[2] <= tick
    BY <1>3, <1>4
  <2> HIDE DEF p
  <2>3. QED
    BY <2>1, <2>2
<1>5. QED
  BY <1>4

LEMMA VisitFresh ==
    ASSUME Folk, Market, Table, Clock, Fresh, tick \in Nat, Visit, disk' = disk
    PROVE  Fresh'
<1> DEFINE Tried(s, now, board) == \A p \in s : p[2] = now => p[1] \in DOMAIN board
           Untried(open, s, now) == \A i \in DOMAIN open : <<open[i].bounty, now>> \notin s
<1>1. SUFFICES ASSUME ~Torn, stage' \in Turning
               PROVE  /\ Tried(attempts', tick', bounties') /\ Untried(windows', attempts', tick')
                      /\ stage' \in {"sit", "award"} => Untried(table', attempts', tick')
  BY DEF Fresh, Torn
<1>2. stage \in Turning => /\ Tried(attempts, tick, bounties) /\ Untried(windows, attempts, tick)
                           /\ stage \in {"sit", "award"} => Untried(table, attempts, tick)
  BY <1>1 DEF Fresh
<1>3. CASE OpenOffice
  <2>1. stage = "visit" /\ stage' = "office" /\ tick' = tick + 1 /\ attempts' = attempts
    BY <1>3 DEF OpenOffice
  <2>2. \A b : <<b, tick'>> \notin attempts'
    BY <1>1, <2>1, TickIsNew
  <2>3. ASSUME NEW p \in attempts', p[2] = tick' PROVE FALSE
    <3>1. p[2] <= tick \/ p[2] <= disk.books.tick
      BY <2>1, <2>3 DEF Clock
    <3>2. disk.books.tick <= tick
      <4>1. CASE disk.record = NoFile
        BY <1>1, <4>1 DEF Torn, NoFile
      <4>2. CASE disk.record # NoFile
        BY <1>1, <2>1, <4>2 DEF Clock, Torn, Late
      <4>3. QED
        BY <4>1, <4>2
    <3>3. disk.books.tick \in Int
      BY <1>1 DEF Clock, Torn, NoFile
    <3>4. QED
      BY <2>1, <2>3, <3>1, <3>2, <3>3
  <2>4. QED
    BY <2>1, <2>2, <2>3
<1>4. CASE AtOffice
  <2>1. /\ stage = "office" /\ stage' = stage /\ line # <<>> /\ UNCHANGED <<bounties, attempts, tick>>
    BY <1>4 DEF AtOffice
  <2>2. CASE UNCHANGED windows
    BY <1>2, <2>1, <2>2 DEF Turning
  <2>3. CASE \E asks \in Asks(windows) :
                windows' = Entered([i \in DOMAIN windows |-> Shown(windows[i], Head(line))], Head(line), asks)
    <3>1. Head(line) \in Bidder /\ week \in Week
      BY <2>1, LineGoesOn DEF Folk
    <3>2. DOMAIN windows' = DOMAIN windows /\ \A i \in DOMAIN windows : windows'[i].bounty = windows[i].bounty
      BY <2>3, <3>1, BidsEntered DEF Market
    <3>3. QED
      BY <1>2, <2>1, <3>2 DEF Turning
  <2>4. QED
    BY <1>4, <2>2, <2>3 DEF AtOffice
<1>5. CASE LeaveOffice \/ AtSquare \/ LeaveSquare
  <2>1. /\ UNCHANGED <<bounties, windows, attempts, tick>>
        /\ stage' \in {"square", "close"} /\ stage \in {"office", "square"}
    BY <1>5 DEF LeaveOffice, AtSquare, LeaveSquare, officeVars, peopleVars
  <2>2. QED
    BY <1>2, <2>1 DEF Turning
<1>6. CASE CloseWindow
  <2> DEFINE w == windows[Min(Due)]
             b == w.bounty
  <2>1. /\ stage = "close" /\ tick' = tick
        /\ UNCHANGED <<bounties, stage, attempts>> \/ AwardAndAttempt(b, w.book, w.salt)
    BY <1>6 DEF CloseWindow
  <2>2. /\ Min(Due) \in DOMAIN windows /\ b \in DOMAIN bounties
        /\ \A i \in DOMAIN windows' : \E j \in DOMAIN windows : windows'[i] = windows[j] /\ windows[j].bounty # b
    BY <1>6, DueIsOpen
  <2> HIDE DEF w, b
  <2>3. /\ DOMAIN bounties' = DOMAIN bounties
        /\ attempts' = attempts \/ attempts' = attempts \cup {<<b, tick>>}
    BY <2>1, <2>2, AwardAttempts DEF Market
  <2>4. stage' \notin {"sit", "award"}
    <3>1. stage' \in {"close", "stuck", "broken"}
      BY <1>6, AttemptStages DEF CloseWindow, AwardAndAttempt
    <3>2. QED
      BY <3>1
  <2>5. QED
    BY <1>2, <2>1, <2>2, <2>3, <2>4 DEF Turning
<1>7. CASE EndOfVisit \/ ClearTable
  BY <1>1, <1>7 DEF EndOfVisit, ClearTable, Turning
<1>8. CASE DealCards
  <2>1. /\ stage = "close" /\ stage' = "sit" /\ UNCHANGED <<windows, attempts, tick>>
        /\ bounties' = bounties \o [i \in 1..Cards |-> Bounty(FALSE)]
        /\ table' = [i \in 1..Cards |-> Window([j \in 1..Cards |-> Len(bounties) + j][i], tick)]
    BY <1>8 DEF DealCards, peopleVars
  <2>2. DOMAIN bounties = 1..Len(bounties) /\ Len(bounties) \in Nat
    BY DEF Market, Postings
  <2>3. \A i \in DOMAIN table' : table'[i].bounty = Len(bounties) + i /\ i \in 1..Cards
    BY <2>1 DEF Window
  <2>4. \A i \in DOMAIN table' : table'[i].bounty \notin DOMAIN bounties
    BY <2>2, <2>3
  <2>5. DOMAIN bounties \subseteq DOMAIN bounties'
    <3> DEFINE posts == [i \in 1..Cards |-> Bounty(FALSE)]
    <3>1. Cards \in Nat \ {0}
      BY FairAssumption, Zenon
    <3>2. posts \in Seq({Bounty(FALSE)})
      BY <3>1
    <3>3. bounties \in Seq(ToSet(bounties))
      BY DEF Market, Postings
    <3> HIDE DEF posts
    <3>4. posts \in Seq(ToSet(posts))
      BY <3>2, OfItself
    <3>5. DOMAIN bounties \subseteq DOMAIN (bounties \o posts)
      BY <3>3, <3>4, BoardPosted
    <3>6. QED
      BY <2>1, <3>5 DEF posts
  <2>6. ASSUME NEW i \in DOMAIN table' PROVE <<table'[i].bounty, tick>> \notin attempts
    <3> DEFINE p == <<table'[i].bounty, tick>>
    <3>1. p[1] = table'[i].bounty /\ p[2] = tick
      OBVIOUS
    <3> HIDE DEF p
    <3>2. p \notin attempts
      BY <1>2, <2>1, <2>4, <2>6, <3>1 DEF Turning
    <3>3. QED
      BY <3>2 DEF p
  <2>7. QED
    BY <1>2, <2>1, <2>5, <2>6 DEF Turning
<1>9. CASE AtSitting
  <2>1. stage = "sit" /\ UNCHANGED <<bounties, windows, attempts, tick>>
    BY <1>9 DEF AtSitting, officeVars
  <2>2. DOMAIN table' = DOMAIN table /\ \A i \in DOMAIN table : table'[i].bounty = table[i].bounty
    BY <1>9, SitterBids
  <2>3. QED
    BY <1>2, <2>1, <2>2 DEF Turning
<1>10. CASE AwardCard
  <2> DEFINE card == Head(table)
             b == table[1].bounty
  <2>1. /\ stage = "award" /\ UNCHANGED <<tick, windows>>
        /\ UNCHANGED <<bounties, attempts>> \/ AwardAndAttempt(card.bounty, card.book, card.salt)
    BY <1>10 DEF AwardCard, officeVars
  <2>2. /\ card = table[1] /\ b \in DOMAIN bounties
        /\ \A i \in DOMAIN windows : windows[i].bounty # b
        /\ \A i \in DOMAIN table' : \E j \in DOMAIN table : table'[i] = table[j] /\ table[j].bounty # b
    BY <1>10, CardIsDealt
  <2>3. card.bounty = b
    BY <2>2
  <2> HIDE DEF card, b
  <2>4. /\ DOMAIN bounties' = DOMAIN bounties
        /\ attempts' = attempts \/ attempts' = attempts \cup {<<b, tick>>}
    BY <2>1, <2>2, <2>3, AwardAttempts DEF Market
  <2>5. QED
    BY <1>2, <2>1, <2>2, <2>4 DEF Turning
<1>11. CASE SweepRefused \/ OfficeRefused \/ SquareRefused
  BY <1>1, <1>11 DEF SweepRefused, OfficeRefused, SquareRefused, Turning
<1>12. QED
  BY <1>3, <1>4, <1>5, <1>6, <1>7, <1>8, <1>9, <1>10, <1>11 DEF Visit

-----------------------------------------------------------------------------
\* A bid as it is written down, and as it is read back: under the number it
\* arrived at.
Noted(book) == [j \in DOMAIN book |-> [agent |-> book[j].agent, price |-> book[j].price]]
ReadBack(book) == Loaded([j \in DOMAIN book |-> [agent |-> book[j].agent, price |-> book[j].price, seq |-> 0]])

LEMMA BookNoted ==
    ASSUME NEW book, book \in Seq(Bid)
    PROVE  /\ Noted(book) \in Seq(Tender) /\ DOMAIN Noted(book) = DOMAIN book
           /\ \A j \in DOMAIN book : Noted(book)[j].agent = book[j].agent
<1>1. DOMAIN book = 1..Len(book) /\ Len(book) \in Nat /\ \A j \in DOMAIN book : book[j] \in Bid
  OBVIOUS
<1>2. \A j \in DOMAIN book : Noted(book)[j] \in Tender /\ Noted(book)[j].agent = book[j].agent
  BY <1>1 DEF Noted, Bid, Tender
<1>3. Noted(book) = [j \in 1..Len(book) |-> Noted(book)[j]]
  BY <1>1 DEF Noted
<1>4. Noted(book) \in [1..Len(book) -> Tender]
  BY <1>1, <1>2, <1>3
<1>5. \A n \in Nat : \A f \in [1..n -> Tender] : f \in Seq(Tender) /\ DOMAIN f = 1..n
  OBVIOUS
<1>6. QED
  BY <1>1, <1>2, <1>4, <1>5

LEMMA BookReadBack ==
    ASSUME NEW book, book \in Seq(Tender)
    PROVE  /\ ReadBack(book) \in Seq(Bid) /\ DOMAIN ReadBack(book) = DOMAIN book
           /\ \A j \in DOMAIN book : ReadBack(book)[j].agent = book[j].agent
           /\ Noted(ReadBack(book)) = book
<1> DEFINE loose == [j \in DOMAIN book |-> [agent |-> book[j].agent, price |-> book[j].price, seq |-> 0]]
           back == ReadBack(book)
           n == Len(book)
<1>1. DOMAIN book = 1..n /\ n \in Nat /\ \A j \in 1..n : book[j] \in Tender
  OBVIOUS
<1>2. book = [j \in 1..n |-> book[j]]
  BY <1>1
<1>3. Len(loose) = n
  <2>1. loose = [j \in 1..n |-> loose[j]]
    BY <1>1
  <2> HIDE DEF loose
  <2>2. loose \in [1..n -> ToSet(loose)]
    BY <2>1 DEF ToSet
  <2>3. \A f \in [1..n -> ToSet(loose)] : Len(f) = n
    BY <1>1
  <2>4. QED
    BY <2>2, <2>3
<1> HIDE DEF n
<1>4. back = [j \in 1..n |-> [loose[j] EXCEPT !.seq = j - 1]]
  BY <1>3 DEF ReadBack, Loaded
<1>5. ASSUME NEW j \in 1..n
      PROVE  /\ back[j] = [agent |-> book[j].agent, price |-> book[j].price, seq |-> j - 1]
             /\ back[j] \in Bid /\ back[j].agent = book[j].agent /\ back[j].price = book[j].price
  <2>1. loose[j] = [agent |-> book[j].agent, price |-> book[j].price, seq |-> 0]
    BY <1>1
  <2>2. book[j].agent \in Bidder /\ book[j].price \in Int /\ j - 1 \in Nat
    BY <1>1 DEF Tender
  <2> HIDE DEF loose, back
  <2>3. back[j] = [agent |-> book[j].agent, price |-> book[j].price, seq |-> j - 1]
    BY <1>4, <2>1
  <2>4. QED
    BY <2>2, <2>3 DEF Bid
<1> HIDE DEF back, loose
<1>6. back \in Seq(Bid) /\ DOMAIN back = 1..n
  <2>1. back \in [1..n -> Bid]
    BY <1>4, <1>5
  <2>2. \A f \in [1..n -> Bid] : f \in Seq(Bid) /\ DOMAIN f = 1..n
    BY <1>1
  <2>3. QED
    BY <2>1, <2>2
<1>7. Noted(back) = book
  <2>1. Noted(back) = [j \in 1..n |-> [agent |-> back[j].agent, price |-> back[j].price]]
    BY <1>6 DEF Noted
  <2>2. \A j \in 1..n : [agent |-> back[j].agent, price |-> back[j].price] = book[j]
    <3>1. \A t \in Tender : [agent |-> t.agent, price |-> t.price] = t
      BY DEF Tender
    <3>2. QED
      BY <1>1, <1>5, <3>1
  <2>3. QED
    BY <1>2, <2>1, <2>2
<1>8. QED
  BY <1>1, <1>5, <1>6, <1>7 DEF back

\* A window whose book is rewritten, bid by bid, for the same agents.
LEMMA WindowRewritten ==
    ASSUME NEW bids, NEW tenders, NEW w, IsWindow(w, bids), NEW book, book \in Seq(tenders),
           DOMAIN book = DOMAIN w.book, \A j \in DOMAIN book : book[j].agent = w.book[j].agent,
           NEW after, after = [w EXCEPT !.book = book]
    PROVE  /\ IsWindow(after, tenders)
           /\ after = [bounty |-> w.bounty, book |-> book, salt |-> w.salt, close |-> w.close, shown |-> w.shown]
<1>1. PICK b, old, salt, close, shown :
          w = [bounty |-> b, book |-> old, salt |-> salt, close |-> close, shown |-> shown]
  BY DEF IsWindow
<1>2. /\ w.bounty = b /\ w.book = old /\ w.salt = salt /\ w.close = close /\ w.shown = shown
      /\ after.bounty = b /\ after.book = book /\ after.salt = salt /\ after.close = close
      /\ after.shown = shown
      /\ after = [bounty |-> after.bounty, book |-> after.book, salt |-> after.salt, close |-> after.close,
                  shown |-> after.shown]
  BY <1>1
<1>3. /\ after.book \in Seq(tenders) /\ \A j \in DOMAIN after.book : after.book[j].agent \in after.shown
      /\ after.close \in Int
  BY <1>2 DEF IsWindow
<1>4. QED
  BY <1>2, <1>3 DEF IsWindow

LEMMA WindowsNoted ==
    ASSUME NEW free, Offered(windows, Bid, free), NEW noted,
           noted = [i \in DOMAIN windows |-> [windows[i] EXCEPT !.book = Noted(@)]]
    PROVE  Offered(noted, Tender, free)
<1>1. /\ windows \in Seq(ToSet(windows))
      /\ \A i \in DOMAIN windows : IsWindow(windows[i], Bid) /\ windows[i].bounty \in free
      /\ \A i, j \in DOMAIN windows : windows[i].bounty = windows[j].bounty => i = j
  BY DEF Offered
<1>2. noted \in Seq(ToSet(noted)) /\ DOMAIN noted = DOMAIN windows
  <2>1. noted = [i \in DOMAIN windows |-> noted[i]]
    OBVIOUS
  <2>2. QED
    BY <1>1, <2>1, Mapped
<1>3. ASSUME NEW i \in DOMAIN windows
      PROVE  IsWindow(noted[i], Tender) /\ noted[i].bounty = windows[i].bounty
  <2> DEFINE w == windows[i]
             book == Noted(w.book)
  <2>1. noted[i] = [w EXCEPT !.book = book]
    BY <1>2
  <2>2. IsWindow(w, Bid)
    BY <1>1
  <2> HIDE DEF w
  <2>3. book \in Seq(Tender) /\ DOMAIN book = DOMAIN w.book /\ \A j \in DOMAIN book : book[j].agent = w.book[j].agent
    BY <2>2, BookNoted DEF IsWindow
  <2> HIDE DEF book
  <2>4. /\ IsWindow(noted[i], Tender)
        /\ noted[i] = [bounty |-> w.bounty, book |-> book, salt |-> w.salt, close |-> w.close, shown |-> w.shown]
    BY <2>1, <2>2, <2>3, WindowRewritten
  <2>5. QED
    BY <2>4 DEF w
<1>4. QED
  BY <1>1, <1>2, <1>3 DEF Offered

\* What is written down again after a resume is what was read.
LEMMA WindowsReadBack ==
    ASSUME NEW saved, NEW free, Offered(saved, Tender, free), NEW open, open = Reloaded(saved)
    PROVE  /\ Offered(open, Bid, free)
           /\ [i \in DOMAIN open |-> [open[i] EXCEPT !.book = Noted(@)]] = saved
<1>1. /\ saved \in Seq(ToSet(saved))
      /\ \A i \in DOMAIN saved : IsWindow(saved[i], Tender) /\ saved[i].bounty \in free
      /\ \A i, j \in DOMAIN saved : saved[i].bounty = saved[j].bounty => i = j
  BY DEF Offered
<1>2. open = [i \in DOMAIN saved |-> [saved[i] EXCEPT !.book = ReadBack(@)]]
  BY DEF Reloaded, ReadBack
<1>3. open \in Seq(ToSet(open)) /\ DOMAIN open = DOMAIN saved
  <2>1. open = [i \in DOMAIN saved |-> open[i]]
    BY <1>2
  <2>2. QED
    BY <1>1, <2>1, Mapped
<1>4. ASSUME NEW i \in DOMAIN saved
      PROVE  /\ IsWindow(open[i], Bid) /\ open[i].bounty = saved[i].bounty
             /\ [open[i] EXCEPT !.book = Noted(@)] = saved[i]
  <2> DEFINE w == saved[i]
             book == ReadBack(w.book)
  <2>1. open[i] = [w EXCEPT !.book = book]
    BY <1>2
  <2>2. IsWindow(w, Tender)
    BY <1>1
  <2> HIDE DEF w
  <2>3. /\ book \in Seq(Bid) /\ DOMAIN book = DOMAIN w.book
        /\ \A j \in DOMAIN book : book[j].agent = w.book[j].agent
        /\ Noted(book) = w.book
    BY <2>2, BookReadBack DEF IsWindow
  <2> HIDE DEF book
  <2>4. /\ IsWindow(open[i], Bid)
        /\ open[i] = [bounty |-> w.bounty, book |-> book, salt |-> w.salt, close |-> w.close, shown |-> w.shown]
    BY <2>1, <2>2, <2>3, WindowRewritten
  <2>5. [open[i] EXCEPT !.book = Noted(@)] = w
    <3>1. w = [bounty |-> w.bounty, book |-> w.book, salt |-> w.salt, close |-> w.close, shown |-> w.shown]
      BY <2>2 DEF IsWindow
    <3>2. [open[i] EXCEPT !.book = Noted(@)] = [open[i] EXCEPT !.book = w.book]
      BY <2>3, <2>4
    <3>3. [open[i] EXCEPT !.book = w.book]
             = [bounty |-> w.bounty, book |-> w.book, salt |-> w.salt, close |-> w.close, shown |-> w.shown]
      BY <2>4
    <3>4. QED
      BY <3>1, <3>2, <3>3
  <2>6. QED
    BY <2>4, <2>5 DEF w
<1>5. [i \in DOMAIN open |-> [open[i] EXCEPT !.book = Noted(@)]] = saved
  <2>1. saved = [i \in DOMAIN saved |-> saved[i]]
    BY <1>1
  <2>2. QED
    BY <1>3, <1>4, <2>1
<1>6. QED
  BY <1>1, <1>3, <1>4, <1>5 DEF Offered

\* The board of the next process sells what the record sold.
LEMMA BoardRestored ==
    ASSUME NEW r, r.lastID \in Nat, DOMAIN r.board \subseteq 1..r.lastID, NEW board, board = Restored(r)
    PROVE  /\ board \in Seq(ToSet(board)) /\ DOMAIN board = 1..r.lastID /\ Len(board) = r.lastID
           /\ \A b \in DOMAIN board : IsPosting(board[b]) /\ board[b].state # "awarded"
           /\ OnSale(board) = DOMAIN r.board
           /\ \A b \in DOMAIN r.board : board[b].failures = r.board[b]
<1> DEFINE sold == [Bounty(FALSE) EXCEPT !.state = "solved"]
           open(n) == [Bounty(FALSE) EXCEPT !.failures = n]
<1>1. board = [b \in 1..r.lastID |-> IF b \in DOMAIN r.board THEN open(r.board[b]) ELSE sold]
  BY DEF Restored
<1>2. IsPosting(sold) /\ sold.state = "solved"
  BY DEF Bounty, IsPosting, States
<1>3. \A n : IsPosting(open(n)) /\ open(n).state = "open" /\ open(n).failures = n
  BY DEF Bounty, IsPosting, States
<1> HIDE DEF sold, open
<1>4. board \in [1..r.lastID -> ToSet(board)]
  BY <1>1 DEF ToSet
<1>5. \A S : \A f \in [1..r.lastID -> S] : f \in Seq(S) /\ Len(f) = r.lastID
  OBVIOUS
<1>6. board \in Seq(ToSet(board)) /\ DOMAIN board = 1..r.lastID /\ Len(board) = r.lastID
  BY <1>1, <1>4, <1>5
<1>7. \A b \in 1..r.lastID : board[b] = IF b \in DOMAIN r.board THEN open(r.board[b]) ELSE sold
  BY <1>1
<1>8. QED
  BY <1>2, <1>3, <1>6, <1>7 DEF OnSale

-----------------------------------------------------------------------------
LEMMA MarketKept ==
    ASSUME Folk, Market, Table, MarketRecorded, tick \in Nat, [WeekNext]_weekVars
    PROVE  Market' /\ Table'
<1> DEFINE Still == UNCHANGED <<bounties, windows, shelved, withdrawn, cards, ladder, table, tick>>
<1>1. ASSUME NEW c \in Caller, Knock(c) \/ Depart(c) PROVE Market' /\ Table'
  <2>1. Still /\ stage' \in {"arrive", "leave"} /\ stage \in {"door", "arrive", "leave"}
    BY <1>1 DEF Knock, Depart, Leave, officeVars, sitVars
  <2>2. QED
    BY <2>1, MarketWaits
<1>2. ASSUME NEW c \in Caller, Call(c) \/ HangUp(c) \/ Answer(c) PROVE Market' /\ Table'
  <2>1. Still /\ stage' = stage
    BY <1>2 DEF Call, HangUp, Answer, Townless, officeVars, sitVars
  <2>2. QED
    BY <2>1, MarketWaits
<1>3. CASE VisitFair
  BY <1>3, VisitMarket DEF VisitFair
<1>4. CASE Walk \/ NextTick \/ CopyBooks \/ WriteRecord \/ Close
  <2>1. /\ Still /\ stage' \in {"visit", "door", "copied", "closed"}
        /\ stage \in {"door", "arrive", "leave", "boundary", "copied"}
    BY <1>4 DEF Walk, NextTick, CopyBooks, WriteRecord, Close, officeVars, sitVars
  <2>2. QED
    BY <2>1, MarketWaits
<1>5. CASE Resume
  <2> DEFINE r == disk.record
             free == DOMAIN r.board \ (r.shelved \cup r.withdrawn \cup r.cards)
  <2>1. /\ r # NoFile /\ stage' \in {"door", "refused"}
        /\ bounties' = Restored(r) /\ windows' = Reloaded(r.windows) /\ shelved' = r.shelved
        /\ withdrawn' = r.withdrawn /\ cards' = r.cards /\ ladder' = r.ladder
    BY <1>5 DEF Resume, FairBack
  <2>2. /\ r.lastID \in Nat /\ DOMAIN r.board \subseteq 1..r.lastID /\ r.cards \subseteq 1..r.lastID
        /\ Offered(r.windows, Tender, free)
        /\ r.cards \cap DOMAIN r.board \subseteq r.withdrawn /\ Ranks(r.ladder, r.cards)
    BY <2>1 DEF MarketRecorded
  <2> HIDE DEF r
  <2>3. /\ bounties' \in Seq(ToSet(bounties')) /\ DOMAIN bounties' = 1..r.lastID
        /\ \A b \in DOMAIN bounties' : IsPosting(bounties'[b]) /\ bounties'[b].state # "awarded"
        /\ OnSale(bounties') = DOMAIN r.board
    BY <2>1, <2>2, BoardRestored
  <2>4. Offered(windows', Bid, free)
    BY <2>1, <2>2, WindowsReadBack
  <2>5. Free' = free
    BY <2>1, <2>3 DEF Free
  <2>6. Postings'
    BY <2>3 DEF Postings
  <2>7. Market'
    BY <2>1, <2>2, <2>3, <2>4, <2>5, <2>6 DEF Market
  <2>8. QED
    BY <2>1, <2>7 DEF Table
<1>6. CASE UNCHANGED weekVars
  <2>1. Still /\ stage' = stage
    BY <1>6 DEF weekVars, fairVars, officeVars, sitVars
  <2>2. QED
    BY <2>1, MarketWaits
<1>7. QED
  BY <1>1, <1>2, <1>3, <1>4, <1>5, <1>6, WeekSteps

\* The record holds the market, and nothing but its own fields.
LEMMA MarketRecordedKept ==
    ASSUME FolkRecorded, Market, MarketRecorded, Written, [WeekNext]_weekVars
    PROVE  MarketRecorded' /\ Written'
<1>1. CASE disk' = disk
  BY <1>1 DEF MarketRecorded, Written
<1>2. CASE CopyBooks
  <2>1. disk'.record = disk.record
    BY <1>2 DEF CopyBooks, FolkRecorded
  <2>2. QED
    BY <2>1 DEF MarketRecorded, Written
<1>3. CASE WriteRecord
  <2> DEFINE noted == [i \in DOMAIN windows |-> [windows[i] EXCEPT !.book = Noted(@)]]
             board == [b \in OnSale(bounties) |-> bounties[b].failures]
  <2>1. disk'.record = Record /\ stage = "copied"
    BY <1>3 DEF WriteRecord, FolkRecorded
  <2>2. Record.board = board /\ Record.windows = noted
    BY DEF Record, Noted
  <2>3. /\ Postings /\ Offered(windows, Bid, Free) /\ Ranks(ladder, cards)
        /\ cards \subseteq DOMAIN bounties /\ cards \cap OnSale(bounties) \subseteq withdrawn
    BY <2>1 DEF Market
  <2>4. Len(bounties) \in Nat /\ DOMAIN bounties = 1..Len(bounties)
    BY <2>3 DEF Postings
  <2>5. DOMAIN board = OnSale(bounties) /\ OnSale(bounties) \subseteq DOMAIN bounties
        /\ board = [b \in DOMAIN board |-> board[b]]
    BY DEF OnSale
  <2>6. Offered(noted, Tender, Free)
    BY <2>3, WindowsNoted
  <2>7. Record = [tick |-> Record.tick, dealt |-> Record.dealt, lastID |-> Record.lastID, board |-> Record.board,
                  windows |-> Record.windows, reopens |-> Record.reopens, shelved |-> Record.shelved,
                  draws |-> Record.draws, held |-> Record.held, paid |-> Record.paid, owned |-> Record.owned,
                  stock |-> Record.stock, stockRev |-> Record.stockRev, shopped |-> Record.shopped,
                  pitches |-> Record.pitches, ranked |-> Record.ranked, withdrawn |-> Record.withdrawn,
                  cards |-> Record.cards, ladder |-> Record.ladder, roster |-> Record.roster,
                  fate |-> Record.fate, pending |-> Record.pending, place |-> Record.place,
                  bodies |-> Record.bodies, guests |-> Record.guests, seq |-> Record.seq]
    BY DEF Record
  <2> HIDE DEF Record, board, noted
  <2>8. Written'
    BY <2>1, <2>7 DEF Written
  <2>9. DOMAIN Record.board \ (Record.shelved \cup Record.withdrawn \cup Record.cards) = Free
    BY <2>2, <2>5, RecordFields DEF Free
  <2>10. /\ Record.lastID \in Nat /\ Record.board = [b \in DOMAIN Record.board |-> Record.board[b]]
         /\ DOMAIN Record.board \subseteq 1..Record.lastID /\ Record.cards \subseteq 1..Record.lastID
         /\ Record.cards \cap DOMAIN Record.board \subseteq Record.withdrawn
         /\ Ranks(Record.ladder, Record.cards)
    BY <2>2, <2>3, <2>4, <2>5, RecordFields
  <2>11. Offered(Record.windows, Tender,
                 DOMAIN Record.board \ (Record.shelved \cup Record.withdrawn \cup Record.cards))
    BY <2>2, <2>6, <2>9
  <2>12. MarketRecorded'
    BY <2>1, <2>10, <2>11 DEF MarketRecorded
  <2>13. QED
    BY <2>8, <2>12
<1>4. QED
  BY <1>1, <1>2, <1>3, DiskMoves

LEMMA FreshKept ==
    ASSUME Folk, Market, Table, Clock, Fresh, tick \in Nat, [WeekNext]_weekVars
    PROVE  Fresh'
<1>1. CASE VisitFair
  BY <1>1, VisitFresh DEF VisitFair
<1>2. ASSUME UNCHANGED <<bounties, windows, table, attempts, tick, stage, disk>> PROVE Fresh'
  BY <1>2 DEF Fresh, Torn
<1>3. ASSUME NEW c \in Caller, Call(c) \/ HangUp(c) \/ Answer(c) PROVE Fresh'
  <2>1. UNCHANGED <<bounties, windows, table, attempts, tick, stage, disk>>
    BY <1>3 DEF Call, HangUp, Answer, Townless, officeVars, sitVars, peopleVars
  <2>2. QED
    BY <1>2, <2>1
<1>4. ASSUME NEW c \in Caller, Knock(c) \/ Depart(c) PROVE Fresh'
  BY <1>4 DEF Knock, Depart, Fresh, Turning
<1>5. CASE Walk \/ NextTick \/ CopyBooks \/ WriteRecord \/ Close \/ Resume
  <2>1. stage' \notin Turning
    BY <1>5 DEF Walk, NextTick, CopyBooks, WriteRecord, Close, Resume, FairBack, Turning
  <2>2. QED
    BY <2>1 DEF Fresh
<1>6. CASE UNCHANGED weekVars
  <2>1. UNCHANGED <<bounties, windows, table, attempts, tick, stage, disk>>
    BY <1>6 DEF weekVars, fairVars, officeVars, sitVars, peopleVars
  <2>2. QED
    BY <1>2, <2>1
<1>7. QED
  BY <1>1, <1>3, <1>4, <1>5, <1>6, WeekSteps

\* A refusal is of somebody here, a call of whose step outlived it.
LEMMA StuckForCause ==
    ASSUME Folk, Visit, stage' = "stuck"
    PROVE  (\E a \in outlived : Here(a))'
<1>1. stage # "stuck"
  BY VisitStages
<1>2. CASE SweepRefused
  <2>1. PICK n \in DOMAIN roster :
            LET late == roster[n]
                broke == {a \in Bidder : Here(a) /\ balance[a] <= Dust}
                before == (broke \ {late}) \cap {roster[i] : i \in 1..(n - 1)}
            IN  /\ late \in broke \cap outlived
                /\ fate' = [a \in Bidder |-> IF a \in before THEN "retired" ELSE fate[a]]
    BY <1>2 DEF SweepRefused
  <2>2. roster[n] \in Bidder /\ roster[n] \in outlived /\ fate[roster[n]] = "here" /\ fate'[roster[n]] = fate[roster[n]]
    BY <2>1 DEF Here
  <2>3. outlived' = outlived
    BY <1>2 DEF SweepRefused
  <2>4. QED
    BY <2>2, <2>3 DEF Here
<1>3. CASE OfficeRefused \/ SquareRefused
  <2>1. Head(line) \in outlived' /\ fate' = fate /\ stage \in {"office", "square"} /\ line # <<>>
    BY <1>3 DEF OfficeRefused, SquareRefused
  <2>2. fate[Head(line)] = "here"
    BY <2>1, LineGoesOn DEF Folk
  <2>3. QED
    BY <2>1, <2>2 DEF Here
<1>4. CASE CloseWindow \/ AwardCard
  <2>1. PICK b, a, board : Attempt(b, a, board)
    BY <1>1, <1>4 DEF CloseWindow, AwardCard, AwardAndAttempt
  <2>2. Here(a) /\ (Perform(b, a, board) \/ FundRefused(a, board) \/ MergeRefused(a, board))
    BY <1>1, <2>1 DEF Attempt, VoidForGone
  <2>3. CASE Perform(b, a, board)
    <3>1. a \in outlived /\ fate' = fate /\ outlived' = outlived
      BY <1>1, <2>3 DEF Perform, LeftRefused
    <3>2. QED
      BY <2>2, <3>1 DEF Here
  <2>4. CASE FundRefused(a, board) \/ MergeRefused(a, board)
    <3>1. a \in outlived' /\ fate' = fate
      BY <2>4 DEF FundRefused, MergeRefused
    <3>2. QED
      BY <2>2, <3>1 DEF Here
  <2>5. QED
    BY <2>2, <2>3, <2>4
<1>5. CASE OpenOffice \/ AtOffice \/ LeaveOffice \/ AtSquare \/ LeaveSquare
  BY <1>1, <1>5 DEF OpenOffice, AtOffice, LeaveOffice, AtSquare, LeaveSquare
<1>6. CASE EndOfVisit \/ DealCards \/ AtSitting \/ ClearTable
  BY <1>1, <1>6 DEF EndOfVisit, DealCards, AtSitting, ClearTable
<1>7. QED
  BY <1>2, <1>3, <1>4, <1>5, <1>6 DEF Visit

\* The fair breaks on an attempt of this tick, and a boot is refused over
\* books that disagree: of one boundary there is neither.  What it is stuck
\* for does not go away while it is.
LEMMA StopsKept ==
    ASSUME Folk, Market, Table, Clock, Square, Fresh, StopsForCause, [WeekNext]_weekVars
    PROVE  StopsForCause'
<1>1. CASE VisitFair
  <2>1. Visit /\ disk' = disk
    BY <1>1 DEF VisitFair
  <2>2. stage' # "refused"
    BY <2>1, VisitStages
  <2>3. stage' = "broken" => Torn
    BY <2>1, BreaksTorn
  <2>4. stage' = "stuck" => (\E a \in outlived : Here(a))'
    BY <2>1, StuckForCause
  <2>5. QED
    BY <2>1, <2>2, <2>3, <2>4 DEF StopsForCause, Torn
<1>2. ASSUME UNCHANGED <<stage, disk, fate, outlived>> PROVE StopsForCause'
  BY <1>2 DEF StopsForCause, Torn, Here
<1>3. ASSUME NEW c \in Caller, Call(c) \/ HangUp(c) \/ Answer(c) PROVE StopsForCause'
  BY <1>2, <1>3 DEF Call, HangUp, Answer, Townless, peopleVars
<1>4. ASSUME NEW c \in Caller, Knock(c) \/ Depart(c) PROVE StopsForCause'
  BY <1>4 DEF Knock, Depart, StopsForCause
<1>5. CASE Walk \/ NextTick \/ CopyBooks \/ WriteRecord \/ Close
  BY <1>5 DEF Walk, NextTick, CopyBooks, WriteRecord, Close, StopsForCause
<1>6. CASE Resume
  <2>1. /\ disk' = disk /\ disk.record # NoFile
        /\ stage' = IF Agree(disk.books, disk.record) /\ trace >= disk.record.seq THEN "door" ELSE "refused"
    BY <1>6 DEF Resume, FairBack
  <2>2. trace >= disk.record.seq
    BY <2>1 DEF Clock
  <2>3. ~Torn => Agree(disk.books, disk.record)
    BY <2>1 DEF Square
  <2>4. QED
    BY <2>1, <2>2, <2>3 DEF StopsForCause, Torn
<1>7. CASE UNCHANGED weekVars
  BY <1>2, <1>7 DEF weekVars, fairVars, peopleVars
<1>8. QED
  BY <1>1, <1>3, <1>4, <1>5, <1>6, <1>7, WeekSteps

-----------------------------------------------------------------------------
FairInv ==
    /\ WeekInv
    /\ Market /\ Table /\ MarketRecorded /\ Written
    /\ Square /\ Clock /\ Fresh /\ StopsForCause

LEMMA FairBegins ==
    ASSUME WeekInit
    PROVE  FairInv
<1>1. /\ bounties = <<>> /\ windows = <<>> /\ cards = {} /\ ladder = <<>> /\ stage = "door"
      /\ roster = Cast /\ tick = 0 /\ attempts = {} /\ trace = 1
      /\ disk = [books |-> NoFile, record |-> NoFile]
      /\ fate = [a \in Bidder |-> IF a \in ToSet(Cast) THEN "here" ELSE "absent"]
      /\ accounts = [a \in Bidder |-> IF a \in ToSet(Cast) THEN "open" ELSE "absent"]
  BY DEF WeekInit, FairInit, BoardInit
<1>2. Market
  <2>1. \A S : <<>> \in Seq(S) /\ DOMAIN <<>> = {}
    OBVIOUS
  <2>2. Postings
    BY <1>1, <2>1 DEF Postings
  <2>3. Offered(windows, Bid, Free) /\ Ranks(ladder, cards)
    BY <1>1, <2>1 DEF Offered, Ranks
  <2>4. QED
    BY <1>1, <2>2, <2>3 DEF Market
<1>3. Table /\ MarketRecorded /\ Written
  BY <1>1 DEF Table, MarketRecorded, Written
<1>4. Square
  <2>1. Cast \in Seq(Bidder)
    BY FairAssumption, Zenon
  <2>2. \A i \in DOMAIN Cast : Cast[i] \in Bidder /\ Cast[i] \in ToSet(Cast)
    BY <2>1 DEF ToSet
  <2>3. \A i \in DOMAIN roster : fate[roster[i]] # "absent"
    BY <1>1, <2>2
  <2>4. Squared(roster, fate, accounts)
    BY <1>1, <2>3 DEF Squared
  <2>5. QED
    BY <1>1, <2>3, <2>4 DEF Square
<1>5. Clock
  BY <1>1 DEF Clock
<1>6. Fresh /\ StopsForCause
  BY <1>1 DEF Fresh, Turning, StopsForCause
<1>7. QED
  BY <1>2, <1>3, <1>4, <1>5, <1>6, WeekBegins DEF FairInv

LEMMA FairStep ==
    ASSUME FairInv, [WeekNext]_weekVars
    PROVE  FairInv'
<1>1. Tables /\ Folk /\ FolkRecorded /\ AtTheDoor /\ Seats /\ tick \in Nat
  BY InvTables DEF FairInv, WeekInv, Standings, Stood
<1>2. WeekInv'
  BY WeekStep DEF FairInv
<1>3. tick' \in Nat
  BY <1>2 DEF WeekInv, Standings, Stood
<1>4. Market' /\ Table'
  BY <1>1, MarketKept DEF FairInv
<1>5. MarketRecorded' /\ Written'
  BY <1>1, MarketRecordedKept DEF FairInv
<1>6. Square'
  BY <1>1, SquareKept DEF FairInv
<1>7. Clock'
  BY <1>1, <1>3, ClockKept DEF FairInv
<1>8. Fresh'
  BY <1>1, FreshKept DEF FairInv
<1>9. StopsForCause'
  BY <1>1, StopsKept DEF FairInv
<1>10. QED
  BY <1>2, <1>4, <1>5, <1>6, <1>7, <1>8, <1>9 DEF FairInv

\* The fair never leaves the rest of its invariant either: what is for sale,
\* what is dealt, what the record says of both, and the clock that the copy of
\* the books, the record and the world keep.
THEOREM FairSafe == WeekSpec => []FairInv
<1>1. WeekInit => FairInv
  BY FairBegins
<1>2. FairInv /\ [WeekNext]_weekVars => FairInv'
  BY FairStep
<1>3. QED
  BY <1>1, <1>2, PTL DEF WeekSpec

\* What is for sale is for sale once, to people who were shown it, and in time
\* (fair.go:449-492, 543-579, resume.go:187-213), for every board.
THEOREM WindowsStayInOrder == WeekSpec => []WindowsAreInOrder
<1>1. ASSUME FairInv PROVE WindowsAreInOrder
  <2>1. /\ \A i \in DOMAIN windows : IsWindow(windows[i], Bid) /\ windows[i].bounty \in Free
        /\ \A i, j \in DOMAIN windows : windows[i].bounty = windows[j].bounty => i = j
        /\ stage = "boundary" => \A i \in DOMAIN windows : windows[i].close > tick
    BY <1>1 DEF FairInv, Market, Offered
  <2>2. ASSUME NEW i \in DOMAIN windows
        PROVE  /\ windows[i].bounty \in OnSale(bounties) \ (shelved \cup withdrawn)
               /\ {windows[i].book[j].agent : j \in DOMAIN windows[i].book} \subseteq windows[i].shown
    BY <2>1 DEF Free, IsWindow
  <2>3. QED
    BY <2>1, <2>2 DEF WindowsAreInOrder
<1>2. QED
  BY <1>1, FairSafe, PTL

\* The office and the sitting never share a line (fair.go:655-689), however
\* many sittings are held.
THEOREM RankedIsApart == WeekSpec => []RankedStaysApart
<1>1. ASSUME FairInv PROVE RankedStaysApart
  <2>1. /\ Postings /\ cards \subseteq DOMAIN bounties /\ Ranks(ladder, cards)
        /\ stage \notin {"sit", "award", "stuck", "broken"} => cards \cap OnSale(bounties) \subseteq withdrawn
        /\ \A i \in DOMAIN windows : windows[i].bounty \notin cards
    BY <1>1 DEF FairInv, Market, Offered, Free
  <2>2. ToSet(ladder) \subseteq cards /\ \A i, j \in DOMAIN ladder : ladder[i] = ladder[j] => i = j
    BY <2>1 DEF Ranks, ToSet
  <2>3. ASSUME stage \notin {"sit", "award", "stuck", "broken"}, NEW b \in cards
        PROVE  bounties[b].state = "solved" \/ b \in withdrawn
    <3>1. bounties[b].state \in {"open", "solved"}
      BY <2>1, <2>3 DEF Postings, IsPosting, States
    <3>2. QED
      BY <2>1, <2>3, <3>1 DEF OnSale
  <2>4. QED
    BY <2>1, <2>2, <2>3 DEF RankedStaysApart
<1>2. QED
  BY <1>1, FairSafe, PTL

\* What stops the fair, for any number of kills and of late calls: a record
\* left beside the books of another boundary, or a refusal to somebody here a
\* call of whose step outlived it (settle.go:146-170, 285-287,
\* ledger.go:452-454) - never its own numbers and names.
THEOREM OnlyCausesStopIt == WeekSpec => []StopsForCause
<1>1. FairInv => StopsForCause
  BY DEF FairInv
<1>2. QED
  BY <1>1, FairSafe, PTL

\* A resume loses nothing of what the record holds (resume.go:92-228).
THEOREM ResumeGivesTheRecordBack == WeekSpec => ResumeIsTheRecord
<1> DEFINE Same == crashes' # crashes => Record' = disk.record
<1>1. ASSUME FairInv, Resume PROVE Record' = disk.record
  <2> DEFINE r == disk.record
             free == DOMAIN r.board \ (r.shelved \cup r.withdrawn \cup r.cards)
             board == [b \in OnSale(bounties') |-> bounties'[b].failures]
             noted == [i \in DOMAIN windows' |-> [windows'[i] EXCEPT !.book = Noted(@)]]
  <2>1. r # NoFile /\ FairBack(r) /\ TownBack(r) /\ GuestsBack(r) /\ TraceBack(r)
    BY <1>1 DEF Resume
  <2>2. /\ r.lastID \in Nat /\ DOMAIN r.board \subseteq 1..r.lastID
        /\ r.board = [b \in DOMAIN r.board |-> r.board[b]]
        /\ Offered(r.windows, Tender, free)
    BY <1>1, <2>1 DEF FairInv, MarketRecorded
  <2>3. /\ tick' = r.tick /\ dealt' = r.dealt /\ reopens' = r.reopens /\ shelved' = r.shelved
        /\ draws' = r.draws /\ held' = r.held /\ paid' = r.paid /\ owned' = r.owned /\ stock' = r.stock
        /\ stockRev' = r.stockRev /\ shopped' = r.shopped /\ pitches' = r.pitches /\ ranked' = r.ranked
        /\ withdrawn' = r.withdrawn /\ cards' = r.cards /\ ladder' = r.ladder /\ pending' = r.pending
        /\ roster' = r.roster /\ fate' = r.fate
        /\ bounties' = Restored(r) /\ windows' = Reloaded(r.windows)
    BY <2>1 DEF FairBack
  <2>4. place' = r.place /\ bodies' = r.bodies /\ admitted' = r.guests
    BY <2>1 DEF TownBack, GuestsBack
  <2>5. trace' = r.seq
    BY <1>1, <2>1 DEF FairInv, Clock, TraceBack
  <2>6. r = [tick |-> r.tick, dealt |-> r.dealt, lastID |-> r.lastID, board |-> r.board,
             windows |-> r.windows, reopens |-> r.reopens, shelved |-> r.shelved, draws |-> r.draws,
             held |-> r.held, paid |-> r.paid, owned |-> r.owned, stock |-> r.stock,
             stockRev |-> r.stockRev, shopped |-> r.shopped, pitches |-> r.pitches,
             ranked |-> r.ranked, withdrawn |-> r.withdrawn, cards |-> r.cards,
             ladder |-> r.ladder, roster |-> r.roster, fate |-> r.fate, pending |-> r.pending,
             place |-> r.place, bodies |-> r.bodies, guests |-> r.guests, seq |-> r.seq]
    BY <1>1, <2>1 DEF FairInv, Written
  <2> HIDE DEF r
  <2>7. /\ Len(bounties') = r.lastID /\ OnSale(bounties') = DOMAIN r.board
        /\ \A b \in DOMAIN r.board : bounties'[b].failures = r.board[b]
    BY <2>2, <2>3, BoardRestored
  <2>8. board = r.board
    BY <2>2, <2>7
  <2>9. noted = r.windows
    BY <2>2, <2>3, WindowsReadBack
  <2>10. Record' = [tick |-> tick', dealt |-> dealt', lastID |-> Len(bounties'), board |-> board,
             windows |-> noted, reopens |-> reopens', shelved |-> shelved', draws |-> draws',
             held |-> held', paid |-> paid', owned |-> owned', stock |-> stock',
             stockRev |-> stockRev', shopped |-> shopped', pitches |-> pitches',
             ranked |-> ranked', withdrawn |-> withdrawn', cards |-> cards',
             ladder |-> ladder', roster |-> roster', fate |-> fate', pending |-> pending',
             place |-> place', bodies |-> bodies', guests |-> admitted', seq |-> trace']
    BY DEF Record, Noted
  <2> HIDE DEF board, noted
  <2>11. QED
    BY <2>3, <2>4, <2>5, <2>6, <2>7, <2>8, <2>9, <2>10 DEF r
<1>2. ASSUME FairInv, [WeekNext]_weekVars, ~Resume PROVE crashes' = crashes
  BY <1>2, InvTables, FatesMove DEF FairInv, WeekInv
<1>3. FairInv /\ [WeekNext]_weekVars => [Same]_weekVars
  BY <1>1, <1>2 DEF Same
<1>4. QED
  BY <1>3, FairSafe, PTL DEF WeekSpec, ResumeIsTheRecord
=============================================================================
