----------------------------- MODULE DaemonProofs -----------------------------
(***************************************************************************)
(* The live arena's control plane, for every roster, every plan and any    *)
(* number of episodes, kills and failed writes.  The invariant says what   *)
(* memory owes the disk - the roster while the process is up, the epoch    *)
(* while the world is not halted - and which attempt wallets of the        *)
(* current epoch can already be in the books at each stage of a round.     *)
(***************************************************************************)
EXTENDS Daemon, FiniteSetTheorems, WellFoundedInduction, TLAPS

-----------------------------------------------------------------------------
RosterFile == [epoch : Nat, agents : Seq(Competitor)]
SeatedAs == [id : Competitor, retired : BOOLEAN]
Addition == [agent : Competitor, does : {"create", "mint"}]
Posting == [state : {"open", "awarded", "solved"}, judged : BOOLEAN,
            winner : Competitor \cup {Nobody}, price : Nat, failures : Nat]

DiskTypes ==
    /\ file \in RosterFile
    /\ trace \in [posted : Seq(Nat), whole : BOOLEAN]
    /\ accounts \in [Competitor -> {"absent", "open", "closed"}]
    /\ balance \in [Competitor -> Nat] /\ grants \in [Competitor -> Nat]
    /\ wallets \subseteq Nat \X Nat \X Nat

MemoryTypes ==
    /\ up \in {"down", "boot", "serving", "refused"}
    /\ roster \in RosterFile /\ seats \in Seq(SeatedAs)
    /\ adding = <<>> \/ \E entry \in Addition : adding = <<entry>>
    /\ next \in Nat \ {0} /\ running \in BOOLEAN
    /\ broken \in {"", "disk", "seat", "hold", "merge", "wallet", "judged"}

EpisodeTypes ==
    /\ pc \in {"none", "epoch", "start", "sweep", "post", "attempt", "perform"}
    /\ epoch \in Nat /\ round \in 0..Rounds /\ turn \in Nat \ {0} /\ purse \in Nat
    /\ bounties \in Seq(Posting)

\* An episode runs in a world that is up, whole and adding nobody.
Exclusive ==
    /\ running = (pc # "none")
    /\ running => up = "serving" /\ adding = <<>> /\ broken = ""
    /\ up # "serving" => broken = ""

\* While the process is up its roster is the file's, and the epoch is on disk
\* unless that write is what halted the world.
Remembered ==
    /\ up \in {"boot", "serving"} => roster.agents = file.agents
    /\ up \in {"boot", "serving"} /\ broken = "" => roster.epoch = file.epoch
    /\ up = "serving" /\ broken = "" => epoch = file.epoch
    /\ up \in {"down", "refused"} => adding = <<>> /\ seats = <<>> /\ next = 1

\* Resume has seated the entries before the next one.
Booting ==
    up = "boot" =>
        /\ Len(seats) = next - 1 /\ next <= Len(roster.agents) + 1
        /\ \A i \in 1..(next - 1) : seats[i].id = roster.agents[i]
        /\ adding # <<>> => next <= Len(roster.agents) /\ adding[1].agent = roster.agents[next]

\* What the books know of an agent half way through AddAgent.
AddingOrder ==
    adding # <<>> =>
        /\ adding[1].agent \in ToSet(file.agents)
        /\ \A i \in DOMAIN seats : seats[i].id # adding[1].agent
        /\ adding[1].does = "create" => accounts[adding[1].agent] = "absent"
        /\ adding[1].does = "mint" => accounts[adding[1].agent] = "open" /\ grants[adding[1].agent] = 0

GrantedLast == \A a \in Competitor : accounts[a] = "absent" => grants[a] = 0

Doubled(agents) == \E i, j \in DOMAIN agents : i # j /\ agents[i] = agents[j]

\* Two seats of one name have two entries of that name, and an account closed
\* under a seat that is not retired was closed under another.
SeatsAreEntries ==
    /\ \A i, j \in DOMAIN seats : i # j /\ seats[i].id = seats[j].id => Doubled(file.agents)
    /\ \A i \in DOMAIN seats : ~seats[i].retired /\ accounts[seats[i].id] = "closed" =>
          \E j \in DOMAIN seats : i # j /\ seats[i].id = seats[j].id

\* The awards still to be attempted are of this board and of agents seated, and
\* the one being attempted is of an agent that is not broke.
AwardsStand ==
    pc \in {"attempt", "perform"} =>
        /\ awarded \subseteq DOMAIN bounties
        /\ \A b \in awarded : \E i \in DOMAIN seats : seats[i].id = bounties[b].winner
        /\ pc = "perform" => awarded # {} /\ ~seats[SeatOf(bounties[Upcoming].winner)].retired

\* The attempt wallets of this epoch: of earlier rounds, or of this round's
\* attempts that have been funded.
WalletsAreSpent ==
    /\ \A w \in wallets : w[2] <= file.epoch
    /\ pc = "start" => \A w \in wallets : w[2] < epoch
    /\ pc \in {"sweep", "post", "attempt", "perform"} =>
          /\ round >= 1
          /\ \A w \in wallets : w[2] = epoch =>
                \/ w[3] < round
                \/ pc = "attempt" /\ w[3] = round /\ w[1] \notin awarded
                \/ pc = "perform" /\ w[3] = round /\ w[1] \notin awarded \ {Upcoming}

\* No number in the trace is beyond the board's last.
Numbering ==
    up = "serving" => \A i \in DOMAIN trace.posted : trace.posted[i] <= Len(bounties)

HaltsHaveCause ==
    /\ broken \notin {"wallet", "judged"}
    /\ broken = "seat" => Doubled(file.agents)
    /\ broken = "hold" => \E i \in DOMAIN seats : ~seats[i].retired /\ seats[i].id \in outlived

DaemonInv ==
    /\ DiskTypes /\ MemoryTypes /\ EpisodeTypes
    /\ Exclusive /\ Remembered /\ Booting /\ AddingOrder /\ GrantedLast
    /\ SeatsAreEntries /\ AwardsStand /\ WalletsAreSpent /\ Numbering /\ HaltsHaveCause
    /\ PostedOnce /\ WalletsAreBound

-----------------------------------------------------------------------------
\* What the model's choices of a least and a greatest number return.
LEMMA MinIsLeast ==
    ASSUME NEW S, S \subseteq Nat, S # {}
    PROVE  Min(S) \in S /\ \A y \in S : Min(S) <= y
<1> DEFINE R == OpToRel(<, Nat)
<1>1. IsWellFoundedOn(R, Nat)
  BY NatLessThanWellFounded, Zenon
<1>2. \A x, y \in Nat : x < y => <<x, y>> \in R
  BY DEF OpToRel
<1> HIDE DEF R
<1>3. PICK x \in S : \A y \in S : ~ (<<y, x>> \in R)
  BY <1>1, WFMin
<1>4. \A y \in S : ~ (y < x)
  BY <1>2, <1>3
<1>5. \A y \in S : x <= y
  BY <1>3, <1>4
<1>6. QED
  BY <1>5 DEF Min

LEMMA MaxIsGreatest ==
    ASSUME NEW S, S \subseteq Nat, S # {}, NEW n \in Nat, \A y \in S : y <= n
    PROVE  Max(S) \in S /\ \A y \in S : y <= Max(S)
<1> DEFINE Tops(m) == \A y \in S : y <= m
           Bounds == {m \in Nat : Tops(m)}
<1> HIDE DEF Tops
<1>1. PICK m \in Bounds : \A k \in Bounds : m <= k
  <2>1. n \in Bounds
    BY DEF Tops
  <2>2. Bounds \subseteq Nat
    OBVIOUS
  <2> HIDE DEF Bounds
  <2>3. QED
    BY <2>1, <2>2, MinIsLeast
<1> HIDE DEF Bounds
<1>2. m \in S
  <2>1. SUFFICES ASSUME m \notin S PROVE FALSE
    OBVIOUS
  <2>2. m \in Nat /\ \A y \in S : y < m
    BY <1>1, <2>1 DEF Tops, Bounds
  <2>3. m - 1 \in Nat /\ Tops(m - 1)
    <3>1. PICK y \in S : TRUE
      OBVIOUS
    <3>2. y \in Nat /\ y < m
      BY <2>2
    <3>3. QED
      BY <2>2, <3>2 DEF Tops
  <2>4. m - 1 \in Bounds
    BY <2>3 DEF Bounds
  <2>5. m <= m - 1
    BY <1>1, <2>4
  <2>6. QED
    BY <2>2, <2>5
<1>3. \E x \in S : \A y \in S : x >= y
  BY <1>1, <1>2 DEF Tops, Bounds
<1>4. QED
  BY <1>3 DEF Max

\* The numbers in a trace have a bound.
LEMMA SequenceIsBounded ==
    ASSUME NEW s \in Seq(Nat)
    PROVE  \E n \in Nat : \A i \in 1..Len(s) : s[i] <= n
<1> DEFINE Bounded(k) == \E n \in Nat : \A i \in 1..k : s[i] <= n
           Bad == {k \in 0..Len(s) : ~Bounded(k)}
<1> HIDE DEF Bounded
<1>1. SUFFICES ASSUME Bad # {} PROVE FALSE
  <2>1. Len(s) \in 0..Len(s)
    OBVIOUS
  <2>2. Bounded(Len(s))
    BY <2>1
  <2>3. QED
    BY <2>2 DEF Bounded
<1>2. PICK k \in Bad : \A j \in Bad : k <= j
  <2>1. Bad \subseteq Nat
    OBVIOUS
  <2> HIDE DEF Bad
  <2>2. QED
    BY <1>1, <2>1, MinIsLeast
<1>3. k # 0
  <2>1. Bounded(0)
    <3>1. \A i \in 1..0 : s[i] <= 0
      OBVIOUS
    <3>2. QED
      BY <3>1 DEF Bounded
  <2>2. ~Bounded(k)
    BY <1>2
  <2>3. QED
    BY <2>1, <2>2
<1>4. k \in 1..Len(s) /\ Bounded(k - 1)
  BY <1>2, <1>3
<1>5. PICK n \in Nat : \A i \in 1..(k - 1) : s[i] <= n
  BY <1>4 DEF Bounded
<1>6. PICK m \in Nat : n <= m /\ s[k] <= m
  <2>1. s[k] \in Nat
    BY <1>4
  <2>2. CASE n <= s[k]
    BY <2>1, <2>2
  <2>3. CASE s[k] <= n
    BY <2>1, <2>3
  <2>4. QED
    BY <2>1, <2>2, <2>3
<1>7. \A i \in 1..k : s[i] <= m
  <2>1. \A i \in 1..k : i = k \/ i \in 1..(k - 1)
    BY <1>4
  <2>2. \A i \in 1..(k - 1) : s[i] \in Nat
    BY <1>4
  <2>3. QED
    BY <1>5, <1>6, <2>1, <2>2
<1>8. Bounded(k)
  BY <1>7 DEF Bounded
<1>9. QED
  BY <1>2, <1>8

\* Board.Resume starts above every number the trace tells of.
LEMMA LastIsLast ==
    ASSUME trace \in [posted : Seq(Nat), whole : BOOLEAN]
    PROVE  LastPosted \in Nat /\ \A i \in DOMAIN trace.posted : trace.posted[i] <= LastPosted
<1> DEFINE numbers == {trace.posted[i] : i \in DOMAIN trace.posted} \cup {0}
<1>1. trace.posted \in Seq(Nat) /\ DOMAIN trace.posted = 1..Len(trace.posted)
  OBVIOUS
<1>2. PICK n \in Nat : \A i \in 1..Len(trace.posted) : trace.posted[i] <= n
  BY <1>1, SequenceIsBounded
<1>3. numbers \subseteq Nat /\ numbers # {} /\ \A y \in numbers : y <= n
  BY <1>1, <1>2
<1>4. Max(numbers) \in numbers /\ \A y \in numbers : y <= Max(numbers)
  BY <1>3, MaxIsGreatest
<1>5. LastPosted = Max(numbers)
  BY DEF LastPosted
<1>6. QED
  BY <1>3, <1>4, <1>5

\* A list that names somebody twice is longer than the set of its names.
LEMMA DoubledIsTwice ==
    ASSUME NEW agents \in Seq(Competitor), Doubled(agents)
    PROVE  Twice(agents)
<1> DEFINE n == Len(agents)
           names == ToSet(agents)
<1>1. n \in Nat /\ DOMAIN agents = 1..n
  OBVIOUS
<1>2. IsFiniteSet(1..n) /\ Cardinality(1..n) = n
  BY <1>1, FS_Interval
<1>3. agents \in Surjection(1..n, names)
  BY <1>1 DEF ToSet, Surjection
<1>4. SUFFICES ASSUME Cardinality(names) = Cardinality(1..n) PROVE FALSE
  BY <1>2 DEF Twice
<1>5. agents \in Injection(1..n, names)
  BY <1>2, <1>3, <1>4, FS_SurjSameCardinalityImpliesInj
<1>6. QED
  BY <1>1, <1>5 DEF Doubled, Injection, IsInjective

-----------------------------------------------------------------------------
\* What each part of the invariant speaks of: a step that leaves that alone
\* keeps it.
LEMMA Frames ==
    ASSUME DaemonInv
    PROVE  /\ UNCHANGED <<file, trace, accounts, balance, grants, wallets>> => DiskTypes'
           /\ UNCHANGED <<up, roster, seats, adding, next, running, broken>> => MemoryTypes'
           /\ UNCHANGED <<pc, epoch, round, turn, purse, bounties>> => EpisodeTypes'
           /\ UNCHANGED <<running, pc, up, adding, broken>> => Exclusive'
           /\ UNCHANGED <<up, roster, file, broken, epoch, adding, seats, next>> => Remembered'
           /\ UNCHANGED <<up, seats, next, roster, adding>> => Booting'
           /\ UNCHANGED <<adding, file, seats, accounts, grants>> => AddingOrder'
           /\ UNCHANGED <<accounts, grants>> => GrantedLast'
           /\ UNCHANGED <<seats, file, accounts>> => SeatsAreEntries'
           /\ UNCHANGED <<pc, awarded, bounties, seats>> => AwardsStand'
           /\ UNCHANGED <<wallets, file, pc, epoch, round, awarded>> => WalletsAreSpent'
           /\ UNCHANGED <<up, trace, bounties>> => Numbering'
           /\ UNCHANGED <<broken, file, seats, outlived>> => HaltsHaveCause'
           /\ UNCHANGED broken /\ (pc # "none" \/ up # "serving" \/ broken = "") => HaltsHaveCause'
           /\ UNCHANGED trace.posted => PostedOnce'
           /\ UNCHANGED <<grants, accounts, file, seats>> => WalletsAreBound'
<1> USE DEF DaemonInv
<1>1. UNCHANGED <<file, trace, accounts, balance, grants, wallets>> => DiskTypes'
  BY DEF DiskTypes
<1>2. UNCHANGED <<up, roster, seats, adding, next, running, broken>> => MemoryTypes'
  BY DEF MemoryTypes
<1>3. UNCHANGED <<pc, epoch, round, turn, purse, bounties>> => EpisodeTypes'
  BY DEF EpisodeTypes
<1>4. UNCHANGED <<running, pc, up, adding, broken>> => Exclusive'
  BY DEF Exclusive
<1>5. UNCHANGED <<up, roster, file, broken, epoch, adding, seats, next>> => Remembered'
  BY DEF Remembered
<1>6. UNCHANGED <<up, seats, next, roster, adding>> => Booting'
  BY DEF Booting
<1>7. UNCHANGED <<adding, file, seats, accounts, grants>> => AddingOrder'
  BY DEF AddingOrder
<1>8. UNCHANGED <<accounts, grants>> => GrantedLast'
  BY DEF GrantedLast
<1>9. UNCHANGED <<seats, file, accounts>> => SeatsAreEntries'
  BY DEF SeatsAreEntries, Doubled
<1>10. UNCHANGED <<pc, awarded, bounties, seats>> => AwardsStand'
  BY DEF AwardsStand, Upcoming, SeatOf
<1>11. UNCHANGED <<wallets, file, pc, epoch, round, awarded>> => WalletsAreSpent'
  BY DEF WalletsAreSpent, Upcoming
<1>12. UNCHANGED <<up, trace, bounties>> => Numbering'
  BY DEF Numbering
<1>13. /\ UNCHANGED <<broken, file, seats, outlived>> => HaltsHaveCause'
       /\ UNCHANGED broken /\ (pc # "none" \/ up # "serving" \/ broken = "") => HaltsHaveCause'
  BY DEF HaltsHaveCause, Doubled, Exclusive
<1>14. UNCHANGED trace.posted => PostedOnce'
  BY DEF PostedOnce
<1>15. UNCHANGED <<grants, accounts, file, seats>> => WalletsAreBound'
  BY DEF WalletsAreBound
<1>16. QED
  BY <1>1, <1>2, <1>3, <1>4, <1>5, <1>6, <1>7, <1>8, <1>9, <1>10, <1>11, <1>12, <1>13, <1>14, <1>15

\* Appending to the trace, whether or not the line lands.
LEMMA TracedTypes ==
    ASSUME DiskTypes, NEW lines \in [posted : Seq(Nat), whole : BOOLEAN], Traced(lines)
    PROVE  /\ trace' \in [posted : Seq(Nat), whole : BOOLEAN]
           /\ trace'.posted = trace.posted \/ trace'.posted = lines.posted
BY DEF DiskTypes, Traced

\* The types again, taken apart.
LEMMA Parts ==
    ASSUME DaemonInv
    PROVE  /\ seats \in Seq(SeatedAs) /\ Len(seats) \in Nat /\ DOMAIN seats = 1..Len(seats)
           /\ \A i \in DOMAIN seats : /\ seats[i] \in SeatedAs
                                      /\ seats[i].id \in Competitor /\ seats[i].retired \in BOOLEAN
           /\ file \in RosterFile /\ file.epoch \in Nat /\ file.agents \in Seq(Competitor)
           /\ roster \in RosterFile /\ roster.epoch \in Nat /\ roster.agents \in Seq(Competitor)
           /\ accounts \in [Competitor -> {"absent", "open", "closed"}]
           /\ balance \in [Competitor -> Nat] /\ grants \in [Competitor -> Nat]
<1>1. /\ seats \in Seq(SeatedAs) /\ file \in RosterFile /\ roster \in RosterFile
      /\ accounts \in [Competitor -> {"absent", "open", "closed"}]
      /\ balance \in [Competitor -> Nat] /\ grants \in [Competitor -> Nat]
  BY DEF DaemonInv, DiskTypes, MemoryTypes
<1>2. /\ file.epoch \in Nat /\ file.agents \in Seq(Competitor)
      /\ roster.epoch \in Nat /\ roster.agents \in Seq(Competitor)
  BY <1>1 DEF RosterFile
<1>3. /\ Len(seats) \in Nat /\ DOMAIN seats = 1..Len(seats)
      /\ \A i \in DOMAIN seats : seats[i] \in SeatedAs
  BY <1>1
<1>4. \A s \in SeatedAs : s.id \in Competitor /\ s.retired \in BOOLEAN
  BY DEF SeatedAs
<1>5. QED
  BY <1>1, <1>2, <1>3, <1>4

\* AddAgent under way is of one agent.
LEMMA OneAddition ==
    ASSUME MemoryTypes, adding # <<>>
    PROVE  \E entry \in Addition : adding = <<entry>> /\ adding[1] = entry
<1>1. PICK entry \in Addition : adding = <<entry>>
  BY DEF MemoryTypes
<1>2. adding[1] = entry
  BY <1>1
<1>3. QED
  BY <1>1, <1>2

LEMMA Appended ==
    ASSUME NEW S, NEW s \in Seq(S), NEW e \in S
    PROVE  /\ Append(s, e) \in Seq(S) /\ Len(Append(s, e)) = Len(s) + 1 /\ Len(s) \in Nat
           /\ DOMAIN s = 1..Len(s) /\ DOMAIN Append(s, e) = 1..(Len(s) + 1)
           /\ \A i \in 1..Len(s) : Append(s, e)[i] = s[i]
           /\ Append(s, e)[Len(s) + 1] = e
           /\ \A i \in 1..(Len(s) + 1) : i \in 1..Len(s) \/ i = Len(s) + 1
OBVIOUS

LEMMA BootKeeps == ASSUME DaemonInv, Boot PROVE DaemonInv'
<1>1. /\ up = "down" /\ UNCHANGED <<file, seats, next, adding, running, broken, pc, epoch, bounties, trace>>
      /\ (up' = "boot" /\ roster' = file) \/ (up' = "refused" /\ roster' = roster)
  BY DEF Boot, diskVars, episodeVars
<1>2. adding = <<>> /\ seats = <<>> /\ next = 1 /\ broken = ""
  BY <1>1 DEF DaemonInv, Remembered, Exclusive
<1>3. MemoryTypes'
  BY <1>1, Parts DEF DaemonInv, MemoryTypes
<1>4. Exclusive'
  BY <1>1, <1>2 DEF DaemonInv, Exclusive
<1>5. Remembered'
  BY <1>1, <1>2 DEF DaemonInv, Remembered
<1>6. Booting'
  <2>1. up' = "boot" => Len(roster'.agents) \in Nat
    BY <1>1, Parts
  <2>2. seats' = <<>> /\ next' = 1 /\ adding' = <<>>
    BY <1>1, <1>2
  <2>3. QED
    BY <2>1, <2>2 DEF Booting
<1>7. Numbering'
  BY <1>1 DEF Numbering
<1>8. QED
  BY <1>3, <1>4, <1>5, <1>6, <1>7, Frames DEF Boot, diskVars, episodeVars, DaemonInv

LEMMA CreateWalletKeeps == ASSUME DaemonInv, CreateWallet PROVE DaemonInv'
<1>1. PICK entry \in Addition : adding = <<entry>> /\ adding[1] = entry
  BY OneAddition DEF DaemonInv, CreateWallet
<1> DEFINE a == entry.agent
<1>2. /\ a \in Competitor /\ entry.does = "create"
      /\ accounts' = [accounts EXCEPT ![a] = "open"]
      /\ adding' = <<[entry EXCEPT !.does = "mint"]>>
  BY <1>1 DEF CreateWallet, Addition
<1>3. PICK minting \in Addition :
         adding' = <<minting>> /\ adding'[1] = minting /\ minting.agent = a /\ minting.does = "mint"
  BY <1>1, <1>2 DEF Addition
<1>4. /\ accounts[a] = "absent" /\ a \in ToSet(file.agents) /\ grants[a] = 0
      /\ \A i \in DOMAIN seats : seats[i].id # a
  BY <1>1, <1>2 DEF DaemonInv, AddingOrder, GrantedLast
<1>5. /\ adding # <<>> /\ adding' # <<>>
      /\ UNCHANGED <<file, trace, balance, wallets, roster, seats, next, up, running, broken, pc, epoch,
                     grants>>
  BY <1>1, <1>3 DEF CreateWallet, serverVars, episodeVars
<1> HIDE DEF a
<1>6. /\ accounts' \in [Competitor -> {"absent", "open", "closed"}] /\ accounts'[a] = "open"
      /\ \A c \in Competitor : c # a => accounts'[c] = accounts[c]
  BY <1>2, Parts
<1>7. DiskTypes'
  BY <1>5, <1>6 DEF DaemonInv, DiskTypes
<1>8. MemoryTypes'
  BY <1>3, <1>5 DEF DaemonInv, MemoryTypes
<1>9. Exclusive' /\ Remembered'
  BY <1>5 DEF DaemonInv, Exclusive, Remembered
<1>10. Booting'
  BY <1>1, <1>3, <1>5 DEF DaemonInv, Booting, a
<1>11. AddingOrder'
  BY <1>3, <1>4, <1>5, <1>6 DEF AddingOrder
<1>12. GrantedLast'
  BY <1>5, <1>6 DEF DaemonInv, GrantedLast
<1>13. \A i \in DOMAIN seats : accounts'[seats[i].id] = accounts[seats[i].id]
  BY <1>4, <1>6, Parts
<1>14. SeatsAreEntries'
  BY <1>5, <1>13 DEF DaemonInv, SeatsAreEntries
<1>15. WalletsAreBound'
  BY <1>4, <1>5, <1>6, <1>13 DEF DaemonInv, WalletsAreBound
<1>16. QED
  BY <1>7, <1>8, <1>9, <1>10, <1>11, <1>12, <1>14, <1>15, Frames
     DEF CreateWallet, serverVars, episodeVars, DaemonInv

LEMMA MintGrantKeeps == ASSUME DaemonInv, MintGrant PROVE DaemonInv'
<1>1. PICK entry \in Addition : adding = <<entry>> /\ adding[1] = entry
  BY OneAddition DEF DaemonInv, MintGrant
<1> DEFINE a == entry.agent
<1>2. /\ a \in Competitor /\ entry.does = "mint" /\ adding # <<>>
      /\ balance' = [balance EXCEPT ![a] = @ + Grant]
      /\ grants' = [grants EXCEPT ![a] = @ + 1]
      /\ seats' = Append(seats, Seat(a, FALSE))
  BY <1>1 DEF MintGrant, Addition
<1>3. /\ accounts[a] = "open" /\ grants[a] = 0 /\ a \in ToSet(file.agents)
      /\ \A i \in DOMAIN seats : seats[i].id # a
  BY <1>1, <1>2 DEF DaemonInv, AddingOrder
<1>4. /\ adding' = <<>> /\ next' = IF up = "boot" THEN next + 1 ELSE next
      /\ UNCHANGED <<file, accounts, wallets, roster, up, running, broken, pc, epoch, bounties>>
  BY DEF MintGrant, serverVars, episodeVars
<1>5. up = "boot" => a = roster.agents[next] /\ next <= Len(roster.agents)
  BY <1>1, <1>2 DEF DaemonInv, Booting
<1> HIDE DEF a
<1>6. ~running /\ up \in {"boot", "serving"} /\ next \in Nat \ {0}
  BY <1>2 DEF DaemonInv, Exclusive, Remembered, MemoryTypes
<1> DEFINE fresh == [id |-> a, retired |-> FALSE]
<1>7. fresh \in SeatedAs /\ seats' = Append(seats, fresh) /\ fresh.id = a /\ ~fresh.retired
  BY <1>2 DEF Seat, SeatedAs
<1> HIDE DEF fresh
<1>8. /\ seats' \in Seq(SeatedAs) /\ Len(seats') = Len(seats) + 1
      /\ DOMAIN seats' = 1..(Len(seats) + 1)
      /\ \A i \in 1..Len(seats) : seats'[i] = seats[i]
      /\ seats'[Len(seats) + 1] = fresh
  <2>1. seats \in Seq(SeatedAs)
    BY Parts
  <2>2. QED
    BY <1>7, <2>1, Appended
<1>9. trace \in [posted : Seq(Nat), whole : BOOLEAN]
  BY DEF DaemonInv, DiskTypes
<1>10. trace' \in [posted : Seq(Nat), whole : BOOLEAN] /\ trace'.posted = trace.posted
  BY <1>9, TracedTypes DEF DaemonInv, MintGrant
<1>11. balance' \in [Competitor -> Nat] /\ grants' \in [Competitor -> Nat]
       /\ grants'[a] = 1 /\ \A c \in Competitor : c # a => grants'[c] = grants[c]
  <2>1. Grant \in Nat
    BY DaemonAssumption
  <2>2. QED
    BY <1>2, <1>3, <2>1, Parts
<1>12. DiskTypes'
  BY <1>4, <1>10, <1>11 DEF DaemonInv, DiskTypes
<1>13. MemoryTypes'
  <2>1. next' \in Nat \ {0}
    BY <1>4, <1>6
  <2>2. QED
    BY <1>4, <1>8, <2>1 DEF DaemonInv, MemoryTypes
<1>14. Exclusive' /\ Remembered'
  BY <1>4, <1>6 DEF DaemonInv, Exclusive, Remembered
<1>15. Booting'
  <2>1. CASE up # "boot"
    BY <1>4, <2>1 DEF Booting
  <2>2. CASE up = "boot"
    <3>1. /\ Len(seats) = next - 1 /\ next' = next + 1 /\ Len(roster.agents) \in Nat
          /\ \A i \in 1..(next - 1) : seats[i].id = roster.agents[i]
      BY <1>4, <2>2, Parts DEF DaemonInv, Booting
    <3>2. seats'[next].id = roster.agents[next]
      <4>1. next = Len(seats) + 1
        BY <1>6, <3>1
      <4>2. seats'[next].id = a
        BY <1>7, <1>8, <4>1
      <4>3. QED
        BY <1>5, <2>2, <4>2
    <3>3. \A i \in 1..next : i = next \/ i \in 1..(next - 1)
      BY <1>6
    <3>4. \A i \in 1..next : seats'[i].id = roster.agents[i]
      BY <1>8, <3>1, <3>2, <3>3
    <3>5. QED
      BY <1>4, <1>5, <1>6, <1>8, <2>2, <3>1, <3>4 DEF Booting
  <2>3. QED
    BY <2>1, <2>2
<1>16. AddingOrder'
  BY <1>4 DEF AddingOrder
<1>17. GrantedLast'
  BY <1>3, <1>4, <1>11 DEF DaemonInv, GrantedLast
<1>18. \A i \in DOMAIN seats' :
          \/ i \in DOMAIN seats /\ seats'[i] = seats[i]
          \/ i = Len(seats) + 1 /\ seats'[i] = fresh
  <2>1. SUFFICES ASSUME NEW i \in DOMAIN seats'
                 PROVE  \/ i \in DOMAIN seats /\ seats'[i] = seats[i]
                        \/ i = Len(seats) + 1 /\ seats'[i] = fresh
    OBVIOUS
  <2>2. CASE i \in 1..Len(seats)
    <3>1. i \in DOMAIN seats /\ seats'[i] = seats[i]
      BY <1>8, <2>2, Parts
    <3>2. QED
      BY <3>1
  <2>3. CASE i = Len(seats) + 1
    BY <1>7, <1>8, <2>3
  <2>4. QED
    BY <1>8, <2>2, <2>3, Parts
<1>19. SeatsAreEntries'
  <2>1. ASSUME NEW i \in DOMAIN seats', NEW j \in DOMAIN seats', i # j, seats'[i].id = seats'[j].id
        PROVE  Doubled(file.agents)
    BY <1>3, <1>7, <1>18, <2>1 DEF DaemonInv, SeatsAreEntries
  <2>2. ASSUME NEW i \in DOMAIN seats', ~seats'[i].retired, accounts[seats'[i].id] = "closed"
        PROVE  \E j \in DOMAIN seats' : i # j /\ seats'[i].id = seats'[j].id
    <3>1. i \in DOMAIN seats /\ seats'[i] = seats[i]
      BY <1>3, <1>7, <1>18, <2>2
    <3>2. PICK j \in DOMAIN seats : i # j /\ seats[i].id = seats[j].id
      BY <2>2, <3>1 DEF DaemonInv, SeatsAreEntries
    <3>3. j \in DOMAIN seats' /\ seats'[j] = seats[j]
      BY <1>8, Parts
    <3>4. QED
      BY <3>1, <3>2, <3>3
  <2>3. QED
    BY <1>4, <2>1, <2>2 DEF SeatsAreEntries
<1>20. AwardsStand'
  BY <1>4, <1>6 DEF DaemonInv, AwardsStand, Exclusive
<1>21. Numbering'
  BY <1>4, <1>10 DEF DaemonInv, Numbering
<1>22. WalletsAreBound'
  <2>1. \A c \in Competitor : grants'[c] <= 1
    BY <1>11 DEF DaemonInv, WalletsAreBound
  <2>2. \A c \in Competitor : accounts[c] # "absent" => c \in ToSet(file.agents)
    BY DEF DaemonInv, WalletsAreBound
  <2>3. \A i \in DOMAIN seats' : accounts[seats'[i].id] # "absent"
    BY <1>3, <1>7, <1>18 DEF DaemonInv, WalletsAreBound
  <2>4. QED
    BY <1>4, <2>1, <2>2, <2>3 DEF WalletsAreBound
<1>23. HaltsHaveCause'
  <2>1. \A i \in DOMAIN seats : i \in DOMAIN seats' /\ seats'[i] = seats[i]
    BY <1>8, Parts
  <2>2. UNCHANGED <<broken, outlived, file>>
    BY DEF MintGrant, serverVars
  <2>3. QED
    BY <2>1, <2>2 DEF DaemonInv, HaltsHaveCause, Doubled
<1>24. QED
  BY <1>10, <1>12, <1>13, <1>14, <1>15, <1>16, <1>17, <1>19, <1>20, <1>21, <1>22, <1>23, Frames
     DEF MintGrant, serverVars, episodeVars, DaemonInv

LEMMA HangUpKeeps == ASSUME DaemonInv, HangUp PROVE DaemonInv'
<1>1. /\ adding # <<>> /\ adding' = <<>> /\ up = "serving"
      /\ UNCHANGED <<file, roster, seats, next, up, running, broken, pc, epoch>>
  BY DEF HangUp, diskVars, serverVars, episodeVars
<1>2. MemoryTypes' /\ Exclusive' /\ Remembered' /\ Booting' /\ AddingOrder'
  BY <1>1 DEF DaemonInv, MemoryTypes, Exclusive, Remembered, Booting, AddingOrder
<1>3. QED
  BY <1>2, Frames DEF HangUp, diskVars, serverVars, episodeVars, DaemonInv

-----------------------------------------------------------------------------
LEMMA AddEntryKeeps ==
    ASSUME DaemonInv, SeatEntry, AddsAtBoot(roster.agents[next])
    PROVE  DaemonInv'
<1> DEFINE a == roster.agents[next]
           entry == [agent |-> a, does |-> "create"]
<1>1. /\ up = "boot" /\ adding = <<>> /\ next <= Len(roster.agents)
      /\ accounts[a] = "absent" /\ adding' = <<entry>>
      /\ UNCHANGED <<file, accounts, roster, seats, next, up, running, broken, pc, epoch, grants>>
  BY DEF SeatEntry, AddsAtBoot, serverVars, episodeVars
<1>2. next \in Nat \ {0} /\ roster.agents = file.agents /\ ~running
  BY <1>1 DEF DaemonInv, MemoryTypes, Remembered, Exclusive
<1>3. next \in DOMAIN file.agents /\ a = file.agents[next]
  BY <1>1, <1>2, Parts
<1>4. a \in Competitor /\ a \in ToSet(file.agents)
  BY <1>3, Parts DEF ToSet
<1> HIDE DEF a
<1>5. entry \in Addition /\ adding'[1] = entry /\ adding' # <<>>
  BY <1>1, <1>4 DEF Addition
<1>6. entry.agent = a /\ entry.does = "create"
  OBVIOUS
<1> HIDE DEF entry
<1>7. \A i \in DOMAIN seats : seats[i].id # a
  BY <1>1 DEF DaemonInv, WalletsAreBound
<1>8. MemoryTypes'
  BY <1>1, <1>5 DEF DaemonInv, MemoryTypes
<1>9. Exclusive' /\ Remembered'
  BY <1>1, <1>2 DEF DaemonInv, Exclusive, Remembered
<1>10. Booting'
  BY <1>1, <1>5, <1>6 DEF DaemonInv, Booting, a
<1>11. AddingOrder'
  BY <1>1, <1>4, <1>5, <1>6, <1>7 DEF AddingOrder
<1>12. QED
  BY <1>8, <1>9, <1>10, <1>11, Frames DEF SeatEntry, serverVars, episodeVars, DaemonInv

LEMMA ReadmitKeeps ==
    ASSUME DaemonInv, SeatEntry, ~AddsAtBoot(roster.agents[next])
    PROVE  DaemonInv'
<1> DEFINE a == roster.agents[next]
           known == [id |-> a, retired |-> accounts[a] = "closed"]
<1>1. /\ up = "boot" /\ adding = <<>> /\ next <= Len(roster.agents)
      /\ accounts[a] # "absent" /\ next' = next + 1 /\ seats' = Append(seats, known)
      /\ UNCHANGED <<file, accounts, balance, wallets, roster, adding, up, running, broken, pc, epoch,
                     bounties, grants>>
  BY DEF SeatEntry, AddsAtBoot, Seat, serverVars, episodeVars
<1>2. next \in Nat \ {0} /\ roster.agents = file.agents /\ ~running
  BY <1>1 DEF DaemonInv, MemoryTypes, Remembered, Exclusive
<1>3. next \in DOMAIN file.agents /\ a = file.agents[next] /\ Len(file.agents) \in Nat
  BY <1>1, <1>2, Parts
<1>4. a \in Competitor
  BY <1>3, Parts
<1> HIDE DEF a
<1>5. known \in SeatedAs /\ known.id = a /\ (accounts[a] = "closed" => known.retired)
  BY <1>4 DEF SeatedAs
<1> HIDE DEF known
<1>6. /\ Len(seats) = next - 1 /\ \A i \in 1..(next - 1) : seats[i].id = roster.agents[i]
  BY <1>1 DEF DaemonInv, Booting
<1>7. /\ seats' \in Seq(SeatedAs) /\ Len(seats') = next /\ DOMAIN seats' = 1..next
      /\ \A i \in 1..(next - 1) : i \in DOMAIN seats /\ seats'[i] = seats[i]
      /\ seats'[next] = known
      /\ \A i \in 1..next : i \in 1..(next - 1) \/ i = next
  <2>1. seats \in Seq(SeatedAs)
    BY Parts
  <2>2. Len(seats) + 1 = next
    BY <1>2, <1>6
  <2>3. QED
    BY <1>1, <1>5, <1>6, <2>1, <2>2, Appended
<1>8. \A i \in 1..next : seats'[i].id = file.agents[i]
  BY <1>2, <1>3, <1>5, <1>6, <1>7
<1>9. trace' \in [posted : Seq(Nat), whole : BOOLEAN] /\ trace'.posted = trace.posted
  <2>1. trace \in [posted : Seq(Nat), whole : BOOLEAN] /\ DiskTypes
    BY DEF DaemonInv, DiskTypes
  <2>2. Traced(trace)
    BY DEF SeatEntry
  <2>3. QED
    BY <2>1, <2>2, TracedTypes
<1>10. DiskTypes'
  BY <1>1, <1>9 DEF DaemonInv, DiskTypes
<1>11. MemoryTypes'
  <2>1. next' \in Nat \ {0}
    BY <1>1, <1>2
  <2>2. QED
    BY <1>1, <1>7, <2>1 DEF DaemonInv, MemoryTypes
<1>12. Exclusive' /\ Remembered' /\ AddingOrder'
  BY <1>1, <1>2 DEF DaemonInv, Exclusive, Remembered, AddingOrder
<1>13. Booting'
  <2>1. \A i \in 1..(next' - 1) : seats'[i].id = roster'.agents[i]
    <3>1. next' - 1 = next
      BY <1>1, <1>2
    <3>2. QED
      BY <1>1, <1>2, <1>8, <3>1
  <2>2. Len(seats') = next' - 1 /\ next' <= Len(roster'.agents) + 1
    BY <1>1, <1>2, <1>3, <1>7
  <2>3. QED
    BY <1>1, <2>1, <2>2 DEF Booting
<1>14. SeatsAreEntries'
  <2>1. ASSUME NEW i \in DOMAIN seats', NEW j \in DOMAIN seats', i # j, seats'[i].id = seats'[j].id
        PROVE  Doubled(file.agents)
    <3>1. i \in DOMAIN file.agents /\ j \in DOMAIN file.agents
      <4>1. DOMAIN file.agents = 1..Len(file.agents)
        BY Parts
      <4>2. next <= Len(file.agents)
        BY <1>3, <4>1
      <4>3. QED
        BY <1>2, <1>3, <1>7, <4>1, <4>2
    <3>2. file.agents[i] = file.agents[j]
      BY <1>7, <1>8, <2>1
    <3>3. QED
      BY <2>1, <3>1, <3>2 DEF Doubled
  <2>2. ASSUME NEW i \in DOMAIN seats', ~seats'[i].retired, accounts[seats'[i].id] = "closed"
        PROVE  \E j \in DOMAIN seats' : i # j /\ seats'[i].id = seats'[j].id
    <3>1. i \in DOMAIN seats /\ seats'[i] = seats[i]
      BY <1>5, <1>7, <2>2
    <3>2. PICK j \in DOMAIN seats : i # j /\ seats[i].id = seats[j].id
      BY <2>2, <3>1 DEF DaemonInv, SeatsAreEntries
    <3>3. j \in DOMAIN seats' /\ seats'[j] = seats[j]
      BY <1>2, <1>6, <1>7, Parts
    <3>4. QED
      BY <3>1, <3>2, <3>3
  <2>3. QED
    BY <1>1, <2>1, <2>2 DEF SeatsAreEntries
<1>15. AwardsStand'
  BY <1>1, <1>2 DEF DaemonInv, AwardsStand, Exclusive
<1>16. Numbering'
  BY <1>1 DEF Numbering
<1>17. WalletsAreBound'
  <2>1. \A i \in DOMAIN seats' : accounts[seats'[i].id] # "absent"
    BY <1>1, <1>5, <1>7 DEF DaemonInv, WalletsAreBound, a
  <2>2. QED
    BY <1>1, <2>1 DEF DaemonInv, WalletsAreBound
<1>18. QED
  BY <1>1, <1>9, <1>10, <1>11, <1>12, <1>13, <1>14, <1>15, <1>16, <1>17, Frames
     DEF SeatEntry, serverVars, episodeVars, DaemonInv

LEMMA OpenDoorKeeps == ASSUME DaemonInv, OpenDoor PROVE DaemonInv'
<1>1. /\ up = "boot" /\ adding = <<>> /\ up' = "serving" /\ epoch' = roster.epoch
      /\ bounties' = Numbered(LastPosted)
      /\ UNCHANGED <<file, trace, roster, seats, adding, next, running, broken, pc, round, turn, purse>>
  BY DEF OpenDoor, diskVars, seatVars
<1>2. ~running /\ broken = "" /\ roster.agents = file.agents /\ roster.epoch = file.epoch
      /\ pc = "none"
  BY <1>1 DEF DaemonInv, Exclusive, Remembered
<1>3. LastPosted \in Nat /\ \A i \in DOMAIN trace.posted : trace.posted[i] <= LastPosted
  BY LastIsLast DEF DaemonInv, DiskTypes
<1>4. bounties' \in Seq(Posting) /\ Len(bounties') = LastPosted
  <2>1. [Bounty(FALSE) EXCEPT !.state = "solved"] \in Posting
    BY DEF Bounty, Posting
  <2>2. bounties' = [b \in 1..LastPosted |-> [Bounty(FALSE) EXCEPT !.state = "solved"]]
    BY <1>1 DEF Numbered
  <2>3. bounties' \in [1..LastPosted -> Posting]
    BY <2>1, <2>2
  <2>4. \A n \in Nat : \A board \in [1..n -> Posting] : board \in Seq(Posting) /\ Len(board) = n
    OBVIOUS
  <2>5. QED
    BY <1>3, <2>3, <2>4
<1>5. EpisodeTypes'
  BY <1>1, <1>4, Parts DEF DaemonInv, EpisodeTypes
<1>6. MemoryTypes' /\ Exclusive' /\ Remembered' /\ Booting'
  BY <1>1, <1>2 DEF DaemonInv, MemoryTypes, Exclusive, Remembered, Booting
<1>7. AwardsStand'
  BY <1>1, <1>2 DEF AwardsStand
<1>8. WalletsAreSpent'
  BY <1>1, <1>2 DEF DaemonInv, WalletsAreSpent, OpenDoor, diskVars
<1>9. Numbering'
  BY <1>1, <1>3, <1>4 DEF Numbering
<1>10. QED
  BY <1>5, <1>6, <1>7, <1>8, <1>9, Frames DEF OpenDoor, diskVars, seatVars, DaemonInv

LEMMA CrashKeeps == ASSUME DaemonInv, Crash PROVE DaemonInv'
<1>1. /\ up' = "down" /\ roster' = [epoch |-> 0, agents |-> <<>>] /\ seats' = <<>>
      /\ adding' = <<>> /\ next' = 1 /\ running' = FALSE /\ broken' = "" /\ pc' = "none"
      /\ round' = 0 /\ turn' = 1 /\ purse' = 0 /\ epoch' = 0 /\ bounties' = <<>>
      /\ UNCHANGED <<file, accounts, balance, wallets, grants>>
  BY DEF Crash, NoMemory
<1>2. PICK whole \in {trace.whole, FALSE} : trace' = [trace EXCEPT !.whole = whole]
  BY DEF Crash
<1>3. trace' \in [posted : Seq(Nat), whole : BOOLEAN] /\ trace'.posted = trace.posted
  BY <1>2 DEF DaemonInv, DiskTypes
<1>4. DiskTypes'
  BY <1>1, <1>3 DEF DaemonInv, DiskTypes
<1>5. MemoryTypes' /\ EpisodeTypes'
  <2>1. Rounds \in Nat
    BY DaemonAssumption
  <2>2. [epoch |-> 0, agents |-> <<>>] \in RosterFile /\ <<>> \in Seq(SeatedAs) /\ <<>> \in Seq(Posting)
    BY DEF RosterFile
  <2>3. up' = "down" /\ roster' \in RosterFile /\ seats' \in Seq(SeatedAs)
    BY <1>1, <2>2
  <2>4. next' \in Nat \ {0} /\ running' \in BOOLEAN
    <3>1. next' = 1
      BY <1>1
    <3>2. next' \in Nat \ {0}
      BY <3>1
    <3>3. running' \in BOOLEAN
      BY <1>1
    <3>4. QED
      BY <3>2, <3>3
  <2>5. MemoryTypes'
    BY <1>1, <2>3, <2>4 DEF MemoryTypes
  <2>6. bounties' \in Seq(Posting)
    BY <1>1, <2>2
  <2>7. round' \in 0..Rounds /\ turn' \in Nat \ {0} /\ purse' \in Nat /\ epoch' \in Nat
    <3>1. round' = 0 /\ turn' = 1 /\ purse' = 0 /\ epoch' = 0
      BY <1>1
    <3>2. QED
      BY <2>1, <3>1
  <2>8. EpisodeTypes'
    BY <1>1, <2>6, <2>7 DEF EpisodeTypes
  <2>9. QED
    BY <2>5, <2>8
<1>6. Exclusive' /\ Remembered' /\ Booting' /\ AddingOrder' /\ AwardsStand' /\ Numbering'
  BY <1>1 DEF Exclusive, Remembered, Booting, AddingOrder, AwardsStand, Numbering
<1>7. DOMAIN seats' = {}
  <2>1. seats' = <<>>
    BY <1>1
  <2>2. DOMAIN <<>> = {}
    OBVIOUS
  <2>3. QED
    BY <2>1, <2>2, Zenon
<1>8. WalletsAreSpent' /\ HaltsHaveCause' /\ SeatsAreEntries'
  BY <1>1, <1>7 DEF DaemonInv, WalletsAreSpent, HaltsHaveCause, SeatsAreEntries
<1>9. WalletsAreBound'
  BY <1>1, <1>7 DEF DaemonInv, WalletsAreBound
<1>10. QED
  BY <1>1, <1>3, <1>4, <1>5, <1>6, <1>8, <1>9, Frames DEF DaemonInv

-----------------------------------------------------------------------------
\* A roster that grows keeps the names it names twice.
LEMMA StillDoubled ==
    ASSUME NEW agents \in Seq(Competitor), NEW a \in Competitor
    PROVE  /\ Append(agents, a) \in Seq(Competitor)
           /\ Doubled(agents) => Doubled(Append(agents, a))
           /\ ToSet(Append(agents, a)) = ToSet(agents) \cup {a}
<1>1. /\ Append(agents, a) \in Seq(Competitor)
      /\ DOMAIN agents = 1..Len(agents) /\ DOMAIN Append(agents, a) = 1..(Len(agents) + 1)
      /\ \A i \in 1..Len(agents) : i \in 1..(Len(agents) + 1) /\ Append(agents, a)[i] = agents[i]
      /\ Append(agents, a)[Len(agents) + 1] = a
      /\ \A i \in 1..(Len(agents) + 1) : i \in 1..Len(agents) \/ i = Len(agents) + 1
      /\ Len(agents) + 1 \in 1..(Len(agents) + 1)
  OBVIOUS
<1>2. Doubled(agents) => Doubled(Append(agents, a))
  BY <1>1 DEF Doubled
<1>3. ToSet(Append(agents, a)) = ToSet(agents) \cup {a}
  BY <1>1 DEF ToSet
<1>4. QED
  BY <1>1, <1>2, <1>3

LEMMA SubmitKeeps == ASSUME DaemonInv, NEW a \in Competitor, Submit(a) PROVE DaemonInv'
<1>1. CASE UNCHANGED <<roster, file, adding>>
  BY <1>1, Frames DEF Submit, serverVars, episodeVars, DaemonInv
<1>2. CASE ~UNCHANGED <<roster, file, adding>>
  <2> DEFINE entry == [agent |-> a, does |-> "create"]
  <2>1. /\ up = "serving" /\ adding = <<>> /\ broken = "" /\ running = FALSE
        /\ accounts[a] = "absent"
        /\ roster' = [roster EXCEPT !.agents = Append(@, a)] /\ file' = roster' /\ adding' = <<entry>>
        /\ UNCHANGED <<trace, accounts, balance, wallets, seats, next, up, running, broken, pc, epoch, grants>>
    <3>1. running \in BOOLEAN
      BY DEF DaemonInv, MemoryTypes
    <3>2. QED
      BY <1>2, <3>1 DEF Submit, Accepting, Saved, serverVars, episodeVars
  <2>2. entry \in Addition /\ entry.agent = a /\ entry.does = "create" /\ adding'[1] = entry
        /\ adding' # <<>>
    BY <2>1 DEF Addition
  <2> HIDE DEF entry
  <2>3. /\ roster.agents = file.agents /\ roster.epoch = file.epoch /\ epoch = file.epoch
        /\ pc = "none"
    BY <2>1 DEF DaemonInv, Remembered, Exclusive, MemoryTypes
  <2>4. /\ roster' \in RosterFile /\ file' \in RosterFile
        /\ roster'.agents = Append(file.agents, a) /\ file'.agents = Append(file.agents, a)
        /\ roster'.epoch = file.epoch /\ file'.epoch = file.epoch
    <3>1. Append(roster.agents, a) \in Seq(Competitor)
      BY Parts, StillDoubled
    <3>2. roster' = [epoch |-> roster.epoch, agents |-> Append(roster.agents, a)]
      BY <2>1, Parts DEF RosterFile
    <3>3. QED
      BY <2>1, <2>3, <3>1, <3>2, Parts DEF RosterFile
  <2>5. /\ Doubled(file.agents) => Doubled(file'.agents)
        /\ ToSet(file'.agents) = ToSet(file.agents) \cup {a}
    BY <2>4, Parts, StillDoubled
  <2>6. DiskTypes'
    BY <2>1, <2>4 DEF DaemonInv, DiskTypes
  <2>7. MemoryTypes'
    BY <2>1, <2>2, <2>4 DEF DaemonInv, MemoryTypes
  <2>8. Exclusive' /\ Remembered'
    BY <2>1, <2>3, <2>4 DEF DaemonInv, Exclusive, Remembered
  <2>9. Booting'
    BY <2>1 DEF Booting
  <2>10. AddingOrder'
    <3>1. \A i \in DOMAIN seats : seats[i].id # a
      BY <2>1 DEF DaemonInv, WalletsAreBound
    <3>2. QED
      BY <2>1, <2>2, <2>5, <3>1 DEF AddingOrder
  <2>11. SeatsAreEntries' /\ HaltsHaveCause'
    BY <2>1, <2>5 DEF DaemonInv, SeatsAreEntries, HaltsHaveCause
  <2>12. WalletsAreSpent'
    BY <2>1, <2>3, <2>4 DEF DaemonInv, WalletsAreSpent
  <2>13. WalletsAreBound'
    BY <2>1, <2>5 DEF DaemonInv, WalletsAreBound
  <2>14. QED
    BY <2>6, <2>7, <2>8, <2>9, <2>10, <2>11, <2>12, <2>13, Frames
       DEF Submit, serverVars, episodeVars, DaemonInv
<1>3. QED
  BY <1>1, <1>2

LEMMA StartEpisodeKeeps == ASSUME DaemonInv, StartEpisode PROVE DaemonInv'
<1>1. /\ up = "serving" /\ adding = <<>> /\ broken = "" /\ running' = TRUE /\ pc' = "epoch"
      /\ UNCHANGED <<file, roster, seats, adding, next, up, broken, round, turn, purse, epoch, bounties,
                     wallets>>
  BY DEF StartEpisode, Accepting, diskVars, seatVars
<1>2. MemoryTypes' /\ Exclusive' /\ Remembered'
  BY <1>1 DEF DaemonInv, MemoryTypes, Exclusive, Remembered
<1>3. EpisodeTypes' /\ AwardsStand' /\ WalletsAreSpent'
  BY <1>1 DEF DaemonInv, EpisodeTypes, AwardsStand, WalletsAreSpent
<1>4. QED
  BY <1>2, <1>3, Frames DEF StartEpisode, diskVars, seatVars, DaemonInv

LEMMA NextEpochKeeps == ASSUME DaemonInv, NextEpoch PROVE DaemonInv'
<1>1. /\ pc = "epoch" /\ epoch' = epoch + 1 /\ roster' = [roster EXCEPT !.epoch = @ + 1]
      /\ UNCHANGED <<trace, accounts, balance, wallets, seats, adding, next, up, round, turn, awarded,
                     purse, bounties, grants>>
      /\ \/ file' = roster' /\ pc' = "start" /\ UNCHANGED <<running, broken>>
         \/ file' = file /\ broken' = "disk" /\ pc' = "none" /\ running' = FALSE
  BY DEF NextEpoch, NextEpochNumber, Saved, Halt
<1>2. /\ up = "serving" /\ adding = <<>> /\ broken = "" /\ epoch \in Nat
      /\ roster.agents = file.agents /\ roster.epoch = file.epoch /\ epoch = file.epoch
  BY <1>1 DEF DaemonInv, Exclusive, Remembered, EpisodeTypes
<1>3. /\ roster' \in RosterFile /\ roster'.agents = file.agents /\ roster'.epoch = file.epoch + 1
  <2>1. roster' = [epoch |-> roster.epoch + 1, agents |-> roster.agents]
    BY <1>1, Parts DEF RosterFile
  <2>2. roster.epoch \in Nat /\ roster.agents \in Seq(Competitor)
    BY Parts
  <2>3. roster.epoch + 1 \in Nat
    BY <2>2
  <2>4. QED
    BY <1>2, <2>1, <2>2, <2>3 DEF RosterFile
<1>4. /\ file' \in RosterFile /\ file'.agents = file.agents
      /\ file'.epoch = file.epoch \/ file'.epoch = file.epoch + 1
      /\ pc' = "start" => file'.epoch = file.epoch + 1
  <2>1. file \in RosterFile
    BY Parts
  <2>2. QED
    BY <1>1, <1>3, <2>1
<1>5. DiskTypes'
  BY <1>1, <1>4 DEF DaemonInv, DiskTypes
<1>6. MemoryTypes'
  BY <1>1, <1>3 DEF DaemonInv, MemoryTypes
<1>7. EpisodeTypes'
  <2>1. epoch' = epoch + 1 /\ epoch \in Nat
    BY <1>1, <1>2
  <2>2. epoch' \in Nat
    BY <2>1
  <2>3. QED
    BY <1>1, <2>2 DEF DaemonInv, EpisodeTypes
<1>8. Exclusive'
  BY <1>1, <1>2 DEF DaemonInv, Exclusive
<1>9. Remembered'
  BY <1>1, <1>2, <1>3, <1>4 DEF Remembered
<1>10. Booting' /\ AddingOrder'
  BY <1>1, <1>2 DEF Booting, AddingOrder
<1>11. SeatsAreEntries' /\ WalletsAreBound'
  BY <1>1, <1>4 DEF DaemonInv, SeatsAreEntries, WalletsAreBound
<1>12. AwardsStand' /\ HaltsHaveCause'
  BY <1>1, <1>2, <1>4 DEF DaemonInv, AwardsStand, HaltsHaveCause
<1>13. WalletsAreSpent'
  <2>1. \A w \in wallets : w[2] \in Nat /\ w[2] <= file.epoch
    BY DEF DaemonInv, DiskTypes, WalletsAreSpent
  <2>2. file.epoch \in Nat
    BY Parts
  <2>3. file'.epoch = file.epoch \/ file'.epoch = file.epoch + 1
    BY <1>4
  <2>4. \A w \in wallets : w[2] <= file'.epoch
    BY <2>1, <2>2, <2>3
  <2>5. epoch' = file.epoch + 1
    BY <1>1, <1>2
  <2>6. \A w \in wallets : w[2] < epoch'
    BY <2>1, <2>2, <2>5
  <2>7. QED
    BY <1>1, <2>4, <2>6 DEF WalletsAreSpent
<1>14. QED
  BY <1>1, <1>5, <1>6, <1>7, <1>8, <1>9, <1>10, <1>11, <1>12, <1>13, Frames DEF DaemonInv

LEMMA StartLineKeeps == ASSUME DaemonInv, StartLine PROVE DaemonInv'
<1>1. /\ pc = "start" /\ pc' = "sweep" /\ round' = 1 /\ turn' = 1
      /\ UNCHANGED <<file, accounts, balance, wallets, seats, roster, adding, next, up, running, broken,
                     purse, epoch, bounties, grants>>
  BY DEF StartLine, seatVars, serverVars
<1>2. trace' \in [posted : Seq(Nat), whole : BOOLEAN] /\ trace'.posted = trace.posted
  <2>1. trace \in [posted : Seq(Nat), whole : BOOLEAN] /\ DiskTypes
    BY DEF DaemonInv, DiskTypes
  <2>2. Traced(trace)
    BY DEF StartLine
  <2>3. QED
    BY <2>1, <2>2, TracedTypes
<1>3. DiskTypes'
  BY <1>1, <1>2 DEF DaemonInv, DiskTypes
<1>4. EpisodeTypes'
  BY <1>1, DaemonAssumption DEF DaemonInv, EpisodeTypes
<1>5. Exclusive' /\ AwardsStand'
  BY <1>1 DEF DaemonInv, Exclusive, AwardsStand
<1>6. WalletsAreSpent'
  <2>1. \A w \in wallets : w[2] < epoch /\ w[2] \in Nat /\ w[2] <= file.epoch
    BY <1>1 DEF DaemonInv, DiskTypes, WalletsAreSpent
  <2>2. epoch \in Nat
    BY DEF DaemonInv, EpisodeTypes
  <2>3. \A w \in wallets : w[2] # epoch
    BY <2>1, <2>2
  <2>4. QED
    BY <1>1, <2>1, <2>3 DEF WalletsAreSpent
<1>7. Numbering'
  BY <1>1, <1>2 DEF DaemonInv, Numbering
<1>8. QED
  BY <1>1, <1>2, <1>3, <1>4, <1>5, <1>6, <1>7, Frames DEF DaemonInv, StartLine, seatVars, serverVars

-----------------------------------------------------------------------------
\* What settling a seat leaves: the same names in the same seats, and whoever
\* was retired closed under a seat that says so.
LEMMA Settled ==
    ASSUME DaemonInv, NEW k \in DOMAIN seats, NEW left \in Nat, SettleSeat(k, left),
           running, UNCHANGED <<file, grants, adding, up>>
    PROVE  /\ seats' \in Seq(SeatedAs) /\ Len(seats') = Len(seats) /\ DOMAIN seats' = DOMAIN seats
           /\ \A i \in DOMAIN seats : seats'[i].id = seats[i].id
           /\ accounts' \in [Competitor -> {"absent", "open", "closed"}]
           /\ balance' \in [Competitor -> Nat]
           /\ GrantedLast' /\ SeatsAreEntries' /\ WalletsAreBound' /\ AddingOrder' /\ Booting'
<1> DEFINE a == seats[k].id
<1>1. a \in Competitor
  BY Parts
<1>2. /\ left <= Dust => accounts[a] = "open"
      /\ seats' = IF left <= Dust THEN [seats EXCEPT ![k].retired = TRUE] ELSE seats
      /\ accounts' = IF left <= Dust THEN [accounts EXCEPT ![a] = "closed"] ELSE accounts
      /\ balance' = [balance EXCEPT ![a] = IF left <= Dust THEN 0 ELSE left]
  BY DEF SettleSeat
<1>3. adding' = <<>> /\ up' = "serving"
  BY DEF DaemonInv, Exclusive
<1> HIDE DEF a
<1>4. balance' \in [Competitor -> Nat]
  BY <1>1, <1>2, Parts
<1>5. AddingOrder' /\ Booting'
  BY <1>3 DEF AddingOrder, Booting
<1>6. CASE left <= Dust
  <2>1. /\ seats' = [seats EXCEPT ![k].retired = TRUE]
        /\ accounts' = [accounts EXCEPT ![a] = "closed"] /\ accounts[a] = "open"
    BY <1>2, <1>6
  <2>2. /\ accounts' \in [Competitor -> {"absent", "open", "closed"}] /\ accounts'[a] = "closed"
        /\ \A c \in Competitor : c # a => accounts'[c] = accounts[c]
    BY <1>1, <2>1, Parts
  <2>3. [seats[k] EXCEPT !.retired = TRUE] \in SeatedAs
        /\ [seats[k] EXCEPT !.retired = TRUE].id = a /\ [seats[k] EXCEPT !.retired = TRUE].retired
    <3>1. seats[k] \in [id : Competitor, retired : BOOLEAN]
      BY Parts DEF SeatedAs
    <3>2. QED
      BY <3>1 DEF SeatedAs, a
  <2>4. /\ seats' \in Seq(SeatedAs) /\ Len(seats') = Len(seats) /\ DOMAIN seats' = DOMAIN seats
        /\ seats'[k] = [seats[k] EXCEPT !.retired = TRUE]
        /\ \A i \in DOMAIN seats : i # k => seats'[i] = seats[i]
    <3>1. seats \in Seq(SeatedAs)
      BY Parts
    <3>2. seats' = [seats EXCEPT ![k] = [seats[k] EXCEPT !.retired = TRUE]]
      BY <2>1
    <3>3. QED
      BY <2>3, <3>1, <3>2
  <2>5. \A i \in DOMAIN seats : seats'[i].id = seats[i].id
    BY <2>3, <2>4 DEF a
  <2>6. GrantedLast'
    BY <2>1, <2>2 DEF DaemonInv, GrantedLast
  <2>7. WalletsAreBound'
    <3>1. \A c \in Competitor : accounts'[c] # "absent" => accounts[c] # "absent"
      BY <2>1, <2>2
    <3>2. \A i \in DOMAIN seats : accounts'[seats[i].id] # "absent"
      <4>1. \A i \in DOMAIN seats : accounts[seats[i].id] # "absent" /\ seats[i].id \in Competitor
        BY Parts DEF DaemonInv, WalletsAreBound
      <4>2. QED
        BY <2>2, <4>1
    <3>3. QED
      BY <2>4, <2>5, <3>1, <3>2 DEF DaemonInv, WalletsAreBound
  <2>8. ASSUME NEW i \in DOMAIN seats', ~seats'[i].retired, accounts'[seats'[i].id] = "closed"
        PROVE  \E j \in DOMAIN seats' : i # j /\ seats'[i].id = seats'[j].id
    <3>1. i # k /\ i \in DOMAIN seats /\ seats'[i] = seats[i]
      BY <2>3, <2>4, <2>8
    <3>2. CASE seats[i].id = a
      BY <2>4, <2>5, <3>1, <3>2 DEF a
    <3>3. CASE seats[i].id # a
      <4>1. accounts[seats[i].id] = "closed"
        BY <2>2, <2>8, <3>1, <3>3, Parts
      <4>2. PICK j \in DOMAIN seats : i # j /\ seats[i].id = seats[j].id
        BY <2>8, <3>1, <4>1 DEF DaemonInv, SeatsAreEntries
      <4>3. QED
        BY <2>4, <2>5, <3>1, <4>2
    <3>4. QED
      BY <3>2, <3>3
  <2>9. SeatsAreEntries'
    BY <2>4, <2>5, <2>8 DEF DaemonInv, SeatsAreEntries
  <2>10. QED
    BY <1>4, <1>5, <2>2, <2>4, <2>5, <2>6, <2>7, <2>9
<1>7. CASE ~(left <= Dust)
  <2>1. UNCHANGED <<seats, accounts>>
    BY <1>2, <1>7
  <2>2. QED
    BY <1>4, <1>5, <2>1, Frames, Parts
<1>8. QED
  BY <1>6, <1>7

\* A settlement that is refused moves some dust of its agent, and halts.
LEMMA RefusedKeeps ==
    ASSUME DaemonInv, NEW k \in DOMAIN seats, NEW left \in Nat, RefusedSeat(k, left), running,
           ~seats[k].retired, bounties' \in Seq(Posting), Len(bounties') = Len(bounties),
           turn' \in Nat \ {0}, purse' \in Nat,
           UNCHANGED <<file, trace, wallets, outlived, roster, adding, next, up, round, epoch, grants>>
    PROVE  DaemonInv'
<1> DEFINE a == seats[k].id
<1>1. /\ a \in outlived /\ broken' = "hold" /\ pc' = "none" /\ running' = FALSE
      /\ UNCHANGED <<seats, accounts>>
  BY DEF RefusedSeat, Halt
<1>2. PICK rest \in 0..left : balance' = [balance EXCEPT ![a] = rest]
  BY DEF RefusedSeat
<1>3. up = "serving" /\ adding = <<>>
  BY DEF DaemonInv, Exclusive
<1>4. DiskTypes'
  <2>1. balance' \in [Competitor -> Nat]
    BY <1>2, Parts
  <2>2. QED
    BY <1>1, <2>1 DEF DaemonInv, DiskTypes
<1>5. MemoryTypes' /\ Exclusive' /\ Remembered'
  BY <1>1, <1>3 DEF DaemonInv, MemoryTypes, Exclusive, Remembered
<1>6. EpisodeTypes' /\ AwardsStand' /\ WalletsAreSpent' /\ Numbering'
  BY <1>1 DEF DaemonInv, EpisodeTypes, AwardsStand, WalletsAreSpent, Numbering
<1>7. HaltsHaveCause'
  BY <1>1 DEF HaltsHaveCause
<1>8. QED
  BY <1>1, <1>4, <1>5, <1>6, <1>7, Frames DEF DaemonInv

LEMMA SweepKeeps == ASSUME DaemonInv, Sweep PROVE DaemonInv'
<1>1. /\ pc = "sweep" /\ turn <= Len(seats)
      /\ UNCHANGED <<file, trace, wallets, outlived, roster, adding, next, up, round, awarded, purse, epoch,
                     bounties, grants>>
  BY DEF Sweep
<1>2. /\ turn \in Nat \ {0} /\ turn \in DOMAIN seats /\ running /\ up = "serving" /\ adding = <<>>
      /\ broken = ""
  <2>1. turn \in Nat \ {0}
    BY DEF DaemonInv, EpisodeTypes
  <2>2. turn \in DOMAIN seats
    BY <1>1, <2>1, Parts
  <2>3. QED
    BY <1>1, <2>1, <2>2 DEF DaemonInv, Exclusive
<1>3. turn + 1 \in Nat \ {0}
  <2>1. turn \in Nat
    BY <1>2
  <2>2. QED
    BY <2>1
<1>4. CASE UNCHANGED <<seats, accounts, balance, running, broken, pc>>
  <2>1. turn' = turn + 1 \/ turn' = turn
    BY <1>4 DEF Sweep
  <2>2. EpisodeTypes'
    BY <1>1, <1>2, <1>3, <1>4, <2>1 DEF DaemonInv, EpisodeTypes
  <2>3. QED
    BY <1>1, <1>4, <2>2, Frames DEF DaemonInv
<1>5. CASE turn' = turn + 1 /\ SettleSeat(turn, balance[seats[turn].id]) /\ UNCHANGED <<running, broken, pc>>
  <2>1. balance[seats[turn].id] \in Nat
    BY <1>2, Parts
  <2>2. /\ seats' \in Seq(SeatedAs) /\ DOMAIN seats' = DOMAIN seats
        /\ \A i \in DOMAIN seats : seats'[i].id = seats[i].id
        /\ accounts' \in [Competitor -> {"absent", "open", "closed"}]
        /\ balance' \in [Competitor -> Nat]
        /\ GrantedLast' /\ SeatsAreEntries' /\ WalletsAreBound' /\ AddingOrder' /\ Booting'
    BY <1>1, <1>2, <1>5, <2>1, Settled
  <2>3. DiskTypes'
    BY <1>1, <2>2 DEF DaemonInv, DiskTypes
  <2>4. MemoryTypes'
    BY <1>1, <1>5, <2>2 DEF DaemonInv, MemoryTypes
  <2>5. EpisodeTypes'
    BY <1>1, <1>3, <1>5 DEF DaemonInv, EpisodeTypes
  <2>6. Remembered' /\ AwardsStand'
    BY <1>1, <1>2, <1>5 DEF DaemonInv, Remembered, AwardsStand
  <2>7. QED
    BY <1>1, <1>5, <2>2, <2>3, <2>4, <2>5, <2>6, Frames DEF DaemonInv
<1>6. CASE /\ ~seats[turn].retired /\ accounts[seats[turn].id] = "closed" /\ Halt("seat")
           /\ UNCHANGED <<turn, seats, accounts, balance>>
  <2>1. broken' = "seat" /\ pc' = "none" /\ running' = FALSE
    BY <1>6 DEF Halt
  <2>2. Doubled(file.agents)
    BY <1>2, <1>6 DEF DaemonInv, SeatsAreEntries
  <2>3. HaltsHaveCause'
    BY <1>1, <2>1, <2>2 DEF HaltsHaveCause
  <2>4. MemoryTypes' /\ Exclusive' /\ Remembered'
    BY <1>1, <1>2, <1>6, <2>1 DEF DaemonInv, MemoryTypes, Exclusive, Remembered
  <2>5. EpisodeTypes' /\ AwardsStand' /\ WalletsAreSpent'
    BY <1>1, <1>6, <2>1 DEF DaemonInv, EpisodeTypes, AwardsStand, WalletsAreSpent
  <2>6. QED
    BY <1>1, <1>6, <2>3, <2>4, <2>5, Frames DEF DaemonInv
<1>7. CASE ~seats[turn].retired /\ RefusedSeat(turn, balance[seats[turn].id]) /\ UNCHANGED turn
  <2>1. balance[seats[turn].id] \in Nat
    BY <1>2, Parts
  <2>2. bounties \in Seq(Posting) /\ turn \in Nat \ {0} /\ purse \in Nat
    BY DEF DaemonInv, EpisodeTypes
  <2>3. QED
    BY <1>1, <1>2, <1>7, <2>1, <2>2, RefusedKeeps
<1>8. QED
  BY <1>4, <1>5, <1>6, <1>7 DEF Sweep

LEMMA SweptKeeps == ASSUME DaemonInv, Swept PROVE DaemonInv'
<1>1. /\ pc = "sweep" /\ pc' = "post" /\ turn' = 1
      /\ UNCHANGED <<file, wallets, up, adding, running, broken, epoch, round, awarded, purse, bounties>>
  BY DEF Swept, diskVars, seatVars, serverVars
<1>2. EpisodeTypes'
  BY <1>1 DEF DaemonInv, EpisodeTypes
<1>3. Exclusive' /\ AwardsStand' /\ WalletsAreSpent'
  BY <1>1 DEF DaemonInv, Exclusive, AwardsStand, WalletsAreSpent
<1>4. QED
  BY <1>2, <1>3, Frames DEF Swept, diskVars, seatVars, serverVars, DaemonInv

LEMMA PostKeeps == ASSUME DaemonInv, Post PROVE DaemonInv'
<1> DEFINE g == Min(Unposted)
           number == Len(bounties) + 1
<1>1. /\ pc = "post" /\ Unposted # {} /\ turn' = g + 1
      /\ bounties' = Append(bounties, Bounty(Generators[g].judged))
      /\ UNCHANGED <<file, accounts, balance, wallets, seats, roster, adding, next, up, round, awarded,
                     purse, epoch, grants>>
  BY DEF Post, Posted, seatVars
<1>2. g \in Nat \ {0} /\ Generators[g].judged = FALSE
  <2>1. DOMAIN Generators = 1..Len(Generators) /\ Len(Generators) \in Nat
        /\ \A i \in DOMAIN Generators : Generators[i] \in [probes : BOOLEAN, judged : BOOLEAN]
    <3> DEFINE Generator == [probes : BOOLEAN, judged : BOOLEAN]
    <3>1. Generators \in Seq(Generator)
      BY DaemonAssumption
    <3> HIDE DEF Generator
    <3>2. \A s \in Seq(Generator) : /\ DOMAIN s = 1..Len(s) /\ Len(s) \in Nat
                                    /\ \A i \in DOMAIN s : s[i] \in Generator
      OBVIOUS
    <3>3. QED
      BY <3>1, <3>2 DEF Generator
  <2>2. Unposted \subseteq DOMAIN Generators /\ \A i \in Unposted : ~Generators[i].judged
    BY DEF Unposted, Used
  <2>3. Unposted \subseteq Nat \ {0}
    BY <2>1, <2>2
  <2>4. g \in Unposted
    BY <1>1, <2>3, MinIsLeast
  <2>5. QED
    BY <2>1, <2>2, <2>3, <2>4
<1>3. /\ Traced([trace EXCEPT !.posted = Append(@, Len(bounties'))])
      /\ UNCHANGED <<running, broken, pc>>
  BY <1>2 DEF Post
<1> HIDE DEF g
<1>4. /\ bounties' \in Seq(Posting) /\ Len(bounties') = number /\ Len(bounties) \in Nat
  <2>1. bounties \in Seq(Posting)
    BY DEF DaemonInv, EpisodeTypes
  <2>2. Bounty(Generators[g].judged) \in Posting
    BY <1>2 DEF Bounty, Posting
  <2>3. QED
    BY <1>1, <2>1, <2>2, Appended
<1>5. trace.posted \in Seq(Nat) /\ trace \in [posted : Seq(Nat), whole : BOOLEAN]
  BY DEF DaemonInv, DiskTypes
<1>6. number \in Nat
  BY <1>4
<1>7. \A i \in DOMAIN trace.posted : trace.posted[i] \in Nat /\ trace.posted[i] <= Len(bounties)
  <2>1. up = "serving"
    BY <1>1 DEF DaemonInv, Exclusive
  <2>2. QED
    BY <1>5, <2>1 DEF DaemonInv, Numbering
<1>8. \A i \in DOMAIN trace.posted : trace.posted[i] < number
  BY <1>4, <1>7
<1> HIDE DEF number
<1> DEFINE longer == Append(trace.posted, number)
<1>9. /\ longer \in Seq(Nat) /\ DOMAIN longer = 1..(Len(trace.posted) + 1)
      /\ \A i \in 1..Len(trace.posted) : i \in DOMAIN trace.posted /\ longer[i] = trace.posted[i]
      /\ longer[Len(trace.posted) + 1] = number
      /\ \A i \in DOMAIN longer : i \in 1..Len(trace.posted) \/ i = Len(trace.posted) + 1
  BY <1>5, <1>6, Appended
<1> HIDE DEF longer
<1>10. /\ trace' \in [posted : Seq(Nat), whole : BOOLEAN]
       /\ trace'.posted = trace.posted \/ trace'.posted = longer
  <2>1. [trace EXCEPT !.posted = longer] \in [posted : Seq(Nat), whole : BOOLEAN]
        /\ [trace EXCEPT !.posted = longer].posted = longer
    BY <1>5, <1>9
  <2>2. Traced([trace EXCEPT !.posted = longer])
    BY <1>3, <1>4 DEF longer
  <2>3. QED
    BY <2>1, <2>2, TracedTypes DEF DaemonInv
<1>11. DiskTypes'
  BY <1>1, <1>10 DEF DaemonInv, DiskTypes
<1>12. EpisodeTypes'
  <2>1. turn' \in Nat \ {0}
    BY <1>1, <1>2
  <2>2. QED
    BY <1>1, <1>3, <1>4, <2>1 DEF DaemonInv, EpisodeTypes
<1>13. AwardsStand'
  BY <1>1, <1>3 DEF AwardsStand
<1>14. PostedOnce'
  <2>1. ASSUME NEW i \in DOMAIN longer, NEW j \in DOMAIN longer, longer[i] = longer[j] PROVE i = j
    <3>1. \A k \in 1..Len(trace.posted) : longer[k] = trace.posted[k] /\ trace.posted[k] # number
      BY <1>6, <1>7, <1>8, <1>9
    <3>2. QED
      BY <1>9, <2>1, <3>1 DEF DaemonInv, PostedOnce
  <2>2. QED
    BY <1>10, <2>1 DEF DaemonInv, PostedOnce
<1>15. Numbering'
  <2>1. \A i \in DOMAIN trace.posted : trace.posted[i] <= number
    BY <1>6, <1>7, <1>8
  <2>2. number <= number
    BY <1>6
  <2>3. \A i \in DOMAIN longer : longer[i] <= number
    BY <1>9, <2>1, <2>2
  <2>4. QED
    BY <1>4, <1>10, <2>1, <2>3 DEF Numbering
<1>16. QED
  BY <1>1, <1>3, <1>11, <1>12, <1>13, <1>14, <1>15, Frames DEF DaemonInv

\* A board some of whose bounties change is a board of as many.
LEMMA SameBoard ==
    ASSUME bounties \in Seq(Posting), DOMAIN bounties' = DOMAIN bounties, NEW board \in [DOMAIN bounties -> Posting],
           bounties' = board
    PROVE  bounties' \in Seq(Posting) /\ Len(bounties') = Len(bounties)
<1>1. Len(bounties) \in Nat /\ DOMAIN bounties = 1..Len(bounties)
  OBVIOUS
<1>2. \A n \in Nat : \A s \in [1..n -> Posting] : s \in Seq(Posting) /\ Len(s) = n
  OBVIOUS
<1>3. QED
  BY <1>1, <1>2

\* During the attempts, the next award is of a bounty on the board, to somebody
\* seated, and under a wallet of no earlier attempt.
LEMMA NextAward ==
    ASSUME DaemonInv, pc \in {"attempt", "perform"}, awarded # {}
    PROVE  /\ Upcoming \in awarded /\ Upcoming \in DOMAIN bounties /\ Upcoming \in Nat
           /\ bounties \in Seq(Posting) /\ bounties[Upcoming] \in Posting
           /\ bounties[Upcoming].winner \in Competitor
           /\ SeatOf(bounties[Upcoming].winner) \in DOMAIN seats
           /\ seats[SeatOf(bounties[Upcoming].winner)].id = bounties[Upcoming].winner
<1>1. bounties \in Seq(Posting) /\ awarded \subseteq DOMAIN bounties
  BY DEF DaemonInv, EpisodeTypes, AwardsStand
<1>2. DOMAIN bounties \subseteq Nat /\ \A b \in DOMAIN bounties : bounties[b] \in Posting
  BY <1>1
<1>3. Upcoming \in awarded
  BY <1>1, <1>2, MinIsLeast DEF Upcoming
<1> DEFINE a == bounties[Upcoming].winner
           places == {i \in DOMAIN seats : seats[i].id = a}
<1>4. PICK i \in DOMAIN seats : seats[i].id = a
  BY <1>3 DEF DaemonInv, AwardsStand
<1>5. a \in Competitor
  BY <1>4, Parts
<1> HIDE DEF a
<1>6. places # {} /\ places \subseteq Nat
  BY <1>4, Parts
<1>7. Min(places) \in places
  <2> HIDE DEF places
  <2>1. QED
    BY <1>6, MinIsLeast
<1>8. SeatOf(a) = Min(places)
  BY DEF SeatOf
<1>9. SeatOf(a) \in DOMAIN seats /\ seats[SeatOf(a)].id = a
  BY <1>7, <1>8
<1>10. QED
  BY <1>1, <1>2, <1>3, <1>5, <1>9 DEF a

LEMMA BidAndAwardKeeps == ASSUME DaemonInv, BidAndAward PROVE DaemonInv'
<1>1. /\ pc = "post" /\ pc' = "attempt"
      /\ UNCHANGED <<file, trace, accounts, wallets, seats, roster, adding, next, up, running, broken,
                     round, turn, purse, epoch, grants>>
  BY DEF BidAndAward, seatVars, serverVars
<1>2. PICK cost \in [Live -> Costs] :
         balance' = [a \in Competitor |-> IF a \in Live /\ cost[a] <= balance[a]
                                          THEN balance[a] - cost[a] ELSE balance[a]]
  BY DEF BidAndAward
<1>3. PICK won \in UNION {[S -> Live] : S \in SUBSET OnSale(bounties)} :
         /\ bounties' = [b \in DOMAIN bounties |-> IF b \in DOMAIN won
                                                   THEN Awarded(bounties, b, won[b], Price)[b]
                                                   ELSE bounties[b]]
         /\ awarded' = DOMAIN won
  BY DEF BidAndAward
<1>4. balance' \in [Competitor -> Nat]
  <2>1. ASSUME NEW a \in Competitor PROVE balance'[a] \in Nat
    <3>1. balance[a] \in Nat
      BY Parts
    <3>2. CASE a \in Live /\ cost[a] <= balance[a]
      <4>1. cost[a] \in Nat
        BY <3>2, DaemonAssumption
      <4>2. balance[a] - cost[a] \in Nat
        BY <3>1, <3>2, <4>1
      <4>3. QED
        BY <1>2, <3>2, <4>2
    <3>3. CASE ~(a \in Live /\ cost[a] <= balance[a])
      BY <1>2, <3>1, <3>3
    <3>4. QED
      BY <3>2, <3>3
  <2>2. QED
    BY <1>2, <2>1
<1>5. bounties \in Seq(Posting) /\ \A b \in DOMAIN bounties : bounties[b] \in Posting
  BY DEF DaemonInv, EpisodeTypes
<1>6. DOMAIN won \subseteq DOMAIN bounties /\ \A b \in DOMAIN won : won[b] \in Live
  BY <1>3 DEF OnSale
<1>7. \A a \in Live : a \in Competitor /\ \E i \in DOMAIN seats : seats[i].id = a
  BY Parts DEF Live
<1>8. ASSUME NEW b \in DOMAIN won
      PROVE  bounties'[b] = [bounties[b] EXCEPT !.state = "awarded", !.winner = won[b], !.price = Price]
  BY <1>3, <1>5, <1>6, <1>8 DEF Awarded
<1>9. ASSUME NEW b \in DOMAIN won
      PROVE  bounties'[b] \in Posting /\ bounties'[b].winner = won[b]
  <2>1. bounties[b] \in Posting /\ won[b] \in Competitor /\ Price \in Nat
    BY <1>5, <1>6, <1>7, <1>9, DaemonAssumption
  <2>2. bounties'[b] = [bounties[b] EXCEPT !.state = "awarded", !.winner = won[b], !.price = Price]
    BY <1>8, <1>9
  <2>3. QED
    BY <2>1, <2>2 DEF Posting
<1>10. DOMAIN bounties' = DOMAIN bounties /\ bounties' \in [DOMAIN bounties -> Posting]
  <2>1. \A b \in DOMAIN bounties : b \notin DOMAIN won => bounties'[b] = bounties[b]
    BY <1>3
  <2>2. \A b \in DOMAIN bounties : bounties'[b] \in Posting
    BY <1>5, <1>9, <2>1
  <2>3. QED
    BY <1>3, <2>2
<1>11. bounties' \in Seq(Posting) /\ Len(bounties') = Len(bounties)
  BY <1>5, <1>10, SameBoard
<1>12. DiskTypes'
  BY <1>1, <1>4 DEF DaemonInv, DiskTypes
<1>13. EpisodeTypes'
  BY <1>1, <1>11 DEF DaemonInv, EpisodeTypes
<1>14. Exclusive'
  BY <1>1 DEF DaemonInv, Exclusive
<1>15. AwardsStand'
  BY <1>1, <1>3, <1>6, <1>7, <1>9, <1>10 DEF AwardsStand
<1>16. WalletsAreSpent'
  BY <1>1 DEF DaemonInv, WalletsAreSpent
<1>17. Numbering'
  BY <1>1, <1>11 DEF DaemonInv, Numbering
<1>18. QED
  BY <1>1, <1>12, <1>13, <1>14, <1>15, <1>16, <1>17, Frames DEF DaemonInv

LEMMA FundKeeps == ASSUME DaemonInv, Fund PROVE DaemonInv'
<1> DEFINE b == Upcoming
           a == bounties[b].winner
           budget == IF Ceiling <= 0 \/ Ceiling > balance[a] THEN balance[a] ELSE Ceiling
<1>1. /\ pc = "attempt" /\ awarded # {}
      /\ UNCHANGED <<file, trace, accounts, outlived, seats, roster, adding, next, up, round, turn, epoch,
                     grants>>
  BY DEF Fund, seatVars
<1>2. /\ b \in awarded /\ b \in DOMAIN bounties /\ b \in Nat /\ bounties \in Seq(Posting)
      /\ bounties[b] \in Posting /\ a \in Competitor
  BY <1>1, NextAward
<1>3. epoch \in Nat /\ round \in Nat /\ epoch = file.epoch
  <2>1. round \in 0..Rounds /\ epoch \in Nat
    BY DEF DaemonInv, EpisodeTypes
  <2>2. Rounds \in Nat
    BY DaemonAssumption
  <2>3. round \in Nat
    BY <2>1, <2>2
  <2>4. QED
    BY <1>1, <2>1, <2>3 DEF DaemonInv, Exclusive, Remembered
<1>4. /\ \A w \in wallets : w[2] <= file.epoch /\ w[3] \in Nat
      /\ \A w \in wallets : w[2] = epoch => w[3] < round \/ (w[3] = round /\ w[1] \notin awarded)
      /\ round >= 1
  BY <1>1 DEF DaemonInv, DiskTypes, WalletsAreSpent
<1> HIDE DEF b, a
<1>5. CASE UNCHANGED <<balance, wallets, running, broken, pc, purse>> /\ bounties' = Voided(bounties, b)
           /\ awarded' = awarded \ {b}
  <2>1. bounties' = [bounties EXCEPT ![b] = Returned(bounties[b])]
    BY <1>5 DEF Voided
  <2>2. Returned(bounties[b]) \in Posting
    BY <1>2 DEF Returned, Posting
  <2>3. /\ bounties' \in Seq(Posting) /\ Len(bounties') = Len(bounties) /\ DOMAIN bounties' = DOMAIN bounties
        /\ \A c \in DOMAIN bounties : c # b => bounties'[c] = bounties[c]
    BY <1>2, <2>1, <2>2
  <2>4. EpisodeTypes'
    BY <1>1, <1>5, <2>3 DEF DaemonInv, EpisodeTypes
  <2>5. AwardsStand'
    BY <1>1, <1>5, <2>3 DEF DaemonInv, AwardsStand
  <2>6. WalletsAreSpent'
    BY <1>1, <1>4, <1>5 DEF WalletsAreSpent
  <2>7. Numbering'
    BY <1>1, <2>3 DEF DaemonInv, Numbering
  <2>8. QED
    BY <1>1, <1>5, <2>4, <2>5, <2>6, <2>7, Frames DEF DaemonInv
<1>6. attemptWallet(b) \notin wallets
  <2>1. attemptWallet(b)[1] = b /\ attemptWallet(b)[2] = epoch /\ attemptWallet(b)[3] = round
    BY DEF attemptWallet
  <2>2. ~(round < round)
    <3>1. round \in Nat
      BY <1>3
    <3>2. QED
      BY <3>1
  <2>3. QED
    BY <1>2, <1>4, <2>1, <2>2
<1>7. CASE /\ ~seats[SeatOf(a)].retired
           /\ wallets' = wallets \cup {attemptWallet(b)} /\ balance' = [balance EXCEPT ![a] = @ - budget]
           /\ purse' = budget /\ pc' = "perform" /\ UNCHANGED <<bounties, awarded, running, broken>>
  <2>1. budget \in Nat /\ budget <= balance[a] /\ balance[a] \in Nat
    <3>1. balance[a] \in Nat
      BY <1>2, Parts
    <3>2. Ceiling \in Int
      BY DaemonAssumption
    <3>3. QED
      BY <3>1, <3>2
  <2>2. balance[a] - budget \in Nat
    BY <2>1
  <2> HIDE DEF budget
  <2>3. balance' \in [Competitor -> Nat]
    BY <1>2, <1>7, <2>2, Parts
  <2>4. attemptWallet(b) \in Nat \X Nat \X Nat /\ attemptWallet(b)[1] = b /\ attemptWallet(b)[2] = epoch
        /\ attemptWallet(b)[3] = round
    BY <1>2, <1>3 DEF attemptWallet
  <2>5. DiskTypes'
    BY <1>1, <1>7, <2>3, <2>4 DEF DaemonInv, DiskTypes
  <2>6. EpisodeTypes'
    BY <1>1, <1>7, <2>1 DEF DaemonInv, EpisodeTypes
  <2>7. Exclusive' /\ AwardsStand'
    BY <1>1, <1>7 DEF DaemonInv, Exclusive, AwardsStand, Upcoming, SeatOf, a, b
  <2>8. WalletsAreSpent'
    <3>1. Upcoming' = b
      BY <1>7 DEF b, Upcoming
    <3>2. \A w \in wallets' : w \in wallets \/ w = attemptWallet(b)
      BY <1>7
    <3>3. epoch <= file.epoch
      <4>1. epoch \in Nat
        BY <1>3
      <4>2. epoch <= epoch
        BY <4>1
      <4>3. QED
        BY <1>3, <4>2
    <3>4. \A w \in wallets' : w[2] <= file.epoch
      BY <1>4, <2>4, <3>2, <3>3
    <3>5. \A w \in wallets' : w[2] = epoch => w[3] < round \/ (w[3] = round /\ w[1] \notin awarded \ {b})
      BY <1>4, <2>4, <3>2
    <3>6. QED
      BY <1>1, <1>4, <1>7, <3>1, <3>4, <3>5 DEF WalletsAreSpent
  <2>9. QED
    BY <1>1, <1>7, <2>5, <2>6, <2>7, <2>8, Frames DEF DaemonInv
<1>8. CASE /\ ~seats[SeatOf(a)].retired /\ a \in outlived
           /\ wallets' = wallets \cup {attemptWallet(b)} /\ Halt("hold")
           /\ UNCHANGED <<bounties, awarded, balance, purse>>
  <2>1. broken' = "hold" /\ pc' = "none" /\ running' = FALSE /\ up = "serving" /\ adding = <<>>
    BY <1>1, <1>8 DEF Halt, DaemonInv, Exclusive
  <2>2. attemptWallet(b) \in Nat \X Nat \X Nat /\ attemptWallet(b)[2] = epoch
    BY <1>2, <1>3 DEF attemptWallet
  <2>3. DiskTypes'
    BY <1>1, <1>8, <2>2 DEF DaemonInv, DiskTypes
  <2>4. MemoryTypes' /\ Exclusive' /\ Remembered'
    BY <1>1, <2>1 DEF DaemonInv, MemoryTypes, Exclusive, Remembered
  <2>5. EpisodeTypes' /\ AwardsStand'
    BY <1>1, <1>8, <2>1 DEF DaemonInv, EpisodeTypes, AwardsStand
  <2>6. WalletsAreSpent'
    <3>1. epoch <= file.epoch
      BY <1>3
    <3>2. QED
      BY <1>1, <1>4, <1>8, <2>1, <2>2, <3>1 DEF WalletsAreSpent
  <2>7. HaltsHaveCause'
    <3>1. SeatOf(a) \in DOMAIN seats /\ seats[SeatOf(a)].id = a
      BY <1>1, NextAward DEF a, b
    <3>2. QED
      BY <1>1, <1>8, <2>1, <3>1 DEF HaltsHaveCause
  <2>8. QED
    BY <1>1, <1>8, <2>3, <2>4, <2>5, <2>6, <2>7, Frames DEF DaemonInv
<1>9. QED
  BY <1>5, <1>6, <1>7, <1>8 DEF Fund, a, b

LEMMA PerformKeeps == ASSUME DaemonInv, Perform PROVE DaemonInv'
<1> DEFINE b == Upcoming
           a == bounties[b].winner
<1>1. /\ pc = "perform" /\ awarded' = awarded \ {b} /\ purse' = 0
      /\ UNCHANGED <<file, trace, wallets, outlived, roster, adding, next, up, round, turn, epoch, grants>>
  BY DEF Perform, serverVars
<1>2. /\ b \in awarded /\ b \in DOMAIN bounties /\ bounties \in Seq(Posting)
      /\ bounties[b] \in Posting /\ a \in Competitor
      /\ SeatOf(a) \in DOMAIN seats /\ seats[SeatOf(a)].id = a
  <2>1. awarded # {}
    BY <1>1 DEF DaemonInv, AwardsStand
  <2>2. QED
    BY <1>1, <2>1, NextAward
<1>3. running /\ purse \in Nat /\ balance[a] \in Nat
  BY <1>1, <1>2, Parts DEF DaemonInv, Exclusive, EpisodeTypes
<1>4. PICK after \in Posting : bounties' = [bounties EXCEPT ![b] = after]
  <2>1. Returned(bounties[b]) \in Posting
    BY <1>2 DEF Returned, Posting
  <2>2. [bounties[b] EXCEPT !.state = "solved"] \in Posting
    BY <1>2 DEF Posting
  <2>3. [Returned(bounties[b]) EXCEPT !.failures = bounties[b].failures + 1] \in Posting
    <3>1. bounties[b].failures + 1 \in Nat
      BY <1>2 DEF Posting
    <3>2. QED
      BY <2>1, <3>1 DEF Posting
  <2>4. \/ bounties' = Voided(bounties, b)
        \/ \E solved \in BOOLEAN : bounties' = Resolved(bounties, b, solved)
        \/ bounties' = bounties
    BY DEF Perform
  <2>5. CASE bounties' = Voided(bounties, b)
    BY <2>1, <2>5 DEF Voided
  <2>6. ASSUME NEW solved \in BOOLEAN, bounties' = Resolved(bounties, b, solved)
        PROVE  \E after \in Posting : bounties' = [bounties EXCEPT ![b] = after]
    <3>1. CASE solved = TRUE
      BY <2>2, <2>6, <3>1 DEF Resolved
    <3>2. CASE solved = FALSE
      <4> DEFINE failed == [Returned(bounties[b]) EXCEPT !.failures = bounties[b].failures + 1]
      <4>1. bounties' = [bounties EXCEPT ![b] = failed]
        BY <2>6, <3>2 DEF Resolved
      <4>2. failed \in Posting
        BY <2>3
      <4> HIDE DEF failed
      <4>3. QED
        BY <4>1, <4>2
    <3>3. QED
      BY <3>1, <3>2
  <2>7. CASE bounties' = bounties
    BY <1>2, <2>7
  <2>8. QED
    BY <2>4, <2>5, <2>6, <2>7
<1>5. /\ bounties' \in Seq(Posting) /\ Len(bounties') = Len(bounties) /\ DOMAIN bounties' = DOMAIN bounties
      /\ \A c \in DOMAIN bounties : c # b => bounties'[c] = bounties[c]
  BY <1>2, <1>4
<1>6. ASSUME pc' = "attempt", UNCHANGED <<running, broken>>,
             \/ \E spent \in {0, purse}, solved \in BOOLEAN :
                   SettleSeat(SeatOf(a), balance[a] + purse - spent + IF solved THEN Price ELSE 0)
             \/ balance' = [balance EXCEPT ![a] = @ + purse] /\ UNCHANGED <<seats, accounts>>
      PROVE  DaemonInv'
  <2>1. /\ seats' \in Seq(SeatedAs) /\ DOMAIN seats' = DOMAIN seats
        /\ \A i \in DOMAIN seats : seats'[i].id = seats[i].id
        /\ accounts' \in [Competitor -> {"absent", "open", "closed"}]
        /\ balance' \in [Competitor -> Nat]
        /\ GrantedLast' /\ SeatsAreEntries' /\ WalletsAreBound' /\ AddingOrder' /\ Booting'
    <3>1. CASE \E spent \in {0, purse}, solved \in BOOLEAN :
                  SettleSeat(SeatOf(a), balance[a] + purse - spent + IF solved THEN Price ELSE 0)
      <4>1. PICK spent \in {0, purse}, solved \in BOOLEAN :
               SettleSeat(SeatOf(a), balance[a] + purse - spent + IF solved THEN Price ELSE 0)
        BY <3>1
      <4> DEFINE left == balance[a] + purse - spent + IF solved THEN Price ELSE 0
      <4>2. Price \in Nat
        BY DaemonAssumption
      <4>3. left \in Nat
        <5> HIDE DEF a
        <5>1. spent \in Nat /\ purse - spent \in Nat
          BY <1>3
        <5>2. QED
          BY <1>3, <4>2, <5>1
      <4>4. SettleSeat(SeatOf(a), left)
        BY <4>1
      <4> HIDE DEF left, a
      <4>5. QED
        BY <1>1, <1>6, <1>2, <1>3, <4>3, <4>4, Settled
    <3>2. CASE balance' = [balance EXCEPT ![a] = @ + purse] /\ UNCHANGED <<seats, accounts>>
      <4> HIDE DEF a
      <4>1. balance[a] + purse \in Nat
        BY <1>3
      <4>2. balance' \in [Competitor -> Nat]
        BY <1>2, <3>2, <4>1, Parts
      <4>3. QED
        BY <1>1, <1>6, <3>2, <4>2, Parts, Frames
    <3>3. QED
      BY <1>6, <3>1, <3>2
  <2> HIDE DEF b
  <2>2. DiskTypes'
    BY <1>1, <1>6, <2>1 DEF DaemonInv, DiskTypes
  <2>3. MemoryTypes'
    BY <1>1, <1>6, <2>1 DEF DaemonInv, MemoryTypes
  <2>4. EpisodeTypes'
    BY <1>1, <1>6, <1>5 DEF DaemonInv, EpisodeTypes
  <2>5. Exclusive'
    BY <1>1, <1>6 DEF DaemonInv, Exclusive
  <2>6. Remembered'
    BY <1>1, <1>6 DEF DaemonInv, Exclusive, Remembered
  <2>7. AwardsStand'
    <3>1. awarded' \subseteq DOMAIN bounties'
      BY <1>1, <1>6, <1>5 DEF DaemonInv, AwardsStand
    <3>2. ASSUME NEW c \in awarded' PROVE \E i \in DOMAIN seats' : seats'[i].id = bounties'[c].winner
      <4>1. c \in awarded /\ c # b /\ c \in DOMAIN bounties
        BY <1>1, <1>6, <3>2 DEF DaemonInv, AwardsStand
      <4>2. PICK i \in DOMAIN seats : seats[i].id = bounties[c].winner
        BY <1>1, <1>6, <4>1 DEF DaemonInv, AwardsStand
      <4>3. QED
        BY <1>5, <2>1, <4>1, <4>2
    <3>3. QED
      BY <1>1, <1>6, <3>1, <3>2 DEF AwardsStand
  <2>8. WalletsAreSpent'
    BY <1>1, <1>6 DEF DaemonInv, WalletsAreSpent, b
  <2>9. Numbering'
    BY <1>1, <1>6, <1>5 DEF DaemonInv, Numbering
  <2>10. QED
    BY <1>1, <1>6, <2>1, <2>2, <2>3, <2>4, <2>5, <2>6, <2>7, <2>8, <2>9, Frames DEF DaemonInv
<1>7. CASE \E spent \in {0, purse}, solved \in BOOLEAN :
              RefusedSeat(SeatOf(a), balance[a] + purse - spent + IF solved THEN Price ELSE 0)
  <2>1. PICK spent \in {0, purse}, solved \in BOOLEAN :
           RefusedSeat(SeatOf(a), balance[a] + purse - spent + IF solved THEN Price ELSE 0)
    BY <1>7
  <2> DEFINE left == balance[a] + purse - spent + IF solved THEN Price ELSE 0
  <2>2. ~seats[SeatOf(a)].retired
    BY <1>1 DEF DaemonInv, AwardsStand
  <2>3. turn \in Nat \ {0}
    BY DEF DaemonInv, EpisodeTypes
  <2> HIDE DEF a, b
  <2>4. left \in Nat
    <3>1. Price \in Nat
      BY DaemonAssumption
    <3>2. spent \in Nat /\ purse - spent \in Nat
      BY <1>3
    <3>3. QED
      BY <1>3, <3>1, <3>2
  <2>5. RefusedSeat(SeatOf(a), left)
    BY <2>1
  <2> HIDE DEF left
  <2>6. turn' \in Nat \ {0} /\ purse' \in Nat
    BY <1>1, <2>3
  <2>7. QED
    BY <1>1, <1>2, <1>3, <1>5, <2>2, <2>4, <2>5, <2>6, RefusedKeeps
<1>8. CASE Halt("merge") /\ UNCHANGED <<bounties, balance, seats, accounts>>
  <2>1. broken' = "merge" /\ pc' = "none" /\ running' = FALSE /\ up = "serving" /\ adding = <<>>
    BY <1>3, <1>8 DEF Halt, DaemonInv, Exclusive
  <2>2. MemoryTypes' /\ Exclusive' /\ Remembered' /\ HaltsHaveCause'
    BY <1>1, <1>8, <2>1 DEF DaemonInv, MemoryTypes, Exclusive, Remembered, HaltsHaveCause
  <2>3. EpisodeTypes' /\ AwardsStand' /\ WalletsAreSpent'
    BY <1>1, <1>8, <2>1 DEF DaemonInv, EpisodeTypes, AwardsStand, WalletsAreSpent
  <2>4. QED
    BY <1>1, <1>8, <2>2, <2>3, Frames DEF DaemonInv
<1>9. QED
  BY <1>6, <1>7, <1>8 DEF Perform

LEMMA EndRoundKeeps == ASSUME DaemonInv, EndRound PROVE DaemonInv'
<1>1. /\ pc = "attempt" /\ awarded = {} /\ turn' = 1
      /\ UNCHANGED <<file, trace, accounts, balance, wallets, roster, seats, adding, next, up, broken,
                     awarded, purse, epoch, bounties, grants>>
  BY DEF EndRound, diskVars, seatVars
<1>2. Rounds \in Nat /\ round \in 0..Rounds /\ round >= 1
  BY <1>1, DaemonAssumption DEF DaemonInv, EpisodeTypes, WalletsAreSpent
<1>3. /\ \A w \in wallets : w[2] <= file.epoch /\ w[3] \in Nat
      /\ \A w \in wallets : w[2] = epoch => w[3] < round \/ w[3] = round
  BY <1>1 DEF DaemonInv, DiskTypes, WalletsAreSpent
<1>4. CASE round < Rounds /\ round' = round + 1 /\ pc' = "sweep" /\ UNCHANGED running
  <2>1. round' \in 0..Rounds /\ round' >= 1
    BY <1>2, <1>4
  <2>2. \A w \in wallets : w[2] = epoch => w[3] < round'
    BY <1>2, <1>3, <1>4
  <2>3. EpisodeTypes'
    BY <1>1, <1>4, <2>1 DEF DaemonInv, EpisodeTypes
  <2>4. Exclusive' /\ AwardsStand'
    BY <1>1, <1>4 DEF DaemonInv, Exclusive, AwardsStand
  <2>5. WalletsAreSpent'
    BY <1>1, <1>3, <1>4, <2>1, <2>2 DEF WalletsAreSpent
  <2>6. QED
    BY <1>1, <1>4, <2>3, <2>4, <2>5, Frames DEF DaemonInv
<1>5. CASE round' = 0 /\ pc' = "none" /\ running' = FALSE
  <2>1. EpisodeTypes'
    BY <1>1, <1>2, <1>5 DEF DaemonInv, EpisodeTypes
  <2>2. MemoryTypes' /\ Exclusive'
    BY <1>1, <1>5 DEF DaemonInv, MemoryTypes, Exclusive
  <2>3. AwardsStand' /\ WalletsAreSpent'
    BY <1>1, <1>3, <1>5 DEF AwardsStand, WalletsAreSpent
  <2>4. QED
    BY <1>1, <2>1, <2>2, <2>3, Frames DEF DaemonInv
<1>6. QED
  BY <1>4, <1>5 DEF EndRound

-----------------------------------------------------------------------------
LEMMA DaemonStep == ASSUME DaemonInv, [DaemonNext]_vars PROVE DaemonInv'
<1>1. CASE UNCHANGED vars
  BY <1>1, Frames DEF vars, diskVars, seatVars, serverVars, episodeVars, DaemonInv
<1>2. ASSUME NEW a \in Competitor, Submit(a) PROVE DaemonInv'
  BY <1>2, SubmitKeeps
<1>3. CASE SeatEntry
  BY <1>3, AddEntryKeeps, ReadmitKeeps
<1>4. CASE RunEpisode
  BY <1>4, NextEpochKeeps, StartLineKeeps, SweepKeeps, SweptKeeps, PostKeeps, BidAndAwardKeeps, FundKeeps,
     PerformKeeps, EndRoundKeeps
     DEF RunEpisode
<1>5. QED
  BY <1>1, <1>2, <1>3, <1>4, BootKeeps, OpenDoorKeeps, CrashKeeps, CreateWalletKeeps, MintGrantKeeps,
     HangUpKeeps, StartEpisodeKeeps
     DEF DaemonNext

LEMMA DaemonStart == DaemonInit => DaemonInv
<1> SUFFICES ASSUME DaemonInit PROVE DaemonInv
  OBVIOUS
<1>1. /\ file = [epoch |-> 0, agents |-> <<>>] /\ roster = file
      /\ trace = [posted |-> <<>>, whole |-> TRUE]
      /\ accounts = [a \in Competitor |-> "absent"] /\ balance = [a \in Competitor |-> 0]
      /\ grants = [a \in Competitor |-> 0] /\ wallets = {}
  BY DEF DaemonInit
<1>2. /\ up = "down" /\ seats = <<>> /\ adding = <<>> /\ broken = "" /\ pc = "none" /\ bounties = <<>>
  BY DEF DaemonInit, BoardInit
<1>3. epoch = 0 /\ next = 1 /\ round = 0 /\ turn = 1 /\ purse = 0
  BY DEF DaemonInit
<1>4. running = FALSE
  BY DEF DaemonInit
<1>5. [epoch |-> 0, agents |-> <<>>] \in RosterFile /\ [posted |-> <<>>, whole |-> TRUE].posted = <<>>
      /\ [posted |-> <<>>, whole |-> TRUE] \in [posted : Seq(Nat), whole : BOOLEAN]
  BY DEF RosterFile
<1>6. DOMAIN <<>> = {}
  OBVIOUS
<1>7. DiskTypes
  BY <1>1, <1>5 DEF DiskTypes
<1>8. MemoryTypes
  <2>1. next \in Nat \ {0}
    BY <1>3
  <2>2. up \in {"down", "boot", "serving", "refused"} /\ broken \in {"", "disk", "seat", "hold", "merge", "wallet", "judged"}
    BY <1>2, Zenon
  <2>3. roster \in RosterFile /\ seats \in Seq(SeatedAs)
    <3>1. roster \in RosterFile
      BY <1>1, <1>5
    <3>2. <<>> \in Seq(SeatedAs)
      OBVIOUS
    <3>3. QED
      BY <1>2, <3>1, <3>2
  <2>4. running \in BOOLEAN
    BY <1>4
  <2>5. QED
    BY <1>2, <2>1, <2>2, <2>3, <2>4 DEF MemoryTypes
<1>9. EpisodeTypes
  <2>1. Rounds \in Nat
    BY DaemonAssumption
  <2>2. epoch \in Nat /\ round \in 0..Rounds /\ turn \in Nat \ {0} /\ purse \in Nat
    BY <1>3, <2>1
  <2>3. pc \in {"none", "epoch", "start", "sweep", "post", "attempt", "perform"}
    BY <1>2
  <2>4. <<>> \in Seq(Posting)
    OBVIOUS
  <2>5. QED
    BY <1>2, <2>2, <2>3, <2>4 DEF EpisodeTypes
<1>10. Exclusive
  BY <1>2, <1>4 DEF Exclusive
<1>11. Remembered
  BY <1>2, <1>3 DEF Remembered
<1>12. Booting /\ AddingOrder /\ AwardsStand /\ Numbering /\ HaltsHaveCause
  BY <1>2 DEF Booting, AddingOrder, AwardsStand, Numbering, HaltsHaveCause
<1>13. GrantedLast /\ WalletsAreSpent
  BY <1>1, <1>2 DEF GrantedLast, WalletsAreSpent
<1>14. SeatsAreEntries
  BY <1>2, <1>6 DEF SeatsAreEntries
<1>15. PostedOnce
  BY <1>1, <1>5, <1>6 DEF PostedOnce
<1>16. WalletsAreBound
  <2>1. \A a \in Competitor : grants[a] = 0
    BY <1>1
  <2>2. \A a \in Competitor : grants[a] <= 1
    <3>1. 0 <= 1
      OBVIOUS
    <3>2. QED
      BY <2>1, <3>1, Zenon
  <2>3. \A a \in Competitor : accounts[a] = "absent"
    BY <1>1
  <2>4. DOMAIN seats = {}
    BY <1>2, <1>6
  <2>5. QED
    BY <2>2, <2>3, <2>4 DEF WalletsAreBound
<1>17. QED
  BY <1>7, <1>8, <1>9, <1>10, <1>11, <1>12, <1>13, <1>14, <1>15, <1>16 DEF DaemonInv

\* The inductive invariant of the live arena: types, what memory owes the disk,
\* and which writes of an unfinished request or round are already there.
THEOREM DaemonSafe == DaemonSpec => []DaemonInv
<1>1. DaemonInit => DaemonInv
  BY DaemonStart
<1>2. DaemonInv /\ [DaemonNext]_vars => DaemonInv'
  BY DaemonStep
<1>3. QED
  BY <1>1, <1>2, PTL DEF DaemonSpec

\* A world halts for the disk, for a name its file holds twice, or for a call
\* that outlived its step: never for a wallet name, whatever was reposted,
\* carried over or forgotten by a restart (daemon.go:459-464,
\* orchestrator.go:443-462), nor for a hold on an agent none of whose bid steps
\* was outlived (ledger.go:452-454, settle.go:285-287).
THEOREM HaltsAreJust == DaemonSpec => []HaltsForCause
<1>1. DaemonInv => HaltsForCause
  BY DoubledIsTwice, Parts
     DEF DaemonInv, HaltsHaveCause, WalletsAreSpent, HaltsForCause
<1>2. QED
  BY <1>1, DaemonSafe, PTL

\* A bounty number is written to the trace once, however many restarts and lost
\* lines lie between (roster.go:63-97, bounty.go:171-177).
THEOREM NumbersAreNew == DaemonSpec => []PostedOnce
<1>1. DaemonInv => PostedOnce
  BY DEF DaemonInv
<1>2. QED
  BY <1>1, DaemonSafe, PTL

\* However many submissions are hung up on and boots killed, an agent is granted
\* once and no wallet or seat is without its entry in the file
\* (daemon.go:328-342, roster.go:19-24).
THEOREM GrantsAreBound == DaemonSpec => []WalletsAreBound
<1>1. DaemonInv => WalletsAreBound
  BY DEF DaemonInv
<1>2. QED
  BY <1>1, DaemonSafe, PTL

\* While an episode runs nobody is seated and no entry is added
\* (daemon.go:311-316, 455-457).
THEOREM EpisodesAreExclusive == DaemonSpec => EpisodeOwnsTheWorld
<1>1. ASSUME DaemonInv, DaemonInv', [DaemonNext]_vars, running, running'
      PROVE  roster'.agents = roster.agents /\ Len(seats') = Len(seats)
  <2>1. up = "serving" /\ adding = <<>>
    BY <1>1 DEF DaemonInv, Exclusive
  <2>2. running # FALSE /\ running' # FALSE
    BY <1>1
  <2>3. CASE RunEpisode
    <3>1. CASE NextEpoch
      <4>1. roster' = [roster EXCEPT !.epoch = @ + 1] /\ seats' = seats
        BY <3>1 DEF NextEpoch
      <4>2. QED
        BY <1>1, <4>1, Parts DEF RosterFile
    <3>2. CASE Sweep \/ Perform
      <4>1. roster' = roster
        BY <3>2 DEF Sweep, Perform
      <4>2. seats' = seats \/ \E i, left : SettleSeat(i, left)
        BY <3>2 DEF Sweep, Perform, RefusedSeat
      <4>3. \A i, left : SettleSeat(i, left) => Len(seats') = Len(seats)
        BY <1>1, Parts DEF SettleSeat
      <4>4. QED
        BY <4>1, <4>2, <4>3
    <3>3. QED
      BY <2>3, <3>1, <3>2
         DEF RunEpisode, StartLine, Swept, Post, BidAndAward, Fund, EndRound, seatVars
  <2>4. CASE ~RunEpisode
    BY <1>1, <2>1, <2>2, <2>4
       DEF DaemonNext, vars, seatVars, Boot, SeatEntry, OpenDoor, Crash, NoMemory, CreateWallet, MintGrant,
           HangUp, Submit, Accepting, StartEpisode
  <2>5. QED
    BY <2>3, <2>4
<1>2. QED
  BY <1>1, DaemonSafe, PTL DEF DaemonSpec, EpisodeOwnsTheWorld
=============================================================================
