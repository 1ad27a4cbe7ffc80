------------------------------- MODULE Auction -------------------------------
(***************************************************************************)
(* One auction from New to Award, with the checkpoint a fair may take of a *)
(* window still open: Book copies the bids out, a file keeps the agent and *)
(* the price of each (the arrival number is unexported and is not          *)
(* written), and Load puts them into a fresh auction in the next process.  *)
(***************************************************************************)
EXTENDS Bids, FiniteSets

CONSTANTS
    Asks   \* the prices agents ask

ASSUME AsksAssumption == Asks \subseteq Int

VARIABLES
    tie, salt,   \* the venue's rule, set before the first bid
    bids,        \* Auction.bids
    closed,      \* Auction.closed
    awarded,     \* the winning bids returned so far, one at most
    saved        \* the checkpointed book, <<>> for none

auctionVars == <<tie, salt, bids, closed, awarded, saved>>

AuctionTypeOK ==
    /\ tie \in TieBreak /\ salt \in Salt
    /\ bids \in Seq(Bid) /\ saved \in Seq(Bid)
    /\ closed \in BOOLEAN
    /\ awarded \subseteq Bid

AuctionInit ==
    /\ tie \in TieBreak /\ salt \in Salt
    /\ bids = <<>> /\ closed = FALSE /\ awarded = {} /\ saved = <<>>

Place(agent, price) ==
    /\ ~closed
    /\ Takes(bids, agent, price)
    /\ bids' = Placed(bids, agent, price)
    /\ UNCHANGED <<tie, salt, closed, awarded, saved>>

Award ==
    /\ ~closed
    /\ closed' = TRUE
    /\ awarded' = IF bids = <<>> THEN {} ELSE {Winner(bids, tie, salt)}
    /\ UNCHANGED <<tie, salt, bids, saved>>

\* Book, through the checkpoint file.
Save ==
    /\ ~closed /\ bids # <<>>
    /\ saved' = [i \in 1..Len(bids) |-> [bids[i] EXCEPT !.seq = 0]]
    /\ UNCHANGED <<tie, salt, bids, closed, awarded>>

\* The process ends, before or after the award, and the next one resumes from
\* the last checkpoint: what came after it did not happen.
Restart ==
    /\ saved # <<>>
    /\ bids' = Loaded(saved)
    /\ closed' = FALSE /\ awarded' = {}
    /\ UNCHANGED <<tie, salt, saved>>

AuctionNext ==
    \/ \E a \in Bidder, p \in Asks : Place(a, p)
    \/ Award \/ Save \/ Restart

AuctionSpec == AuctionInit /\ [][AuctionNext]_auctionVars

-----------------------------------------------------------------------------
Tied == {bids[i] : i \in {j \in DOMAIN bids : \A k \in DOMAIN bids : bids[j].price <= bids[k].price}}

\* Bid i goes before bid j: it asks less, or as much and the venue's rule
\* prefers it, by arrival, or by draw and of two equal draws by arrival.
GoesBefore(i, j) ==
    \/ bids[i].price < bids[j].price
    \/ /\ bids[i].price = bids[j].price
       /\ \/ tie = "ByArrival" /\ i <= j
          \/ tie = "ByLot" /\ Draw[salt][bids[i].agent] < Draw[salt][bids[j].agent]
          \/ tie = "ByLot" /\ Draw[salt][bids[i].agent] = Draw[salt][bids[j].agent] /\ i <= j

\* The award is the bid that goes before every other, which two scans with
\* swapped roles for the arrival number compute, on a book that may have been
\* through a checkpoint (auction.go:141-145).
AwardIsLawful ==
    \A b \in awarded :
        \E i \in DOMAIN bids : bids[i] = b /\ \A j \in DOMAIN bids : GoesBefore(i, j)

\* An award on the restored book falls exactly as it would have on the
\* original: what the file lost, the arrival numbers, Load puts back
\* (auction.go:81-85).  The bids placed since the last checkpoint follow it.
RestoredBookAwardsAlike ==
    saved # <<>> =>
        Winner(Loaded(saved), tie, salt).agent
            = Winner(SubSeq(bids, 1, Len(saved)), tie, salt).agent
=============================================================================
