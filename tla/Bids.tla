--------------------------------- MODULE Bids ---------------------------------
(***************************************************************************)
(* The book of one sealed-bid auction and the award it leads to            *)
(* (internal/auction/auction.go), as operators on the sequence of its      *)
(* bids.  A bid carries its arrival number, as the code's does, because    *)
(* the award compares it and a restored book renumbers it.                 *)
(***************************************************************************)
EXTENDS Integers, Sequences

CONSTANTS
    Bidder,
    Salt,
    Draw,       \* Draw[s][a]: the lot salt s draws for the name a
    Reserve,    \* Auction.Reserve
    MaxPayout   \* Auction.MaxPayout

ASSUME DrawAssumption == Draw \in [Salt -> [Bidder -> Nat]]
ASSUME PayoutAssumption == Reserve \in Int /\ MaxPayout \in Int

TieBreak == {"ByArrival", "ByLot"}
Bid == [agent : Bidder, price : Int, seq : Nat]

\* Place, of an auction that is not closed.
Takes(book, agent, price) ==
    /\ Reserve <= price /\ price <= MaxPayout
    /\ \A i \in 1..Len(book) : book[i].agent # agent

Placed(book, agent, price) ==
    Append(book, [agent |-> agent, price |-> price, seq |-> Len(book)])

\* The first scan of Award, which starts from the first bid.
Earliest(book) ==
    LET best[i \in 0..Len(book)] ==
            IF i = 0 THEN book[1]
            ELSE IF \/ book[i].price < best[i - 1].price
                    \/ book[i].price = best[i - 1].price /\ book[i].seq < best[i - 1].seq
                 THEN book[i]
                 ELSE best[i - 1]
    IN  best[Len(book)]

\* Mutant: an equal draw replaces the earlier arrival.
DrawnLate(book, first, salt) ==
    LET best[i \in 0..Len(book)] ==
            IF i = 0 THEN first
            ELSE IF /\ book[i].price = best[i - 1].price
                    /\ Draw[salt][book[i].agent] <= Draw[salt][best[i - 1].agent]
                 THEN book[i]
                 ELSE best[i - 1]
    IN  best[Len(book)]

\* The second scan, of an auction that breaks ties by lot: it starts from the
\* bid the first scan left and replaces it on a strictly smaller draw.
Drawn(book, first, salt) ==
    LET best[i \in 0..Len(book)] ==
            IF i = 0 THEN first
            ELSE IF /\ book[i].price = best[i - 1].price
                    /\ Draw[salt][book[i].agent] < Draw[salt][best[i - 1].agent]
                 THEN book[i]
                 ELSE best[i - 1]
    IN  best[Len(book)]

\* Award, of a book that has a bid.
Winner(book, tie, salt) ==
    IF tie = "ByLot" THEN Drawn(book, Earliest(book), salt) ELSE Earliest(book)

\* Mutant: the book is numbered from its end.
LoadedBackwards(book) == [i \in 1..Len(book) |-> [book[i] EXCEPT !.seq = Len(book) - i]]

\* Load: the order of the slice is the order of arrival.
Loaded(book) == [i \in 1..Len(book) |-> [book[i] EXCEPT !.seq = i - 1]]
=============================================================================
