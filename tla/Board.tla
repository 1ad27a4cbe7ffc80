-------------------------------- MODULE Board --------------------------------
(***************************************************************************)
(* The bounty board (internal/bounty/bounty.go).  Every method holds       *)
(* Board.mu, so each is one step: an operator gives the board a successful *)
(* call leaves behind, and Can... the condition it is refused on.          *)
(***************************************************************************)
EXTENDS Integers, Sequences

CONSTANTS
    Competitor,   \* agents awards are made to
    MaxBounties   \* bound: bounties ever posted

VARIABLES
    bounties   \* the posted bounties, by number: posting order is number order

Id == 1..MaxBounties

Nobody == "nobody"
Bounty(judged) ==
    [state |-> "open", judged |-> judged, winner |-> Nobody, price |-> 0, failures |-> 0]

BoardTypeOK ==
    /\ Len(bounties) <= MaxBounties
    /\ \A b \in DOMAIN bounties :
          /\ bounties[b].state \in {"open", "awarded", "solved"}
          /\ bounties[b].judged \in BOOLEAN
          /\ bounties[b].winner \in Competitor \cup {Nobody}
          /\ bounties[b].price \in Nat /\ bounties[b].failures \in Nat

BoardInit == bounties = <<>>

Posted(board, judged) == Append(board, Bounty(judged))

OnSale(board) == {b \in DOMAIN board : board[b].state = "open"}

CanAward(board, b) == board[b].state = "open"
Awarded(board, b, agent, price) ==
    [board EXCEPT ![b] = [@ EXCEPT !.state = "awarded", !.winner = agent, !.price = price]]

\* The award is cleared.
Returned(bounty) == [bounty EXCEPT !.state = "open", !.winner = Nobody, !.price = 0]

\* Resolve and ResolveJudged, which differ in whose word solved is.
CanResolve(board, b) == board[b].state = "awarded"
\* Mutant: a failure is not counted.
ResolvedUncounted(board, b, solved) ==
    [board EXCEPT ![b] = IF solved THEN [@ EXCEPT !.state = "solved"] ELSE Returned(@)]

Resolved(board, b, solved) ==
    [board EXCEPT ![b] = IF solved THEN [@ EXCEPT !.state = "solved"]
                                   ELSE [Returned(@) EXCEPT !.failures = board[b].failures + 1]]

\* Void: returned, and no failure counted.
Voided(board, b) == [board EXCEPT ![b] = Returned(@)]
=============================================================================
