-------------------------------- MODULE Purse --------------------------------
(***************************************************************************)
(* What the book promises its callers, without its reservations: an owner  *)
(* has a purse with a worth, and a worth changes only when credits are     *)
(* minted into it, moved between purses, burned, charged at a measured     *)
(* cost, or refunded.  Reserving credits for a model call and returning    *)
(* them are not visible here at all: package ledger's hold.go says a hold  *)
(* keeps credits "out of the wallet's spendable balance" without anybody   *)
(* having been charged.  A closed purse keeps its worth for ever.          *)
(***************************************************************************)
EXTENDS Integers

CONSTANTS Owner, Coin   \* who has a purse; the sums that can change hands

VARIABLES worth, state, charged, burned

purseVars == <<worth, state, charged, burned>>

PurseInit ==
    /\ worth = [o \in Owner |-> 0]
    /\ state = [o \in Owner |-> "absent"]
    /\ charged = 0
    /\ burned = 0

OpenPurse(o) ==
    /\ state[o] = "absent"
    /\ state' = [state EXCEPT ![o] = "open"]
    /\ UNCHANGED <<worth, charged, burned>>

Fund(o, n) ==
    /\ state[o] = "open"
    /\ worth' = [worth EXCEPT ![o] = @ + n]
    /\ UNCHANGED <<state, charged, burned>>

\* Credits that leave a purse leave an open one that is worth them.
Afford(o, n) == state[o] = "open" /\ n <= worth[o]

Move(from, to, n) ==
    /\ Afford(from, n)
    /\ state[to] = "open"
    /\ worth' = [[worth EXCEPT ![from] = @ - n] EXCEPT ![to] = @ + n]
    /\ UNCHANGED <<state, charged, burned>>

Destroy(o, n) ==
    /\ Afford(o, n)
    /\ worth' = [worth EXCEPT ![o] = @ - n]
    /\ burned' = burned + n
    /\ UNCHANGED <<state, charged>>

Charge(o, n) ==
    /\ Afford(o, n)
    /\ worth' = [worth EXCEPT ![o] = @ - n]
    /\ charged' = charged + n
    /\ UNCHANGED <<state, burned>>

PayBack(o, n) ==
    /\ state[o] = "open"
    /\ worth' = [worth EXCEPT ![o] = @ + n]
    /\ charged' = charged - n
    /\ UNCHANGED <<state, burned>>

ClosePurse(o) ==
    /\ state[o] = "open"
    /\ state' = [state EXCEPT ![o] = "closed"]
    /\ UNCHANGED <<worth, charged, burned>>

PurseNext ==
    \E o \in Owner :
        \/ OpenPurse(o)
        \/ ClosePurse(o)
        \/ \E n \in Coin :
              \/ Fund(o, n)
              \/ Destroy(o, n)
              \/ Charge(o, n)
              \/ PayBack(o, n)
              \/ \E other \in Owner : Move(o, other, n)

PurseSpec == PurseInit /\ [][PurseNext]_purseVars
=============================================================================
