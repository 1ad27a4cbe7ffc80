------------------------------ MODULE MCAuction ------------------------------
(***************************************************************************)
(* Three bidders, and asks below, within and above the range.  The first   *)
(* salt draws a different lot for everyone, the second the same lot for    *)
(* two of them: the key collision the award's comment provides for.        *)
(***************************************************************************)
EXTENDS Auction, TLC
CONSTANTS a1, a2, a3

MCBidder == {a1, a2, a3}
MCDraw == [s1 |-> (a1 :> 2 @@ a2 :> 0 @@ a3 :> 1), s2 |-> (a1 :> 1 @@ a2 :> 1 @@ a3 :> 0)]
=============================================================================
