-------------------------------- MODULE MCSim --------------------------------
(***************************************************************************)
(* Two agents and two bounties, one of them judged.                        *)
(***************************************************************************)
EXTENDS Sim, TLC
CONSTANTS a1, a2

MCBidder == {a1, a2}
MCDraw == [s |-> (a1 :> 0 @@ a2 :> 1)]
MCDeck == <<TRUE, FALSE>>
MCJudgedDeck == <<TRUE>>
=============================================================================
