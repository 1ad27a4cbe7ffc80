------------------------------- MODULE MCBooks -------------------------------
(***************************************************************************)
(* One wallet, one hold and two credits are enough to tear a report.       *)
(***************************************************************************)
EXTENDS Books
CONSTANTS w1

MCWallet == {w1}
MCRows == <<AcctMint, AcctBurn, AcctProvider, AcctHold, w1>>
=============================================================================
