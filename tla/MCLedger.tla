------------------------------ MODULE MCLedger ------------------------------
(***************************************************************************)
(* The ledger with two wallets, one payment and one grant ref, three holds *)
(* and two credits.                                                        *)
(***************************************************************************)
EXTENDS Ledger
CONSTANTS w1, w2

MCWallet == {w1, w2}
MCRows == <<w1, AcctHold, AcctMint, w2, AcctBurn, AcctProvider>>
=============================================================================
