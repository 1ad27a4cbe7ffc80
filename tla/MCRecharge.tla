----------------------------- MODULE MCRecharge -----------------------------
(***************************************************************************)
(* One person, who may sign up and pay, and a payment by hand; two         *)
(* handlers.  The smallest checkout a person can open, and one that the    *)
(* fees eat up.                                                            *)
(***************************************************************************)
EXTENDS Recharge
CONSTANTS w1

MCWallet == {w1}
MCRows == <<w1, AcctMint, AcctBurn, AcctProvider, AcctHold>>
MCNormal == [a |-> "a"]
MCWalletOf == <<w1>>
MCGrantRef == <<"grant">>
=============================================================================
