------------------------------ MODULE MCSignIn ------------------------------
(***************************************************************************)
(* One address in two spellings, three links and three visits, so that it  *)
(* can sign up with two links at once and come back with a third.          *)
(***************************************************************************)
EXTENDS SignIn
CONSTANTS w1, w2, w3

MCWallet == {w1, w2, w3}
MCRows == <<w1, w2, w3, AcctMint, AcctBurn, AcctProvider, AcctHold>>
MCNormal == [A |-> "a", a |-> "a"]
MCWalletOf == <<w1, w2, w3>>
MCGrantRef == <<"grant1", "grant2", "grant3">>
=============================================================================
