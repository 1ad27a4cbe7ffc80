------------------------------ MODULE MCMetered ------------------------------
(***************************************************************************)
(* One agent with a bankroll, attempts with a wallet and a token each, and *)
(* a handful of calls.                                                     *)
(***************************************************************************)
EXTENDS Metered
CONSTANTS bankroll, att1, att2, tokBid, tok1, tok2

MCWallet == {bankroll, att1, att2}
MCRows == <<bankroll, att1, att2, AcctMint, AcctBurn, AcctProvider, AcctHold>>
MCToken == {tokBid, tok1, tok2}
MCAttWallet == <<att1, att2>>
MCAttToken == <<tok1, tok2>>
=============================================================================
