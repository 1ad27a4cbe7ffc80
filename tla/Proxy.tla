-------------------------------- MODULE Proxy --------------------------------
(***************************************************************************)
(* The metering proxy (internal/proxy/proxy.go) over the book, and the     *)
(* fault tracker the orchestrator puts behind it as Recorder.              *)
(*                                                                         *)
(* Each request runs in a goroutine of its own, and each lock it takes     *)
(* (the token table's, the ledger's, the tracker's) ends an action.  Its   *)
(* context is the request's: when the client goes away the context is      *)
(* cancelled, and from then on every ledger operation the handler asks for *)
(* fails before it begins a transaction (sql.DB.BeginTx).                  *)
(*                                                                         *)
(* Parsing, the allowlist and the per-call ceiling refuse a call without   *)
(* touching any state; here a refused call is simply done.                 *)
(***************************************************************************)
EXTENDS Ledger

CONSTANTS
    Token,   \* bearer tokens
    MaxCalls \* bound: requests ever made

Call == 1..MaxCalls   \* requests, in the order they arrive

VARIABLES
    tokens,   \* Proxy.tokens: the authorized tokens and the wallet each spends from
    calls,    \* per request, where its handler is and what it holds
    faulted   \* faultTracker.faulted: wallets with a recorded platform fault

proxyVars == <<tokens, calls, faulted>>

Unauthorized == "unauthorized"
NewCall  == [pc |-> "new", live |-> FALSE]
DoneCall == [pc |-> "done", live |-> FALSE]

ProxyTypeOK ==
    /\ tokens \in [Token -> Wallet \cup {Unauthorized}]
    /\ \A c \in Call :
          /\ calls[c].pc \in {"new", "authorized", "invoked", "answered", "faulted",
                              "recording", "done"}
          /\ calls[c].live \in BOOLEAN
          /\ calls[c].pc \notin {"new", "done"} => calls[c].wallet \in Wallet
    /\ faulted \subseteq Wallet

ProxyInit ==
    /\ tokens = [t \in Token |-> Unauthorized]
    /\ calls = [c \in Call |-> NewCall]
    /\ faulted = {}

Authorize(t, wallet) == tokens' = [tokens EXCEPT ![t] = wallet]
Revoke(t)            == tokens' = [tokens EXCEPT ![t] = Unauthorized]

Goto(c, pc) == calls' = [calls EXCEPT ![c].pc = pc]
Finish(c)   == calls' = [calls EXCEPT ![c] = DoneCall]

\* walletFor: the token is looked up once, and the wallet it named is the one
\* the call is billed to however long the rest takes.
Arrive(c, t) ==
    /\ \A d \in Call : calls[d].pc = "new" <=> d >= c
    /\ tokens[t] # Unauthorized
    /\ calls' = [calls EXCEPT ![c] = [pc |-> "authorized", live |-> TRUE, wallet |-> tokens[t]]]
    /\ UNCHANGED <<ledgerVars, tokens, faulted>>

\* The worst case is reserved before the provider hears of the call.
Reserve(c) ==
    /\ calls[c].pc = "authorized"
    /\ calls[c].live
    /\ \E h \in HoldId, worst \in Amount :
          /\ Hold(h, calls[c].wallet, worst)
          /\ calls' = [calls EXCEPT ![c] = [pc |-> "invoked", live |-> @.live,
                                            wallet |-> @.wallet, hold |-> h]]
    /\ UNCHANGED <<tokens, faulted>>

\* A call refused before or at its reservation: malformed, off the list, over
\* the ceiling, unaffordable, its wallet closed, or its client gone.
Refuse(c) ==
    /\ calls[c].pc = "authorized"
    /\ Finish(c)
    /\ UNCHANGED <<ledgerVars, tokens, faulted>>

\* Provider.Invoke returns an answer, or an error: its own, or the cancelled
\* context's.
Answer(c) ==
    /\ calls[c].pc = "invoked"
    /\ calls[c].live
    /\ Goto(c, "answered")
    /\ UNCHANGED <<ledgerVars, tokens, faulted>>

Fault(c) ==
    /\ calls[c].pc = "invoked"
    /\ Goto(c, "faulted")
    /\ UNCHANGED <<ledgerVars, tokens, faulted>>

\* Usage is priced and settled; a cost past the reservation is charged as the
\* reservation, so what is settled is at most what was held.
SettleCall(c) ==
    /\ calls[c].pc = "answered"
    /\ \/ calls[c].live /\ \E cost \in 0..holds[calls[c].hold].amount : Settle(calls[c].hold, cost)
       \/ ~calls[c].live /\ UNCHANGED ledgerVars    \* "settle failed", logged
    /\ Finish(c)
    /\ UNCHANGED <<tokens, faulted>>

ReleaseCall(c) ==
    /\ calls[c].pc = "faulted"
    /\ \/ calls[c].live /\ Release(calls[c].hold)
       \/ ~calls[c].live /\ UNCHANGED ledgerVars    \* "release ... failed", logged
    /\ Goto(c, "recording")
    /\ UNCHANGED <<tokens, faulted>>

\* faultTracker.Record of the platform fault.
RecordFault(c) ==
    /\ calls[c].pc = "recording"
    /\ faulted' = faulted \cup {calls[c].wallet}
    /\ Finish(c)
    /\ UNCHANGED <<ledgerVars, tokens>>

\* The client goes away: it gave up on its own, or its container was killed.
Disconnect(c) ==
    /\ calls[c].live
    /\ calls' = [calls EXCEPT ![c].live = FALSE]
    /\ UNCHANGED <<ledgerVars, tokens, faulted>>

Handle(c) ==
    \/ Reserve(c) \/ Refuse(c)
    \/ Answer(c) \/ Fault(c)
    \/ SettleCall(c) \/ ReleaseCall(c) \/ RecordFault(c)
=============================================================================
