-------------------------------- MODULE SignIn --------------------------------
(***************************************************************************)
(* Signing in (internal/account/account.go): a link is mailed to an        *)
(* address, presenting its token back is the proof, and the first proof is *)
(* the sign-up, which writes two databases, the accounts' and the ledger,  *)
(* with no transaction over both.                                          *)
(*                                                                         *)
(* Every statement of Verify, in either database, is an action: several    *)
(* requests are served at once, and any of them may be cut short between   *)
(* two statements, by its client (its context is cancelled) or by the end  *)
(* of the process.  Request is one action, since nothing reads what its    *)
(* statements leave in between.  A visit is one call of Verify whose token *)
(* was good; a user is named by the visit that signed it up, as its id is  *)
(* random.                                                                 *)
(***************************************************************************)
EXTENDS Ledger, FiniteSets

CONSTANTS
    Spelling,   \* what people type as their address
    Normal,     \* normalizeEmail: the address each spelling stands for
    MaxLinks,   \* bound: links ever mailed
    MaxVisits,  \* bound: links ever presented in time
    WalletOf,   \* the wallet of the user a visit signs up
    GrantRef,   \* the ref of that user's grant
    NewGrant    \* Config.Grant

Link  == 1..MaxLinks
Visit == 1..MaxVisits
User  == Visit
Nobody == "nobody"
Email == {Normal[t] : t \in Spelling}

ASSUME SignInAssumption ==
    /\ {MaxLinks, MaxVisits} \subseteq Nat
    /\ NewGrant \in 0..MaxSupply
    /\ Nobody \notin Email
    /\ WalletOf \in [User -> Wallet]
    /\ GrantRef \in [User -> Ref \ Payment]
    /\ \A u, t \in User : WalletOf[u] = WalletOf[t] \/ GrantRef[u] = GrantRef[t] => u = t

VARIABLES
    asked,     \* Store.asked: the addresses inside their cooldown
    links,     \* the links table: whose, how old, and whether spent
    visits,    \* per visit, where Verify is
    users,     \* the users table: per user, its address
    sessions   \* the sessions table: per visit that opened one, open or ended

signInVars == <<asked, links, visits, users, sessions>>

Serving == {"spent", "known", "creating", "granting", "inserting", "checking", "opening"}
Over    == {"in", "failed", "cut"}

\* The rows of the links table, and those that are not there.
LinkRow == [age : {"unsent", "pruned"}]
             \cup [age : {"good", "expired", "stale"}, email : Email, spent : BOOLEAN]

\* What Verify has in hand at each of its statements; then says where fund
\* returns to.
Stage == [pc : {"new"}]
           \cup [pc : {"spent", "failed", "cut"}, link : Link]
           \cup [pc : {"known", "cut"}, link : Link, email : Email]
           \cup [pc : (Serving \cup Over) \ {"spent", "known"}, link : Link, email : Email,
                 user : User, then : {"inserting", "opening"}]

Unsent == [age |-> "unsent"]
Pruned == [age |-> "pruned"]
Mailed(e) == [age |-> "good", email |-> e, spent |-> FALSE]
NewVisit == [pc |-> "new"]

SignInTypeOK ==
    /\ asked \subseteq Email
    /\ links \in [Link -> LinkRow]
    /\ visits \in [Visit -> Stage]
    /\ users \in [User -> Email \cup {Nobody}]
    /\ sessions \in [Visit -> {"none", "open", "ended", "pruned"}]

SignInInit ==
    /\ asked = {}
    /\ links = [l \in Link |-> Unsent]
    /\ visits = [v \in Visit |-> NewVisit]
    /\ users = [u \in User |-> Nobody]
    /\ sessions = [v \in Visit |-> "none"]

-----------------------------------------------------------------------------
\* prune, of the links: those a full TTL past their expiry.
PrunedLinks == [l \in Link |-> IF links[l].age = "stale" THEN Pruned ELSE links[l]]

\* prune, of the sessions: the expired and the revoked.
PrunedSessions == [v \in Visit |-> IF sessions[v] = "ended" THEN "pruned" ELSE sessions[v]]

Address(t) == Normal[t]

\* The address is marked and the tables are pruned before the link is
\* inserted, which a cancelled request no longer gets to; the mail may get
\* lost, and the link is in the table all the same.
Request(e, l) ==
    /\ e \notin asked
    /\ \A k \in Link : links[k] = Unsent <=> k >= l
    /\ asked' = asked \cup {e}
    /\ links' \in {PrunedLinks, [PrunedLinks EXCEPT ![l] = Mailed(e)]}
    /\ sessions' = PrunedSessions
    /\ UNCHANGED <<ledgerVars, visits, users>>

\* The cooldown passes, or the process restarts and forgets it.
CoolDown(e) ==
    /\ e \in asked
    /\ asked' = asked \ {e}
    /\ UNCHANGED <<ledgerVars, links, visits, users, sessions>>

\* A link's time passes: it expires, and a whole TTL later it is stale; no
\* request takes that long between spending a link and reading it.
Age(l) ==
    /\ \/ links[l].age = "good" /\ links' = [links EXCEPT ![l].age = "expired"]
       \/ /\ links[l].age = "expired"
          /\ \A v \in Visit : visits[v].pc = "spent" => visits[v].link # l
          /\ links' = [links EXCEPT ![l].age = "stale"]
    /\ UNCHANGED <<ledgerVars, asked, visits, users, sessions>>

-----------------------------------------------------------------------------
At(v, pc) == visits[v].pc = pc
Goto(v, pc) == visits' = [visits EXCEPT ![v].pc = pc]

\* Mutant: a link is good until it expires.
GoodUntilItExpires(l) == links[l].age = "good"

Presentable(l) == links[l].age = "good" /\ ~links[l].spent

\* Verify spends the link first, whatever comes after.
Spend(v, l) ==
    /\ \A w \in Visit : At(w, "new") <=> w >= v
    /\ Presentable(l)
    /\ links' = [links EXCEPT ![l].spent = TRUE]
    /\ visits' = [visits EXCEPT ![v] = [pc |-> "spent", link |-> l]]
    /\ UNCHANGED <<ledgerVars, asked, users, sessions>>

ReadLink(v) ==
    /\ At(v, "spent")
    /\ LET row == links[visits[v].link]
       IN  visits' = [visits EXCEPT ![v] =
              IF row = Pruned THEN [@ EXCEPT !.pc = "failed"]
              ELSE [pc |-> "known", link |-> @.link, email |-> row.email]]
    /\ UNCHANGED <<ledgerVars, asked, links, users, sessions>>

\* userByEmail, and for a new address the user signUp is about to make.
Finding(v, user, pc, then) ==
    visits' = [visits EXCEPT ![v] = [pc |-> pc, link |-> @.link, email |-> @.email,
                                     user |-> user, then |-> then]]

\* Mutant: the user is recorded before its wallet is funded.
LookUpRowFirst(v) ==
    /\ At(v, "known")
    /\ \/ \E u \in User : users[u] = visits[v].email /\ Finding(v, u, "checking", "opening")
       \/ (\A u \in User : users[u] # visits[v].email) /\ Finding(v, v, "inserting", "opening")
    /\ UNCHANGED <<ledgerVars, asked, links, users, sessions>>

LookUp(v) ==
    /\ At(v, "known")
    /\ \/ \E u \in User : users[u] = visits[v].email /\ Finding(v, u, "checking", "opening")
       \/ (\A u \in User : users[u] # visits[v].email) /\ Finding(v, v, "creating", "inserting")
    /\ UNCHANGED <<ledgerVars, asked, links, users, sessions>>

\* fund: the wallet, then the grant.
CreateWallet(v) ==
    /\ At(v, "creating")
    /\ LET w == WalletOf[visits[v].user]
       IN  \/ CreateAccount(w) /\ Goto(v, "granting")
           \/ status[w] # "absent" /\ UNCHANGED ledgerVars /\ Goto(v, "failed")
    /\ UNCHANGED <<asked, links, users, sessions>>

MintGrant(v) ==
    /\ At(v, "granting")
    /\ LET u == visits[v].user
       IN  IF NewGrant > 0 THEN Mint(WalletOf[u], NewGrant, GrantRef[u]) ELSE UNCHANGED ledgerVars
    /\ Goto(v, visits[v].then)
    /\ UNCHANGED <<asked, links, users, sessions>>

\* The address is unique in the table: the second of two rows is refused.
InsertUser(v) ==
    /\ At(v, "inserting")
    /\ IF \E u \in User : users[u] = visits[v].email
       THEN Goto(v, "failed") /\ UNCHANGED users
       ELSE Goto(v, "checking") /\ users' = [users EXCEPT ![visits[v].user] = visits[v].email]
    /\ UNCHANGED <<ledgerVars, asked, links, sessions>>

EnsureFunded(v) ==
    /\ At(v, "checking")
    /\ visits' = [visits EXCEPT ![v].pc =
                     IF status[WalletOf[visits[v].user]] = "absent" THEN "creating" ELSE "opening",
                                ![v].then = "opening"]
    /\ UNCHANGED <<ledgerVars, asked, links, users, sessions>>

OpenSession(v) ==
    /\ At(v, "opening")
    /\ sessions' = [sessions EXCEPT ![v] = "open"]
    /\ Goto(v, "in")
    /\ UNCHANGED <<ledgerVars, asked, links, users>>

Cut(v) ==
    /\ visits[v].pc \in Serving
    /\ Goto(v, "cut")
    /\ UNCHANGED <<ledgerVars, asked, links, users, sessions>>

\* SignOut, or the end of the session's time.
EndSession(v) ==
    /\ sessions[v] = "open"
    /\ sessions' = [sessions EXCEPT ![v] = "ended"]
    /\ UNCHANGED <<ledgerVars, asked, links, visits, users>>

Verify(v) ==
    \/ \E l \in Link : Spend(v, l)
    \/ ReadLink(v) \/ LookUp(v) \/ CreateWallet(v) \/ MintGrant(v)
    \/ InsertUser(v) \/ EnsureFunded(v) \/ OpenSession(v)

SignInNext ==
    \/ \E t \in Spelling, l \in Link : Request(Address(t), l)
    \/ \E e \in Email : CoolDown(e)
    \/ \E l \in Link : Age(l)
    \/ \E v \in Visit : Verify(v) \/ Cut(v) \/ EndSession(v)

SignInSpec == LedgerInit /\ SignInInit /\ [][SignInNext]_<<ledgerVars, signInVars>>

-----------------------------------------------------------------------------
\* Sign-up writes the ledger first: whoever has a row among the users has an
\* open wallet and its grant, exactly once, wherever the two databases were
\* cut apart (account.go:310-313).
UsersCanSpend ==
    \A u \in User : users[u] # Nobody =>
        /\ status[WalletOf[u]] = "open"
        /\ NewGrant > 0 => mints[GrantRef[u]] = 1

\* A link that has been spent is still there to be read back: prune never
\* takes a row from under a request (account.go:247-253).
SpentLinkIsReadable ==
    \A v \in Visit : At(v, "spent") => links[visits[v].link].age # "pruned"

\* One address is one user, and one link is one session at most, however
\* often and however fast its token is presented (account.go:265-269); nor
\* does another request's prune make it none.
LinkOpensOneSession ==
    /\ \A u, t \in User : users[u] = users[t] /\ users[u] # Nobody => u = t
    /\ \A v, w \in Visit : At(v, "in") /\ At(w, "in") /\ visits[v].link = visits[w].link => v = w
    /\ SpentLinkIsReadable

(***************************************************************************)
(* What a comment says and the code does not do: account.go:268-269,       *)
(* "every verified link opens a new session".  Of two links to one new     *)
(* address presented at once, both find no user, both fund a wallet, and   *)
(* the second row is refused: its visit fails, and its grant stays minted  *)
(* in a wallet nobody was issued.                                          *)
(***************************************************************************)
EveryVerifiedLinkOpensASession == \A v \in Visit : ~At(v, "failed")
=============================================================================
