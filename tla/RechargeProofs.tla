---------------------------- MODULE RechargeProofs ----------------------------
(***************************************************************************)
(* Signing in and recharging, for every number of people, links, payments  *)
(* and handlers.  Both write the accounts' tables and the ledger with      *)
(* nothing to hold them together, so what they promise rests on the order  *)
(* of their writes; the invariants say, of every stage of a request, which *)
(* of its writes are already there.                                        *)
(***************************************************************************)
EXTENDS Recharge, LedgerProofs, FiniteSetTheorems

-----------------------------------------------------------------------------
Untouched(u) == status[WalletOf[u]] = "absent" /\ mints[GrantRef[u]] = 0
Granted(u) == status[WalletOf[u]] = "open" /\ (NewGrant > 0 => mints[GrantRef[u]] = 1)

\* A sign-up makes its own user, and writes wallet, grant and row in turn.
Ordered(v) ==
    /\ visits[v].pc \in {"new", "spent", "known"} => users[v] = Nobody /\ Untouched(v)
    /\ visits[v].pc \in {"creating", "granting", "inserting"} =>
          users[v] = Nobody /\ visits[v].user = v /\ visits[v].then = "inserting"
    /\ At(v, "creating") => Untouched(v)
    /\ At(v, "granting") => status[WalletOf[v]] = "open" /\ mints[GrantRef[v]] = 0
    /\ At(v, "inserting") => Granted(v)
    /\ visits[v].pc \in {"checking", "opening", "in"} => users[visits[v].user] # Nobody

SignUpOrder == \A v \in Visit : Ordered(v)

\* A session belongs to a visit that is over.
SessionOrder == \A v \in Visit : sessions[v] # "none" => At(v, "in")

\* A link is spent once, and is still there while its visit has to read it.
LinkOrder ==
    \A v \in Visit : ~At(v, "new") =>
        /\ links[visits[v].link].age # "unsent" /\ ~Presentable(visits[v].link)
        /\ \A w \in Visit : ~At(w, "new") /\ visits[v].link = visits[w].link => v = w
        /\ At(v, "spent") => links[visits[v].link].age \in {"good", "expired"}

OneUserPerAddress == \A u, t \in User : users[u] = users[t] /\ users[u] # Nobody => u = t

SignInInv ==
    /\ LedgerInv /\ SignInTypeOK
    /\ SignUpOrder /\ UsersCanSpend
    /\ SessionOrder /\ LinkOrder /\ OneUserPerAddress

\* What sign-up does to the book.
LEMMA SignInIsLedger ==
    ASSUME SignInInv, SignInNext
    PROVE  [LedgerNext]_ledgerVars
<1>1. ASSUME NEW v \in Visit, CreateWallet(v) PROVE [LedgerNext]_ledgerVars
  <2>1. visits[v].user \in User
    BY <1>1 DEF CreateWallet, At, SignInInv, SignUpOrder, Ordered, User
  <2>2. WalletOf[visits[v].user] \in Wallet
    BY <2>1, SignInAssumption
  <2>3. QED
    BY <1>1, <2>2 DEF CreateWallet, LedgerNext
<1>2. ASSUME NEW v \in Visit, MintGrant(v) PROVE [LedgerNext]_ledgerVars
  <2>1. visits[v].user \in User
    BY <1>2 DEF MintGrant, At, SignInInv, SignUpOrder, Ordered, User
  <2>2. WalletOf[visits[v].user] \in Wallet /\ GrantRef[visits[v].user] \in Ref \ Payment
    BY <2>1, SignInAssumption
  <2>3. NewGrant > 0 => NewGrant \in Amount
    BY SignInAssumption, BoundAssumption DEF Amount
  <2>4. QED
    BY <1>2, <2>2, <2>3 DEF MintGrant, LedgerNext
<1>3. CASE UNCHANGED ledgerVars
  BY <1>3
<1>4. QED
  BY <1>1, <1>2, <1>3
     DEF SignInNext, Verify, Request, CoolDown, Age, Cut, EndSession, Spend, ReadLink, LookUp,
         InsertUser, EnsureFunded, OpenSession

\* The book keeps its own invariant, whoever uses it.
LEMMA BookKept ==
    ASSUME LedgerInv, [LedgerNext]_ledgerVars
    PROVE  LedgerInv'
BY StepInv

-----------------------------------------------------------------------------
\* Steps that leave the visits, the users and the book alone: the links and
\* the cooldowns.
LEMMA LinksKeep ==
    ASSUME SignInInv, UNCHANGED <<ledgerVars, visits, users>>,
           asked' \subseteq Email, links' \in [Link -> LinkRow],
           \A l \in Link : links[l].age # "unsent" /\ ~Presentable(l) =>
                              links'[l].age # "unsent" /\ ~Presentable(l)',
           \A v \in Visit : At(v, "spent") => links'[visits[v].link].age \in {"good", "expired"},
           sessions' \in [Visit -> {"none", "open", "ended", "pruned"}],
           \A v \in Visit : sessions'[v] # "none" => sessions[v] # "none"
    PROVE  SignInInv'
<1>1. LedgerInv'
  BY BookKept DEF SignInInv
<1>2. SignInTypeOK' /\ SignUpOrder' /\ UsersCanSpend' /\ SessionOrder' /\ OneUserPerAddress'
  BY DEF SignInInv, SignInTypeOK, SignUpOrder, Ordered, UsersCanSpend, SessionOrder, OneUserPerAddress,
         Untouched, Granted, At, ledgerVars
<1>3. LinkOrder'
  <2>1. \A v \in Visit : ~At(v, "new") => visits[v].link \in Link
    BY DEF SignInInv, SignInTypeOK, At, Stage, Serving, Over
  <2>2. QED
    BY <2>1 DEF SignInInv, LinkOrder, At
<1>4. QED
  BY <1>1, <1>2, <1>3 DEF SignInInv

\* A request for a link.
LEMMA RequestKeeps ==
    ASSUME SignInInv, NEW e \in Email, NEW l \in Link, Request(e, l)
    PROVE  SignInInv'
<1> USE DEF SignInInv, SignInTypeOK
<1>1. /\ PrunedLinks \in [Link -> LinkRow]
      /\ Pruned.age = "pruned"
      /\ \A k \in Link : PrunedLinks[k] = IF links[k].age = "stale" THEN Pruned ELSE links[k]
  BY DEF PrunedLinks, Pruned, LinkRow
<1>2. /\ Mailed(e) \in LinkRow
      /\ links[l] = Unsent
  BY DEF Mailed, LinkRow, Request, Link
<1>3. links' \in [Link -> LinkRow]
  BY <1>1, <1>2 DEF Request
<1>4. \A k \in Link : k # l => links'[k] = PrunedLinks[k]
  BY <1>1 DEF Request
<1>5. links[l].age = "unsent"
  BY <1>2 DEF Unsent
<1>6. \A k \in Link : links[k].age # "unsent" /\ ~Presentable(k) =>
                          links'[k].age # "unsent" /\ ~Presentable(k)'
  BY <1>1, <1>4, <1>5 DEF Presentable
<1>7. \A v \in Visit : At(v, "spent") => links'[visits[v].link].age \in {"good", "expired"}
  <2>1. \A v \in Visit : At(v, "spent") => visits[v].link \in Link
    BY DEF At, Stage, Serving, Over
  <2>2. QED
    BY <1>1, <1>4, <1>5, <2>1 DEF LinkOrder, At
<1>8. /\ sessions' \in [Visit -> {"none", "open", "ended", "pruned"}]
      /\ \A v \in Visit : sessions'[v] # "none" => sessions[v] # "none"
  BY DEF Request, PrunedSessions
<1>9. UNCHANGED <<ledgerVars, visits, users>> /\ asked' \subseteq Email
  BY DEF Request
<1>10. QED
  BY <1>3, <1>6, <1>7, <1>8, <1>9, LinksKeep

\* Time passes: over a cooldown, a link or a session.
LEMMA TimeKeeps ==
    ASSUME SignInInv,
           \/ \E e \in Email : CoolDown(e)
           \/ \E l \in Link : Age(l)
           \/ \E v \in Visit : EndSession(v)
    PROVE  SignInInv'
<1> USE DEF SignInInv, SignInTypeOK
<1>1. \A v \in Visit : At(v, "spent") => /\ visits[v].link \in Link
                                         /\ links[visits[v].link].age \in {"good", "expired"}
  BY DEF At, Stage, Serving, Over, LinkOrder
<1>2. ASSUME NEW e \in Email, CoolDown(e) PROVE SignInInv'
  <2>1. UNCHANGED <<ledgerVars, visits, users, links, sessions>> /\ asked' \subseteq Email
    BY <1>2 DEF CoolDown
  <2>2. QED
    BY <1>1, <2>1, LinksKeep DEF Presentable
<1>3. ASSUME NEW l \in Link, Age(l) PROVE SignInInv'
  <2>1. UNCHANGED <<ledgerVars, asked, visits, users, sessions>>
    BY <1>3 DEF Age
  <2>2. PICK age \in {"expired", "stale"} :
           /\ links' = [links EXCEPT ![l].age = age]
           /\ links[l].age \in {"good", "expired"}
           /\ age = "stale" => \A v \in Visit : visits[v].pc = "spent" => visits[v].link # l
    BY <1>3 DEF Age
  <2>3. /\ links[l] \in [age : {"good", "expired", "stale"}, email : Email, spent : BOOLEAN]
        /\ links'[l] = [links[l] EXCEPT !.age = age]
    BY <2>2 DEF LinkRow
  <2>4. /\ links' \in [Link -> LinkRow]
        /\ links'[l].age = age
        /\ \A k \in Link : k # l => links'[k] = links[k]
    BY <2>2, <2>3 DEF LinkRow
  <2>5. \A k \in Link : links[k].age # "unsent" /\ ~Presentable(k) =>
                           links'[k].age # "unsent" /\ ~Presentable(k)'
    BY <2>2, <2>4 DEF Presentable
  <2>6. \A v \in Visit : At(v, "spent") => links'[visits[v].link].age \in {"good", "expired"}
    BY <1>1, <2>2, <2>4 DEF At
  <2>7. QED
    BY <2>1, <2>4, <2>5, <2>6, LinksKeep
<1>4. ASSUME NEW v \in Visit, EndSession(v) PROVE SignInInv'
  <2>1. UNCHANGED <<ledgerVars, asked, visits, users, links>>
    BY <1>4 DEF EndSession
  <2>2. /\ sessions' \in [Visit -> {"none", "open", "ended", "pruned"}]
        /\ \A w \in Visit : sessions'[w] # "none" => sessions[w] # "none"
    BY <1>4 DEF EndSession
  <2>3. QED
    BY <1>1, <2>1, <2>2, LinksKeep DEF Presentable
<1>5. QED
  BY <1>2, <1>3, <1>4

-----------------------------------------------------------------------------
\* A step of one visit that leaves the links alone: the other visits stand
\* where they stood, and so do the users they have in hand.
LEMMA VisitKeeps ==
    ASSUME SignInInv, [LedgerNext]_ledgerVars,
           NEW v \in Visit, NEW s \in Stage, visits' = [visits EXCEPT ![v] = s],
           UNCHANGED <<asked, links>>,
           visits[v].pc \notin {"new", "in"}, s.pc \notin {"new", "spent"},
           s.link = visits[v].link,
           sessions' = IF s.pc = "in" THEN [sessions EXCEPT ![v] = "open"] ELSE sessions,
           users' = users \/ \E e \in Email : /\ users' = [users EXCEPT ![v] = e]
                                              /\ \A u \in User : users[u] # e,
           \A u \in User : u # v => /\ status'[WalletOf[u]] = status[WalletOf[u]]
                                    /\ mints'[GrantRef[u]] = mints[GrantRef[u]],
           Ordered(v)', users'[v] # Nobody => Granted(v)'
    PROVE  SignInInv'
<1> USE DEF SignInInv, SignInTypeOK
<1>1. LedgerInv'
  BY BookKept
<1>2. /\ visits'[v] = s
      /\ \A w \in Visit : w # v => visits'[w] = visits[w]
  OBVIOUS
<1>3. SignInTypeOK'
  <2>1. visits' \in [Visit -> Stage] /\ sessions' \in [Visit -> {"none", "open", "ended", "pruned"}]
    OBVIOUS
  <2>2. users' \in [User -> Email \cup {Nobody}]
    OBVIOUS
  <2>3. QED
    BY <2>1, <2>2
<1>4. \A u \in User : (u # v => users'[u] = users[u]) /\ (users[u] # Nobody => users'[u] # Nobody)
  BY SignInAssumption DEF User
<1>5. SignUpOrder'
  <2>1. ASSUME NEW w \in Visit, w # v PROVE Ordered(w)'
    <3>1. visits'[w] = visits[w] /\ users'[w] = users[w]
      BY <1>2, <1>4, <2>1 DEF User
    <3>2. visits[w].pc \in {"checking", "opening", "in"} => visits[w].user \in User
      BY DEF Stage, Serving, Over
    <3>3. /\ status'[WalletOf[w]] = status[WalletOf[w]]
          /\ mints'[GrantRef[w]] = mints[GrantRef[w]]
      BY <2>1 DEF User
    <3>4. QED
      BY <1>4, <3>1, <3>2, <3>3 DEF SignUpOrder, Ordered, Untouched, Granted, At
  <2>2. QED
    BY <2>1 DEF SignUpOrder
<1>6. UsersCanSpend'
  BY <1>4 DEF UsersCanSpend, Granted
<1>7. SessionOrder'
  BY <1>2 DEF SessionOrder, At
<1>8. LinkOrder'
  BY <1>2 DEF LinkOrder, At, Presentable
<1>9. OneUserPerAddress'
  BY DEF OneUserPerAddress
<1>10. QED
  BY <1>1, <1>3, <1>5, <1>6, <1>7, <1>8, <1>9

\* A link is spent by one visit only.
LEMMA SpendKeeps ==
    ASSUME SignInInv, NEW v \in Visit, NEW l \in Link, Spend(v, l)
    PROVE  SignInInv'
<1> USE DEF SignInInv, SignInTypeOK
<1> DEFINE s == [pc |-> "spent", link |-> l]
<1>1. s \in Stage /\ At(v, "new") /\ Presentable(l)
  <2>1. v >= v
    BY DEF Visit
  <2>2. QED
    BY <2>1 DEF Stage, Spend
<1>2. /\ UNCHANGED <<ledgerVars, asked, users, sessions>>
      /\ visits' = [visits EXCEPT ![v] = s]
      /\ links' = [links EXCEPT ![l].spent = TRUE]
  BY DEF Spend
<1>3. links[l] \in [age : {"good", "expired", "stale"}, email : Email, spent : BOOLEAN]
  BY <1>1 DEF Presentable, LinkRow
<1>4. /\ links' \in [Link -> LinkRow]
      /\ links'[l].age = "good" /\ links'[l].spent
      /\ \A k \in Link : k # l => links'[k] = links[k]
  BY <1>1, <1>2, <1>3 DEF LinkRow, Presentable
<1>5. LedgerInv'
  BY <1>2, BookKept
<1>6. /\ visits'[v].pc = "spent" /\ visits'[v].link = l
      /\ \A w \in Visit : w # v => visits'[w] = visits[w]
  BY <1>2
<1>7. SignInTypeOK'
  BY <1>1, <1>2, <1>4
<1>8. SignUpOrder'
  <2>1. \A w \in Visit : w # v => Ordered(w)'
    BY <1>2, <1>6 DEF SignUpOrder, Ordered, Untouched, Granted, At, ledgerVars
  <2>2. Ordered(v)'
    BY <1>1, <1>2, <1>6 DEF SignUpOrder, Ordered, Untouched, Granted, At, ledgerVars
  <2>3. QED
    BY <2>1, <2>2 DEF SignUpOrder
<1>9. UsersCanSpend' /\ OneUserPerAddress'
  BY <1>2 DEF UsersCanSpend, OneUserPerAddress, ledgerVars
<1>10. SessionOrder'
  BY <1>1, <1>2, <1>6 DEF SessionOrder, At
<1>11. LinkOrder'
  <2>1. \A w \in Visit : w # v /\ ~At(w, "new") => visits[w].link # l
    BY <1>1 DEF LinkOrder
  <2>2. \A w \in Visit : ~At(w, "new") => visits[w].link \in Link
    BY DEF Stage, Serving, Over, At
  <2>3. QED
    BY <1>4, <1>6, <2>1, <2>2 DEF LinkOrder, Presentable, At
<1>12. QED
  BY <1>5, <1>7, <1>8, <1>9, <1>10, <1>11

-----------------------------------------------------------------------------
\* What a visit has in hand when it is past the look-up.
LEMMA PastLookUp ==
    ASSUME SignInInv, NEW v \in Visit,
           visits[v].pc \in (Serving \cup Over) \ {"spent", "known", "failed", "cut"}
    PROVE  /\ visits[v] \in [pc : (Serving \cup Over) \ {"spent", "known"}, link : Link,
                             email : Email, user : User, then : {"inserting", "opening"}]
           /\ visits[v].user \in User
BY DEF SignInInv, SignInTypeOK, Stage, Serving, Over

\* Goto sets where a visit is.
LEMMA GotoSets ==
    ASSUME SignInInv, NEW v \in Visit, NEW pc, Goto(v, pc)
    PROVE  visits'[v].pc = pc
BY DEF Goto, SignInInv, SignInTypeOK, Stage

\* Visits that only read.
LEMMA ReadingKeeps ==
    ASSUME SignInInv, NEW v \in Visit, ReadLink(v) \/ LookUp(v) \/ EnsureFunded(v) \/ Cut(v)
    PROVE  SignInInv'
<1> USE DEF SignInInv, SignInTypeOK
<1>1. UNCHANGED <<ledgerVars, asked, links, users, sessions>>
  BY DEF ReadLink, LookUp, EnsureFunded, Cut
<1>2. [LedgerNext]_ledgerVars /\ UNCHANGED <<status, mints>>
  BY <1>1 DEF ledgerVars
<1>3. users[v] # Nobody => Granted(v)
  BY DEF UsersCanSpend, Granted, User
<1>4. Ordered(v)
  BY DEF SignUpOrder
<1>5. CASE ReadLink(v)
  <2> DEFINE row == links[visits[v].link]
             s == IF row = Pruned THEN [visits[v] EXCEPT !.pc = "failed"]
                  ELSE [pc |-> "known", link |-> visits[v].link, email |-> row.email]
  <2>1. visits[v] \in [pc : {"spent"}, link : Link]
    BY <1>5 DEF ReadLink, At, Stage, Serving, Over
  <2>2. row.age \in {"good", "expired"}
    BY <1>5 DEF ReadLink, LinkOrder, At
  <2>3. row # Pruned /\ row.email \in Email
    BY <2>1, <2>2 DEF LinkRow, Pruned
  <2>4. s = [pc |-> "known", link |-> visits[v].link, email |-> row.email] /\ s \in Stage
    BY <2>1, <2>3 DEF Stage
  <2>5. visits' = [visits EXCEPT ![v] = s]
    BY <1>5 DEF ReadLink
  <2> HIDE DEF s
  <2>6. Ordered(v)'
    BY <1>1, <1>2, <1>4, <1>5, <2>4, <2>5 DEF ReadLink, Ordered, Untouched, At
  <2>7. QED
    BY <1>1, <1>2, <1>3, <2>1, <2>4, <2>5, <2>6, VisitKeeps DEF Granted
<1>6. CASE LookUp(v)
  <2>1. visits[v] \in [pc : {"known"}, link : Link, email : Email]
    BY <1>6 DEF LookUp, At, Stage, Serving, Over
  <2>2. PICK u \in User, pc \in {"checking", "creating"}, then \in {"opening", "inserting"} :
           /\ Finding(v, u, pc, then)
           /\ pc = "checking" => users[u] # Nobody
           /\ pc = "creating" => u = v /\ then = "inserting"
    BY <1>6, <2>1, SignInAssumption DEF LookUp, User
  <2> DEFINE s == [pc |-> pc, link |-> visits[v].link, email |-> visits[v].email,
                   user |-> u, then |-> then]
  <2>3. s \in Stage /\ visits' = [visits EXCEPT ![v] = s]
    BY <2>1, <2>2 DEF Stage, Serving, Over, Finding
  <2>4. Ordered(v)'
    BY <1>1, <1>2, <1>4, <1>6, <2>2, <2>3 DEF LookUp, Ordered, Untouched, At
  <2>5. s.link = visits[v].link /\ s.pc \in {"checking", "creating"}
    OBVIOUS
  <2> HIDE DEF s
  <2>6. QED
    BY <1>1, <1>2, <1>3, <2>1, <2>3, <2>4, <2>5, VisitKeeps DEF Granted
<1>7. CASE EnsureFunded(v)
  <2> DEFINE pc == IF status[WalletOf[visits[v].user]] = "absent" THEN "creating" ELSE "opening"
             s == [visits[v] EXCEPT !.pc = pc, !.then = "opening"]
  <2>1. At(v, "checking")
    BY <1>7 DEF EnsureFunded
  <2>2. users[visits[v].user] # Nobody /\ visits[v].user \in User
    BY <1>4, <2>1, PastLookUp DEF Ordered, At, Serving, Over
  <2>3. pc = "opening"
    BY <2>2 DEF UsersCanSpend
  <2>4. visits' = [visits EXCEPT ![v] = s]
    BY <1>7 DEF EnsureFunded
  <2>5. s \in Stage /\ s.pc = "opening" /\ s.link = visits[v].link /\ s.user = visits[v].user
    BY <2>1, <2>3, PastLookUp DEF Stage, Serving, Over, At
  <2> HIDE DEF s, pc
  <2>6. Ordered(v)'
    BY <1>1, <2>2, <2>4, <2>5 DEF Ordered, At
  <2>7. QED
    BY <1>1, <1>2, <1>3, <2>1, <2>4, <2>5, <2>6, VisitKeeps DEF Granted, At
<1>8. CASE Cut(v)
  <2> DEFINE s == [visits[v] EXCEPT !.pc = "cut"]
  <2>1. visits[v].pc \in Serving /\ visits' = [visits EXCEPT ![v] = s]
    BY <1>8 DEF Cut, Goto
  <2>2. s \in Stage /\ s.pc = "cut" /\ s.link = visits[v].link
    BY <2>1 DEF Stage, Serving, Over
  <2> HIDE DEF s
  <2>3. Ordered(v)'
    BY <2>1, <2>2 DEF Ordered, At
  <2>4. visits[v].pc \notin {"new", "in"}
    BY <2>1 DEF Serving
  <2>5. QED
    BY <1>1, <1>2, <1>3, <2>1, <2>2, <2>3, <2>4, VisitKeeps DEF Granted
<1>9. QED
  BY <1>5, <1>6, <1>7, <1>8

\* Visits that write: the wallet, the grant, the user's row, the session.
LEMMA WritingKeeps ==
    ASSUME SignInInv, NEW v \in Visit,
           CreateWallet(v) \/ MintGrant(v) \/ InsertUser(v) \/ OpenSession(v)
    PROVE  SignInInv'
<1> USE DEF SignInInv, SignInTypeOK
<1>1. [LedgerNext]_ledgerVars
  BY SignInIsLedger DEF SignInNext, Verify
<1>2. Ordered(v)
  BY DEF SignUpOrder
<1>3. PICK pc \in (Serving \cup Over) \ {"new", "spent", "known"} : Goto(v, pc)
  BY PastLookUp DEF CreateWallet, MintGrant, InsertUser, OpenSession, Serving, Over, At
<1> DEFINE s == [visits[v] EXCEPT !.pc = pc]
<1>4. /\ visits[v].pc \in {"creating", "granting", "inserting", "opening"}
      /\ visits' = [visits EXCEPT ![v] = s]
  BY <1>3 DEF CreateWallet, MintGrant, InsertUser, OpenSession, At, Goto
<1>5. /\ s \in Stage /\ s.pc = pc /\ s.link = visits[v].link /\ s.user = visits[v].user
      /\ s.then = visits[v].then /\ visits[v].user \in User
      /\ visits[v].link \in Link /\ visits[v].email \in Email
  BY <1>3, <1>4, PastLookUp DEF Stage, Serving, Over
<1> HIDE DEF s
<1>6. visits'[v] = s /\ UNCHANGED <<asked, links>> /\ v \in User
  BY <1>4 DEF CreateWallet, MintGrant, InsertUser, OpenSession, User
<1>7. users[v] # Nobody => Granted(v)
  BY <1>6 DEF UsersCanSpend, Granted
<1>8. /\ WalletOf[v] \in Wallet /\ GrantRef[v] \in Ref
      /\ \A u \in User : u # v => WalletOf[u] # WalletOf[v] /\ GrantRef[u] # GrantRef[v]
      /\ \A u \in User : WalletOf[u] \in Wallet /\ GrantRef[u] \in Ref
  BY <1>6, SignInAssumption
<1>9. status \in [Wallet -> {"absent", "open", "closed"}] /\ mints \in [Ref -> Nat]
  BY DEF LedgerInv, LedgerTypeOK
<1>10. CASE CreateWallet(v)
  <2>1. visits[v].user = v /\ status[WalletOf[v]] = "absent" /\ At(v, "creating")
    BY <1>2, <1>10 DEF CreateWallet, Ordered, At, Untouched
  <2>2. CreateAccount(WalletOf[v]) /\ Goto(v, "granting") /\ UNCHANGED <<users, sessions>>
    BY <1>10, <2>1 DEF CreateWallet
  <2>3. s.pc = "granting"
    BY <1>5, <1>6, <2>2, GotoSets
  <2>4. status' = [status EXCEPT ![WalletOf[v]] = "open"] /\ mints' = mints
    BY <2>2 DEF CreateAccount
  <2>5. Ordered(v)'
    BY <1>2, <1>5, <1>6, <1>8, <1>9, <2>1, <2>2, <2>3, <2>4 DEF Ordered, At, Untouched
  <2>6. users'[v] # Nobody => Granted(v)'
    BY <1>2, <2>1, <2>2 DEF Ordered, At
  <2>7. QED
    BY <1>1, <1>4, <1>5, <1>6, <1>8, <1>9, <2>2, <2>3, <2>4, <2>5, <2>6, VisitKeeps
<1>11. CASE MintGrant(v)
  <2>1. visits[v].user = v /\ visits[v].then = "inserting" /\ At(v, "granting")
    BY <1>2, <1>11 DEF MintGrant, Ordered, At
  <2>2. s.pc = "inserting" /\ UNCHANGED <<users, sessions>>
    BY <1>5, <1>6, <1>11, <2>1, GotoSets DEF MintGrant
  <2>3. status' = status /\ \/ NewGrant > 0 /\ mints' = [mints EXCEPT ![GrantRef[v]] = @ + 1]
                            \/ ~(NewGrant > 0) /\ mints' = mints
    BY <1>11, <2>1 DEF MintGrant, Mint, ledgerVars
  <2>4. Granted(v)'
    BY <1>2, <1>8, <1>9, <2>1, <2>3 DEF Ordered, At, Granted
  <2>5. Ordered(v)'
    BY <1>2, <1>5, <1>6, <2>1, <2>2, <2>4 DEF Ordered, At
  <2>6. QED
    BY <1>1, <1>4, <1>5, <1>6, <1>8, <1>9, <2>2, <2>3, <2>4, <2>5, VisitKeeps
<1>12. CASE InsertUser(v)
  <2>1. /\ visits[v].user = v /\ Granted(v) /\ At(v, "inserting") /\ users[v] = Nobody
        /\ UNCHANGED <<status, mints, sessions>>
    BY <1>2, <1>12 DEF InsertUser, Ordered, At, ledgerVars
  <2>2. CASE \E u \in User : users[u] = visits[v].email
    <3>1. s.pc = "failed" /\ UNCHANGED users
      BY <1>5, <1>6, <1>12, <2>2, GotoSets DEF InsertUser
    <3>2. Ordered(v)'
      BY <1>6, <3>1 DEF Ordered, At
    <3>3. QED
      BY <1>1, <1>4, <1>5, <1>6, <1>7, <2>1, <3>1, <3>2, VisitKeeps DEF Granted
  <2>3. CASE ~ \E u \in User : users[u] = visits[v].email
    <3>1. s.pc = "checking" /\ users' = [users EXCEPT ![v] = visits[v].email]
      BY <1>5, <1>6, <1>12, <2>1, <2>3, GotoSets DEF InsertUser
    <3>2. users'[v] # Nobody
      BY <1>5, <1>6, <3>1, SignInAssumption
    <3>3. Ordered(v)'
      BY <1>5, <1>6, <2>1, <3>1, <3>2 DEF Ordered, At
    <3>4. QED
      BY <1>1, <1>4, <1>5, <1>6, <2>1, <2>3, <3>1, <3>3, VisitKeeps DEF Granted
  <2>4. QED
    BY <2>2, <2>3
<1>13. CASE OpenSession(v)
  <2>1. s.pc = "in" /\ At(v, "opening")
    BY <1>5, <1>6, <1>13, GotoSets DEF OpenSession
  <2>2. sessions' = [sessions EXCEPT ![v] = "open"] /\ UNCHANGED <<users, status, mints>>
    BY <1>13 DEF OpenSession, ledgerVars
  <2>3. Ordered(v)'
    BY <1>2, <1>5, <1>6, <2>1, <2>2 DEF Ordered, At
  <2>4. QED
    BY <1>1, <1>4, <1>5, <1>6, <1>7, <2>1, <2>2, <2>3, VisitKeeps DEF Granted
<1>14. QED
  BY <1>10, <1>11, <1>12, <1>13

-----------------------------------------------------------------------------
\* Nobody has asked for anything yet.
LEMMA SignInStarts == LedgerInit /\ SignInInit => SignInInv
<1> SUFFICES ASSUME LedgerInit, SignInInit PROVE SignInInv
  OBVIOUS
<1>1. LedgerInv
  BY InitInv
<1>2. SignInTypeOK
  BY DEF SignInInit, SignInTypeOK, Unsent, NewVisit, LinkRow, Stage
<1>3. \A v \in Visit : At(v, "new") /\ sessions[v] = "none" /\ users[v] = Nobody
  BY DEF SignInInit, At, NewVisit, User
<1>4. SignUpOrder
  <2>1. \A u \in User : WalletOf[u] \in Wallet /\ GrantRef[u] \in Ref
    BY SignInAssumption
  <2>2. \A u \in User : Untouched(u)
    BY <2>1 DEF Untouched, LedgerInit
  <2>3. QED
    BY <1>3, <2>2 DEF SignUpOrder, Ordered, At, User
<1>5. UsersCanSpend /\ SessionOrder /\ LinkOrder /\ OneUserPerAddress
  BY <1>3 DEF UsersCanSpend, SessionOrder, LinkOrder, OneUserPerAddress, User
<1>6. QED
  BY <1>1, <1>2, <1>4, <1>5 DEF SignInInv

\* Every step of a sign-in keeps the invariant.
LEMMA SignInKeeps == SignInInv /\ [SignInNext]_<<ledgerVars, signInVars>> => SignInInv'
<1> SUFFICES ASSUME SignInInv, [SignInNext]_<<ledgerVars, signInVars>> PROVE SignInInv'
  OBVIOUS
<1>1. ASSUME NEW t \in Spelling, NEW l \in Link, Request(Address(t), l) PROVE SignInInv'
  BY <1>1, RequestKeeps DEF Address, Email
<1>2. CASE \/ \E e \in Email : CoolDown(e)
           \/ \E l \in Link : Age(l)
           \/ \E v \in Visit : EndSession(v)
  BY <1>2, TimeKeeps
<1>3. ASSUME NEW v \in Visit, Verify(v) PROVE SignInInv'
  BY <1>3, SpendKeeps, ReadingKeeps, WritingKeeps DEF Verify
<1>4. ASSUME NEW v \in Visit, Cut(v) PROVE SignInInv'
  BY <1>4, ReadingKeeps
<1>5. CASE UNCHANGED <<ledgerVars, signInVars>>
  <2>1. UNCHANGED <<ledgerVars, asked, links, visits, users, sessions>>
    BY <1>5 DEF signInVars
  <2>2. \A v \in Visit : At(v, "spent") => links'[visits[v].link].age \in {"good", "expired"}
    BY <2>1 DEF SignInInv, LinkOrder, At
  <2>3. asked \subseteq Email /\ links \in [Link -> LinkRow]
        /\ sessions \in [Visit -> {"none", "open", "ended", "pruned"}]
    BY DEF SignInInv, SignInTypeOK
  <2>4. QED
    BY <2>1, <2>2, <2>3, LinksKeep DEF Presentable
<1>6. QED
  BY <1>1, <1>2, <1>3, <1>4, <1>5 DEF SignInNext

\* The invariant of signing in.
THEOREM SignInSafe == SignInSpec => []SignInInv
BY SignInStarts, SignInKeeps, PTL DEF SignInSpec

\* The tables of the accounts keep their types: above all, addresses are
\* normalised, so that one person is not two (SignInTypeOK).
THEOREM SignInTypes == SignInSpec => []SignInTypeOK
<1>1. SignInInv => SignInTypeOK
  BY DEF SignInInv
<1>2. QED
  BY <1>1, SignInSafe, PTL

\* Whoever has a row among the users has an open wallet and one grant
\* (UsersCanSpend).
THEOREM SignedUpCanSpend == SignInSpec => []UsersCanSpend
<1>1. SignInInv => UsersCanSpend
  BY DEF SignInInv
<1>2. QED
  BY <1>1, SignInSafe, PTL

\* One address is one user and one link one session, and pruning takes no
\* link from under a visit (LinkOpensOneSession).
THEOREM LinksAreSingleUse == SignInSpec => []LinkOpensOneSession
<1>1. SignInInv => LinkOpensOneSession
  BY DEF SignInInv, LinkOpensOneSession, SpentLinkIsReadable, LinkOrder, OneUserPerAddress, At
<1>2. QED
  BY <1>1, SignInSafe, PTL

-----------------------------------------------------------------------------
\* A checkout is opened by somebody who is there, or for nobody, and the
\* provider takes a 200 for final only of a payment that has cleared.
PayersAreKnown ==
    \A p \in Payment : payments[p] # Unopened =>
        /\ payments[p].user = Stranger \/ Known(payments[p].user)
        /\ payments[p].answered => payments[p].state = "paid"

\* A handler has done what it is past: the mint, then the row.
HookOrder ==
    \A h \in Hook : hooks[h] # Idle =>
        LET p == hooks[h].payment
        IN  /\ payments[p].state \in {"pending", "paid"}
            /\ hooks[h].status = "paid" => payments[p].state = "paid"
            /\ Doing(h, "crediting") => Owed(p)
            /\ Doing(h, "recording") => mints[p] = 1
            /\ Doing(h, "answering") /\ hooks[h].status = "paid" /\ Owed(p) =>
                  mints[p] = 1 /\ p \in topups

RechargeInv ==
    /\ SignInInv /\ RechargeTypeOK
    /\ PayersAreKnown /\ HookOrder
    /\ CreditsArePaidFor /\ AnsweredIsCredited

\* Signing in takes no user away, and mints no payment.
LEMMA SignInLeavesPayments ==
    ASSUME SignInInv, SignInNext
    PROVE  /\ \A u : Known(u) => Known(u)'
           /\ \A p \in Payment : mints'[p] = mints[p]
<1>1. \A u \in User : users[u] # Nobody => users'[u] # Nobody
  <2>1. ASSUME NEW v \in Visit, InsertUser(v) PROVE \A u \in User : users[u] # Nobody => users'[u] # Nobody
    <3>1. visits[v].email # Nobody
      BY <2>1, PastLookUp, SignInAssumption DEF InsertUser, At, Serving, Over
    <3>2. QED
      BY <2>1, <3>1 DEF InsertUser, SignInInv, SignInTypeOK
  <2>2. CASE UNCHANGED users
    BY <2>2
  <2>3. QED
    BY <2>1, <2>2 DEF SignInNext, Verify, Request, CoolDown, Age, Cut, EndSession, Spend, ReadLink,
                      LookUp, CreateWallet, MintGrant, EnsureFunded, OpenSession
<1>2. \A p \in Payment : mints'[p] = mints[p]
  <2>1. ASSUME NEW v \in Visit, MintGrant(v) PROVE \A p \in Payment : mints'[p] = mints[p]
    <3>1. visits[v].user \in User
      BY <2>1, PastLookUp DEF MintGrant, At, Serving, Over
    <3>2. GrantRef[visits[v].user] \notin Payment
      BY <3>1, SignInAssumption
    <3>3. QED
      BY <2>1, <3>2, PaymentAssumption
         DEF MintGrant, Mint, ledgerVars, SignInInv, LedgerInv, LedgerTypeOK
  <2>2. CASE UNCHANGED mints
    BY <2>2
  <2>3. QED
    BY <2>1, <2>2 DEF SignInNext, Verify, Request, CoolDown, Age, Cut, EndSession, Spend, ReadLink,
                      LookUp, CreateWallet, InsertUser, EnsureFunded, OpenSession, CreateAccount,
                      ledgerVars
<1>3. QED
  BY <1>1, <1>2 DEF Known

\* And a recharge leaves signing in alone.
LEMMA PaymentsLeaveSignIn ==
    ASSUME SignInInv, UNCHANGED signInVars, [LedgerNext]_ledgerVars, UNCHANGED status,
           \A r \in Ref \ Payment : mints'[r] = mints[r]
    PROVE  SignInInv'
<1>1. LedgerInv'
  BY BookKept DEF SignInInv
<1>2. \A u \in User : mints'[GrantRef[u]] = mints[GrantRef[u]]
  BY SignInAssumption
<1>3. UNCHANGED <<asked, links, visits, users, sessions>>
  BY DEF signInVars
<1>4. SignInTypeOK' /\ SessionOrder' /\ OneUserPerAddress' /\ LinkOrder'
  BY <1>3 DEF SignInInv, SignInTypeOK, SessionOrder, OneUserPerAddress, LinkOrder, At, Presentable
<1>5. SignUpOrder' /\ UsersCanSpend'
  BY <1>2, <1>3 DEF SignInInv, SignUpOrder, Ordered, UsersCanSpend, Untouched, Granted, At, User
<1>6. QED
  BY <1>1, <1>4, <1>5 DEF SignInInv

\* A step that signs in.
LEMMA SigningInKeeps ==
    ASSUME RechargeInv, [SignInNext]_<<ledgerVars, signInVars>>, UNCHANGED rechargeVars
    PROVE  RechargeInv'
<1>1. SignInInv'
  BY SignInKeeps DEF RechargeInv
<1>2. (\A u : Known(u) => Known(u)') /\ (\A p \in Payment : mints'[p] = mints[p])
  BY SignInLeavesPayments DEF RechargeInv, signInVars, ledgerVars, Known
<1>3. UNCHANGED <<payments, hooks, topups, cuts>>
  BY DEF rechargeVars
<1>4. RechargeTypeOK'
  BY <1>1, <1>3 DEF RechargeInv, RechargeTypeOK, SignInInv, LedgerInv
<1>5. PayersAreKnown'
  BY <1>2, <1>3 DEF RechargeInv, PayersAreKnown
<1>6. \A p \in Payment : Owed(p)' <=> Owed(p)
  BY <1>3 DEF Owed
<1>7. CreditsArePaidFor' /\ AnsweredIsCredited'
  BY <1>2, <1>3, <1>6 DEF RechargeInv, CreditsArePaidFor, AnsweredIsCredited
<1>8. HookOrder'
  <2>1. ASSUME NEW h \in Hook, hooks[h] # Idle PROVE hooks[h].payment \in Payment
    BY <2>1 DEF RechargeInv, RechargeTypeOK, Event
  <2>2. QED
    BY <1>2, <1>3, <1>6, <2>1 DEF RechargeInv, HookOrder, Doing
<1>9. QED
  BY <1>1, <1>4, <1>5, <1>7, <1>8 DEF RechargeInv

\* A step of the payer or of the provider: one payment opens or clears, and
\* what is known of the others stays.
LEMMA PayingKeeps ==
    ASSUME RechargeInv, UNCHANGED <<ledgerVars, signInVars, hooks, topups, cuts>>,
           NEW p \in Payment, NEW bill \in Bill, payments' = [payments EXCEPT ![p] = bill],
           \/ /\ payments[p] = Unopened
              /\ bill.state = "open" /\ ~bill.answered
              /\ bill.user = Stranger \/ Known(bill.user)
           \/ /\ payments[p] \in Bill /\ payments[p].state \in {"open", "pending"}
              /\ bill = [payments[p] EXCEPT !.state = bill.state]
              /\ payments[p].state = "pending" => bill.state = "paid"
              /\ bill.state \in {"pending", "paid"}
    PROVE  RechargeInv'
<1>1. SignInInv'
  BY SignInKeeps DEF RechargeInv
<1>2. /\ UNCHANGED <<mints, users, hooks, topups, cuts>>
      /\ payments'[p] = bill
      /\ \A q \in Payment : q # p => payments'[q] = payments[q]
  BY DEF RechargeInv, RechargeTypeOK, ledgerVars, signInVars
<1>3. RechargeTypeOK'
  BY <1>1, <1>2 DEF RechargeInv, RechargeTypeOK, SignInInv, LedgerInv
<1>4. PayersAreKnown'
  BY <1>2 DEF RechargeInv, PayersAreKnown, Known, Bill, Unopened
<1>5. /\ ~Owed(p)
      /\ \A q \in Payment : q # p => (Owed(q)' <=> Owed(q))
  BY <1>2 DEF Owed, Unopened
<1>6. mints[p] = 0 /\ p \notin topups
  <2>1. mints[p] \in Nat
    BY PaymentAssumption DEF RechargeInv, SignInInv, LedgerInv, LedgerTypeOK
  <2>2. QED
    BY <1>5, <2>1 DEF RechargeInv, CreditsArePaidFor
<1>7. CreditsArePaidFor'
  BY <1>2, <1>5, <1>6 DEF RechargeInv, CreditsArePaidFor
<1>8. AnsweredIsCredited'
  <2>1. ~bill.answered
    BY DEF RechargeInv, PayersAreKnown, Bill, Unopened
  <2>2. QED
    BY <1>2, <1>5, <2>1 DEF RechargeInv, AnsweredIsCredited
<1>9. HookOrder'
  BY <1>2, <1>5, <1>6 DEF RechargeInv, RechargeTypeOK, HookOrder, Doing, Event, Idle, Unopened
<1>10. QED
  BY <1>1, <1>3, <1>4, <1>7, <1>8, <1>9 DEF RechargeInv

\* A handler's step that touches no book: it moves to another place, of which
\* what it is past must hold.
LEMMA HandlingKeeps ==
    ASSUME RechargeInv, UNCHANGED <<ledgerVars, signInVars>>, NEW h \in Hook,
           NEW next \in {Idle} \cup Event, hooks' = [hooks EXCEPT ![h] = next],
           NEW p \in Payment, next # Idle => next.payment = p,
           payments' = payments \/ /\ payments' = [payments EXCEPT ![p].answered = TRUE]
                                   /\ payments[p].state = "paid"
                                   /\ Owed(p) => mints[p] = 1 /\ p \in topups,
           topups' = topups \/ (topups' = topups \cup {p} /\ mints[p] = 1),
           cuts' \in 0..MaxCuts,
           next # Idle =>
               /\ payments[p].state \in {"pending", "paid"}
               /\ next.status = "paid" => payments[p].state = "paid"
               /\ next.pc = "crediting" => Owed(p)
               /\ next.pc = "recording" => mints[p] = 1
               /\ next.pc = "answering" /\ next.status = "paid" /\ Owed(p) =>
                     mints[p] = 1 /\ p \in topups'
    PROVE  RechargeInv'
<1>1. SignInInv'
  BY SignInKeeps DEF RechargeInv
<1>2. /\ UNCHANGED <<mints, users>>
      /\ hooks'[h] = next
      /\ \A g \in Hook : g # h => hooks'[g] = hooks[g]
  BY DEF RechargeInv, RechargeTypeOK, ledgerVars, signInVars
<1>3. \A q \in Payment :
         /\ payments[q] = Unopened => payments'[q] = Unopened
         /\ payments[q] \in Bill =>
               /\ payments'[q] \in Bill
               /\ payments'[q].state = payments[q].state /\ payments'[q].user = payments[q].user
               /\ payments'[q].cents = payments[q].cents
               /\ payments'[q].answered # payments[q].answered => q = p
  <2>1. CASE payments' = payments
    BY <2>1
  <2>2. CASE payments' = [payments EXCEPT ![p].answered = TRUE] /\ payments[p].state = "paid"
    <3>1. payments[p] \in Bill
      BY <2>2 DEF RechargeInv, RechargeTypeOK, Unopened
    <3>2. payments'[p] = [payments[p] EXCEPT !.answered = TRUE]
      BY <2>2 DEF RechargeInv, RechargeTypeOK
    <3>3. \A q \in Payment : q # p => payments'[q] = payments[q]
      BY <2>2 DEF RechargeInv, RechargeTypeOK
    <3>4. payments[p] # Unopened
      BY <2>2 DEF Unopened
    <3>5. QED
      BY <3>1, <3>2, <3>3, <3>4 DEF Bill
  <2>3. QED
    BY <2>1, <2>2
<1>4. \A q \in Payment : payments[q] = Unopened \/ payments[q] \in Bill
  BY DEF RechargeInv, RechargeTypeOK
<1>5. \A q \in Payment : /\ Owed(q)' <=> Owed(q)
                         /\ payments'[q].state = payments[q].state
                         /\ payments'[q] = Unopened <=> payments[q] = Unopened
  BY <1>3, <1>4 DEF Owed, Unopened, Bill
<1>6. RechargeTypeOK'
  <2>1. payments' \in [Payment -> {Unopened} \cup Bill]
    BY <1>3, <1>4 DEF RechargeInv, RechargeTypeOK
  <2>2. SignInTypeOK' /\ LedgerTypeOK'
    BY <1>1 DEF SignInInv, LedgerInv
  <2>3. hooks' \in [Hook -> {Idle} \cup Event] /\ topups' \subseteq Payment
    BY DEF RechargeInv, RechargeTypeOK
  <2>4. QED
    BY <2>1, <2>2, <2>3 DEF RechargeTypeOK, RechargeInv
<1>7. PayersAreKnown'
  BY <1>2, <1>3, <1>4, <1>5 DEF RechargeInv, PayersAreKnown, Known
<1>8. CreditsArePaidFor'
  BY <1>2, <1>5 DEF RechargeInv, CreditsArePaidFor
<1>9. AnsweredIsCredited'
  <2>1. ASSUME NEW q \in Payment, Owed(q)', payments'[q].answered
        PROVE  mints[q] = 1 /\ q \in topups'
    <3>1. payments[q] \in Bill /\ Owed(q)
      BY <1>4, <1>5, <2>1 DEF Owed, Unopened
    <3>2. CASE payments'[q] = payments[q]
      BY <2>1, <3>1, <3>2 DEF RechargeInv, AnsweredIsCredited
    <3>3. CASE payments'[q] # payments[q]
      <4>1. q = p /\ payments' # payments
        BY <3>3 DEF RechargeInv, RechargeTypeOK
      <4>2. QED
        BY <3>1, <4>1
    <3>4. QED
      BY <3>2, <3>3
  <2>2. QED
    BY <1>2, <2>1 DEF AnsweredIsCredited
<1>10. HookOrder'
  <2>1. ASSUME NEW g \in Hook, hooks[g] # Idle PROVE hooks[g].payment \in Payment
    BY <2>1 DEF RechargeInv, RechargeTypeOK, Event
  <2>2. QED
    BY <1>2, <1>5, <2>1 DEF RechargeInv, HookOrder, Doing
<1>11. QED
  BY <1>1, <1>6, <1>7, <1>8, <1>9, <1>10 DEF RechargeInv

\* The mint: the one step of a recharge in the ledger.
LEMMA CreditKeeps ==
    ASSUME RechargeInv, NEW h \in Hook, Credit(h)
    PROVE  RechargeInv'
<1> DEFINE p == hooks[h].payment
           w == WalletOf[Payer(h)]
           next == [hooks[h] EXCEPT !.pc = "recording"]
<1>1. /\ hooks[h] \in Event /\ Doing(h, "crediting") /\ p \in Payment
      /\ hooks' = [hooks EXCEPT ![h] = next] /\ next \in Event /\ next.pc = "recording"
      /\ next.payment = p /\ next.status = hooks[h].status
  BY DEF Credit, Doing, Step, RechargeInv, RechargeTypeOK, Idle, Event
<1>2. /\ UNCHANGED <<signInVars, payments, topups, cuts>>
      /\ MintUnlessMinted(w, Due(h), p)
  BY DEF Credit
<1>3. Owed(p) /\ (hooks[h].status = "paid" => payments[p].state = "paid")
  BY <1>1 DEF RechargeInv, HookOrder, Idle, Doing
<1>4. payments[p] \in Bill
  BY <1>1, <1>3 DEF RechargeInv, RechargeTypeOK, Owed, Unopened
<1>5. w \in Wallet /\ Due(h) \in Amount
  <2>1. Payer(h) \in User
    BY <1>3, <1>4 DEF Owed, Payer, Bill
  <2>2. payments[p].cents \in Cents
    BY <1>4 DEF Bill
  <2>3. QED
    BY <1>3, <2>1, <2>2, SignInAssumption, RechargeAssumption DEF Owed, Due
<1>6. mints \in [Ref -> Nat] /\ p \in Ref
  BY <1>1, PaymentAssumption DEF RechargeInv, SignInInv, LedgerInv, LedgerTypeOK
<1> HIDE DEF w
<1>7. \/ /\ mints[p] > 0 /\ UNCHANGED ledgerVars
      \/ /\ MintOnce(w, Due(h), p)
         /\ mints[p] = 0 /\ mints' = [mints EXCEPT ![p] = @ + 1] /\ UNCHANGED status
  BY <1>2 DEF MintUnlessMinted, MintOnce, Mint
<1>8. /\ [LedgerNext]_ledgerVars /\ UNCHANGED status
      /\ \A r \in Ref \ Payment : mints'[r] = mints[r]
  BY <1>1, <1>5, <1>6, <1>7 DEF LedgerNext, ledgerVars
<1>9. SignInInv'
  BY <1>2, <1>8, PaymentsLeaveSignIn DEF RechargeInv
<1>10. mints'[p] = 1 /\ \A q \in Payment : q # p => mints'[q] = mints[q]
  BY <1>1, <1>6, <1>7, PaymentAssumption DEF RechargeInv, CreditsArePaidFor, ledgerVars
<1>11. \A q \in Payment : Owed(q)' <=> Owed(q)
  BY <1>2 DEF Owed
<1>12. hooks'[h] = next /\ \A g \in Hook : g # h => hooks'[g] = hooks[g]
  BY <1>1 DEF RechargeInv, RechargeTypeOK
<1> HIDE DEF next
<1>13. RechargeTypeOK'
  BY <1>1, <1>2, <1>9 DEF RechargeInv, RechargeTypeOK, SignInInv, LedgerInv
<1>14. PayersAreKnown'
  BY <1>2 DEF RechargeInv, PayersAreKnown, Known, signInVars
<1>15. CreditsArePaidFor' /\ AnsweredIsCredited'
  BY <1>2, <1>3, <1>10, <1>11 DEF RechargeInv, CreditsArePaidFor, AnsweredIsCredited
<1>16. HookOrder'
  <2>1. ASSUME NEW g \in Hook, hooks[g] # Idle PROVE hooks[g].payment \in Payment
    BY <2>1 DEF RechargeInv, RechargeTypeOK, Event
  <2>2. payments[p].state = "paid"
    BY <1>3 DEF Owed
  <2>3. QED
    BY <1>1, <1>2, <1>10, <1>11, <1>12, <2>1, <2>2 DEF RechargeInv, HookOrder, Doing
<1>17. QED
  BY <1>9, <1>13, <1>14, <1>15, <1>16 DEF RechargeInv

\* What the payer does: opening a checkout, paying.
LEMMA PayerKeeps ==
    ASSUME RechargeInv, NEW p \in Payment,
           \/ \E v \in Visit, c \in Cents : Checkout(p, v, c)
           \/ \E u \in User \cup {Stranger}, c \in Cents : CheckoutByHand(p, u, c)
           \/ \E state \in {"pending", "paid"} : PayNow(p, state)
    PROVE  RechargeInv'
<1>1. ASSUME NEW u \in User \cup {Stranger}, NEW c \in Cents, u = Stranger \/ Known(u),
             payments[p] = Unopened, payments' = [payments EXCEPT ![p] = Checked(u, c)],
             UNCHANGED <<ledgerVars, signInVars, hooks, topups, cuts>>
      PROVE  RechargeInv'
  <2>1. /\ Checked(u, c) \in Bill /\ Checked(u, c).state = "open"
        /\ ~Checked(u, c).answered /\ Checked(u, c).user = u
    BY DEF Checked, Bill
  <2>2. QED
    BY <1>1, <2>1, PayingKeeps
<1>2. ASSUME NEW v \in Visit, NEW c \in Cents, Checkout(p, v, c) PROVE RechargeInv'
  <2>1. At(v, "in")
    BY <1>2 DEF Checkout, RechargeInv, SignInInv, SessionOrder
  <2>2. visits[v].user \in User /\ Known(visits[v].user)
    BY <2>1, PastLookUp DEF RechargeInv, SignInInv, SignUpOrder, Ordered, At, Known, Serving, Over
  <2>3. QED
    BY <1>1, <1>2, <2>2 DEF Checkout
<1>3. ASSUME NEW u \in User \cup {Stranger}, NEW c \in Cents, CheckoutByHand(p, u, c)
      PROVE  RechargeInv'
  BY <1>1, <1>3 DEF CheckoutByHand
<1>4. ASSUME NEW state \in {"pending", "paid"}, PayNow(p, state) PROVE RechargeInv'
  <2> DEFINE bill == [payments[p] EXCEPT !.state = state]
  <2>1. payments[p].state \in {"open", "pending"} /\ (payments[p].state = "pending" => state = "paid")
    BY <1>4 DEF PayNow
  <2>2. payments[p] \in Bill
    BY <2>1 DEF RechargeInv, RechargeTypeOK, Unopened
  <2>3. bill \in Bill /\ bill.state = state
    BY <2>2 DEF Bill
  <2>4. payments' = [payments EXCEPT ![p] = bill]
    BY <1>4 DEF PayNow
  <2>5. UNCHANGED <<ledgerVars, signInVars, hooks, topups, cuts>>
    BY <1>4 DEF PayNow
  <2> HIDE DEF bill
  <2>6. bill = [payments[p] EXCEPT !.state = bill.state]
    BY <2>3 DEF bill
  <2>7. QED
    BY <2>1, <2>2, <2>3, <2>4, <2>5, <2>6, PayingKeeps
<1>5. QED
  BY <1>2, <1>3, <1>4

\* A handler is begun, or cut short.
LEMMA HookStartsOrEnds ==
    ASSUME RechargeInv, NEW h \in Hook,
           CutHook(h) \/ \E p \in Payment : Announce(h, p)
    PROVE  RechargeInv'
<1>1. ASSUME NEW p \in Payment, Announce(h, p) PROVE RechargeInv'
  <2> DEFINE next == [pc |-> "received", payment |-> p,
                      status |-> IF payments[p].state = "paid" THEN "paid" ELSE "unpaid"]
  <2>1. next \in Event /\ hooks' = [hooks EXCEPT ![h] = next] /\ cuts' \in 0..MaxCuts
    BY <1>1 DEF Announce, Event, RechargeInv, RechargeTypeOK
  <2>2. payments[p].state \in {"pending", "paid"}
    BY <1>1 DEF Announce
  <2>3. UNCHANGED <<ledgerVars, signInVars, payments, topups>>
    BY <1>1 DEF Announce
  <2>4. next.pc = "received" /\ next.payment = p
        /\ (next.status = "paid" => payments[p].state = "paid")
    OBVIOUS
  <2> HIDE DEF next
  <2>5. QED
    BY <2>1, <2>2, <2>3, <2>4, HandlingKeeps
<1>2. CASE CutHook(h)
  <2> DEFINE p == hooks[h].payment
  <2>1. p \in Payment /\ hooks' = [hooks EXCEPT ![h] = Idle] /\ cuts' \in 0..MaxCuts
    BY <1>2, RechargeAssumption DEF CutHook, Event, RechargeInv, RechargeTypeOK
  <2>2. UNCHANGED <<ledgerVars, signInVars, payments, topups>>
    BY <1>2 DEF CutHook
  <2> HIDE DEF p
  <2>3. QED
    BY <2>1, <2>2, HandlingKeeps
<1>3. QED
  BY <1>1, <1>2

\* A handler reads the event, writes the row, and answers.
LEMMA HookKeeps ==
    ASSUME RechargeInv, NEW h \in Hook, Receive(h) \/ Record(h) \/ Answer(h)
    PROVE  RechargeInv'
<1> DEFINE p == hooks[h].payment
<1>1. hooks[h] # Idle /\ hooks[h] \in Event /\ p \in Payment /\ cuts \in 0..MaxCuts
  BY DEF Receive, Record, Answer, Doing, Idle, Event, RechargeInv, RechargeTypeOK
<1>2. /\ payments[p].state \in {"pending", "paid"}
      /\ hooks[h].status = "paid" => payments[p].state = "paid"
      /\ Doing(h, "recording") => mints[p] = 1
      /\ Doing(h, "answering") /\ hooks[h].status = "paid" /\ Owed(p) => mints[p] = 1 /\ p \in topups
  BY <1>1 DEF RechargeInv, HookOrder
<1>3. payments[p] \in Bill /\ (payments[p].user # Stranger => Known(payments[p].user))
  BY <1>1, <1>2 DEF RechargeInv, RechargeTypeOK, PayersAreKnown, Unopened
<1>4. ASSUME NEW pc \in {"crediting", "answering"}, Step(h, pc)
      PROVE  LET next == [hooks[h] EXCEPT !.pc = pc]
             IN  /\ hooks' = [hooks EXCEPT ![h] = next] /\ next \in Event
                 /\ next.pc = pc /\ next.payment = p /\ next.status = hooks[h].status
  BY <1>1, <1>4 DEF Step, Event
<1>5. CASE Receive(h)
  <2> DEFINE pc == IF Creditable(h) THEN "crediting" ELSE "answering"
             next == [hooks[h] EXCEPT !.pc = pc]
  <2>1. UNCHANGED <<ledgerVars, signInVars, payments, topups>> /\ cuts' \in 0..MaxCuts
    BY <1>1, <1>5 DEF Receive
  <2>2. Step(h, pc)
    BY <1>5 DEF Receive
  <2>3. /\ hooks' = [hooks EXCEPT ![h] = next] /\ next \in Event
        /\ next.pc = pc /\ next.payment = p /\ next.status = hooks[h].status
    BY <1>4, <2>2
  <2>4. Creditable(h) => Owed(p)
    BY <1>2 DEF Creditable, Owed, Due, Payer, Known, Stranger, User, Visit
  <2>5. hooks[h].status = "paid" /\ Owed(p) => Creditable(h)
    BY <1>3 DEF Creditable, Owed, Due, Payer
  <2>6. pc \in {"crediting", "answering"} /\ (pc = "crediting" <=> Creditable(h))
    OBVIOUS
  <2> HIDE DEF next, p, pc
  <2>7. QED
    BY <1>1, <1>2, <2>1, <2>3, <2>4, <2>5, <2>6, HandlingKeeps
<1>6. CASE Record(h)
  <2> DEFINE next == [hooks[h] EXCEPT !.pc = "answering"]
  <2>1. /\ UNCHANGED <<ledgerVars, signInVars, payments>> /\ cuts' \in 0..MaxCuts
        /\ topups' = topups \cup {p} /\ mints[p] = 1
    BY <1>1, <1>2, <1>6 DEF Record
  <2>2. /\ hooks' = [hooks EXCEPT ![h] = next] /\ next \in Event
        /\ next.pc = "answering" /\ next.payment = p /\ next.status = hooks[h].status
    BY <1>4, <1>6 DEF Record
  <2> HIDE DEF next, p
  <2>3. QED
    BY <1>1, <1>2, <2>1, <2>2, HandlingKeeps
<1>7. CASE Answer(h)
  <2>1. /\ UNCHANGED <<ledgerVars, signInVars, topups>> /\ cuts' \in 0..MaxCuts
        /\ hooks' = [hooks EXCEPT ![h] = Idle] /\ Doing(h, "answering")
        /\ payments' = IF hooks[h].status = "paid"
                       THEN [payments EXCEPT ![p].answered = TRUE] ELSE payments
    BY <1>1, <1>7 DEF Answer
  <2> HIDE DEF p
  <2>2. QED
    BY <1>1, <1>2, <2>1, HandlingKeeps
<1>8. QED
  BY <1>5, <1>6, <1>7

\* Every step of a recharge keeps the invariant.
LEMMA RechargeKeeps == RechargeInv /\ [RechargeNext]_allVars => RechargeInv'
<1> SUFFICES ASSUME RechargeInv, [RechargeNext]_allVars PROVE RechargeInv'
  OBVIOUS
<1>1. CASE SignInNext /\ UNCHANGED rechargeVars
  BY <1>1, SigningInKeeps
<1>2. CASE UNCHANGED allVars
  BY <1>2, SigningInKeeps DEF allVars
<1>3. ASSUME NEW p \in Payment,
             \/ \E v \in Visit, c \in Cents : Checkout(p, v, c)
             \/ \E u \in User \cup {Stranger}, c \in Cents : CheckoutByHand(p, u, c)
             \/ \E state \in {"pending", "paid"} : PayNow(p, state)
      PROVE  RechargeInv'
  BY <1>3, PayerKeeps
<1>4. ASSUME NEW h \in Hook, CutHook(h) \/ \E p \in Payment : Announce(h, p) PROVE RechargeInv'
  BY <1>4, HookStartsOrEnds
<1>5. ASSUME NEW h \in Hook, Webhook(h) PROVE RechargeInv'
  BY <1>5, HookKeeps, CreditKeeps DEF Webhook
<1>6. QED
  BY <1>1, <1>2, <1>3, <1>4, <1>5 DEF RechargeNext

\* Before anybody has paid.
LEMMA RechargeStarts == RechargeInit => RechargeInv
<1> SUFFICES ASSUME RechargeInit PROVE RechargeInv
  OBVIOUS
<1>1. SignInInv
  BY SignInStarts DEF RechargeInit
<1>2. /\ payments = [p \in Payment |-> Unopened]
      /\ hooks = [h \in Hook |-> Idle]
      /\ topups = {} /\ cuts = 0
      /\ \A p \in Payment : mints[p] = 0
  BY PaymentAssumption DEF RechargeInit, LedgerInit
<1>3. RechargeTypeOK
  BY <1>1, <1>2, RechargeAssumption DEF RechargeTypeOK, SignInInv, LedgerInv
<1>4. PayersAreKnown /\ HookOrder
  BY <1>2 DEF PayersAreKnown, HookOrder
<1>5. CreditsArePaidFor /\ AnsweredIsCredited
  BY <1>2 DEF CreditsArePaidFor, AnsweredIsCredited, Owed, Unopened
<1>6. QED
  BY <1>1, <1>3, <1>4, <1>5 DEF RechargeInv

\* The invariant of the recharge.
THEOREM RechargeSafe == RechargeSpec => []RechargeInv
BY RechargeStarts, RechargeKeeps, PTL DEF RechargeSpec

\* The tables keep their types: no bill is of an amount nobody asked for
\* (RechargeTypeOK).
THEOREM RechargeTypes == RechargeSpec => []RechargeTypeOK
<1>1. RechargeInv => RechargeTypeOK
  BY DEF RechargeInv
<1>2. QED
  BY <1>1, RechargeSafe, PTL

\* A payment is credited at most once, not before it has cleared, and never
\* after its row (CreditsArePaidFor).
THEOREM CreditedAtMostOnce == RechargeSpec => []CreditsArePaidFor
<1>1. RechargeInv => CreditsArePaidFor
  BY DEF RechargeInv
<1>2. QED
  BY <1>1, RechargeSafe, PTL

\* What has been answered for has been credited (AnsweredIsCredited).
THEOREM NothingAnsweredIsLost == RechargeSpec => []AnsweredIsCredited
<1>1. RechargeInv => AnsweredIsCredited
  BY DEF RechargeInv
<1>2. QED
  BY <1>1, RechargeSafe, PTL

\* And through all of it the ledger's own promises hold (LedgerInv).
THEOREM RechargeKeepsTheBook == RechargeSpec => []LedgerInv
<1>1. RechargeInv => LedgerInv
  BY DEF RechargeInv, SignInInv
<1>2. QED
  BY <1>1, RechargeSafe, PTL

-----------------------------------------------------------------------------
(***************************************************************************)
(* A sum over a finite set, taken as the library takes it: an element is   *)
(* chosen, and the sum of the others comes after it.  That the choice does *)
(* not matter is an induction over the size of the set.                    *)
(***************************************************************************)
First(s) == CHOOSE x \in s : TRUE

IsSum(parts, worth, sum) ==
    /\ sum[{}] = 0
    /\ \A s \in parts : s # {} => sum[s] = worth[First(s)] + sum[s \ {First(s)}]

Sums(S, worth, sum) == sum \in [SUBSET S -> Int] /\ IsSum(SUBSET S, worth, sum)

\* Every finite set of integers has a sum, and every part of it.
LEMMA SumExists ==
    ASSUME NEW S, IsFiniteSet(S), NEW worth \in [S -> Int]
    PROVE  \E sum : Sums(S, worth, sum)
<1> DEFINE Parts(n) == {s \in SUBSET S : Cardinality(s) <= n}
           Summed(n) == \E sum \in [Parts(n) -> Int] : IsSum(Parts(n), worth, sum)
           Bad == {n \in Nat : ~Summed(n)}
<1>1. \A s \in SUBSET S : IsFiniteSet(s) /\ Cardinality(s) \in Nat
  BY FS_Subset, FS_CardinalityType
<1>2. \A s \in SUBSET S : \A x \in s : Cardinality(s \ {x}) = Cardinality(s) - 1
  BY <1>1, FS_RemoveElement
<1>3. \A s \in SUBSET S : s # {} => First(s) \in s
  BY DEF First
<1>4. Cardinality({}) = 0 /\ \A s \in SUBSET S : Cardinality(s) = 0 => s = {}
  BY <1>1, FS_EmptySet
<1>5. Bad = {}
  <2>1. SUFFICES ASSUME Bad # {} PROVE FALSE
    OBVIOUS
  <2>2. PICK n \in Bad : \A k \in Bad : n <= k
    <3>1. Bad \subseteq Nat
      OBVIOUS
    <3> HIDE DEF Bad
    <3>2. QED
      BY <2>1, <3>1, LeastElement
  <2>3. n # 0
    <3>1. \A s \in Parts(0) : s = {}
      BY <1>1, <1>4
    <3>2. {} \in Parts(0)
      BY <1>4
    <3> HIDE DEF Parts
    <3>3. IsSum(Parts(0), worth, [s \in Parts(0) |-> 0])
      BY <3>1, <3>2 DEF IsSum
    <3>4. Summed(0)
      BY <3>3
    <3> HIDE DEF Summed
    <3>5. QED
      BY <2>2, <3>4
  <2>4. n \in Nat /\ n - 1 \in Nat /\ Summed(n - 1) /\ ~Summed(n)
    <3> HIDE DEF Summed
    <3>1. QED
      BY <2>2, <2>3
  <2>5. PICK sum \in [Parts(n - 1) -> Int] : IsSum(Parts(n - 1), worth, sum)
    BY <2>4
  <2> DEFINE more == [s \in Parts(n) |->
                        IF s \in Parts(n - 1) THEN sum[s] ELSE worth[First(s)] + sum[s \ {First(s)}]]
  <2>6. Parts(n - 1) \subseteq Parts(n) /\ {} \in Parts(n - 1)
    BY <1>1, <1>4, <2>4
  <2>7. ASSUME NEW s \in Parts(n), s # {}
        PROVE  First(s) \in S /\ s \ {First(s)} \in Parts(n - 1) /\ worth[First(s)] \in Int
    BY <1>1, <1>2, <1>3, <2>4, <2>7
  <2> HIDE DEF Parts
  <2>8. /\ \A s \in Parts(n - 1) : more[s] = sum[s] /\ sum[s] \in Int
        /\ \A s \in Parts(n) : s \notin Parts(n - 1) => more[s] = worth[First(s)] + sum[s \ {First(s)}]
    BY <2>5, <2>6 DEF IsSum
  <2>9. ASSUME NEW s \in Parts(n) PROVE more[s] \in Int
    <3>1. CASE s \in Parts(n - 1)
      BY <2>8, <3>1
    <3>2. CASE s \notin Parts(n - 1)
      <4>1. s # {}
        BY <2>6, <3>2
      <4>2. worth[First(s)] \in Int /\ sum[s \ {First(s)}] \in Int
        BY <2>5, <2>7, <4>1
      <4>3. more[s] = worth[First(s)] + sum[s \ {First(s)}]
        BY <2>8, <3>2
      <4> HIDE DEF more
      <4>4. QED
        BY <4>2, <4>3
    <3>3. QED
      BY <3>1, <3>2
  <2>10. ASSUME NEW s \in Parts(n), s # {}
         PROVE  more[s] = worth[First(s)] + more[s \ {First(s)}]
    BY <2>5, <2>7, <2>8, <2>10 DEF IsSum
  <2>11. more[{}] = 0
    BY <2>5, <2>6, <2>8 DEF IsSum
  <2>12. more \in [Parts(n) -> Int]
    BY <2>9
  <2> HIDE DEF more
  <2>13. IsSum(Parts(n), worth, more)
    BY <2>10, <2>11 DEF IsSum
  <2>14. QED
    BY <2>4, <2>12, <2>13
<1>6. Cardinality(S) \in Nat /\ Parts(Cardinality(S)) = SUBSET S
  BY FS_Subset, FS_CardinalityType
<1>7. Summed(Cardinality(S))
  <2> HIDE DEF Summed
  <2>1. QED
    BY <1>5, <1>6
<1> HIDE DEF Parts
<1>8. QED
  BY <1>6, <1>7 DEF Sums

\* Whichever element is taken first.
LEMMA AnyFirst ==
    ASSUME NEW S, IsFiniteSet(S), NEW worth \in [S -> Int], NEW sum, Sums(S, worth, sum)
    PROVE  \A s \in SUBSET S : \A y \in s : sum[s] = worth[y] + sum[s \ {y}]
<1> DEFINE Wrong(s) == \E y \in s : sum[s] # worth[y] + sum[s \ {y}]
           Bad == {n \in Nat : \E s \in SUBSET S : Cardinality(s) = n /\ Wrong(s)}
<1>1. \A s \in SUBSET S : IsFiniteSet(s) /\ Cardinality(s) \in Nat
  BY FS_Subset, FS_CardinalityType
<1>2. Bad = {}
  <2>1. SUFFICES ASSUME Bad # {} PROVE FALSE
    OBVIOUS
  <2>2. PICK n \in Bad : \A k \in Bad : n <= k
    <3>1. Bad \subseteq Nat
      OBVIOUS
    <3> HIDE DEF Bad
    <3>2. QED
      BY <2>1, <3>1, LeastElement
  <2>3. PICK s \in SUBSET S : Cardinality(s) = n /\ Wrong(s)
    BY <2>2
  <2>4. PICK y \in s : sum[s] # worth[y] + sum[s \ {y}]
    BY <2>3
  <2> DEFINE x == First(s)
  <2>5. x \in s /\ sum[s] = worth[x] + sum[s \ {x}]
    BY <2>4 DEF Sums, IsSum, First
  <2> HIDE DEF x
  <2>6. x # y
    BY <2>4, <2>5
  <2>7. ASSUME NEW z \in s PROVE ~Wrong(s \ {z})
    <3>1. s \ {z} \in SUBSET S /\ Cardinality(s \ {z}) = n - 1
      BY <1>1, <2>3, FS_RemoveElement
    <3>2. n \in Nat /\ n - 1 \in Nat
      BY <1>1, <2>3, <3>1
    <3>3. n - 1 \notin Bad
      BY <2>2, <3>2
    <3> HIDE DEF Wrong
    <3>4. QED
      BY <3>1, <3>2, <3>3
  <2>8. /\ sum[s \ {x}] = worth[y] + sum[(s \ {x}) \ {y}]
        /\ sum[s \ {y}] = worth[x] + sum[(s \ {y}) \ {x}]
    BY <2>5, <2>6, <2>7
  <2>9. (s \ {x}) \ {y} = (s \ {y}) \ {x} /\ (s \ {x}) \ {y} \in SUBSET S
    OBVIOUS
  <2>10. worth[x] \in Int /\ worth[y] \in Int /\ sum[(s \ {x}) \ {y}] \in Int
    BY <2>5, <2>9 DEF Sums
  <2> DEFINE rest == sum[(s \ {x}) \ {y}]
  <2>11. sum[s] = worth[x] + (worth[y] + rest) /\ sum[s \ {y}] = worth[x] + rest
    BY <2>5, <2>8, <2>9
  <2> HIDE DEF rest
  <2>12. rest \in Int
    BY <2>10 DEF rest
  <2>13. sum[s] = worth[y] + sum[s \ {y}]
    BY <2>10, <2>11, <2>12
  <2>14. QED
    BY <2>4, <2>13
<1>3. ASSUME NEW s \in SUBSET S, Wrong(s) PROVE FALSE
  <2> HIDE DEF Wrong
  <2>1. QED
    BY <1>1, <1>2, <1>3
<1>4. QED
  BY <1>3

Alike(S, worth, value) == \A x \in S : worth[x] = value[x]

\* Two sums agree on what both are of and value alike.
LEMMA SumsAgree ==
    ASSUME NEW T, NEW S \in SUBSET T, IsFiniteSet(S),
           NEW worth, NEW value, Alike(S, worth, value),
           NEW sum, IsSum(SUBSET S, worth, sum), NEW total, IsSum(SUBSET T, value, total)
    PROVE  sum[S] = total[S]
<1> DEFINE Bad == {n \in Nat : \E s \in SUBSET S : Cardinality(s) = n /\ sum[s] # total[s]}
<1>1. \A s \in SUBSET S : IsFiniteSet(s) /\ Cardinality(s) \in Nat
  BY FS_Subset, FS_CardinalityType
<1>2. Bad = {}
  <2>1. SUFFICES ASSUME Bad # {} PROVE FALSE
    OBVIOUS
  <2>2. PICK n \in Bad : \A k \in Bad : n <= k
    <3>1. Bad \subseteq Nat
      OBVIOUS
    <3> HIDE DEF Bad
    <3>2. QED
      BY <2>1, <3>1, LeastElement
  <2>3. PICK s \in SUBSET S : Cardinality(s) = n /\ sum[s] # total[s]
    BY <2>2
  <2>4. s # {}
    BY <2>3 DEF IsSum
  <2> DEFINE x == First(s)
  <2>5. x \in s /\ sum[s] = worth[x] + sum[s \ {x}] /\ total[s] = value[x] + total[s \ {x}]
    BY <2>4 DEF IsSum, First
  <2> HIDE DEF x
  <2>6. s \ {x} \in SUBSET S /\ Cardinality(s \ {x}) = n - 1
    BY <1>1, <2>3, <2>5, FS_RemoveElement
  <2>7. n \in Nat /\ n - 1 \in Nat
    BY <1>1, <2>3, <2>6
  <2>8. n - 1 \notin Bad
    BY <2>2, <2>7
  <2>9. sum[s \ {x}] = total[s \ {x}]
    BY <2>6, <2>7, <2>8
  <2>10. worth[x] = value[x]
    BY <2>5 DEF Alike
  <2>11. QED
    BY <2>3, <2>5, <2>9, <2>10
<1>3. QED
  BY <1>1, <1>2

\* What CreditsOf computes.
LEMMA CreditsAreASum ==
    ASSUME NEW bills, NEW chosen, IsFiniteSet(chosen),
           \A p \in chosen : Credits(bills[p].cents) \in Int
    PROVE  \E sum : /\ Sums(chosen, [p \in chosen |-> Credits(bills[p].cents)], sum)
                    /\ CreditsOf(bills, chosen) = sum[chosen]
<1> DEFINE worth == [p \in chosen |-> Credits(bills[p].cents)]
           Body(f) == [s \in SUBSET chosen |->
                          IF s = {} THEN 0
                          ELSE LET x == CHOOSE x \in s : TRUE
                               IN  Credits(bills[x].cents) + f[s \ {x}]]
           iter == CHOOSE f : f = Body(f)
<1>1. worth \in [chosen -> Int] /\ \A p \in chosen : worth[p] = Credits(bills[p].cents)
  OBVIOUS
<1> HIDE DEF worth
<1>2. PICK sum : Sums(chosen, worth, sum)
  BY <1>1, SumExists
<1>3. ASSUME NEW f
      PROVE  /\ DOMAIN Body(f) = SUBSET chosen /\ Body(f)[{}] = 0
             /\ \A s \in SUBSET chosen : s # {} => Body(f)[s] = worth[First(s)] + f[s \ {First(s)}]
  <2>1. ASSUME NEW s \in SUBSET chosen, s # {}
        PROVE  Body(f)[s] = Credits(bills[First(s)].cents) + f[s \ {First(s)}] /\ First(s) \in chosen
    BY <2>1 DEF First
  <2>2. DOMAIN Body(f) = SUBSET chosen /\ Body(f)[{}] = 0
    OBVIOUS
  <2> HIDE DEF Body
  <2>3. QED
    BY <1>1, <2>1, <2>2
<1>4. sum = Body(sum)
  <2>1. \A s \in SUBSET chosen : sum[s] = Body(sum)[s]
    <3> HIDE DEF Body
    <3>1. QED
      BY <1>2, <1>3 DEF Sums, IsSum
  <2>2. sum = [s \in SUBSET chosen |-> sum[s]]
    BY <1>2 DEF Sums
  <2>3. Body(sum) = [s \in SUBSET chosen |-> Body(sum)[s]]
    OBVIOUS
  <2> HIDE DEF Body
  <2>4. QED
    BY <2>1, <2>2, <2>3
<1>5. iter = Body(iter)
  <2> HIDE DEF Body
  <2>1. QED
    BY <1>4
<1>6. CreditsOf(bills, chosen) = iter[chosen]
  BY DEF CreditsOf, MapThenSumSet, MapThenFoldSet
<1>7. IsSum(SUBSET chosen, worth, iter)
  <2> HIDE DEF iter, Body
  <2>1. {} \in SUBSET chosen
    OBVIOUS
  <2>2. QED
    BY <1>3, <1>5, <2>1 DEF IsSum
<1> HIDE DEF iter
<1>8. IsSum(SUBSET chosen, worth, sum)
  BY <1>2 DEF Sums
<1>9. sum[chosen] = iter[chosen]
  <2>1. chosen \in SUBSET chosen /\ Alike(chosen, worth, worth)
    BY DEF Alike
  <2>2. QED
    BY <1>7, <1>8, <2>1, SumsAgree
<1>10. QED
  BY <1>2, <1>6, <1>9 DEF worth

\* Once more is credited, it comes to so much more.
LEMMA OneMorePaid ==
    ASSUME NEW bills, NEW chosen, IsFiniteSet(chosen), NEW p, p \notin chosen,
           \A q \in chosen \cup {p} : Credits(bills[q].cents) \in Int
    PROVE  CreditsOf(bills, chosen \cup {p}) = CreditsOf(bills, chosen) + Credits(bills[p].cents)
<1> DEFINE more == chosen \cup {p}
           worth == [q \in chosen |-> Credits(bills[q].cents)]
           value == [q \in more |-> Credits(bills[q].cents)]
<1>1. IsFiniteSet(more) /\ chosen \subseteq more /\ p \in more /\ more \ {p} = chosen
  BY FS_AddElement
<1>2. value \in [more -> Int] /\ value[p] = Credits(bills[p].cents) /\ \A q \in chosen : worth[q] = value[q]
  OBVIOUS
<1>3. PICK sum : Sums(chosen, worth, sum) /\ CreditsOf(bills, chosen) = sum[chosen]
  BY CreditsAreASum
<1>4. PICK total : Sums(more, value, total) /\ CreditsOf(bills, more) = total[more]
  BY <1>1, CreditsAreASum
<1> HIDE DEF more, worth, value
<1>5. total[more] = value[p] + total[chosen]
  <2>1. ASSUME NEW s \in SUBSET more, NEW y \in s PROVE total[s] = value[y] + total[s \ {y}]
    BY <1>1, <1>2, <1>4, AnyFirst
  <2>2. more \in SUBSET more
    OBVIOUS
  <2>3. QED
    BY <1>1, <2>1, <2>2
<1>6. sum[chosen] = total[chosen]
  <2>1. IsSum(SUBSET chosen, worth, sum) /\ IsSum(SUBSET more, value, total)
    BY <1>3, <1>4 DEF Sums
  <2>2. chosen \in SUBSET more /\ Alike(chosen, worth, value)
    BY <1>1, <1>2 DEF Alike
  <2>3. QED
    BY <2>1, <2>2, SumsAgree
<1>7. sum[chosen] \in Int /\ value[p] \in Int
  BY <1>1, <1>2, <1>3 DEF Sums
<1>8. QED
  BY <1>2, <1>3, <1>4, <1>5, <1>6, <1>7 DEF more

\* Bills of the same amounts come to the same.
LEMMA SameBills ==
    ASSUME NEW bills, NEW others, NEW chosen, IsFiniteSet(chosen),
           \A p \in chosen : Credits(bills[p].cents) \in Int /\ others[p].cents = bills[p].cents
    PROVE  CreditsOf(others, chosen) = CreditsOf(bills, chosen)
<1> DEFINE worth == [p \in chosen |-> Credits(bills[p].cents)]
           value == [p \in chosen |-> Credits(others[p].cents)]
<1>1. \A p \in chosen : worth[p] = value[p] /\ Credits(others[p].cents) \in Int
  OBVIOUS
<1>2. PICK sum : Sums(chosen, worth, sum) /\ CreditsOf(bills, chosen) = sum[chosen]
  BY CreditsAreASum
<1>3. PICK total : Sums(chosen, value, total) /\ CreditsOf(others, chosen) = total[chosen]
  BY <1>1, CreditsAreASum
<1> HIDE DEF worth, value
<1>4. sum[chosen] = total[chosen]
  <2>1. IsSum(SUBSET chosen, worth, sum) /\ IsSum(SUBSET chosen, value, total)
    BY <1>2, <1>3 DEF Sums
  <2>2. chosen \in SUBSET chosen /\ Alike(chosen, worth, value)
    BY <1>1 DEF Alike
  <2>3. QED
    BY <2>1, <2>2, SumsAgree
<1>5. QED
  BY <1>2, <1>3, <1>4

\* It comes to a whole number.
LEMMA CreditsAreInt ==
    ASSUME NEW bills, NEW chosen, IsFiniteSet(chosen),
           \A p \in chosen : Credits(bills[p].cents) \in Int
    PROVE  CreditsOf(bills, chosen) \in Int
<1>1. PICK sum : /\ Sums(chosen, [p \in chosen |-> Credits(bills[p].cents)], sum)
                 /\ CreditsOf(bills, chosen) = sum[chosen]
  BY CreditsAreASum
<1>2. sum \in [SUBSET chosen -> Int]
  BY <1>1 DEF Sums
<1>3. chosen \in SUBSET chosen
  OBVIOUS
<1>4. QED
  BY <1>1, <1>2, <1>3

\* No payments come to nothing.
LEMMA NothingPaid ==
    ASSUME NEW bills
    PROVE  CreditsOf(bills, {}) = 0
<1>1. IsFiniteSet({}) /\ \A p \in {} : Credits(bills[p].cents) \in Int
  BY FS_EmptySet
<1>2. PICK sum : /\ Sums({}, [p \in {} |-> Credits(bills[p].cents)], sum)
                 /\ CreditsOf(bills, {}) = sum[{}]
  BY <1>1, CreditsAreASum
<1>3. QED
  BY <1>2 DEF Sums, IsSum

-----------------------------------------------------------------------------
\* What is in a wallet is what was minted into it, and of payments only so
\* many that they can be added up.
Accounted ==
    /\ WalletsAccountForPayments
    /\ \A u \in User : IsFiniteSet(PaidBy(u))

\* A minted payment is a bill, of an amount.
LEMMA MintedBill ==
    ASSUME RechargeInv, NEW p \in Payment, mints[p] > 0
    PROVE  payments[p] \in Bill /\ payments[p].state = "paid" /\ Credits(payments[p].cents) \in Int
<1>1. payments[p].state = "paid"
  BY DEF RechargeInv, CreditsArePaidFor, Owed
<1>2. payments[p] \in Bill
  BY <1>1 DEF RechargeInv, RechargeTypeOK, Unopened
<1>3. payments[p].cents \in Nat
  BY <1>2, RechargeAssumption DEF Bill
<1>4. QED
  BY <1>1, <1>2, <1>3 DEF Credits

\* Bills of minted payments that keep their payer and their amount.
LEMMA PaidByStays ==
    ASSUME RechargeInv, Accounted, NEW u \in User,
           \A p \in Payment : mints'[p] > 0 /\ payments'[p].user = u <=> mints[p] > 0 /\ payments[p].user = u,
           \A p \in Payment : mints[p] > 0 => payments'[p].cents = payments[p].cents
    PROVE  /\ PaidBy(u)' = PaidBy(u) /\ IsFiniteSet(PaidBy(u)')
           /\ CreditsOf(payments', PaidBy(u)') = CreditsOf(payments, PaidBy(u))
<1>1. PaidBy(u)' = PaidBy(u)
  BY DEF PaidBy
<1>2. \A p \in PaidBy(u) : Credits(payments[p].cents) \in Int /\ payments'[p].cents = payments[p].cents
  BY MintedBill DEF PaidBy
<1>3. IsFiniteSet(PaidBy(u))
  BY DEF Accounted
<1>4. CreditsOf(payments', PaidBy(u)) = CreditsOf(payments, PaidBy(u))
  BY <1>2, <1>3, SameBills
<1>5. QED
  BY <1>1, <1>3, <1>4

\* A mint pays one wallet.
LEMMA MintPays ==
    ASSUME LedgerInv, NEW w \in Wallet, NEW n \in Nat, NEW r \in Ref, Mint(w, n, r)
    PROVE  /\ balance'[w] = balance[w] + n
           /\ \A a \in Wallet : a # w => balance'[a] = balance[a]
           /\ mints' = [mints EXCEPT ![r] = @ + 1]
<1> DEFINE l1 == Leg(AcctMint, -n)
           l2 == Leg(w, n)
<1>1. l1 \in ALegs /\ l2 \in ALegs /\ NoLeg \in ALegs /\ Post(l1, l2, NoLeg)
  BY SystemAccounts DEF Mint, Leg, NoLeg, ALegs
<1>2. ASSUME NEW a \in Wallet PROVE balance'[a] = balance[a] + IF a = w THEN n ELSE 0
  <2>1. balance'[a] = balance[a] + Net(l1, a) + Net(l2, a) + Net(NoLeg, a) /\ balance[a] \in Int
    BY <1>1, SystemAccounts, PostEffect DEF LedgerInv, LedgerTypeOK
  <2>2. Net(l1, a) = 0 /\ Net(l2, a) = (IF a = w THEN n ELSE 0) /\ Net(NoLeg, a) = 0
    BY SystemAccounts DEF Net, Leg, NoLeg, System
  <2>3. QED
    BY <2>1, <2>2
<1>3. ASSUME NEW a \in Wallet PROVE balance[a] \in Int
  BY <1>3, SystemAccounts DEF LedgerInv, LedgerTypeOK
<1>4. QED
  BY <1>2, <1>3 DEF Mint

\* Granting once more is the grant more.
LEMMA OneMoreGrant ==
    ASSUME NEW n \in Int, NEW k \in Int
    PROVE  n * (k + 1) = n * k + n /\ n * k \in Int
OBVIOUS

\* The grant is accounted for by its own ref.
LEMMA GrantAccounted ==
    ASSUME RechargeInv, Accounted, NEW v \in Visit, MintGrant(v), UNCHANGED rechargeVars
    PROVE  Accounted'
<1> DEFINE t == visits[v].user
<1>1. t \in User /\ payments' = payments
  BY PastLookUp DEF MintGrant, At, Serving, Over, RechargeInv, rechargeVars
<1>2. WalletOf[t] \in Wallet /\ GrantRef[t] \in Ref /\ GrantRef[t] \notin Payment /\ NewGrant \in Nat
  BY <1>1, SignInAssumption, BoundAssumption
<1>3. LedgerInv /\ balance \in [Account -> Int] /\ mints \in [Ref -> Nat]
  BY DEF RechargeInv, SignInInv, LedgerInv, LedgerTypeOK
<1>4. CASE NewGrant = 0
  <2>1. UNCHANGED <<balance, mints>>
    BY <1>4 DEF MintGrant, ledgerVars
  <2>2. ASSUME NEW u \in User PROVE /\ CreditsOf(payments', PaidBy(u)') = CreditsOf(payments, PaidBy(u))
                                    /\ IsFiniteSet(PaidBy(u)')
    BY <1>1, <2>1, PaidByStays
  <2>3. QED
    BY <2>1, <2>2 DEF Accounted, WalletsAccountForPayments
<1>5. CASE NewGrant > 0
  <2>1. Mint(WalletOf[t], NewGrant, GrantRef[t])
    BY <1>5 DEF MintGrant
  <2>2. /\ balance'[WalletOf[t]] = balance[WalletOf[t]] + NewGrant
        /\ \A a \in Wallet : a # WalletOf[t] => balance'[a] = balance[a]
        /\ mints' = [mints EXCEPT ![GrantRef[t]] = @ + 1]
    BY <1>2, <1>3, <2>1, MintPays
  <2>3. mints'[GrantRef[t]] = mints[GrantRef[t]] + 1 /\ \A r \in Ref : r # GrantRef[t] => mints'[r] = mints[r]
    BY <1>2, <1>3, <2>2
  <2>4. \A p \in Payment : mints'[p] = mints[p]
    BY <1>2, <2>3, PaymentAssumption
  <2>5. ASSUME NEW u \in User
        PROVE  /\ CreditsOf(payments', PaidBy(u)') = CreditsOf(payments, PaidBy(u))
               /\ IsFiniteSet(PaidBy(u)')
               /\ CreditsOf(payments, PaidBy(u)) \in Int
    <3>1. \A p \in PaidBy(u) : Credits(payments[p].cents) \in Int
      BY MintedBill DEF PaidBy
    <3>2. CreditsOf(payments, PaidBy(u)) \in Int
      BY <3>1, CreditsAreInt DEF Accounted
    <3>3. QED
      BY <1>1, <2>4, <3>2, PaidByStays
  <2>6. ASSUME NEW u \in User
        PROVE  balance'[WalletOf[u]] = NewGrant * mints'[GrantRef[u]] + CreditsOf(payments, PaidBy(u))
    <3>1. WalletOf[u] \in Wallet /\ GrantRef[u] \in Ref /\ mints[GrantRef[u]] \in Nat
      BY <1>3, SignInAssumption
    <3>2. balance[WalletOf[u]] = NewGrant * mints[GrantRef[u]] + CreditsOf(payments, PaidBy(u))
      BY DEF Accounted, WalletsAccountForPayments
    <3>3. CASE u = t
      <4> DEFINE k == mints[GrantRef[u]]
                 c == CreditsOf(payments, PaidBy(u))
      <4>1. NewGrant * (k + 1) = NewGrant * k + NewGrant /\ NewGrant * k \in Int
        BY <1>2, <3>1, OneMoreGrant
      <4>2. balance'[WalletOf[u]] = (NewGrant * k + c) + NewGrant /\ mints'[GrantRef[u]] = k + 1 /\ c \in Int
        BY <2>2, <2>3, <2>5, <3>2, <3>3
      <4> DEFINE granted == NewGrant * k
      <4> HIDE DEF k, c
      <4>3. NewGrant \in Int /\ granted \in Int
        BY <1>2, <4>1
      <4>4. balance'[WalletOf[u]] = (granted + NewGrant) + c
        <5> HIDE DEF granted
        <5>1. balance'[WalletOf[u]] = (granted + c) + NewGrant
          BY <4>2 DEF granted
        <5>2. QED
          BY <4>2, <4>3, <5>1
      <4>5. QED
        BY <4>1, <4>2, <4>4 DEF c
    <3>4. CASE u # t
      <4>1. WalletOf[u] # WalletOf[t] /\ GrantRef[u] # GrantRef[t]
        BY <1>1, <3>4, SignInAssumption
      <4>2. QED
        BY <2>2, <2>3, <3>1, <3>2, <4>1
    <3>5. QED
      BY <3>3, <3>4
  <2>7. QED
    BY <2>5, <2>6 DEF Accounted, WalletsAccountForPayments
<1>6. QED
  BY <1>2, <1>4, <1>5

\* A payment's credits are accounted for by the payment, the first time.
LEMMA CreditAccounted ==
    ASSUME RechargeInv, Accounted, NEW h \in Hook, Credit(h)
    PROVE  Accounted'
<1>1. PICK p \in Payment : p = hooks[h].payment
  BY DEF Credit, Doing, RechargeInv, RechargeTypeOK, Idle, Event
<1>2. PICK t : t = payments[p].user
  OBVIOUS
<1> DEFINE n == Credits(payments[p].cents)
<1>3. hooks[h] \in Event /\ Doing(h, "crediting") /\ payments' = payments
  BY DEF Credit, Doing, RechargeInv, RechargeTypeOK, Idle, Event
<1>4. Owed(p)
  BY <1>1, <1>3 DEF RechargeInv, HookOrder, Idle, Doing
<1>5. payments[p] \in Bill /\ t \in User /\ n \in Amount
  <2>1. payments[p] \in Bill
    BY <1>3, <1>4 DEF RechargeInv, RechargeTypeOK, Owed, Unopened
  <2>2. t \in User /\ payments[p].cents \in Cents
    BY <1>2, <1>4, <2>1 DEF Owed, Bill
  <2>3. QED
    BY <1>4, <2>1, <2>2, RechargeAssumption DEF Owed
<1>6. p \in Ref /\ WalletOf[t] \in Wallet /\ n \in Nat /\ n \in Int
  BY <1>3, <1>5, PaymentAssumption, SignInAssumption, AmountIsPositive
<1>7. LedgerInv /\ balance \in [Account -> Int] /\ mints \in [Ref -> Nat]
  BY DEF RechargeInv, SignInInv, LedgerInv, LedgerTypeOK
<1>8. \/ UNCHANGED ledgerVars
      \/ mints[p] = 0 /\ Mint(WalletOf[t], n, p)
  BY <1>1, <1>2, <1>3 DEF Credit, MintUnlessMinted, MintOnce, Payer, Due
<1> HIDE DEF n
<1>9. CASE UNCHANGED ledgerVars
  <2>1. UNCHANGED <<balance, mints>>
    BY <1>9 DEF ledgerVars
  <2>2. ASSUME NEW u \in User PROVE /\ CreditsOf(payments', PaidBy(u)') = CreditsOf(payments, PaidBy(u))
                                    /\ IsFiniteSet(PaidBy(u)')
    BY <1>3, <2>1, PaidByStays
  <2>3. QED
    BY <2>1, <2>2 DEF Accounted, WalletsAccountForPayments
<1>10. CASE mints[p] = 0 /\ Mint(WalletOf[t], n, p)
  <2>1. /\ balance'[WalletOf[t]] = balance[WalletOf[t]] + n
        /\ \A a \in Wallet : a # WalletOf[t] => balance'[a] = balance[a]
        /\ mints' = [mints EXCEPT ![p] = @ + 1]
    BY <1>6, <1>7, <1>10, MintPays
  <2>2. mints'[p] = 1 /\ \A r \in Ref : r # p => mints'[r] = mints[r]
    BY <1>6, <1>7, <1>10, <2>1
  <2>3. \A u \in User : mints'[GrantRef[u]] = mints[GrantRef[u]]
    BY <1>3, <2>2, SignInAssumption
  <2>4. ASSUME NEW u \in User, u # t
        PROVE  /\ balance'[WalletOf[u]] = NewGrant * mints'[GrantRef[u]] + CreditsOf(payments', PaidBy(u)')
               /\ IsFiniteSet(PaidBy(u)')
    <3>1. \A q \in Payment : mints'[q] > 0 /\ payments'[q].user = u <=> mints[q] > 0 /\ payments[q].user = u
      BY <1>2, <1>3, <2>2, <2>4, PaymentAssumption
    <3>2. CreditsOf(payments', PaidBy(u)') = CreditsOf(payments, PaidBy(u)) /\ IsFiniteSet(PaidBy(u)')
      BY <1>3, <3>1, PaidByStays
    <3>3. WalletOf[u] \in Wallet /\ WalletOf[u] # WalletOf[t]
      BY <1>5, <2>4, SignInAssumption
    <3>4. QED
      BY <2>1, <2>3, <3>2, <3>3 DEF Accounted, WalletsAccountForPayments
  <2>5. /\ balance'[WalletOf[t]] = NewGrant * mints'[GrantRef[t]] + CreditsOf(payments', PaidBy(t)')
        /\ IsFiniteSet(PaidBy(t)')
    <3>1. p \notin PaidBy(t) /\ PaidBy(t)' = PaidBy(t) \cup {p}
      <4>1. \A q \in Payment : q \in Ref /\ (q # p => mints'[q] = mints[q])
        BY <2>2, PaymentAssumption
      <4>2. ~(mints[p] > 0) /\ mints'[p] > 0 /\ payments[p].user = t
        BY <1>2, <1>10, <2>2
      <4>3. QED
        BY <1>3, <4>1, <4>2 DEF PaidBy
    <3>2. IsFiniteSet(PaidBy(t)) /\ IsFiniteSet(PaidBy(t)')
      BY <1>5, <3>1, FS_AddElement DEF Accounted
    <3>3. \A q \in PaidBy(t) \cup {p} : Credits(payments[q].cents) \in Int
      BY <1>6, MintedBill DEF PaidBy, n
    <3>4. CreditsOf(payments, PaidBy(t) \cup {p}) = CreditsOf(payments, PaidBy(t)) + n
      BY <3>1, <3>2, <3>3, OneMorePaid DEF n
    <3>5. CreditsOf(payments, PaidBy(t)) \in Int
      BY <3>2, <3>3, CreditsAreInt
    <3> DEFINE granted == NewGrant * mints[GrantRef[t]]
               c == CreditsOf(payments, PaidBy(t))
    <3>6. balance[WalletOf[t]] = granted + c
      BY <1>5 DEF Accounted, WalletsAccountForPayments
    <3>7. granted \in Int
      <4>1. NewGrant \in Int /\ mints[GrantRef[t]] \in Int
        BY <1>5, <1>7, SignInAssumption, BoundAssumption
      <4>2. QED
        BY <4>1, OneMoreGrant
    <3>8. balance'[WalletOf[t]] = granted + (c + n)
      <4> HIDE DEF granted, c
      <4>1. c \in Int
        BY <3>5 DEF c
      <4>2. QED
        BY <1>6, <2>1, <3>6, <3>7, <4>1
    <3>9. NewGrant * mints'[GrantRef[t]] = granted
      BY <1>5, <2>3
    <3>10. CreditsOf(payments', PaidBy(t)') = c + n
      BY <1>3, <3>1, <3>4
    <3> HIDE DEF granted, c
    <3>11. QED
      BY <3>2, <3>8, <3>9, <3>10
  <2>6. ASSUME NEW u \in User
        PROVE  /\ balance'[WalletOf[u]] = NewGrant * mints'[GrantRef[u]] + CreditsOf(payments', PaidBy(u)')
               /\ IsFiniteSet(PaidBy(u)')
    <3>1. CASE u = t
      BY <2>5, <3>1
    <3>2. CASE u # t
      BY <2>4, <3>2
    <3>3. QED
      BY <3>1, <3>2
  <2>7. QED
    BY <2>6 DEF Accounted, WalletsAccountForPayments
<1>11. QED
  BY <1>8, <1>9, <1>10

\* No other step mints, and a bill once minted keeps its payer and its amount.
LEMMA NothingMinted ==
    ASSUME RechargeInv, Accounted, UNCHANGED <<balance, mints>>,
           \/ payments' = payments
           \/ \E p \in Payment, bill \in Bill :
                 payments[p].state # "paid" /\ payments' = [payments EXCEPT ![p] = bill]
           \/ \E p \in Payment : payments' = [payments EXCEPT ![p].answered = TRUE]
    PROVE  Accounted'
<1>1. ASSUME NEW p \in Payment, mints[p] > 0
      PROVE  payments'[p].user = payments[p].user /\ payments'[p].cents = payments[p].cents
  <2>1. payments[p] \in Bill /\ payments[p].state = "paid"
    BY <1>1, MintedBill
  <2>2. payments \in [Payment -> {Unopened} \cup Bill]
    BY DEF RechargeInv, RechargeTypeOK
  <2>3. ASSUME NEW q \in Payment, NEW bill, payments[q].state # "paid",
               payments' = [payments EXCEPT ![q] = bill]
        PROVE  payments'[p] = payments[p]
    BY <2>1, <2>2, <2>3
  <2>4. ASSUME NEW q \in Payment, payments' = [payments EXCEPT ![q].answered = TRUE]
        PROVE  payments'[p] = payments[p] \/ payments'[p] = [payments[p] EXCEPT !.answered = TRUE]
    BY <2>2, <2>4
  <2>5. payments'[p] = payments[p] \/ payments'[p] = [payments[p] EXCEPT !.answered = TRUE]
    BY <2>3, <2>4
  <2>6. QED
    BY <2>1, <2>5 DEF Bill
<1>2. ASSUME NEW u \in User PROVE /\ CreditsOf(payments', PaidBy(u)') = CreditsOf(payments, PaidBy(u))
                                  /\ IsFiniteSet(PaidBy(u)')
  BY <1>1, PaidByStays
<1>3. QED
  BY <1>2 DEF Accounted, WalletsAccountForPayments

\* The payer's steps are on bills that have not been paid.
LEMMA PaidInto ==
    ASSUME RechargeInv, NEW p \in Payment,
           \/ \E v \in Visit, c \in Cents : Checkout(p, v, c)
           \/ \E u \in User \cup {Stranger}, c \in Cents : CheckoutByHand(p, u, c)
           \/ \E state \in {"pending", "paid"} : PayNow(p, state)
    PROVE  \E bill \in Bill : payments[p].state # "paid" /\ payments' = [payments EXCEPT ![p] = bill]
<1>1. ASSUME NEW u \in User \cup {Stranger}, NEW c \in Cents, payments[p] = Unopened,
             payments' = [payments EXCEPT ![p] = Checked(u, c)]
      PROVE  \E bill \in Bill : payments[p].state # "paid" /\ payments' = [payments EXCEPT ![p] = bill]
  <2>1. Checked(u, c) \in Bill /\ payments[p].state # "paid"
    BY <1>1 DEF Checked, Bill, Unopened
  <2>2. QED
    BY <1>1, <2>1
<1>2. ASSUME NEW v \in Visit, NEW c \in Cents, Checkout(p, v, c) PROVE visits[v].user \in User
  <2>1. At(v, "in")
    BY <1>2 DEF Checkout, RechargeInv, SignInInv, SessionOrder
  <2>2. QED
    BY <2>1, PastLookUp DEF RechargeInv, At, Serving, Over
<1>3. ASSUME NEW state \in {"pending", "paid"}, PayNow(p, state)
      PROVE  \E bill \in Bill : payments[p].state # "paid" /\ payments' = [payments EXCEPT ![p] = bill]
  <2> DEFINE bill == [payments[p] EXCEPT !.state = state]
  <2>1. payments[p].state \in {"open", "pending"}
    BY <1>3 DEF PayNow
  <2>2. payments[p] \in Bill
    BY <2>1 DEF RechargeInv, RechargeTypeOK, Unopened
  <2>3. bill \in Bill /\ payments' = [payments EXCEPT ![p] = bill]
    BY <1>3, <2>2 DEF Bill, PayNow
  <2> HIDE DEF bill
  <2>4. QED
    BY <2>1, <2>3
<1>4. QED
  BY <1>1, <1>2, <1>3 DEF Checkout, CheckoutByHand

\* Whatever happens, the wallets still add up.
LEMMA AccountedKept == RechargeInv /\ Accounted /\ [RechargeNext]_allVars => Accounted'
<1> SUFFICES ASSUME RechargeInv, Accounted, [RechargeNext]_allVars PROVE Accounted'
  OBVIOUS
<1>1. CASE SignInNext /\ UNCHANGED rechargeVars
  <2>1. ASSUME NEW v \in Visit, MintGrant(v) PROVE Accounted'
    BY <1>1, <2>1, GrantAccounted
  <2>2. CASE UNCHANGED <<balance, mints>>
    BY <1>1, <2>2, NothingMinted DEF rechargeVars
  <2>3. QED
    BY <1>1, <2>1, <2>2
       DEF SignInNext, Verify, Request, CoolDown, Age, Cut, EndSession, Spend, ReadLink,
           LookUp, CreateWallet, InsertUser, EnsureFunded, OpenSession, CreateAccount, ledgerVars
<1>2. CASE UNCHANGED allVars
  BY <1>2, NothingMinted DEF allVars, ledgerVars, rechargeVars
<1>3. ASSUME NEW p \in Payment,
             \/ \E v \in Visit, c \in Cents : Checkout(p, v, c)
             \/ \E u \in User \cup {Stranger}, c \in Cents : CheckoutByHand(p, u, c)
             \/ \E state \in {"pending", "paid"} : PayNow(p, state)
      PROVE  Accounted'
  <2>1. \E bill \in Bill : payments[p].state # "paid" /\ payments' = [payments EXCEPT ![p] = bill]
    BY <1>3, PaidInto
  <2>2. UNCHANGED <<balance, mints>>
    BY <1>3 DEF Checkout, CheckoutByHand, PayNow, ledgerVars
  <2>3. QED
    BY <2>1, <2>2, NothingMinted
<1>4. ASSUME NEW h \in Hook, Credit(h) PROVE Accounted'
  BY <1>4, CreditAccounted
<1>5. ASSUME NEW h \in Hook, Receive(h) \/ Record(h) \/ Answer(h) \/ CutHook(h) \/ \E p \in Payment : Announce(h, p)
      PROVE  Accounted'
  <2>1. UNCHANGED <<balance, mints>>
    BY <1>5 DEF Receive, Record, Answer, CutHook, Announce, ledgerVars
  <2>2. CASE payments' = payments
    BY <2>1, <2>2, NothingMinted
  <2>3. CASE Answer(h)
    <3>1. hooks[h].payment \in Payment
      BY <2>3 DEF Answer, Doing, RechargeInv, RechargeTypeOK, Idle, Event
    <3>2. payments' = payments \/ payments' = [payments EXCEPT ![hooks[h].payment].answered = TRUE]
      BY <2>3 DEF Answer
    <3>3. QED
      BY <2>1, <3>1, <3>2, NothingMinted
  <2>4. QED
    BY <1>5, <2>2, <2>3 DEF Receive, Record, CutHook, Announce
<1>6. QED
  BY <1>1, <1>2, <1>3, <1>4, <1>5 DEF RechargeNext, Webhook

\* Exactly once: a wallet holds its grant and every payment credited to its
\* user, each at its amount, for any number of payments, handlers and cuts
\* (account.go:412-416).
THEOREM WalletsAddUp == RechargeSpec => []WalletsAccountForPayments
<1>1. ASSUME RechargeInit PROVE Accounted
  <2>1. /\ balance = [a \in Account |-> 0] /\ mints = [r \in Ref |-> 0]
    BY <1>1 DEF RechargeInit, LedgerInit
  <2>2. ASSUME NEW u \in User
        PROVE  /\ PaidBy(u) = {} /\ IsFiniteSet(PaidBy(u))
               /\ balance[WalletOf[u]] = NewGrant * mints[GrantRef[u]] + CreditsOf(payments, PaidBy(u))
    <3>1. PaidBy(u) = {} /\ IsFiniteSet({})
      BY <2>1, PaymentAssumption, FS_EmptySet DEF PaidBy
    <3>2. CreditsOf(payments, {}) = 0
      BY NothingPaid
    <3>3. balance[WalletOf[u]] = 0 /\ mints[GrantRef[u]] = 0
      BY <2>1, SystemAccounts, SignInAssumption
    <3>4. NewGrant * 0 = 0
      BY SignInAssumption, BoundAssumption
    <3>5. QED
      BY <3>1, <3>2, <3>3, <3>4
  <2>3. QED
    BY <2>2 DEF Accounted, WalletsAccountForPayments
<1>2. Accounted => WalletsAccountForPayments
  BY DEF Accounted
<1>3. QED
  BY <1>1, <1>2, AccountedKept, RechargeSafe, PTL DEF RechargeSpec
=============================================================================
