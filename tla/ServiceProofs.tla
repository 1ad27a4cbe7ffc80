---------------------------- MODULE ServiceProofs ----------------------------
(***************************************************************************)
(* The agent service, for any number of agents, messages, edits, refused   *)
(* writes and restarts.  Three facts hold together: what the store, the    *)
(* map and the owner say of one agent at each stage of a create, an edit   *)
(* or a delete; what its bucket has let through; and who may write to a    *)
(* conversation.                                                           *)
(***************************************************************************)
EXTENDS Service, SequenceTheorems, TLAPS

-----------------------------------------------------------------------------
Bucket == 0..Burst

\* An agent of the map is the record Run makes, whatever its spec.
IsAgent(ag) ==
    /\ DOMAIN ag = {"spec", "tokens", "filled", "convs", "events", "asked"}
    /\ ag.tokens \in Bucket /\ ag.filled \in Nat /\ ag.filled <= clock
    /\ ag.events \in Message \cup {NoThread}

AgentTypes ==
    /\ DOMAIN store = Agents /\ DOMAIN agents = Agents /\ DOMAIN acked = Agents
    /\ clock \in Nat
    /\ \A id \in Agents :
          /\ agents[id] = None \/ (agents[id] = <<agents[id][1]>> /\ IsAgent(agents[id][1]))
          /\ store[id] = None \/ store[id] = <<store[id][1]>>
          /\ acked[id] \in {None, Deleted} \/ acked[id] = <<acked[id][1]>>

\* The owner's operations, at the points where they can be interrupted.
OwnerTypes ==
    /\ creating # None =>
          /\ creating = <<[id |-> creating[1].id, spec |-> creating[1].spec, does |-> creating[1].does]>>
          /\ creating[1].id \in Agents /\ creating[1].does \in {"put", "insert"}
    /\ editing # None => editing[1].id \in Agents
    /\ writing # None =>
          /\ writing = <<writing[1]>>
          /\ writing[1].id \in Agents /\ writing[1].does \in {"update", "answer", "delete"}

\* An agent being made is in no map and has been acknowledged to nobody; the
\* store learns of it between the two steps.
Making ==
    creating # None =>
        LET c == creating[1]
        IN  /\ agents[c.id] = None /\ acked[c.id] = None
            /\ store[c.id] = IF c.does = "insert" THEN <<c.spec>> ELSE None

\* A write under the lock is of an agent that runs, and the store is ahead by
\* that write.
Ahead ==
    writing # None =>
        LET w == writing[1]
        IN  /\ Running(w.id)
            /\ acked[w.id] = <<agents[w.id][1].spec>>
            /\ store[w.id] = IF w.does = "delete" THEN None ELSE <<w.spec>>

\* Where nothing is under way, the three agree.
Agree ==
    \A id \in Agents :
        /\ (writing = None \/ writing[1].id # id) =>
              (Running(id) => store[id] = <<agents[id][1].spec>> /\ acked[id] = store[id])
        /\ ~Running(id) => acked[id] \in {None, Deleted}
        /\ ~Running(id) /\ (creating = None \/ creating[1].id # id) => store[id] = None

\* What a bucket has let through and what is left in it, against what was
\* poured in since the agent was made.
Poured ==
    /\ admitted \in [Agents -> Nat] /\ born \in [Agents -> Nat]
    /\ \A id \in Agents :
          /\ born[id] <= clock
          /\ acked[id] = None => admitted[id] = 0
          /\ Running(id) =>
                /\ born[id] <= agents[id][1].filled
                /\ admitted[id] + agents[id][1].tokens
                     <= Burst + Refill * (agents[id][1].filled - born[id])

-----------------------------------------------------------------------------
\* The newest exchanges of what was said.
Newest(exchanges) ==
    SubSeq(exchanges, IF Len(exchanges) > History THEN Len(exchanges) - History + 1 ELSE 1, Len(exchanges))

ThreadTypes ==
    /\ threads \in [Message -> [messages : Seq(Message), last : Nat, busy : BOOLEAN]]
    /\ said \in [Message -> Seq(Message)]

\* A call is under way in one of four forms, and otherwise only a word.
IsCall(c) ==
    /\ c.state \in {"waiting", "calling", "stepping", "asking"} => c.agent \in Agents
    /\ c.state \in {"waiting", "calling"} => c.thread \in Message
    /\ c.state = "asking" => c.thread \in Message \cup {NoThread}
    /\ c.state = "stepping" => c.thread = NoThread
    /\ c.state = "calling" => DOMAIN c = {"state", "agent", "thread", "tools", "rounds", "history"}

CallTypes == DOMAIN calls = Message /\ \A m \in Message : IsCall(calls[m])

\* A message has its conversation to itself from its first call to the last
\* word with its owner.
Holds(m) == calls[m].state \in {"calling", "asking"} /\ calls[m].thread # NoThread

InTurn ==
    /\ \A m \in Message : Holds(m) => threads[calls[m].thread].busy
    /\ \A m, n \in Message : Holds(m) /\ Holds(n) /\ calls[m].thread = calls[n].thread => m = n
    /\ \A m \in Message :
          calls[m].state = "calling" => calls[m].history = threads[calls[m].thread].messages

ConversationInv == ThreadTypes /\ CallTypes /\ InTurn /\ HistoryIsWhatWasSaid
AgentInv == AgentTypes /\ OwnerTypes /\ Making /\ Ahead /\ Agree /\ TokensAreTheAgents /\ Poured
ServiceInv == AgentInv /\ ConversationInv
-----------------------------------------------------------------------------
\* What the model's choice of the lesser of two numbers returns.
LEMMA LesserOfTwo ==
    ASSUME NEW x \in Int, NEW y \in Int
    PROVE  Min({x, y}) \in {x, y} /\ Min({x, y}) <= x /\ Min({x, y}) <= y
<1>1. \E z \in {x, y} : \A w \in {x, y} : z <= w
  <2>1. CASE x <= y
    BY <2>1
  <2>2. CASE y <= x
    BY <2>2
  <2>3. QED
    BY <2>1, <2>2
<1>2. Min({x, y}) \in {x, y} /\ \A w \in {x, y} : Min({x, y}) <= w
  BY <1>1 DEF Min
<1>3. QED
  BY <1>2

\* What is poured in over two spans is what is poured in over both.
LEMMA PouredOver ==
    ASSUME NEW r \in Nat, NEW a \in Int, NEW b \in Int, NEW c \in Int
    PROVE  r * (a - b) + r * (c - a) = r * (c - b)
OBVIOUS

LEMMA PouredIsNatural ==
    ASSUME NEW r \in Nat, NEW n \in Nat
    PROVE  r * n \in Nat
OBVIOUS

LEMMA RateIsNatural ==
    /\ Burst \in Nat /\ Refill \in Nat /\ History \in Nat /\ Burst > 0 /\ History > 0
    /\ Messages \in Nat
BY ServiceAssumption

\* A bucket never holds more than was poured into it, nor more than it can.
LEMMA LevelIsBounded ==
    ASSUME NEW ag, IsAgent(ag), clock \in Nat
    PROVE  /\ Level(ag) \in Bucket
           /\ Level(ag) <= ag.tokens + Refill * (clock - ag.filled)
<1> DEFINE poured == Refill * (clock - ag.filled)
<1>1. ag.tokens \in Nat /\ ag.tokens <= Burst /\ Burst \in Nat /\ Refill \in Nat
  BY RateIsNatural DEF IsAgent, Bucket
<1>2. clock - ag.filled \in Nat
  BY DEF IsAgent
<1>3. poured \in Nat
  BY <1>1, <1>2, PouredIsNatural
<1>4. Level(ag) = Min({Burst, ag.tokens + poured})
  BY DEF Level
<1> DEFINE total == ag.tokens + poured
<1>5. total \in Nat
  BY <1>1, <1>3
<1>6. Level(ag) = Min({Burst, total})
  BY <1>4
<1> HIDE DEF poured, total
<1>7. /\ Level(ag) \in {Burst, total}
      /\ Level(ag) <= Burst /\ Level(ag) <= total
  BY <1>1, <1>5, <1>6, LesserOfTwo
<1>8. Level(ag) \in Bucket
  BY <1>1, <1>5, <1>7 DEF Bucket
<1>9. QED
  BY <1>7, <1>8 DEF poured, total

LEMMA AgentFields ==
    ASSUME AgentTypes, NEW id \in Agents, Running(id)
    PROVE  agents[id] = <<agents[id][1]>> /\ IsAgent(agents[id][1])
BY DEF AgentTypes, Running

\* Neither the empty sequence nor Deleted is the spec of an agent.
LEMMA SpecsAreTold ==
    ASSUME NEW spec
    PROVE  <<spec>> # None /\ <<spec>> # Deleted /\ Deleted # None
<1> DEFINE told == <<spec>>
<1>1. Len(told) = 1 /\ Len(Deleted) = 2 /\ Len(None) = 0
  BY DEF Deleted, None
<1> HIDE DEF told
<1>2. told # None /\ told # Deleted /\ Deleted # None
  BY <1>1
<1>3. QED
  BY <1>2 DEF told

\* A step that touches nothing of an agent's keeps what is known of it.
LEMMA AgentFrame ==
    ASSUME AgentInv,
           UNCHANGED <<store, agents, tokens, creating, editing, writing, clock, acked, admitted, born>>
    PROVE  AgentInv'
<1>1. AgentTypes'
  BY DEF AgentInv, AgentTypes, IsAgent
<1>2. OwnerTypes' /\ Making' /\ Ahead'
  BY DEF AgentInv, OwnerTypes, Making, Ahead, Running
<1>3. Agree'
  BY DEF AgentInv, Agree, Running
<1>4. TokensAreTheAgents'
  BY DEF AgentInv, TokensAreTheAgents, Running
<1>5. Poured'
  BY DEF AgentInv, Poured, Running
<1>6. QED
  BY <1>1, <1>2, <1>3, <1>4, <1>5 DEF AgentInv

\* A step that touches no conversation and no call keeps what is known of them.
LEMMA ConversationFrame ==
    ASSUME ConversationInv, UNCHANGED <<threads, calls, said>>
    PROVE  ConversationInv'
BY DEF ConversationInv, ThreadTypes, CallTypes, IsCall, InTurn, Holds, HistoryIsWhatWasSaid

\* While no write is under way, an agent may change in everything but its spec,
\* if its bucket still holds.
LEMMA OneTouched ==
    ASSUME AgentInv, Free, NEW id \in Agents, Running(id),
           NEW new, IsAgent(new), new.spec = agents[id][1].spec,
           agents' = [agents EXCEPT ![id] = <<new>>],
           UNCHANGED <<store, tokens, creating, editing, writing, clock, acked, born>>,
           admitted' \in [Agents -> Nat],
           \A other \in Agents \ {id} : admitted'[other] = admitted[other],
           born[id] <= new.filled,
           admitted'[id] + new.tokens <= Burst + Refill * (new.filled - born[id])
    PROVE  AgentInv'
<1>1. /\ DOMAIN agents' = Agents /\ agents'[id] = <<new>>
      /\ \A other \in Agents \ {id} : agents'[other] = agents[other]
  BY DEF AgentInv, AgentTypes
<1>2. \A other \in Agents : (agents'[other] # None) = (agents[other] # None)
  BY <1>1, SpecsAreTold DEF Running
<1>3. \A other \in Agents : Running(other) => agents'[other][1].spec = agents[other][1].spec
  BY <1>1
<1>4. AgentTypes'
  <2>1. ASSUME NEW other \in Agents
        PROVE  \/ agents'[other] = None
               \/ agents'[other] = <<agents'[other][1]>> /\ IsAgent(agents[other][1])'
    <3>1. CASE other = id
      BY <1>1, <3>1 DEF IsAgent
    <3>2. CASE other # id
      BY <1>1, <3>2 DEF AgentInv, AgentTypes, IsAgent
    <3>3. QED
      BY <3>1, <3>2
  <2>2. QED
    BY <1>1, <2>1 DEF AgentInv, AgentTypes
<1>5. OwnerTypes'
  BY DEF AgentInv, OwnerTypes
<1>6. Making'
  BY <1>2, SpecsAreTold DEF AgentInv, Making, OwnerTypes
<1>7. Ahead'
  BY DEF Ahead, Free
<1>8. Agree'
  BY <1>2, <1>3 DEF AgentInv, Agree, Running
<1>9. TokensAreTheAgents'
  BY <1>2 DEF AgentInv, TokensAreTheAgents, Running
<1>10. Poured'
  <2>1. born' \in [Agents -> Nat] /\ admitted' \in [Agents -> Nat]
    BY DEF AgentInv, Poured
  <2>2. ASSUME NEW other \in Agents
        PROVE  born'[other] <= clock' /\ (acked'[other] = None => admitted'[other] = 0)
    <3>1. acked[id] # None
      BY SpecsAreTold DEF AgentInv, Agree, Running, Free
    <3>2. QED
      BY <3>1 DEF AgentInv, Poured
  <2>3. ASSUME NEW other \in Agents, Running(other)'
        PROVE  /\ born'[other] <= agents'[other][1].filled
               /\ admitted'[other] + agents'[other][1].tokens
                     <= Burst + Refill * (agents'[other][1].filled - born'[other])
    <3>1. CASE other = id
      BY <1>1, <3>1
    <3>2. CASE other # id
      <4>1. agents'[other] = agents[other] /\ admitted'[other] = admitted[other] /\ born'[other] = born[other]
        BY <1>1, <3>2
      <4>2. Running(other)
        BY <2>3, <4>1 DEF Running
      <4>3. QED
        BY <4>1, <4>2 DEF AgentInv, Poured
    <3>3. QED
      BY <3>1, <3>2
  <2>4. QED
    BY <2>1, <2>2, <2>3 DEF Poured
<1>11. QED
  BY <1>4, <1>5, <1>6, <1>7, <1>8, <1>9, <1>10 DEF AgentInv

-----------------------------------------------------------------------------
(* What one agent's owner does to it, and the clock. *)

LEMMA TickKeeps == ASSUME AgentInv, Tick PROVE AgentInv'
<1>1. /\ clock' = clock + 1 /\ clock \in Nat
      /\ UNCHANGED <<store, agents, tokens, creating, editing, writing, acked, admitted, born>>
  BY DEF Tick, ownerVars, AgentInv, AgentTypes
<1>2. clock' \in Nat /\ \A n \in Nat : n <= clock => n <= clock'
  BY <1>1
<1>3. AgentTypes'
  BY <1>1, <1>2 DEF AgentInv, AgentTypes, IsAgent
<1>4. OwnerTypes' /\ Making' /\ Ahead'
  BY <1>1 DEF AgentInv, OwnerTypes, Making, Ahead, Running
<1>5. Agree' /\ TokensAreTheAgents'
  BY <1>1 DEF AgentInv, Agree, TokensAreTheAgents, Running
<1>6. Poured'
  BY <1>1, <1>2 DEF AgentInv, Poured, Running
<1>7. QED
  BY <1>3, <1>4, <1>5, <1>6 DEF AgentInv

LEMMA AuthorizeKeeps == ASSUME AgentInv, NEW id \in Agents, Authorize(id) PROVE AgentInv'
<1>1. /\ creating = None /\ acked[id] = None /\ store[id] = None
      /\ tokens' = tokens \cup {id}
      /\ UNCHANGED <<store, agents, editing, writing, clock, acked, admitted, born>>
  BY DEF Authorize
<1>2. PICK spec : creating' = <<[id |-> id, spec |-> spec, does |-> "put"]>>
  BY DEF Authorize
<1>3. /\ creating' # None /\ creating'[1].id = id /\ creating'[1].spec = spec /\ creating'[1].does = "put"
  BY <1>2, SpecsAreTold
<1>4. ~Running(id)
  BY <1>1, SpecsAreTold DEF AgentInv, Agree, Ahead, Running
<1>5. AgentTypes'
  BY <1>1 DEF AgentInv, AgentTypes, IsAgent
<1>6. OwnerTypes'
  BY <1>1, <1>2, <1>3 DEF AgentInv, OwnerTypes
<1>7. Making'
  BY <1>1, <1>3, <1>4 DEF Making, Running
<1>8. Ahead' /\ Poured'
  BY <1>1 DEF AgentInv, Ahead, Poured, Running
<1>9. Agree'
  BY <1>1, <1>3 DEF AgentInv, Agree, Running
<1>10. TokensAreTheAgents'
  BY <1>1, <1>3 DEF AgentInv, TokensAreTheAgents, Running
<1>11. QED
  BY <1>5, <1>6, <1>7, <1>8, <1>9, <1>10 DEF AgentInv

LEMMA CreatePutKeeps == ASSUME AgentInv, CreatePut PROVE AgentInv'
<1> DEFINE id == creating[1].id
<1>1. /\ creating # None /\ creating[1].does = "put"
      /\ UNCHANGED <<agents, editing, writing, clock, acked, admitted, born>>
  BY DEF CreatePut
<1>2. /\ creating = <<[id |-> id, spec |-> creating[1].spec, does |-> "put"]>> /\ id \in Agents
      /\ agents[id] = None /\ acked[id] = None /\ store[id] = None
  BY <1>1 DEF AgentInv, OwnerTypes, Making
<1>3. writing # None => writing[1].id # id
  BY <1>2 DEF AgentInv, Ahead, Running
<1>4. Poured'
  BY <1>1 DEF AgentInv, Poured, Running
<1>5. CASE /\ store' = [store EXCEPT ![id] = <<creating[1].spec>>]
           /\ creating' = <<[creating[1] EXCEPT !.does = "insert"]>>
           /\ UNCHANGED tokens
  <2>1. creating' = <<[id |-> id, spec |-> creating[1].spec, does |-> "insert"]>>
    BY <1>2, <1>5
  <2>2. /\ creating' # None /\ creating'[1].id = id /\ creating'[1].spec = creating[1].spec
        /\ creating'[1].does = "insert"
    BY <2>1, SpecsAreTold
  <2>3. /\ DOMAIN store' = Agents /\ store'[id] = <<creating[1].spec>>
        /\ \A other \in Agents \ {id} : store'[other] = store[other]
    BY <1>2, <1>5 DEF AgentInv, AgentTypes
  <2>4. AgentTypes'
    BY <1>1, <2>3 DEF AgentInv, AgentTypes, IsAgent
  <2>5. OwnerTypes'
    BY <1>1, <1>2, <2>1, <2>2 DEF AgentInv, OwnerTypes
  <2>6. Making'
    BY <1>1, <1>2, <2>2, <2>3 DEF Making
  <2>7. Ahead'
    BY <1>1, <1>3, <2>3 DEF AgentInv, OwnerTypes, Ahead, Running
  <2>8. Agree'
    BY <1>1, <1>2, <2>2, <2>3 DEF AgentInv, Agree, Running
  <2>9. TokensAreTheAgents'
    BY <1>1, <1>5, <2>2 DEF AgentInv, TokensAreTheAgents, Running
  <2>10. QED
    BY <1>4, <2>4, <2>5, <2>6, <2>7, <2>8, <2>9 DEF AgentInv
<1>6. CASE TokenTaken(id) /\ creating' = None /\ UNCHANGED store
  <2>1. AgentTypes' /\ OwnerTypes' /\ Making'
    BY <1>1, <1>6 DEF AgentInv, AgentTypes, IsAgent, OwnerTypes, Making
  <2>2. Ahead'
    BY <1>1, <1>6 DEF AgentInv, Ahead, Running
  <2>3. Agree'
    BY <1>1, <1>2, <1>6 DEF AgentInv, Agree, Running
  <2>4. TokensAreTheAgents'
    BY <1>1, <1>2, <1>6 DEF AgentInv, TokensAreTheAgents, TokenTaken, Running
  <2>5. QED
    BY <1>4, <2>1, <2>2, <2>3, <2>4 DEF AgentInv
<1>7. QED
  BY <1>5, <1>6 DEF CreatePut

LEMMA CreateInsertKeeps == ASSUME AgentInv, CreateInsert PROVE AgentInv'
<1> DEFINE id == creating[1].id
           new == Run(creating[1].spec)
<1>1. /\ creating # None /\ creating[1].does = "insert" /\ Free /\ creating' = None
      /\ agents' = [agents EXCEPT ![id] = <<new>>]
      /\ acked' = [acked EXCEPT ![id] = <<creating[1].spec>>]
      /\ born' = [born EXCEPT ![id] = clock]
      /\ UNCHANGED <<store, tokens, editing, writing, clock, admitted>>
  BY DEF CreateInsert
<1>2. /\ id \in Agents /\ agents[id] = None /\ acked[id] = None /\ store[id] = <<creating[1].spec>>
  BY <1>1 DEF AgentInv, OwnerTypes, Making
<1>3. /\ new.spec = creating[1].spec /\ new.tokens = Burst /\ new.filled = clock
      /\ DOMAIN new = {"spec", "tokens", "filled", "convs", "events", "asked"}
      /\ new.events = NoThread
  BY DEF Run
<1>4. clock \in Nat /\ Burst \in Bucket /\ clock <= clock
  BY RateIsNatural DEF AgentInv, AgentTypes, Bucket
<1>5. IsAgent(new)
  BY <1>3, <1>4 DEF IsAgent
<1> HIDE DEF new
<1>6. /\ DOMAIN agents' = Agents /\ agents'[id] = <<new>>
      /\ \A other \in Agents \ {id} : agents'[other] = agents[other]
  BY <1>1, <1>2 DEF AgentInv, AgentTypes
<1>7. /\ DOMAIN acked' = Agents /\ acked'[id] = <<creating[1].spec>>
      /\ \A other \in Agents \ {id} : acked'[other] = acked[other]
  BY <1>1, <1>2 DEF AgentInv, AgentTypes
<1>8. /\ born' \in [Agents -> Nat] /\ born'[id] = clock
      /\ \A other \in Agents \ {id} : born'[other] = born[other]
  BY <1>1, <1>2, <1>4 DEF AgentInv, Poured
<1>9. AgentTypes'
  <2>1. ASSUME NEW other \in Agents
        PROVE  \/ agents'[other] = None
               \/ agents'[other] = <<agents'[other][1]>> /\ IsAgent(agents[other][1])'
    <3>1. CASE other = id
      BY <1>1, <1>5, <1>6, <3>1 DEF IsAgent
    <3>2. CASE other # id
      BY <1>1, <1>6, <3>2 DEF AgentInv, AgentTypes, IsAgent
    <3>3. QED
      BY <3>1, <3>2
  <2>2. \A other \in Agents : acked'[other] \in {None, Deleted} \/ acked'[other] = <<acked'[other][1]>>
    BY <1>7 DEF AgentInv, AgentTypes
  <2>3. QED
    BY <1>1, <1>6, <1>7, <2>1, <2>2 DEF AgentInv, AgentTypes
<1>10. OwnerTypes' /\ Making' /\ Ahead'
  BY <1>1 DEF AgentInv, OwnerTypes, Making, Ahead, Free
<1>11. agents'[id] # None
  BY <1>6, SpecsAreTold
<1>12. Agree'
  BY <1>1, <1>2, <1>3, <1>6, <1>7, <1>11 DEF AgentInv, Agree, Running
<1>13. TokensAreTheAgents'
  BY <1>1, <1>2, <1>6, <1>11 DEF AgentInv, TokensAreTheAgents, Running
<1>14. Poured'
  <2>1. acked'[id] # None
    BY <1>7, SpecsAreTold
  <2>2. ASSUME NEW other \in Agents
        PROVE  born'[other] <= clock' /\ (acked'[other] = None => admitted'[other] = 0)
    BY <1>1, <1>4, <1>7, <1>8, <2>1 DEF AgentInv, Poured
  <2>3. /\ born'[id] <= agents'[id][1].filled
        /\ admitted'[id] + agents'[id][1].tokens <= Burst + Refill * (agents'[id][1].filled - born'[id])
    <3>1. agents'[id][1].tokens = Burst /\ agents'[id][1].filled = clock
      BY <1>3, <1>6
    <3>2. admitted'[id] = 0
      BY <1>1, <1>2 DEF AgentInv, Poured
    <3>3. Burst \in Nat /\ Refill \in Nat
      BY RateIsNatural
    <3>4. clock - clock = 0 /\ Refill * 0 = 0 /\ 0 + Burst <= Burst + 0
      BY <1>4, <3>3
    <3>5. QED
      BY <1>4, <1>8, <3>1, <3>2, <3>4
  <2>4. ASSUME NEW other \in Agents \ {id}, Running(other)'
        PROVE  /\ born'[other] <= agents'[other][1].filled
               /\ admitted'[other] + agents'[other][1].tokens
                     <= Burst + Refill * (agents'[other][1].filled - born'[other])
    <3>1. agents'[other] = agents[other] /\ admitted'[other] = admitted[other] /\ born'[other] = born[other]
      BY <1>1, <1>6, <1>8
    <3>2. Running(other)
      BY <2>4, <3>1 DEF Running
    <3>3. QED
      BY <3>1, <3>2 DEF AgentInv, Poured
  <2>5. QED
    BY <1>1, <1>8, <2>2, <2>3, <2>4 DEF AgentInv, Poured
<1>15. QED
  BY <1>9, <1>10, <1>12, <1>13, <1>14 DEF AgentInv

LEMMA UpdateCheckKeeps == ASSUME AgentInv, NEW id \in Agents, UpdateCheck(id) PROVE AgentInv'
<1>1. UNCHANGED <<store, agents, tokens, creating, writing, clock, acked, admitted, born>>
  BY DEF UpdateCheck
<1>2. PICK spec : editing' = <<[id |-> id, spec |-> spec]>>
  BY DEF UpdateCheck
<1>3. OwnerTypes'
  BY <1>1, <1>2 DEF AgentInv, OwnerTypes
<1>4. AgentTypes' /\ Making' /\ Ahead'
  BY <1>1 DEF AgentInv, AgentTypes, IsAgent, Making, Ahead, Running
<1>5. Agree' /\ TokensAreTheAgents' /\ Poured'
  BY <1>1 DEF AgentInv, Agree, TokensAreTheAgents, Poured, Running
<1>6. QED
  BY <1>3, <1>4, <1>5 DEF AgentInv

\* A write that has reached the store, of an agent that runs, puts the store
\* ahead and nothing else.
LEMMA StoreGoesAhead ==
    ASSUME AgentInv, Free, OwnerTypes', writing' # None,
           NEW id \in Agents, Running(id), writing'[1].id = id,
           NEW put, put = None \/ put = <<put[1]>>, store' = [store EXCEPT ![id] = put],
           put = IF writing'[1].does = "delete" THEN None ELSE <<writing'[1].spec>>,
           UNCHANGED <<agents, tokens, creating, clock, acked, admitted, born>>
    PROVE  AgentInv'
<1>1. /\ DOMAIN store' = Agents /\ store'[id] = put
      /\ \A other \in Agents \ {id} : store'[other] = store[other]
  BY DEF AgentInv, AgentTypes
<1>2. AgentTypes'
  <2>1. \A other \in Agents : store'[other] = None \/ store'[other] = <<store'[other][1]>>
    BY <1>1 DEF AgentInv, AgentTypes
  <2>2. QED
    BY <1>1, <2>1 DEF AgentInv, AgentTypes, IsAgent
<1>3. creating # None => creating[1].id \in Agents /\ creating[1].id # id
  BY DEF AgentInv, OwnerTypes, Making, Running
<1>4. Making'
  BY <1>1, <1>3 DEF AgentInv, Making
<1>5. acked[id] = <<agents[id][1].spec>>
  BY DEF AgentInv, Agree, Free
<1>6. Ahead'
  BY <1>1, <1>5 DEF Ahead, Running
<1>7. Agree'
  BY <1>1 DEF AgentInv, Agree, Running, Free
<1>8. TokensAreTheAgents' /\ Poured'
  BY DEF AgentInv, TokensAreTheAgents, Poured, Running
<1>9. QED
  BY <1>2, <1>4, <1>6, <1>7, <1>8 DEF AgentInv

\* A write that was refused, or had no agent to change, changes nothing.
LEMMA NothingWritten ==
    ASSUME AgentInv, OwnerTypes',
           UNCHANGED <<store, agents, tokens, creating, writing, clock, acked, admitted, born>>
    PROVE  AgentInv'
<1>1. AgentTypes' /\ Making' /\ Ahead'
  BY DEF AgentInv, AgentTypes, IsAgent, Making, Ahead, Running
<1>2. Agree' /\ TokensAreTheAgents' /\ Poured'
  BY DEF AgentInv, Agree, TokensAreTheAgents, Poured, Running
<1>3. QED
  BY <1>1, <1>2 DEF AgentInv

LEMMA UpdatePutKeeps == ASSUME AgentInv, UpdatePut PROVE AgentInv'
<1> DEFINE id == editing[1].id
           w == [does |-> "update", id |-> id, spec |-> editing[1].spec]
<1>1. /\ editing # None /\ Free /\ editing' = None /\ id \in Agents
      /\ UNCHANGED <<agents, tokens, creating, clock, acked, admitted, born>>
  BY DEF UpdatePut, AgentInv, OwnerTypes
<1>2. CASE Running(id) /\ store' = [store EXCEPT ![id] = <<editing[1].spec>>] /\ writing' = <<w>>
  <2>1. writing' # None /\ writing'[1] = w
    BY <1>2, SpecsAreTold
  <2>2. w.id = id /\ w.does = "update" /\ w.spec = editing[1].spec
    OBVIOUS
  <2>3. OwnerTypes'
    BY <1>1, <1>2, <2>1, <2>2 DEF AgentInv, OwnerTypes
  <2> DEFINE put == <<editing[1].spec>>
  <2>4. put = <<put[1]>>
    OBVIOUS
  <2>5. put = IF writing'[1].does = "delete" THEN None ELSE <<writing'[1].spec>>
    BY <2>1, <2>2
  <2>6. store' = [store EXCEPT ![id] = put]
    BY <1>2
  <2> HIDE DEF put, w
  <2>7. QED
    BY <1>1, <1>2, <2>1, <2>2, <2>3, <2>4, <2>5, <2>6, StoreGoesAhead
<1>3. CASE UNCHANGED <<store, writing>>
  <2>1. OwnerTypes'
    BY <1>1, <1>3 DEF AgentInv, OwnerTypes
  <2>2. QED
    BY <1>1, <1>3, <2>1, NothingWritten
<1>4. QED
  BY <1>2, <1>3 DEF UpdatePut, StillThere

LEMMA AnswerPutKeeps == ASSUME AgentInv, NEW id \in Agents, NEW q, AnswerPut(id, q) PROVE AgentInv'
<1> DEFINE spec == [agents[id][1].spec EXCEPT !.memory = Append(@, agents[id][1].asked[q])]
           w == [does |-> "answer", id |-> id, spec |-> spec, asked |-> q]
<1>1. /\ Free /\ Running(id)
      /\ UNCHANGED <<agents, tokens, creating, editing, clock, acked, admitted, born>>
  BY DEF AnswerPut
<1>2. \/ store' = [store EXCEPT ![id] = <<spec>>] /\ writing' = <<w>>
      \/ UNCHANGED <<store, writing>>
  BY DEF AnswerPut
<1> HIDE DEF spec
<1>3. CASE store' = [store EXCEPT ![id] = <<spec>>] /\ writing' = <<w>>
  <2>1. writing' # None /\ writing'[1] = w
    BY <1>3, SpecsAreTold
  <2>2. w.id = id /\ w.does = "answer" /\ w.spec = spec
    OBVIOUS
  <2>3. OwnerTypes'
    BY <1>1, <1>3, <2>1, <2>2 DEF AgentInv, OwnerTypes
  <2> DEFINE put == <<spec>>
  <2>4. put = <<put[1]>>
    OBVIOUS
  <2>5. put = IF writing'[1].does = "delete" THEN None ELSE <<writing'[1].spec>>
    BY <2>1, <2>2
  <2>6. store' = [store EXCEPT ![id] = put]
    BY <1>3
  <2> HIDE DEF put, w
  <2>7. QED
    BY <1>1, <2>1, <2>2, <2>3, <2>4, <2>5, <2>6, StoreGoesAhead
<1>4. CASE UNCHANGED <<store, writing>>
  <2>1. OwnerTypes'
    BY <1>1, <1>4 DEF AgentInv, OwnerTypes
  <2>2. QED
    BY <1>1, <1>4, <2>1, NothingWritten
<1>5. QED
  BY <1>2, <1>3, <1>4

LEMMA DeletePutKeeps == ASSUME AgentInv, NEW id \in Agents, DeletePut(id) PROVE AgentInv'
<1> DEFINE w == [does |-> "delete", id |-> id]
<1>1. /\ Free /\ Running(id)
      /\ UNCHANGED <<agents, tokens, creating, editing, clock, acked, admitted, born>>
  BY DEF DeletePut
<1>2. CASE store' = [store EXCEPT ![id] = None] /\ writing' = <<w>>
  <2>1. writing' # None /\ writing'[1] = w
    BY <1>2, SpecsAreTold
  <2>2. w.id = id /\ w.does = "delete"
    OBVIOUS
  <2>3. OwnerTypes'
    BY <1>1, <1>2, <2>1, <2>2 DEF AgentInv, OwnerTypes
  <2>4. None = IF writing'[1].does = "delete" THEN None ELSE <<writing'[1].spec>>
    BY <2>1, <2>2
  <2> HIDE DEF w
  <2>5. QED
    BY <1>1, <1>2, <2>1, <2>2, <2>3, <2>4, StoreGoesAhead
<1>3. CASE UNCHANGED <<store, writing>>
  <2>1. OwnerTypes'
    BY <1>1, <1>3 DEF AgentInv, OwnerTypes
  <2>2. QED
    BY <1>1, <1>3, <2>1, NothingWritten
<1>4. QED
  BY <1>2, <1>3 DEF DeletePut

\* The second half of an edit or an answer: the agent gets the spec the store
\* has, on the bucket it had.
LEMMA AgentCatchesUp ==
    ASSUME AgentInv, writing # None, writing[1].does # "delete", writing' = None, OwnerTypes',
           NEW id \in Agents, writing[1].id = id,
           NEW new, IsAgent(new), new.spec = writing[1].spec,
           new.tokens = agents[id][1].tokens, new.filled = agents[id][1].filled,
           agents' = [agents EXCEPT ![id] = <<new>>],
           acked' = [acked EXCEPT ![id] = <<writing[1].spec>>],
           UNCHANGED <<store, tokens, creating, clock, admitted, born>>
    PROVE  AgentInv'
<1>1. /\ DOMAIN agents' = Agents /\ agents'[id] = <<new>>
      /\ \A other \in Agents \ {id} : agents'[other] = agents[other]
  BY DEF AgentInv, AgentTypes
<1>2. /\ DOMAIN acked' = Agents /\ acked'[id] = <<writing[1].spec>>
      /\ \A other \in Agents \ {id} : acked'[other] = acked[other]
  BY DEF AgentInv, AgentTypes
<1>3. Running(id) /\ store[id] = <<writing[1].spec>>
  BY DEF AgentInv, Ahead
<1>4. agents'[id] # None /\ acked'[id] # None
  BY <1>1, <1>2, SpecsAreTold
<1>5. \A other \in Agents : (agents'[other] # None) = (agents[other] # None)
  BY <1>1, <1>3, <1>4 DEF Running
<1>6. AgentTypes'
  <2>1. ASSUME NEW other \in Agents
        PROVE  \/ agents'[other] = None
               \/ agents'[other] = <<agents'[other][1]>> /\ IsAgent(agents[other][1])'
    <3>1. CASE other = id
      BY <1>1, <3>1 DEF IsAgent
    <3>2. CASE other # id
      BY <1>1, <3>2 DEF AgentInv, AgentTypes, IsAgent
    <3>3. QED
      BY <3>1, <3>2
  <2>2. \A other \in Agents : acked'[other] \in {None, Deleted} \/ acked'[other] = <<acked'[other][1]>>
    BY <1>2 DEF AgentInv, AgentTypes
  <2>3. QED
    BY <1>1, <1>2, <2>1, <2>2 DEF AgentInv, AgentTypes
<1>7. creating # None => creating[1].id \in Agents /\ creating[1].id # id
  BY <1>3 DEF AgentInv, OwnerTypes, Making, Running
<1>8. Making'
  BY <1>1, <1>2, <1>7 DEF AgentInv, Making
<1>9. Ahead'
  BY DEF Ahead
<1>10. Agree'
  BY <1>1, <1>2, <1>3, <1>4, <1>5 DEF AgentInv, Agree, Running
<1>11. TokensAreTheAgents'
  BY <1>5 DEF AgentInv, TokensAreTheAgents, Running
<1>12. Poured'
  <2>1. ASSUME NEW other \in Agents
        PROVE  born'[other] <= clock' /\ (acked'[other] = None => admitted'[other] = 0)
    BY <1>2, <1>4 DEF AgentInv, Poured
  <2>2. ASSUME NEW other \in Agents, Running(other)'
        PROVE  /\ born'[other] <= agents'[other][1].filled
               /\ admitted'[other] + agents'[other][1].tokens
                     <= Burst + Refill * (agents'[other][1].filled - born'[other])
    <3>1. Running(other)
      BY <1>5, <2>2 DEF Running
    <3>2. /\ agents'[other][1].tokens = agents[other][1].tokens
          /\ agents'[other][1].filled = agents[other][1].filled
      BY <1>1
    <3>3. QED
      BY <3>1, <3>2 DEF AgentInv, Poured
  <2>3. QED
    BY <2>1, <2>2 DEF AgentInv, Poured
<1>13. QED
  BY <1>6, <1>8, <1>9, <1>10, <1>11, <1>12 DEF AgentInv

LEMMA UpdateSwapKeeps == ASSUME AgentInv, UpdateSwap PROVE AgentInv'
<1> DEFINE id == writing[1].id
           new == RevisedAgent(agents[id][1], writing[1].spec)
<1>1. /\ writing # None /\ writing[1].does = "update" /\ writing' = None
      /\ acked' = [acked EXCEPT ![id] = <<writing[1].spec>>]
      /\ UNCHANGED <<store, tokens, creating, editing, clock, admitted, born>>
  BY DEF UpdateSwap
<1>2. id \in Agents /\ Running(id) /\ OwnerTypes'
  BY <1>1 DEF AgentInv, OwnerTypes, Ahead
<1>3. agents' = [agents EXCEPT ![id] = <<new>>]
  BY DEF UpdateSwap
<1>4. IsAgent(agents[id][1])
  BY <1>2, AgentFields DEF AgentInv
<1>5. /\ IsAgent(new) /\ new.spec = writing[1].spec
      /\ new.tokens = agents[id][1].tokens /\ new.filled = agents[id][1].filled
  BY <1>4 DEF RevisedAgent, IsAgent
<1> HIDE DEF new
<1>6. QED
  BY <1>1, <1>2, <1>3, <1>5, AgentCatchesUp

LEMMA AnswerSwapKeeps == ASSUME AgentInv, AnswerSwap PROVE AgentInv'
<1> DEFINE id == writing[1].id
           new == AnsweredAgent(agents[id][1], writing[1].spec, writing[1].asked)
<1>1. /\ writing # None /\ writing[1].does = "answer" /\ writing' = None
      /\ acked' = [acked EXCEPT ![id] = <<writing[1].spec>>]
      /\ UNCHANGED <<store, tokens, creating, editing, clock, admitted, born>>
  BY DEF AnswerSwap, ownerVars
<1>2. id \in Agents /\ Running(id) /\ OwnerTypes'
  BY <1>1 DEF AgentInv, OwnerTypes, Ahead
<1>3. agents' = [agents EXCEPT ![id] = <<new>>]
  BY DEF AnswerSwap
<1>4. IsAgent(agents[id][1])
  BY <1>2, AgentFields DEF AgentInv
<1>5. /\ IsAgent(new) /\ new.spec = writing[1].spec
      /\ new.tokens = agents[id][1].tokens /\ new.filled = agents[id][1].filled
  BY <1>4 DEF AnsweredAgent, IsAgent
<1> HIDE DEF new
<1>6. QED
  BY <1>1, <1>2, <1>3, <1>5, AgentCatchesUp

LEMMA DeleteSwapKeeps == ASSUME AgentInv, DeleteSwap PROVE AgentInv'
<1> DEFINE id == writing[1].id
<1>1. /\ writing # None /\ writing[1].does = "delete" /\ writing' = None
      /\ agents' = [agents EXCEPT ![id] = None] /\ acked' = [acked EXCEPT ![id] = Deleted]
      /\ tokens' = tokens \ {id}
      /\ UNCHANGED <<store, creating, editing, clock, admitted, born>>
  BY DEF DeleteSwap, ownerVars
<1>2. id \in Agents /\ Running(id) /\ store[id] = None /\ OwnerTypes'
  BY <1>1 DEF AgentInv, OwnerTypes, Ahead
<1>3. /\ DOMAIN agents' = Agents /\ agents'[id] = None
      /\ \A other \in Agents \ {id} : agents'[other] = agents[other]
  BY <1>1, <1>2 DEF AgentInv, AgentTypes
<1>4. /\ DOMAIN acked' = Agents /\ acked'[id] = Deleted
      /\ \A other \in Agents \ {id} : acked'[other] = acked[other]
  BY <1>1, <1>2 DEF AgentInv, AgentTypes
<1>5. AgentTypes'
  <2>1. \A other \in Agents : acked'[other] \in {None, Deleted} \/ acked'[other] = <<acked'[other][1]>>
    BY <1>4 DEF AgentInv, AgentTypes
  <2>2. \A other \in Agents :
           agents'[other] = None \/ (agents'[other] = <<agents'[other][1]>> /\ IsAgent(agents[other][1])')
    BY <1>1, <1>3 DEF AgentInv, AgentTypes, IsAgent
  <2>3. QED
    BY <1>1, <1>3, <1>4, <2>1, <2>2 DEF AgentInv, AgentTypes
<1>6. creating # None => creating[1].id \in Agents /\ creating[1].id # id
  BY <1>2 DEF AgentInv, OwnerTypes, Making, Running
<1>7. Making' /\ Ahead'
  BY <1>1, <1>3, <1>4, <1>6 DEF AgentInv, Making, Ahead
<1>8. Agree'
  BY <1>1, <1>2, <1>3, <1>4 DEF AgentInv, Agree, Running
<1>9. TokensAreTheAgents'
  BY <1>1, <1>2, <1>3, <1>6 DEF AgentInv, TokensAreTheAgents, Running
<1>10. Poured'
  BY <1>1, <1>3, <1>4, SpecsAreTold DEF AgentInv, Poured, Running
<1>11. QED
  BY <1>2, <1>5, <1>7, <1>8, <1>9, <1>10 DEF AgentInv

LEMMA RestartKeepsAgents == ASSUME AgentInv, Restart PROVE AgentInv'
<1>1. /\ agents' = [id \in Agents |-> IF store[id] = None THEN None ELSE <<Run(store[id][1])>>]
      /\ tokens' = {id \in Agents : store[id] # None}
      /\ born' = [id \in Agents |-> clock] /\ admitted' = [id \in Agents |-> 0]
      /\ creating' = None /\ editing' = None /\ writing' = None
      /\ UNCHANGED <<store, clock>>
  BY DEF Restart
<1>2. acked' = [id \in Agents |->
           IF Settled(id) THEN acked[id]
           ELSE IF store[id] = None /\ acked[id] # None THEN Deleted ELSE store[id]]
  BY DEF Restart
<1>3. \A spec : /\ Run(spec).spec = spec /\ Run(spec).tokens = Burst /\ Run(spec).filled = clock
                /\ Run(spec).events = NoThread
                /\ DOMAIN Run(spec) = {"spec", "tokens", "filled", "convs", "events", "asked"}
  BY DEF Run
<1>4. clock \in Nat /\ Burst \in Bucket /\ clock <= clock
  BY RateIsNatural DEF AgentInv, AgentTypes, Bucket
<1>5. \A spec : IsAgent(Run(spec))
  BY <1>3, <1>4 DEF IsAgent
<1>6. ASSUME NEW id \in Agents, store[id] # None
      PROVE  /\ agents'[id] # None /\ agents'[id] = <<Run(store[id][1])>>
             /\ agents'[id][1] = Run(store[id][1]) /\ store[id] = <<store[id][1]>>
  <2>1. agents'[id] = <<Run(store[id][1])>>
    BY <1>1, <1>6
  <2>2. store[id] = <<store[id][1]>>
    BY <1>6 DEF AgentInv, AgentTypes
  <2>3. QED
    BY <2>1, <2>2, SpecsAreTold
<1>7. \A id \in Agents : store[id] = None => agents'[id] = None
  BY <1>1
<1>8. ASSUME NEW id \in Agents
      PROVE  /\ store[id] # None => acked'[id] = store[id]
             /\ store[id] = None => acked'[id] \in {None, Deleted}
  <2>1. CASE Settled(id)
    <3>1. acked'[id] = acked[id]
      BY <1>2, <2>1
    <3>2. CASE Running(id)
      BY <2>1, <3>1, <3>2, SpecsAreTold DEF AgentInv, Agree, Settled
    <3>3. CASE ~Running(id)
      BY <2>1, <3>1, <3>3 DEF AgentInv, Agree, Settled
    <3>4. QED
      BY <3>2, <3>3
  <2>2. CASE ~Settled(id)
    <3>1. acked'[id] = IF store[id] = None /\ acked[id] # None THEN Deleted ELSE store[id]
      BY <1>2, <2>2
    <3>2. QED
      BY <3>1
  <2>3. QED
    BY <2>1, <2>2
<1> HIDE DEF Run
<1>9. AgentTypes'
  <2>1. DOMAIN store' = Agents /\ DOMAIN agents' = Agents /\ DOMAIN acked' = Agents /\ clock' \in Nat
    BY <1>1, <1>2, <1>4 DEF AgentInv, AgentTypes
  <2>2. ASSUME NEW id \in Agents
        PROVE  agents'[id] = None \/ (agents'[id] = <<agents'[id][1]>> /\ IsAgent(agents[id][1])')
    <3>1. CASE store[id] = None
      BY <1>7, <3>1
    <3>2. CASE store[id] # None
      <4>1. agents'[id][1] = Run(store[id][1])
        BY <1>6, <3>2
      <4>2. IsAgent(agents[id][1])'
        BY <1>1, <1>5, <4>1 DEF IsAgent
      <4>3. QED
        BY <1>6, <3>2, <4>2
    <3>3. QED
      BY <3>1, <3>2
  <2>3. \A id \in Agents : /\ store'[id] = None \/ store'[id] = <<store'[id][1]>>
                           /\ acked'[id] \in {None, Deleted} \/ acked'[id] = <<acked'[id][1]>>
    BY <1>1, <1>6, <1>8
  <2>4. QED
    BY <2>1, <2>2, <2>3 DEF AgentTypes
<1>10. OwnerTypes' /\ Making' /\ Ahead'
  BY <1>1 DEF OwnerTypes, Making, Ahead
<1>11. Agree'
  <2>1. ASSUME NEW id \in Agents
        PROVE  /\ Running(id)' => store'[id] = <<agents'[id][1].spec>> /\ acked'[id] = store'[id]
               /\ ~Running(id)' => acked'[id] \in {None, Deleted} /\ store'[id] = None
    <3>1. CASE store[id] = None
      BY <1>1, <1>7, <1>8, <3>1 DEF Running
    <3>2. CASE store[id] # None
      <4>1. Running(id)'
        BY <1>6, <3>2 DEF Running
      <4>2. store[id] = <<agents'[id][1].spec>>
        BY <1>3, <1>6, <3>2
      <4>3. QED
        BY <1>1, <1>8, <3>2, <4>1, <4>2
    <3>3. QED
      BY <3>1, <3>2
  <2>2. QED
    BY <2>1 DEF Agree
<1>12. TokensAreTheAgents'
  BY <1>1, <1>6, <1>7 DEF TokensAreTheAgents, Running
<1>13. Poured'
  <2>1. born' \in [Agents -> Nat] /\ admitted' \in [Agents -> Nat]
    BY <1>1, <1>4
  <2>2. \A id \in Agents : born'[id] <= clock' /\ admitted'[id] = 0 /\ born'[id] = clock
    BY <1>1, <1>4
  <2>3. ASSUME NEW id \in Agents, Running(id)'
        PROVE  /\ born'[id] <= agents'[id][1].filled
               /\ admitted'[id] + agents'[id][1].tokens
                     <= Burst + Refill * (agents'[id][1].filled - born'[id])
    <3>1. agents'[id][1] = Run(store[id][1])
      BY <1>6, <1>7, <2>3 DEF Running
    <3>2. agents'[id][1].tokens = Burst /\ agents'[id][1].filled = clock
      BY <1>3, <3>1
    <3>3. Burst \in Nat /\ Refill \in Nat
      BY RateIsNatural
    <3>4. clock - clock = 0 /\ Refill * 0 = 0 /\ 0 + Burst <= Burst + 0
      BY <1>4, <3>3
    <3>5. QED
      BY <1>4, <2>2, <3>2, <3>4
  <2>4. QED
    BY <2>1, <2>2, <2>3 DEF Poured
<1>14. QED
  BY <1>9, <1>10, <1>11, <1>12, <1>13 DEF AgentInv

-----------------------------------------------------------------------------
(* Messages. *)

\* Drawing from the bucket, or only looking into it, keeps the account of it.
LEMMA DrawnFromTheBucket ==
    ASSUME AgentInv, NEW id \in Agents, Running(id), NEW drawn \in {0, 1}
    PROVE  /\ born[id] <= clock
           /\ (admitted[id] + drawn) + (Level(agents[id][1]) - drawn) <= Burst + Refill * (clock - born[id])
<1> DEFINE ag == agents[id][1]
           level == Level(ag)
           before == Refill * (ag.filled - born[id])
           since == Refill * (clock - ag.filled)
           both == Refill * (clock - born[id])
           let == admitted[id]
           held == ag.tokens
<1>1. IsAgent(ag) /\ clock \in Nat /\ Refill \in Nat /\ Burst \in Nat
  BY AgentFields, RateIsNatural DEF AgentInv, AgentTypes
<1>2. level \in Bucket /\ level <= held + since
  BY <1>1, LevelIsBounded
<1>3. /\ born[id] \in Nat /\ born[id] <= ag.filled /\ let \in Nat
      /\ let + held <= Burst + before
  BY DEF AgentInv, Poured
<1>4. ag.filled \in Nat /\ ag.filled <= clock /\ held \in Nat
  BY <1>1 DEF IsAgent, Bucket
<1>5. born[id] <= clock
  BY <1>1, <1>3, <1>4
<1>6. before + since = both
  BY <1>1, <1>3, <1>4, PouredOver
<1>7. before \in Nat /\ since \in Nat /\ both \in Nat /\ level \in Nat
  <2>1. ag.filled - born[id] \in Nat /\ clock - ag.filled \in Nat /\ clock - born[id] \in Nat
    BY <1>1, <1>3, <1>4, <1>5
  <2>2. QED
    BY <1>1, <1>2, <2>1, PouredIsNatural DEF Bucket
<1> HIDE DEF level, before, since, both, let, held
<1>8. (let + drawn) + (level - drawn) <= Burst + both
  BY <1>1, <1>2, <1>3, <1>4, <1>6, <1>7
<1>9. QED
  BY <1>5, <1>8 DEF level, both, let

\* An agent that was found, its bucket looked into and a token taken or not.
LEMMA Weighed ==
    ASSUME AgentInv, Free, NEW id \in Agents, Running(id), NEW drawn \in {0, 1},
           Level(agents[id][1]) >= drawn,
           NEW new, DOMAIN new = DOMAIN agents[id][1], new.spec = agents[id][1].spec,
           new.tokens = Level(agents[id][1]) - drawn, new.filled = clock,
           new.events \in Message \cup {NoThread},
           agents' = [agents EXCEPT ![id] = <<new>>],
           UNCHANGED <<store, tokens, creating, editing, writing, clock, acked, born>>,
           admitted' = [admitted EXCEPT ![id] = @ + drawn]
    PROVE  AgentInv'
<1> DEFINE level == Level(agents[id][1])
<1>1. IsAgent(agents[id][1]) /\ clock \in Nat /\ clock <= clock
  BY AgentFields DEF AgentInv, AgentTypes
<1>2. level \in Bucket
  BY <1>1, LevelIsBounded
<1> HIDE DEF level
<1>3. level - drawn \in Bucket
  BY <1>2, RateIsNatural DEF Bucket, level
<1>4. IsAgent(new)
  BY <1>1, <1>3 DEF IsAgent, level
<1>5. /\ admitted' \in [Agents -> Nat] /\ admitted'[id] = admitted[id] + drawn
      /\ \A other \in Agents \ {id} : admitted'[other] = admitted[other]
  BY DEF AgentInv, Poured
<1>6. /\ born[id] <= clock
      /\ (admitted[id] + drawn) + (Level(agents[id][1]) - drawn) <= Burst + Refill * (clock - born[id])
  BY DrawnFromTheBucket
<1>7. born[id] <= new.filled /\ admitted'[id] + new.tokens <= Burst + Refill * (new.filled - born[id])
  BY <1>5, <1>6
<1>8. QED
  BY <1>4, <1>5, <1>7, OneTouched

LEMMA SayKeepsAgents ==
    ASSUME AgentInv, NEW m \in Message, NEW id \in Agents, NEW thread, NEW event \in BOOLEAN,
           Say(m, id, thread, event)
    PROVE  AgentInv'
<1> DEFINE ag == agents[id][1]
           level == Level(ag)
           spent == [ag EXCEPT !.tokens = level - 1, !.filled = clock]
<1>1. /\ Free
      /\ UNCHANGED <<store, tokens, creating, editing, writing, clock, acked, born>>
  BY DEF Say, ownerVars
<1>2. CASE ~Running(id) \/ (event /\ ~ag.spec.webhook)
  <2>1. UNCHANGED <<agents, admitted>>
    BY <1>2 DEF Say, TurnedAway
  <2>2. QED
    BY <1>1, <2>1, AgentFrame
<1>3. ASSUME Running(id), ~(event /\ ~ag.spec.webhook)
      PROVE  AgentInv'
  <2>1. /\ IsAgent(ag) /\ clock \in Nat /\ Burst \in Nat
        /\ admitted[id] \in Nat /\ admitted = [admitted EXCEPT ![id] = @ + 0]
    <3>1. IsAgent(ag) /\ clock \in Nat /\ Burst \in Nat
      BY <1>3, AgentFields, RateIsNatural DEF AgentInv, AgentTypes
    <3>2. admitted[id] \in Nat /\ admitted \in [Agents -> Nat]
      BY DEF AgentInv, Poured
    <3>3. admitted[id] + 0 = admitted[id]
      BY <3>2
    <3>4. QED
      BY <3>1, <3>2, <3>3
  <2>2. level \in Bucket /\ level \in Nat
    BY <2>1, LevelIsBounded DEF Bucket
  <2>3. CASE level < 1
    <3> DEFINE new == [ag EXCEPT !.tokens = level, !.filled = clock]
    <3>1. agents' = [agents EXCEPT ![id] = <<[ag EXCEPT !.tokens = <<level>>[1], !.filled = clock]>>]
      BY <1>3, <2>3, SpecsAreTold DEF Say, TurnedAway
    <3>2. agents' = [agents EXCEPT ![id] = <<new>>]
      BY <3>1
    <3>3. admitted' = admitted
      BY <1>3, <2>3 DEF Say
    <3> HIDE DEF level
    <3>4. DOMAIN new = DOMAIN ag /\ new.spec = ag.spec /\ new.tokens = level /\ new.filled = clock
          /\ new.events \in Message \cup {NoThread}
      BY <2>1 DEF IsAgent
    <3>5. level - 0 = level /\ level >= 0
      BY <2>2
    <3>6. admitted' = [admitted EXCEPT ![id] = @ + 0]
      BY <2>1, <3>3
    <3> HIDE DEF new
    <3>7. QED
      BY <1>1, <1>3, <3>2, <3>4, <3>5, <3>6, Weighed DEF level
  <2>4. ASSUME ~(level < 1)
        PROVE  AgentInv'
    <3>1. admitted' = [admitted EXCEPT ![id] = @ + 1]
      BY <1>3, <2>4 DEF Say
    <3>2. level >= 1
      BY <2>2, <2>4
    <3>3. /\ DOMAIN spent = DOMAIN ag /\ spent.spec = ag.spec /\ spent.tokens = level - 1
          /\ spent.filled = clock /\ spent.events \in Message \cup {NoThread}
          /\ DOMAIN ag = {"spec", "tokens", "filled", "convs", "events", "asked"}
      <4> HIDE DEF level
      <4>1. QED
        BY <2>1 DEF IsAgent
    <3>4. \E new : /\ agents' = [agents EXCEPT ![id] = <<new>>]
                   /\ DOMAIN new = DOMAIN ag /\ new.spec = ag.spec /\ new.tokens = level - 1
                   /\ new.filled = clock /\ new.events \in Message \cup {NoThread}
      <4>1. \/ \E t \in Message \cup {NoThread} :
                  agents' = [agents EXCEPT ![id] = <<[spent EXCEPT !.events = t]>>]
            \/ \E open : agents' = [agents EXCEPT ![id] = <<[spent EXCEPT !.convs = open]>>]
            \/ agents' = [agents EXCEPT ![id] = <<spent>>]
            \/ agents' = [agents EXCEPT ![id] =
                             <<[ag EXCEPT !.tokens = <<spent.tokens>>[1], !.filled = clock]>>]
        <5>1. ag.events \in Message \cup {NoThread}
          BY <2>1 DEF IsAgent
        <5>2. CASE event
          BY <1>3, <2>4, <5>1, <5>2 DEF Say
        <5>3. CASE ~event
          BY <1>3, <2>4, <5>3, SpecsAreTold DEF Say, TurnedAway
        <5>4. QED
          BY <5>2, <5>3
      <4> HIDE DEF level, spent
      <4>2. ASSUME NEW t \in Message \cup {NoThread},
                   agents' = [agents EXCEPT ![id] = <<[spent EXCEPT !.events = t]>>]
            PROVE  \E new : /\ agents' = [agents EXCEPT ![id] = <<new>>]
                            /\ DOMAIN new = DOMAIN ag /\ new.spec = ag.spec /\ new.tokens = level - 1
                            /\ new.filled = clock /\ new.events \in Message \cup {NoThread}
        <5> WITNESS [spent EXCEPT !.events = t]
        <5>1. QED
          BY <3>3, <4>2
      <4>3. ASSUME NEW open, agents' = [agents EXCEPT ![id] = <<[spent EXCEPT !.convs = open]>>]
            PROVE  \E new : /\ agents' = [agents EXCEPT ![id] = <<new>>]
                            /\ DOMAIN new = DOMAIN ag /\ new.spec = ag.spec /\ new.tokens = level - 1
                            /\ new.filled = clock /\ new.events \in Message \cup {NoThread}
        <5> WITNESS [spent EXCEPT !.convs = open]
        <5>1. QED
          BY <3>3, <4>3
      <4>4. ASSUME agents' = [agents EXCEPT ![id] =
                                 <<[ag EXCEPT !.tokens = <<spent.tokens>>[1], !.filled = clock]>>]
            PROVE  \E new : /\ agents' = [agents EXCEPT ![id] = <<new>>]
                            /\ DOMAIN new = DOMAIN ag /\ new.spec = ag.spec /\ new.tokens = level - 1
                            /\ new.filled = clock /\ new.events \in Message \cup {NoThread}
        <5> WITNESS [ag EXCEPT !.tokens = <<spent.tokens>>[1], !.filled = clock]
        <5>1. QED
          BY <2>1, <3>3, <4>4 DEF IsAgent
      <4>5. QED
        BY <3>3, <4>1, <4>2, <4>3, <4>4
    <3>5. QED
      BY <1>1, <1>3, <3>1, <3>2, <3>4, Weighed
  <2>5. QED
    BY <2>3, <2>4
<1>4. QED
  BY <1>2, <1>3

LEMMA AskKeepsAgents == ASSUME AgentInv, ConversationInv, NEW m \in Message, Ask(m) PROVE AgentInv'
<1> DEFINE id == calls[m].agent
           new == [agents[id][1] EXCEPT !.asked = Asked(agents[id][1].asked, m)]
<1>1. /\ Free /\ calls[m].state = "asking"
      /\ UNCHANGED <<store, tokens, creating, editing, writing, clock, acked, admitted, born>>
  BY DEF Ask, ownerVars
<1>2. id \in Agents
  BY <1>1 DEF ConversationInv, CallTypes, IsCall
<1>3. CASE ~Running(id)
  <2>1. agents' = agents
    BY <1>3 DEF Ask
  <2>2. QED
    BY <1>1, <2>1, AgentFrame
<1>4. CASE Running(id)
  <2>1. agents' = [agents EXCEPT ![id] = <<new>>]
    BY <1>4 DEF Ask
  <2>2. IsAgent(agents[id][1])
    BY <1>2, <1>4, AgentFields DEF AgentInv
  <2>3. /\ IsAgent(new) /\ new.spec = agents[id][1].spec
        /\ new.tokens = agents[id][1].tokens /\ new.filled = agents[id][1].filled
    BY <2>2 DEF IsAgent
  <2>4. /\ admitted' \in [Agents -> Nat] /\ admitted' = admitted
        /\ born[id] <= agents[id][1].filled
        /\ admitted[id] + agents[id][1].tokens <= Burst + Refill * (agents[id][1].filled - born[id])
    BY <1>1, <1>2, <1>4 DEF AgentInv, Poured
  <2> HIDE DEF new
  <2>5. QED
    BY <1>1, <1>2, <1>4, <2>1, <2>3, <2>4, OneTouched
<1>5. QED
  BY <1>3, <1>4

-----------------------------------------------------------------------------
(* Conversations. *)

\* One exchange more, and the newest of them is kept: what a call keeps is the
\* newest of everything said.
LEMMA KeptIsNewest ==
    ASSUME NEW s \in Seq(Message), NEW m \in Message
    PROVE  Newest(s) \in Seq(Message) /\ Kept(Newest(s), m) = Newest(Append(s, m))
<1> DEFINE n == Len(s)
           t == Append(s, m)
           k == IF n > History THEN n - History + 1 ELSE 1
           all == Append(Newest(s), m)
<1>1. History \in Nat /\ History > 0 /\ n \in Nat
  BY RateIsNatural
<1>2. /\ Newest(s) \in Seq(Message)
      /\ Len(Newest(s)) = n - k + 1
      /\ \A i \in 1..(n - k + 1) : Newest(s)[i] = s[k + i - 1]
  <2>1. k \in 1..(n + 1) /\ k \in Int
    BY <1>1
  <2>2. Newest(s) = SubSeq(s, k, n)
    BY DEF Newest
  <2>3. \A i \in k..n : s[i] \in Message
    BY <2>1
  <2> HIDE DEF k, n
  <2>4. /\ SubSeq(s, k, n) \in Seq(Message)
        /\ Len(SubSeq(s, k, n)) = IF k <= n THEN n - k + 1 ELSE 0
        /\ \A i \in 1..(n - k + 1) : SubSeq(s, k, n)[i] = s[k + i - 1]
    BY <1>1, <2>1, <2>3, SubSeqProperties
  <2>5. k > n => n - k + 1 = 0
    BY <1>1, <2>1
  <2>6. QED
    BY <1>1, <2>1, <2>2, <2>4, <2>5
<1>3. /\ t \in Seq(Message) /\ Len(t) = n + 1 /\ t[n + 1] = m
      /\ \A i \in 1..n : t[i] = s[i]
  OBVIOUS
<1>4. /\ all \in Seq(Message) /\ Len(all) = Len(Newest(s)) + 1 /\ all[Len(Newest(s)) + 1] = m
      /\ \A i \in 1..Len(Newest(s)) : all[i] = Newest(s)[i]
  BY <1>2
<1>5. CASE n < History
  <2>1. k = 1 /\ n - k + 1 = n
    BY <1>1, <1>5
  <2>2. Len(all) = n + 1
    BY <1>2, <1>4, <2>1
  <2>3. ASSUME NEW i \in 1..(n + 1) PROVE all[i] = t[i]
    <3>1. CASE i = n + 1
      BY <1>2, <1>3, <1>4, <2>1, <3>1
    <3>2. CASE i # n + 1
      <4>1. i \in 1..n /\ k + i - 1 = i
        BY <1>1, <2>1, <3>2
      <4>2. all[i] = Newest(s)[i] /\ Newest(s)[i] = s[i]
        BY <1>2, <1>4, <2>1, <4>1
      <4>3. QED
        BY <1>3, <4>1, <4>2
    <3>3. QED
      BY <3>1, <3>2
  <2> HIDE DEF all, t
  <2>4. all = t
    BY <1>3, <1>4, <2>2, <2>3, SeqEqual
  <2>5. ~(Len(all) > History) /\ ~(Len(t) > History)
    BY <1>1, <1>3, <1>5, <2>2
  <2>6. Kept(Newest(s), m) = all
    BY <2>5 DEF Kept, all
  <2>7. Newest(t) = SubSeq(t, 1, Len(t))
    BY <2>5 DEF Newest
  <2>8. Newest(t) = t
    BY <1>3, <2>7, SubSeqFull
  <2>9. QED
    BY <1>2, <2>4, <2>6, <2>8 DEF t
<1>6. CASE n >= History
  <2>1. k = n - History + 1 /\ n - k + 1 = History /\ k \in Int /\ k >= 1
    BY <1>1, <1>6
  <2>2. Len(all) = History + 1 /\ Len(Newest(s)) = History
    BY <1>1, <1>2, <1>4, <2>1
  <2>3. Kept(Newest(s), m) = SubSeq(all, 2, History + 1)
    <3>1. Len(all) > History /\ Len(all) - History + 1 = 2
      BY <1>1, <2>2
    <3>2. Kept(Newest(s), m) = SubSeq(all, Len(all) - History + 1, Len(all))
      BY <3>1 DEF Kept
    <3> HIDE DEF all
    <3>3. QED
      BY <2>2, <3>1, <3>2
  <2>4. Newest(t) = SubSeq(t, k + 1, n + 1)
    <3>1. Len(t) > History /\ Len(t) - History + 1 = k + 1
      BY <1>1, <1>3, <1>6, <2>1
    <3>2. Newest(t) = SubSeq(t, Len(t) - History + 1, Len(t))
      BY <3>1 DEF Newest
    <3> HIDE DEF t
    <3>3. QED
      BY <1>3, <3>1, <3>2
  <2> DEFINE x == SubSeq(all, 2, History + 1)
             y == SubSeq(t, k + 1, n + 1)
  <2>5. /\ x \in Seq(Message) /\ Len(x) = History
        /\ \A i \in 1..History : x[i] = all[i + 1]
    <3>1. \A i \in 2..(History + 1) : all[i] \in Message
      BY <1>1, <1>4, <2>2
    <3> HIDE DEF all
    <3>2. /\ x \in Seq(Message) /\ Len(x) = (IF 2 <= History + 1 THEN History + 1 - 2 + 1 ELSE 0)
          /\ \A i \in 1..(History + 1 - 2 + 1) : x[i] = all[2 + i - 1]
      BY <1>1, <3>1, SubSeqProperties
    <3> HIDE DEF x
    <3>3. History + 1 - 2 + 1 = History /\ 2 <= History + 1 /\ \A i \in 1..History : 2 + i - 1 = i + 1
      BY <1>1
    <3>4. QED
      BY <3>2, <3>3
  <2>6. /\ y \in Seq(Message) /\ Len(y) = History
        /\ \A i \in 1..History : y[i] = t[k + i]
    <3>1. \A i \in (k + 1)..(n + 1) : t[i] \in Message
      BY <1>1, <1>3, <2>1
    <3> HIDE DEF t, k, n
    <3>2. /\ y \in Seq(Message) /\ Len(y) = (IF k + 1 <= n + 1 THEN n + 1 - (k + 1) + 1 ELSE 0)
          /\ \A i \in 1..(n + 1 - (k + 1) + 1) : y[i] = t[k + 1 + i - 1]
      BY <1>1, <2>1, <3>1, SubSeqProperties
    <3> HIDE DEF y
    <3>3. n + 1 - (k + 1) + 1 = History /\ k + 1 <= n + 1 /\ \A i \in 1..History : k + 1 + i - 1 = k + i
      BY <1>1, <2>1
    <3>4. QED
      BY <3>2, <3>3
  <2> HIDE DEF x, y
  <2>7. ASSUME NEW i \in 1..History PROVE x[i] = y[i]
    <3>1. x[i] = all[i + 1] /\ y[i] = t[k + i]
      BY <2>5, <2>6
    <3>2. CASE i = History
      <4>1. i + 1 = Len(Newest(s)) + 1 /\ k + i = n + 1
        BY <1>1, <2>1, <2>2, <3>2
      <4>2. QED
        BY <1>3, <1>4, <3>1, <4>1
    <3>3. CASE i # History
      <4>1. i + 1 \in 1..History /\ k + i \in 1..n /\ k + (i + 1) - 1 = k + i
        BY <1>1, <2>1, <3>3
      <4>2. all[i + 1] = Newest(s)[i + 1] /\ Newest(s)[i + 1] = s[k + i]
        BY <1>2, <1>4, <2>1, <2>2, <4>1
      <4>3. t[k + i] = s[k + i]
        BY <1>3, <4>1
      <4>4. QED
        BY <3>1, <4>2, <4>3
    <3>4. QED
      BY <3>2, <3>3
  <2>8. x = y
    BY <2>5, <2>6, <2>7, SeqEqual
  <2>9. QED
    BY <1>2, <2>3, <2>4, <2>8 DEF x, y
<1>7. QED
  BY <1>1, <1>5, <1>6

LEMMA NoThreadIsNone == NoThread \notin Message
<1>1. \A m \in 1..Messages : m # 0
  BY RateIsNatural
<1>2. QED
  BY <1>1 DEF Message, NoThread

\* One message's call changes, its conversation with it; nobody else's
\* conversation does.
LEMMA OneCall ==
    ASSUME ConversationInv, NEW m \in Message, NEW c, IsCall(c), calls' = [calls EXCEPT ![m] = c],
           ThreadTypes', HistoryIsWhatWasSaid',
           \A n \in Message \ {m} : Holds(n) =>
               /\ threads'[calls[n].thread].busy
               /\ threads'[calls[n].thread].messages = threads[calls[n].thread].messages
               /\ c.state \in {"calling", "asking"} => calls[n].thread # c.thread,
           c.state \in {"calling", "asking"} /\ c.thread # NoThread => threads'[c.thread].busy,
           c.state = "calling" => c.history = threads'[c.thread].messages
    PROVE  ConversationInv'
<1>1. /\ DOMAIN calls' = Message /\ calls'[m] = c
      /\ \A n \in Message \ {m} : calls'[n] = calls[n]
  BY DEF ConversationInv, CallTypes
<1>2. CallTypes'
  BY <1>1 DEF ConversationInv, CallTypes, IsCall
<1>3. /\ \A n \in Message \ {m} : Holds(n)' = Holds(n)
      /\ Holds(m)' = (c.state \in {"calling", "asking"} /\ c.thread # NoThread)
  BY <1>1 DEF Holds
<1>4. \A n \in Message : Holds(n)' => threads'[calls'[n].thread].busy
  BY <1>1, <1>3
<1>5. ASSUME NEW p \in Message, NEW q \in Message, Holds(p)', Holds(q)', calls'[p].thread = calls'[q].thread
      PROVE  p = q
  <2>1. CASE p # m /\ q # m
    BY <1>1, <1>3, <1>5, <2>1 DEF ConversationInv, InTurn
  <2>2. CASE p = m /\ q # m
    BY <1>1, <1>3, <1>5, <2>2
  <2>3. CASE p # m /\ q = m
    BY <1>1, <1>3, <1>5, <2>3
  <2>4. QED
    BY <2>1, <2>2, <2>3
<1>6. ASSUME NEW n \in Message, calls'[n].state = "calling"
      PROVE  calls'[n].history = threads'[calls'[n].thread].messages
  <2>1. CASE n = m
    BY <1>1, <1>6, <2>1
  <2>2. CASE n # m
    <3>1. calls[n].state = "calling" /\ calls[n].thread \in Message
      BY <1>1, <1>6, <2>2 DEF ConversationInv, CallTypes, IsCall
    <3>2. Holds(n)
      BY <3>1, NoThreadIsNone DEF Holds
    <3>3. QED
      BY <1>1, <2>2, <3>1, <3>2 DEF ConversationInv, InTurn
  <2>3. QED
    BY <2>1, <2>2
<1>7. QED
  BY <1>2, <1>4, <1>5, <1>6 DEF ConversationInv, InTurn

\* A step that leaves what was said and answered where it was.
LEMMA NothingSaid ==
    ASSUME ConversationInv, said' = said,
           \A t \in Message : threads'[t].messages = threads[t].messages
    PROVE  HistoryIsWhatWasSaid'
BY DEF ConversationInv, HistoryIsWhatWasSaid

LEMMA SayKeepsConversations ==
    ASSUME AgentInv, ConversationInv, NEW m \in Message, NEW id \in Agents,
           NEW thread \in {None} \cup {<<t>> : t \in Message}, NEW event \in BOOLEAN,
           Say(m, id, thread, event)
    PROVE  ConversationInv'
<1>1. calls[m] = Idle /\ said' = said
  BY DEF Say
<1>2. \/ calls' = [calls EXCEPT ![m] = [state |-> "refused"]] /\ threads' = threads
      \/ \E t \in Message : \E spec :
            /\ calls' = [calls EXCEPT ![m] = Call("waiting", id, t, spec)]
            /\ threads' = [threads EXCEPT ![t].last = clock]
  <2>1. CASE ~Running(id) \/ (event /\ ~agents[id][1].spec.webhook)
    BY <2>1 DEF Say, TurnedAway
  <2>2. ASSUME Running(id), ~(event /\ ~agents[id][1].spec.webhook)
        PROVE  \/ calls' = [calls EXCEPT ![m] = [state |-> "refused"]] /\ threads' = threads
               \/ \E t \in Message : \E spec :
                     /\ calls' = [calls EXCEPT ![m] = Call("waiting", id, t, spec)]
                     /\ threads' = [threads EXCEPT ![t].last = clock]
    <3>1. CASE Level(agents[id][1]) < 1
      BY <2>2, <3>1 DEF Say, TurnedAway
    <3>2. CASE ~(Level(agents[id][1]) < 1) /\ event
      <4>1. agents[id][1].events \in Message \cup {NoThread}
        BY <2>2, AgentFields DEF AgentInv, IsAgent
      <4>2. QED
        BY <2>2, <3>2, <4>1 DEF Say
    <3>3. CASE ~(Level(agents[id][1]) < 1) /\ ~event
      <4>1. thread # None => thread[1] \in Message
        OBVIOUS
      <4>2. QED
        BY <2>2, <3>3, <4>1 DEF Say, TurnedAway
    <3>4. QED
      BY <3>1, <3>2, <3>3
  <2>3. QED
    BY <2>1, <2>2
<1>3. CASE calls' = [calls EXCEPT ![m] = [state |-> "refused"]] /\ threads' = threads
  <2> DEFINE c == [state |-> "refused"]
  <2>1. c.state = "refused"
    OBVIOUS
  <2>2. IsCall(c)
    BY <2>1 DEF IsCall
  <2>3. ThreadTypes' /\ HistoryIsWhatWasSaid'
    BY <1>1, <1>3, NothingSaid DEF ConversationInv, ThreadTypes
  <2>4. \A n \in Message : Holds(n) => threads'[calls[n].thread].busy
    BY <1>3 DEF ConversationInv, InTurn
  <2>5. calls' = [calls EXCEPT ![m] = c]
    BY <1>3
  <2> HIDE DEF c
  <2>6. QED
    BY <1>3, <2>1, <2>2, <2>3, <2>4, <2>5, OneCall
<1>4. ASSUME NEW t \in Message, NEW spec, calls' = [calls EXCEPT ![m] = Call("waiting", id, t, spec)],
             threads' = [threads EXCEPT ![t].last = clock]
      PROVE  ConversationInv'
  <2> DEFINE c == Call("waiting", id, t, spec)
  <2>1. c.state = "waiting" /\ c.agent = id /\ c.thread = t
    BY DEF Call
  <2>2. IsCall(c)
    BY <2>1 DEF IsCall
  <2>3. clock \in Nat
    BY DEF AgentInv, AgentTypes
  <2>4. /\ threads' \in [Message -> [messages : Seq(Message), last : Nat, busy : BOOLEAN]]
        /\ \A u \in Message : threads'[u].messages = threads[u].messages /\ threads'[u].busy = threads[u].busy
    BY <1>4, <2>3 DEF ConversationInv, ThreadTypes
  <2>5. ThreadTypes' /\ HistoryIsWhatWasSaid'
    BY <1>1, <2>4, NothingSaid DEF ConversationInv, ThreadTypes
  <2>6. \A n \in Message : Holds(n) => calls[n].thread \in Message
    BY DEF ConversationInv, CallTypes, IsCall, Holds
  <2>7. \A n \in Message : Holds(n) =>
           /\ threads'[calls[n].thread].busy
           /\ threads'[calls[n].thread].messages = threads[calls[n].thread].messages
    BY <2>4, <2>6 DEF ConversationInv, InTurn
  <2>8. calls' = [calls EXCEPT ![m] = c]
    BY <1>4
  <2> HIDE DEF c
  <2>9. QED
    BY <2>1, <2>2, <2>5, <2>7, <2>8, OneCall
<1>5. QED
  BY <1>2, <1>3, <1>4

LEMMA BeginKeeps == ASSUME ConversationInv, NEW m \in Message, Begin(m) PROVE ConversationInv'
<1> DEFINE t == calls[m].thread
           c == [state |-> "calling", agent |-> calls[m].agent, thread |-> t, tools |-> calls[m].tools,
                 rounds |-> 0, history |-> threads[t].messages]
<1>1. /\ calls[m].state = "waiting" /\ ~threads[t].busy
      /\ calls' = [calls EXCEPT ![m] = c] /\ threads' = [threads EXCEPT ![t].busy = TRUE] /\ said' = said
  BY DEF Begin, MyTurn
<1>2. t \in Message /\ calls[m].agent \in Agents
  BY <1>1 DEF ConversationInv, CallTypes, IsCall
<1>3. /\ c.state = "calling" /\ c.thread = t /\ c.agent = calls[m].agent
      /\ c.history = threads[t].messages
      /\ DOMAIN c = {"state", "agent", "thread", "tools", "rounds", "history"}
  OBVIOUS
<1> HIDE DEF c
<1>4. IsCall(c)
  BY <1>2, <1>3 DEF IsCall
<1>5. /\ threads' \in [Message -> [messages : Seq(Message), last : Nat, busy : BOOLEAN]]
      /\ \A u \in Message : threads'[u].messages = threads[u].messages
      /\ threads'[t].busy = TRUE
      /\ \A u \in Message \ {t} : threads'[u].busy = threads[u].busy
  BY <1>1, <1>2 DEF ConversationInv, ThreadTypes
<1>6. ThreadTypes' /\ HistoryIsWhatWasSaid'
  BY <1>1, <1>5, NothingSaid DEF ConversationInv, ThreadTypes
<1>7. \A n \in Message : Holds(n) => calls[n].thread \in Message /\ threads[calls[n].thread].busy
  BY DEF ConversationInv, CallTypes, IsCall, Holds, InTurn
<1>8. \A n \in Message : Holds(n) =>
         /\ calls[n].thread # t /\ threads'[calls[n].thread].busy
         /\ threads'[calls[n].thread].messages = threads[calls[n].thread].messages
  BY <1>1, <1>5, <1>7
<1>9. \A n \in Message \ {m} : Holds(n) =>
       /\ threads'[calls[n].thread].busy
       /\ threads'[calls[n].thread].messages = threads[calls[n].thread].messages
       /\ c.state \in {"calling", "asking"} => calls[n].thread # c.thread
  BY <1>3, <1>8
<1>10. /\ c.state \in {"calling", "asking"} /\ c.thread # NoThread => threads'[c.thread].busy
       /\ c.state = "calling" => c.history = threads'[c.thread].messages
  BY <1>2, <1>3, <1>5
<1>11. QED
  BY <1>1, <1>4, <1>6, <1>9, <1>10, OneCall

\* A call that is refused lets its conversation go as it was.
LEMMA RefusedKeeps ==
    ASSUME ConversationInv, NEW m \in Message, calls[m].state = "calling",
           NEW how \in {"revoked", "refused"}, Refused(m, how), said' = said
    PROVE  ConversationInv'
<1> DEFINE t == calls[m].thread
           c == [state |-> how]
<1>1. calls' = [calls EXCEPT ![m] = c] /\ threads' = [threads EXCEPT ![t].busy = FALSE]
  BY DEF Refused
<1>2. t \in Message /\ Holds(m)
  BY NoThreadIsNone DEF ConversationInv, CallTypes, IsCall, Holds
<1>3. c.state \in {"revoked", "refused"}
  OBVIOUS
<1> HIDE DEF c
<1>4. IsCall(c)
  BY <1>3 DEF IsCall
<1>5. /\ threads' \in [Message -> [messages : Seq(Message), last : Nat, busy : BOOLEAN]]
      /\ \A u \in Message : threads'[u].messages = threads[u].messages
      /\ \A u \in Message \ {t} : threads'[u].busy = threads[u].busy
  BY <1>1, <1>2 DEF ConversationInv, ThreadTypes
<1>6. ThreadTypes' /\ HistoryIsWhatWasSaid'
  BY <1>5, NothingSaid DEF ConversationInv, ThreadTypes
<1>7. \A n \in Message \ {m} : Holds(n) =>
         calls[n].thread \in Message /\ threads[calls[n].thread].busy /\ calls[n].thread # t
  BY <1>2 DEF ConversationInv, CallTypes, IsCall, Holds, InTurn
<1>8. \A n \in Message \ {m} : Holds(n) =>
         /\ threads'[calls[n].thread].busy
         /\ threads'[calls[n].thread].messages = threads[calls[n].thread].messages
  BY <1>5, <1>7
<1>9. QED
  BY <1>1, <1>3, <1>4, <1>6, <1>8, OneCall

LEMMA RoundKeeps == ASSUME ConversationInv, NEW m \in Message, Round(m) PROVE ConversationInv'
<1> DEFINE t == calls[m].thread
<1>1. calls[m].state = "calling"
  BY DEF Round
<1>2. /\ t \in Message /\ calls[m].agent \in Agents /\ Holds(m) /\ threads[t].busy
      /\ calls[m].history = threads[t].messages
      /\ DOMAIN calls[m] = {"state", "agent", "thread", "tools", "rounds", "history"}
  BY <1>1, NoThreadIsNone DEF ConversationInv, CallTypes, IsCall, Holds, InTurn
<1>3. \A n \in Message \ {m} : Holds(n) =>
         calls[n].thread \in Message /\ threads[calls[n].thread].busy /\ calls[n].thread # t
  BY <1>2 DEF ConversationInv, CallTypes, IsCall, Holds, InTurn
<1>4. \/ (Refused(m, "revoked") \/ Refused(m, "refused")) /\ said' = said
      \/ calls' = [calls EXCEPT ![m].rounds = @ + 1] /\ UNCHANGED <<threads, said>>
      \/ /\ threads' = [threads EXCEPT ![t].messages = Kept(calls[m].history, m)]
         /\ said' = [said EXCEPT ![t] = Append(@, m)]
         /\ calls' = [calls EXCEPT ![m] = Asking(calls[m])]
  BY DEF Round
<1>5. CASE (Refused(m, "revoked") \/ Refused(m, "refused")) /\ said' = said
  BY <1>1, <1>5, RefusedKeeps
<1>6. CASE calls' = [calls EXCEPT ![m].rounds = @ + 1] /\ UNCHANGED <<threads, said>>
  <2> DEFINE c == [calls[m] EXCEPT !.rounds = @ + 1]
  <2>1. calls' = [calls EXCEPT ![m] = c]
    BY <1>6
  <2>2. /\ c.state = "calling" /\ c.thread = t /\ c.agent = calls[m].agent /\ c.history = calls[m].history
        /\ DOMAIN c = {"state", "agent", "thread", "tools", "rounds", "history"}
    BY <1>1, <1>2
  <2> HIDE DEF c
  <2>3. IsCall(c)
    BY <1>2, <2>2 DEF IsCall
  <2>4. ThreadTypes' /\ HistoryIsWhatWasSaid'
    BY <1>6, NothingSaid DEF ConversationInv, ThreadTypes
  <2>5. \A n \in Message \ {m} : Holds(n) =>
         /\ threads'[calls[n].thread].busy
         /\ threads'[calls[n].thread].messages = threads[calls[n].thread].messages
         /\ c.state \in {"calling", "asking"} => calls[n].thread # c.thread
    BY <1>3, <1>6, <2>2
  <2>6. /\ c.state \in {"calling", "asking"} /\ c.thread # NoThread => threads'[c.thread].busy
        /\ c.state = "calling" => c.history = threads'[c.thread].messages
    BY <1>2, <1>6, <2>2
  <2>7. QED
    BY <2>1, <2>3, <2>4, <2>5, <2>6, OneCall
<1>7. CASE /\ threads' = [threads EXCEPT ![t].messages = Kept(calls[m].history, m)]
           /\ said' = [said EXCEPT ![t] = Append(@, m)]
           /\ calls' = [calls EXCEPT ![m] = Asking(calls[m])]
  <2> DEFINE c == Asking(calls[m])
             kept == Kept(calls[m].history, m)
  <2>1. c.state = "asking" /\ c.thread = t /\ c.agent = calls[m].agent
    BY DEF Asking
  <2>2. calls' = [calls EXCEPT ![m] = c]
    BY <1>7
  <2> HIDE DEF c
  <2>3. IsCall(c)
    BY <1>2, <2>1 DEF IsCall
  <2>4. said[t] \in Seq(Message) /\ threads[t].messages = Newest(said[t])
    BY <1>2 DEF ConversationInv, ThreadTypes, HistoryIsWhatWasSaid, Newest
  <2>5. kept = Newest(Append(said[t], m)) /\ Append(said[t], m) \in Seq(Message)
    BY <1>2, <2>4, KeptIsNewest
  <2>6. kept \in Seq(Message)
    BY <2>5, KeptIsNewest
  <2>7. threads' = [threads EXCEPT ![t].messages = kept]
    BY <1>7
  <2> HIDE DEF kept
  <2>8. /\ threads' \in [Message -> [messages : Seq(Message), last : Nat, busy : BOOLEAN]]
        /\ threads'[t].messages = kept
        /\ \A u \in Message \ {t} : threads'[u].messages = threads[u].messages
        /\ \A u \in Message : threads'[u].busy = threads[u].busy
    BY <1>2, <2>6, <2>7 DEF ConversationInv, ThreadTypes
  <2>9. /\ said' \in [Message -> Seq(Message)] /\ said'[t] = Append(said[t], m)
        /\ \A u \in Message \ {t} : said'[u] = said[u]
    BY <1>2, <1>7, <2>5 DEF ConversationInv, ThreadTypes
  <2>10. ThreadTypes'
    BY <2>8, <2>9 DEF ThreadTypes
  <2>11. HistoryIsWhatWasSaid'
    <3>1. \A u \in Message : threads[u].messages = Newest(said[u])
      BY DEF ConversationInv, HistoryIsWhatWasSaid, Newest
    <3>2. \A u \in Message : threads'[u].messages = Newest(said'[u])
      BY <2>5, <2>8, <2>9, <3>1
    <3>3. QED
      BY <3>2 DEF HistoryIsWhatWasSaid, Newest
  <2>12. \A n \in Message \ {m} : Holds(n) =>
         /\ threads'[calls[n].thread].busy
         /\ threads'[calls[n].thread].messages = threads[calls[n].thread].messages
         /\ c.state \in {"calling", "asking"} => calls[n].thread # c.thread
    BY <1>3, <2>1, <2>8
  <2>13. /\ c.state \in {"calling", "asking"} /\ c.thread # NoThread => threads'[c.thread].busy
         /\ c.state = "calling" => c.history = threads'[c.thread].messages
    BY <1>2, <2>1, <2>8
  <2>14. QED
    BY <2>2, <2>3, <2>10, <2>11, <2>12, <2>13, OneCall
<1>8. QED
  BY <1>4, <1>5, <1>6, <1>7

LEMMA StepKeeps == ASSUME ConversationInv, NEW m \in Message, NEW id \in Agents, Step(m, id)
                   PROVE  ConversationInv'
<1> DEFINE c == Call("stepping", id, NoThread, agents[id][1].spec)
<1>1. calls' = [calls EXCEPT ![m] = c] /\ UNCHANGED <<threads, said>>
  BY DEF Step
<1>2. c.state = "stepping" /\ c.agent = id /\ c.thread = NoThread
  BY DEF Call
<1> HIDE DEF c
<1>3. IsCall(c)
  BY <1>2 DEF IsCall
<1>4. ThreadTypes' /\ HistoryIsWhatWasSaid'
  BY <1>1, NothingSaid DEF ConversationInv, ThreadTypes
<1>5. \A n \in Message : Holds(n) => threads'[calls[n].thread].busy
  BY <1>1 DEF ConversationInv, InTurn
<1>6. QED
  BY <1>1, <1>2, <1>3, <1>4, <1>5, OneCall

LEMMA StepReplyKeeps == ASSUME ConversationInv, NEW m \in Message, StepReply(m) PROVE ConversationInv'
<1>1. calls[m].state = "stepping" /\ UNCHANGED <<threads, said>>
  BY DEF StepReply
<1>2. calls[m].agent \in Agents /\ calls[m].thread = NoThread
  BY <1>1 DEF ConversationInv, CallTypes, IsCall
<1>3. \E c : /\ calls' = [calls EXCEPT ![m] = c] /\ IsCall(c)
             /\ (c.state = "asking" /\ c.thread = NoThread) \/ c.state = "refused"
  <2>1. /\ Asking(calls[m]).state = "asking" /\ Asking(calls[m]).thread = NoThread
        /\ Asking(calls[m]).agent = calls[m].agent
    BY <1>2 DEF Asking
  <2>2. [state |-> "refused"].state = "refused"
    OBVIOUS
  <2>3. IsCall(Asking(calls[m])) /\ IsCall([state |-> "refused"])
    BY <1>2, <2>1, <2>2 DEF IsCall
  <2>4. CASE calls' = [calls EXCEPT ![m] = Asking(calls[m])]
    BY <2>1, <2>3, <2>4
  <2>5. CASE calls' = [calls EXCEPT ![m] = [state |-> "refused"]]
    BY <2>2, <2>3, <2>5
  <2>6. QED
    BY <2>4, <2>5 DEF StepReply
<1>4. ThreadTypes' /\ HistoryIsWhatWasSaid'
  BY <1>1, NothingSaid DEF ConversationInv, ThreadTypes
<1>5. \A n \in Message : Holds(n) => threads'[calls[n].thread].busy /\ calls[n].thread # NoThread
  BY <1>1 DEF ConversationInv, InTurn, Holds
<1>6. PICK c : /\ calls' = [calls EXCEPT ![m] = c] /\ IsCall(c)
               /\ (c.state = "asking" /\ c.thread = NoThread) \/ c.state = "refused"
  BY <1>3
<1>7. \A n \in Message \ {m} : Holds(n) =>
       /\ threads'[calls[n].thread].busy
       /\ threads'[calls[n].thread].messages = threads[calls[n].thread].messages
       /\ c.state \in {"calling", "asking"} => calls[n].thread # c.thread
  BY <1>1, <1>5, <1>6
<1>8. /\ c.state \in {"calling", "asking"} /\ c.thread # NoThread => threads'[c.thread].busy
      /\ c.state = "calling" => c.history = threads'[c.thread].messages
  BY <1>6
<1>9. QED
  BY <1>4, <1>6, <1>7, <1>8, OneCall

LEMMA AskKeepsConversations == ASSUME ConversationInv, NEW m \in Message, Ask(m) PROVE ConversationInv'
<1> DEFINE t == calls[m].thread
           c == [state |-> "answered", agent |-> calls[m].agent]
<1>1. /\ calls[m].state = "asking" /\ said' = said /\ calls' = [calls EXCEPT ![m] = c]
      /\ threads' = [u \in Message |-> IF u = t THEN [threads[u] EXCEPT !.busy = FALSE] ELSE threads[u]]
  BY DEF Ask
<1>2. c.state = "answered"
  OBVIOUS
<1> HIDE DEF c
<1>3. IsCall(c)
  BY <1>2 DEF IsCall
<1>4. /\ threads' \in [Message -> [messages : Seq(Message), last : Nat, busy : BOOLEAN]]
      /\ \A u \in Message : threads'[u].messages = threads[u].messages
      /\ \A u \in Message \ {t} : threads'[u].busy = threads[u].busy
  BY <1>1 DEF ConversationInv, ThreadTypes
<1>5. ThreadTypes' /\ HistoryIsWhatWasSaid'
  BY <1>1, <1>4, NothingSaid DEF ConversationInv, ThreadTypes
<1>6. \A n \in Message \ {m} : Holds(n) =>
         calls[n].thread \in Message /\ threads[calls[n].thread].busy /\ calls[n].thread # t
  <2>1. ASSUME NEW n \in Message \ {m}, Holds(n), calls[n].thread = t PROVE FALSE
    <3>1. Holds(m)
      BY <1>1, <2>1 DEF Holds
    <3>2. QED
      BY <2>1, <3>1 DEF ConversationInv, InTurn
  <2>2. QED
    BY <2>1 DEF ConversationInv, CallTypes, IsCall, Holds, InTurn
<1>7. \A n \in Message \ {m} : Holds(n) =>
         /\ threads'[calls[n].thread].busy
         /\ threads'[calls[n].thread].messages = threads[calls[n].thread].messages
  BY <1>4, <1>6
<1>8. QED
  BY <1>1, <1>2, <1>3, <1>5, <1>7, OneCall

LEMMA RestartKeepsConversations == ASSUME ConversationInv, Restart PROVE ConversationInv'
<1>1. /\ threads' = [m \in Message |-> [messages |-> <<>>, last |-> 0, busy |-> FALSE]]
      /\ said' = [m \in Message |-> <<>>]
      /\ calls' = [m \in Message |-> IF calls[m].state \in {"waiting", "calling", "stepping", "asking"}
                                     THEN [state |-> "lost"] ELSE calls[m]]
  BY DEF Restart
<1>2. \A m \in Message : threads'[m].messages = <<>> /\ said'[m] = <<>>
  BY <1>1
<1>3. <<>> \in Seq(Message) /\ [messages |-> <<>>, last |-> 0, busy |-> FALSE]
                                  \in [messages : Seq(Message), last : Nat, busy : BOOLEAN]
  OBVIOUS
<1>4. ThreadTypes'
  BY <1>1, <1>3 DEF ThreadTypes
<1>5. \A m \in Message : calls'[m].state \notin {"waiting", "calling", "stepping", "asking"}
  BY <1>1
<1>6. CallTypes' /\ InTurn'
  BY <1>1, <1>5 DEF CallTypes, IsCall, InTurn, Holds
<1>7. HistoryIsWhatWasSaid'
  <2>1. Newest(<<>>) = <<>>
    <3>1. Len(<<>>) = 0 /\ ~(0 > History) /\ 0 < 1
      BY RateIsNatural
    <3>2. Newest(<<>>) = SubSeq(<<>>, 1, 0)
      BY <3>1 DEF Newest
    <3>3. QED
      BY <3>2, SubSeqEmpty
  <2>2. \A m \in Message : threads'[m].messages = Newest(said'[m])
    BY <1>2, <2>1
  <2>3. QED
    BY <2>2 DEF HistoryIsWhatWasSaid, Newest
<1>8. QED
  BY <1>4, <1>6, <1>7 DEF ConversationInv

-----------------------------------------------------------------------------
LEMMA ServiceStep == ASSUME ServiceInv, [ServiceNext]_vars PROVE ServiceInv'
<1> USE DEF ServiceInv
<1>1. CASE UNCHANGED vars
  BY <1>1, AgentFrame, ConversationFrame DEF vars
<1>2. CASE Tick
  <2>1. UNCHANGED <<threads, calls, said>>
    BY <1>2 DEF Tick, messageVars
  <2>2. QED
    BY <1>2, <2>1, TickKeeps, ConversationFrame
<1>3. CASE Owner
  <2>1. UNCHANGED <<threads, calls, said>>
    BY <1>3 DEF Owner, messageVars, Authorize, Read, Draft, UpdateCheck, DeletePut, AnswerPut, CreatePut,
                CreateInsert, UpdatePut, UpdateSwap, AnswerSwap, DeleteSwap
  <2>2. ASSUME NEW id \in Agents, Read(id) \/ Draft(id) PROVE AgentInv'
    <3>1. UNCHANGED <<store, agents, tokens, creating, editing, writing, clock, acked, admitted, born>>
      BY <2>2 DEF Read, Draft, ownerVars
    <3>2. QED
      BY <3>1, AgentFrame
  <2>3. AgentInv'
    BY <1>3, <2>2, AuthorizeKeeps, UpdateCheckKeeps, DeletePutKeeps, AnswerPutKeeps, CreatePutKeeps,
       CreateInsertKeeps, UpdatePutKeeps, UpdateSwapKeeps, AnswerSwapKeeps, DeleteSwapKeeps
       DEF Owner
  <2>4. QED
    BY <2>1, <2>3, ConversationFrame
<1>4. ASSUME NEW m \in Message, NEW id \in Agents, NEW thread \in {None} \cup {<<t>> : t \in Message},
             NEW event \in BOOLEAN, Say(m, id, thread, event)
      PROVE  ServiceInv'
  BY <1>4, SayKeepsAgents, SayKeepsConversations
<1>5. ASSUME NEW m \in Message, NEW id \in Agents, Step(m, id) PROVE ServiceInv'
  <2>1. UNCHANGED <<store, agents, tokens, creating, editing, writing, clock, acked, admitted, born>>
    BY <1>5 DEF Step, ownerVars
  <2>2. QED
    BY <1>5, <2>1, AgentFrame, StepKeeps
<1>6. CASE Stranger
  <2>1. PICK m \in Message, id \in Agents :
           \/ \E thread \in {None} \cup {<<t>> : t \in Message} : Say(m, id, thread, FALSE)
           \/ Say(m, id, None, TRUE)
           \/ Step(m, id)
    BY <1>6 DEF Stranger
  <2>2. None \in {None} \cup {<<t>> : t \in Message}
    OBVIOUS
  <2>3. QED
    BY <1>4, <1>5, <2>1, <2>2
<1>7. ASSUME NEW m \in Message, Handler(m) PROVE ServiceInv'
  <2>1. CASE Begin(m) \/ Round(m) \/ StepReply(m)
    <3>1. UNCHANGED <<store, agents, tokens, creating, editing, writing, clock, acked, admitted, born>>
      BY <2>1 DEF Begin, Round, StepReply, ownerVars
    <3>2. QED
      BY <2>1, <3>1, AgentFrame, BeginKeeps, RoundKeeps, StepReplyKeeps
  <2>2. CASE Ask(m)
    BY <2>2, AskKeepsAgents, AskKeepsConversations
  <2>3. QED
    BY <1>7, <2>1, <2>2 DEF Handler
<1>8. CASE Restart
  BY <1>8, RestartKeepsAgents, RestartKeepsConversations
<1>9. QED
  BY <1>1, <1>2, <1>3, <1>6, <1>7, <1>8 DEF ServiceNext

LEMMA ServiceStart == ServiceInit => ServiceInv
<1> SUFFICES ASSUME ServiceInit PROVE ServiceInv
  OBVIOUS
<1>1. /\ store = [id \in Agents |-> None] /\ agents = [id \in Agents |-> None]
      /\ acked = [id \in Agents |-> None] /\ tokens = {} /\ clock = 0
      /\ creating = None /\ editing = None /\ writing = None
      /\ admitted = [id \in Agents |-> 0] /\ born = [id \in Agents |-> 0]
  BY DEF ServiceInit
<1>2. /\ threads = [m \in Message |-> [messages |-> <<>>, last |-> 0, busy |-> FALSE]]
      /\ calls = [m \in Message |-> Idle] /\ said = [m \in Message |-> <<>>]
  BY DEF ServiceInit
<1>3. 0 \in Nat /\ 0 <= 0
  OBVIOUS
<1>4. AgentTypes /\ OwnerTypes /\ Making /\ Ahead
  BY <1>1, <1>3 DEF AgentTypes, OwnerTypes, Making, Ahead
<1>5. Agree /\ TokensAreTheAgents
  BY <1>1 DEF Agree, TokensAreTheAgents, Running
<1>6. Poured
  BY <1>1, <1>3 DEF Poured, Running
<1>7. Idle.state = "unsent"
  BY DEF Idle
<1>8. CallTypes /\ InTurn
  BY <1>2, <1>7 DEF CallTypes, IsCall, InTurn, Holds
<1>9. <<>> \in Seq(Message) /\ [messages |-> <<>>, last |-> 0, busy |-> FALSE]
                                  \in [messages : Seq(Message), last : Nat, busy : BOOLEAN]
  OBVIOUS
<1>10. ThreadTypes
  BY <1>2, <1>9 DEF ThreadTypes
<1>11. HistoryIsWhatWasSaid
  <2>1. Newest(<<>>) = <<>>
    <3>1. Len(<<>>) = 0 /\ ~(0 > History) /\ 0 < 1
      BY RateIsNatural
    <3>2. Newest(<<>>) = SubSeq(<<>>, 1, 0)
      BY <3>1 DEF Newest
    <3>3. QED
      BY <3>2, SubSeqEmpty
  <2>2. \A m \in Message : threads[m].messages = Newest(said[m])
    BY <1>2, <2>1
  <2>3. QED
    BY <2>2 DEF HistoryIsWhatWasSaid, Newest
<1>12. QED
  BY <1>4, <1>5, <1>6, <1>8, <1>10, <1>11 DEF ServiceInv, AgentInv, ConversationInv

\* The inductive invariant of the service: what the store, the map and the owner
\* say of an agent at each stage, what its bucket has let through, and who has
\* a conversation to itself.
THEOREM ServiceSafe == ServiceSpec => []ServiceInv
<1>1. ServiceInit => ServiceInv
  BY ServiceStart
<1>2. ServiceInv /\ [ServiceNext]_vars => ServiceInv'
  BY ServiceStep
<1>3. QED
  BY <1>1, <1>2, PTL DEF ServiceSpec

\* However writes are refused, with whatever an edit overlaps, and whenever the
\* process is killed, what an owner was told is what the store holds and what
\* runs, and a deleted agent stays deleted (service.go:488-496, 503-521, 760-763).
THEOREM TheStoreIsAhead == ServiceSpec => []StoreIsNeverBehind
<1>1. ASSUME ServiceInv PROVE StoreIsNeverBehind
  <2>1. ASSUME NEW id \in Agents, acked[id] = Deleted PROVE store[id] = None
    <3>1. ~Running(id)
      BY <2>1, <1>1, SpecsAreTold DEF ServiceInv, AgentInv, Agree, Ahead
    <3>2. creating = None \/ creating[1].id # id
      BY <2>1, <1>1, SpecsAreTold DEF ServiceInv, AgentInv, Making
    <3>3. QED
      BY <1>1, <3>1, <3>2 DEF ServiceInv, AgentInv, Agree
  <2>2. ASSUME NEW id \in Agents, Settled(id)
        PROVE  /\ store[id] = IF acked[id] = Deleted THEN None ELSE acked[id]
               /\ store[id] = IF Running(id) THEN <<agents[id][1].spec>> ELSE None
    <3>1. CASE Running(id)
      BY <1>1, <2>2, <3>1, SpecsAreTold DEF ServiceInv, AgentInv, Agree, Settled
    <3>2. CASE ~Running(id)
      BY <1>1, <2>2, <3>2 DEF ServiceInv, AgentInv, Agree, Settled
    <3>3. QED
      BY <3>1, <3>2
  <2>3. QED
    BY <2>1, <2>2 DEF StoreIsNeverBehind
<1>2. ServiceInv => StoreIsNeverBehind
  BY <1>1
<1>3. QED
  BY <1>2, ServiceSafe, PTL

\* No create that failed and no agent that was deleted leaves a token behind
\* that spends its owner's wallet (service.go:435-462, 499-521).
THEOREM TokensGoWithTheAgents == ServiceSpec => []TokensAreTheAgents
<1>1. ServiceInv => TokensAreTheAgents
  BY DEF ServiceInv, AgentInv
<1>2. QED
  BY <1>1, ServiceSafe, PTL

\* What an agent's bucket has let through is bounded by what has been poured in
\* by now.
LEMMA BucketIsBehind ==
    ASSUME AgentTypes, Poured, NEW id \in Agents, Running(id)
    PROVE  admitted[id] <= Burst + Refill * (clock - born[id])
<1> DEFINE filled == agents[id][1].filled
           tokens1 == agents[id][1].tokens
           before == Refill * (filled - born[id])
           since == Refill * (clock - filled)
           both == Refill * (clock - born[id])
<1>1. IsAgent(agents[id][1]) /\ clock \in Nat /\ Refill \in Nat /\ Burst \in Nat
  BY AgentFields, RateIsNatural DEF AgentTypes
<1>2. filled \in Nat /\ filled <= clock /\ tokens1 \in Nat
  BY <1>1 DEF IsAgent, Bucket
<1>3. /\ born[id] \in Nat /\ admitted[id] \in Nat
      /\ admitted[id] + tokens1 <= Burst + before
  BY DEF Poured
<1>4. before + since = both
  BY <1>1, <1>2, <1>3, PouredOver
<1>5. before \in Int /\ since \in Nat
  <2>1. clock - filled \in Nat
    BY <1>1, <1>2
  <2>2. since \in Nat
    BY <1>1, <2>1, PouredIsNatural
  <2>3. before \in Int
    BY <1>1, <1>2, <1>3
  <2>4. QED
    BY <2>2, <2>3
<1> HIDE DEF before, since, both, tokens1
<1>6. admitted[id] <= Burst + both
  BY <1>1, <1>2, <1>3, <1>4, <1>5
<1>7. QED
  BY <1>6 DEF both

\* No order of edits, answers, refusals and restarts lets more messages through
\* than were poured in since the agent was made (service.go:458-462, 564-576).
THEOREM BucketsHold == ServiceSpec => []BucketHolds
<1> DEFINE OfThoseThere ==
               \A id \in Agents : Running(id) => admitted[id] <= Burst + Refill * (clock - born[id])
<1>1. ServiceInit => BucketHolds
  <2>1. ASSUME ServiceInit, NEW id \in Agents PROVE admitted[id] <= Burst + Refill * (clock - born[id])
    <3>1. admitted[id] = 0 /\ clock = 0 /\ born[id] = 0
      BY <2>1 DEF ServiceInit
    <3>2. 0 - 0 = 0 /\ Refill * 0 = 0 /\ 0 <= Burst + 0
      BY RateIsNatural
    <3>3. QED
      BY <3>1, <3>2
  <2>2. QED
    BY <2>1 DEF BucketHolds
<1>2. ASSUME ServiceInv, ServiceInv', OfThoseThere', [ServiceNext]_vars, BucketHolds PROVE BucketHolds'
  <2>1. ASSUME NEW id \in Agents
        PROVE  admitted'[id] <= Burst + Refill * (clock' - born'[id])
    <3>1. CASE Running(id)'
      BY <1>2, <3>1
    <3>2. CASE ~Running(id)' /\ UNCHANGED <<admitted, born, clock>>
      BY <1>2, <3>2 DEF BucketHolds
    <3>3. CASE Tick
      <4>1. /\ admitted'[id] = admitted[id] /\ born'[id] = born[id] /\ clock' = clock + 1
            /\ admitted[id] <= Burst + Refill * (clock - born[id])
        BY <1>2, <3>3 DEF Tick, BucketHolds
      <4>2. /\ clock \in Int /\ born[id] \in Int /\ admitted[id] \in Int /\ Refill \in Nat /\ Burst \in Nat
        BY <1>2, RateIsNatural DEF ServiceInv, AgentInv, AgentTypes, Poured
      <4>3. Refill * (clock - born[id]) + Refill * (clock' - clock) = Refill * (clock' - born[id])
        BY <4>1, <4>2, PouredOver
      <4>4. Refill * (clock' - clock) = Refill
        <5>1. clock' - clock = 1 /\ Refill * 1 = Refill
          BY <4>1, <4>2
        <5>2. QED
          BY <5>1
      <4> DEFINE before == Refill * (clock - born[id])
                 after == Refill * (clock' - born[id])
      <4>5. before \in Int
        BY <4>2
      <4>6. before + Refill = after
        BY <4>3, <4>4
      <4> HIDE DEF before, after
      <4>7. admitted[id] <= Burst + before => admitted[id] <= Burst + after
        BY <4>2, <4>5, <4>6
      <4>8. QED
        BY <4>1, <4>7 DEF before, after
    <3>4. CASE Restart
      <4>1. admitted'[id] = 0 /\ born'[id] = clock /\ clock' = clock /\ clock \in Int
        BY <1>2, <3>4 DEF Restart, ServiceInv, AgentInv, AgentTypes
      <4>2. clock - clock = 0 /\ Refill * 0 = 0 /\ 0 <= Burst + 0
        BY <4>1, RateIsNatural
      <4>3. QED
        BY <4>1, <4>2
    <3>5. CASE Owner
      <4>1. CASE CreateInsert
        <5>1. creating[1].id \in Agents /\ creating[1].id \in DOMAIN born
          BY <1>2, <4>1 DEF CreateInsert, ServiceInv, AgentInv, OwnerTypes, Poured
        <5>2. agents'[creating[1].id] = <<Run(creating[1].spec)>>
          BY <1>2, <4>1, <5>1 DEF CreateInsert, ServiceInv, AgentInv, AgentTypes
        <5>3. CASE id = creating[1].id
          BY <3>1, <5>2, <5>3, SpecsAreTold DEF Running
        <5>4. CASE id # creating[1].id
          <6>1. admitted'[id] = admitted[id] /\ clock' = clock /\ born'[id] = born[id]
            BY <4>1, <5>1, <5>4 DEF CreateInsert
          <6>2. QED
            BY <1>2, <6>1 DEF BucketHolds
        <5>5. QED
          BY <5>3, <5>4
      <4>2. CASE UNCHANGED <<admitted, born, clock>>
        BY <3>1, <3>2, <4>2
      <4>3. QED
        BY <3>5, <4>1, <4>2
           DEF Owner, Authorize, Read, Draft, UpdateCheck, DeletePut, AnswerPut, CreatePut, UpdatePut,
               UpdateSwap, AnswerSwap, DeleteSwap
    <3>6. ASSUME NEW m \in Message, NEW other \in Agents, NEW thread, NEW event \in BOOLEAN,
                 Say(m, other, thread, event)
          PROVE  admitted'[id] <= Burst + Refill * (clock' - born'[id])
      <4>1. UNCHANGED <<born, clock>>
        BY <3>6 DEF Say
      <4>2. CASE admitted' = admitted
        BY <3>1, <3>2, <4>1, <4>2
      <4>3. CASE /\ Running(other) /\ admitted' = [admitted EXCEPT ![other] = @ + 1]
                 /\ \E new : agents' = [agents EXCEPT ![other] = <<new>>]
        <5>1. CASE id = other
          <6>1. agents'[id] # None
            BY <1>2, <4>3, <5>1, SpecsAreTold DEF ServiceInv, AgentInv, AgentTypes
          <6>2. QED
            BY <3>1, <6>1 DEF Running
        <5>2. CASE id # other
          <6>1. admitted'[id] = admitted[id]
            BY <4>3, <5>2
          <6>2. QED
            BY <1>2, <4>1, <6>1 DEF BucketHolds
        <5>3. QED
          BY <5>1, <5>2
      <4>4. QED
        BY <3>6, <4>2, <4>3, SpecsAreTold DEF Say, TurnedAway
    <3>7. CASE Stranger
      <4>1. ASSUME NEW m \in Message, NEW other \in Agents, Step(m, other)
            PROVE  UNCHANGED <<admitted, born, clock>>
        BY <4>1 DEF Step
      <4>2. QED
        BY <3>1, <3>2, <3>6, <3>7, <4>1 DEF Stranger
    <3>8. ASSUME NEW m \in Message, Handler(m) PROVE UNCHANGED <<admitted, born, clock>>
      BY <3>8 DEF Handler, Begin, Round, StepReply, Ask
    <3>9. CASE UNCHANGED vars
      BY <3>1, <3>2, <3>9 DEF vars
    <3>10. QED
      BY <1>2, <3>1, <3>2, <3>3, <3>4, <3>5, <3>7, <3>8, <3>9 DEF ServiceNext
  <2>2. QED
    BY <2>1 DEF BucketHolds
<1>3. ServiceInv => OfThoseThere
  BY BucketIsBehind DEF ServiceInv, AgentInv
<1> HIDE DEF OfThoseThere
<1>4. QED
  BY <1>1, <1>2, <1>3, ServiceSafe, PTL DEF ServiceSpec

\* Messages sent at the same time take turns, and a conversation is the newest of
\* what was answered on it, in order (service.go:293-295, 676-690).
THEOREM HistoriesAreInOrder == ServiceSpec => []HistoryIsWhatWasSaid
<1>1. ServiceInv => HistoryIsWhatWasSaid
  BY DEF ServiceInv, ConversationInv
<1>2. QED
  BY <1>1, ServiceSafe, PTL
=============================================================================
