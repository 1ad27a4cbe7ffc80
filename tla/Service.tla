------------------------------- MODULE Service -------------------------------
(***************************************************************************)
(* The agent service (internal/service): built agents kept in a store and  *)
(* answering messages.  Service.mu guards the map of agents and everything *)
(* in it, and is held across the store write of an Answer, a Delete and    *)
(* the second half of an Update; a conversation's own mutex is held across *)
(* the model calls one message makes.  A Create, an Update's check and the *)
(* calls run under neither.                                                *)
(*                                                                         *)
(* A message is its own text, and numbered as it comes; a spec is its      *)
(* persona, whether it names a tool and hears events, and what its owner's *)
(* answers added to it.                                                    *)
(***************************************************************************)
EXTENDS Integers, FiniteSets, SequencesExt

CONSTANTS
    Agents,         \* the ids Create may draw
    Messages,       \* bound: how many messages there will ever be
    Spec,           \* the specs an owner writes: [persona, tools, webhook, memory]
    Burst, Refill,  \* Rate, the refill per tick of the clock
    History,        \* Config.History
    Conversations,  \* Config.Conversations
    MaxToolRounds, MaxQuestions, MaxMemory,
    Grant,          \* what is in the owner's wallet
    Ticks,          \* bound: the clock
    MaxEdits,       \* bound: specs written
    MaxRestarts,    \* bound: kills
    MaxFaults       \* bound: store writes that fail

ASSUME ServiceAssumption ==
    /\ {Burst, Refill, History, Conversations, MaxQuestions} \subseteq Nat \ {0}
    /\ {Messages, MaxToolRounds, MaxMemory, Grant, Ticks} \subseteq Nat
    /\ \A a \in Spec : a.memory = <<>> /\ a.tools \in BOOLEAN /\ a.webhook \in BOOLEAN

VARIABLES
    store,      \* the store, by id; None where it holds nothing
    agents,     \* Service.agents
    convs,      \* Service.convs: the id and the agent of every open conversation
    threads,    \* the conversations themselves, by the message that opened them
    calls,      \* the messages under way
    tokens,     \* the agents' tokens the proxy honours
    wallet,     \* the owner's balance
    creating, editing, writing,   \* owner's operations under way
    desk,       \* the memory in the spec its owner has on the page, as last read
    clock,
    \* bounds and history
    edits, restarts, faults, acked, said, admitted, born

vars == <<store, agents, convs, threads, calls, tokens, wallet, creating, editing, writing, desk, clock,
          edits, restarts, faults, acked, said, admitted, born>>
ownerVars   == <<creating, editing, desk, edits, faults>>
messageVars == <<threads, calls, wallet, said>>

None == <<>>
Idle == [state |-> "unsent"]
NoThread == 0
Message == 1..Messages

Running(id) == agents[id] # None
\* Whoever wants Service.mu.
Free == writing = None

ServiceInit ==
    /\ store = [id \in Agents |-> None] /\ agents = [id \in Agents |-> None]
    /\ convs = {} /\ tokens = {} /\ wallet = Grant
    /\ threads = [m \in Message |-> [messages |-> <<>>, last |-> 0, busy |-> FALSE]]
    /\ calls = [m \in Message |-> Idle]
    /\ creating = None /\ editing = None /\ writing = None
    /\ desk = [id \in Agents |-> None] /\ clock = 0
    /\ edits = 0 /\ restarts = 0 /\ faults = 0
    /\ acked = [id \in Agents |-> None] /\ said = [m \in Message |-> <<>>]
    /\ admitted = [id \in Agents |-> 0] /\ born = [id \in Agents |-> 0]

\* run: a token, and a full bucket.
Run(spec) ==
    [spec |-> spec, tokens |-> Burst, filled |-> clock, convs |-> {}, events |-> NoThread, asked |-> <<>>]

Tick ==
    /\ clock < Ticks /\ clock' = clock + 1
    /\ UNCHANGED <<store, agents, convs, messageVars, tokens, ownerVars, writing, restarts, acked, admitted, born>>

-----------------------------------------------------------------------------
\* A store write may be refused, and then changes nothing.
Faulty == faults < MaxFaults /\ faults' = faults + 1

\* Mutant: a refused create leaves its token behind.
TokenKept(id) == UNCHANGED tokens

TokenTaken(id) == tokens' = tokens \ {id}

\* Create: authorised, then stored, then in the map.
Authorize(id) ==
    /\ creating = None /\ edits < MaxEdits /\ acked[id] = None /\ store[id] = None
    /\ \E spec \in Spec : creating' = <<[id |-> id, spec |-> spec, does |-> "put"]>>
    /\ tokens' = tokens \cup {id}
    /\ edits' = edits + 1
    /\ UNCHANGED <<store, agents, convs, messageVars, editing, writing, desk, clock, restarts, faults, acked,
                   admitted, born>>

CreatePut ==
    /\ creating # None /\ creating[1].does = "put"
    /\ \/ /\ store' = [store EXCEPT ![creating[1].id] = <<creating[1].spec>>]
          /\ creating' = <<[creating[1] EXCEPT !.does = "insert"]>>
          /\ UNCHANGED <<tokens, faults>>
       \/ Faulty /\ TokenTaken(creating[1].id) /\ creating' = None /\ UNCHANGED store
    /\ UNCHANGED <<agents, convs, messageVars, editing, writing, desk, clock, edits, restarts, acked,
                   admitted, born>>

CreateInsert ==
    /\ creating # None /\ creating[1].does = "insert" /\ Free
    /\ LET id == creating[1].id
       IN  /\ agents' = [agents EXCEPT ![id] = <<Run(creating[1].spec)>>]
           /\ acked' = [acked EXCEPT ![id] = <<creating[1].spec>>]
           /\ desk' = [desk EXCEPT ![id] = <<creating[1].spec.memory>>]
           /\ born' = [born EXCEPT ![id] = clock]
    /\ creating' = None
    /\ UNCHANGED <<store, convs, messageVars, tokens, editing, writing, clock, edits, restarts, faults, admitted>>

\* The owner's page reads the agent again.
Read(id) ==
    /\ Running(id) /\ Free
    /\ desk' = [desk EXCEPT ![id] = <<agents[id][1].spec.memory>>]
    /\ UNCHANGED <<store, agents, convs, messageVars, tokens, creating, editing, writing, clock, edits,
                   restarts, faults, acked, admitted, born>>

\* Draft: the builder model is paid for by the owner, and what it answers is
\* kept by nobody; the memory in it is the page's.
Draft(id) ==
    /\ desk[id] # None /\ wallet > 0 /\ wallet' = wallet - 1
    /\ UNCHANGED <<store, agents, convs, threads, calls, said, tokens, ownerVars, writing, clock, restarts,
                   acked, admitted, born>>

\* Update, first half: the agent is there, and the spec its owner made on the
\* page, by hand or with a draft, passes the check.
UpdateCheck(id) ==
    /\ editing = None /\ edits < MaxEdits /\ Running(id) /\ Free /\ desk[id] # None
    /\ \E spec \in Spec : editing' = <<[id |-> id, spec |-> [spec EXCEPT !.memory = desk[id][1]]]>>
    /\ edits' = edits + 1
    /\ UNCHANGED <<store, agents, convs, messageVars, tokens, creating, writing, desk, clock, restarts, faults,
                   acked, admitted, born>>

\* Mutant: the agent that was read before the check is the one revised.
StillThereOnce(id) == TRUE

StillThere(id) == Running(id)

\* Update, second half, under the lock: the store first.
UpdatePut ==
    /\ editing # None /\ Free
    /\ editing' = None
    /\ LET id == editing[1].id
       IN  \/ /\ StillThere(id)
              /\ store' = [store EXCEPT ![id] = <<editing[1].spec>>]
              /\ writing' = <<[does |-> "update", id |-> id, spec |-> editing[1].spec]>>
              /\ UNCHANGED faults
           \/ ~StillThere(id) /\ UNCHANGED <<store, writing, faults>>
           \/ StillThere(id) /\ Faulty /\ UNCHANGED <<store, writing>>
    /\ UNCHANGED <<agents, convs, messageVars, tokens, creating, desk, clock, edits, restarts, acked, admitted, born>>

\* Mutant: an edit starts the agent over, bucket and all.
RevisedRun(old, spec) == Run(spec)

\* The agent an edit leaves behind: its bucket and its questions carry over.
RevisedAgent(old, spec) == [old EXCEPT !.spec = spec, !.convs = {}, !.events = NoThread]

UpdateSwap ==
    /\ writing # None /\ writing[1].does = "update"
    /\ LET id == writing[1].id
       IN  /\ convs' = {c \in convs : c.agent # id}
           /\ agents' = [agents EXCEPT ![id] = <<RevisedAgent(@[1], writing[1].spec)>>]
           /\ acked' = [acked EXCEPT ![id] = <<writing[1].spec>>]
           /\ desk' = [desk EXCEPT ![id] = <<writing[1].spec.memory>>]
    /\ writing' = None
    /\ UNCHANGED <<store, messageVars, tokens, creating, editing, clock, edits, restarts, faults, admitted, born>>

\* Answer: the exchange becomes a line of the memory, in the store first.
AnswerPut(id, q) ==
    /\ Free /\ Running(id)
    /\ q \in DOMAIN agents[id][1].asked
    /\ Len(agents[id][1].spec.memory) < MaxMemory
    /\ LET heard == agents[id][1].asked[q]
           spec == [agents[id][1].spec EXCEPT !.memory = Append(@, heard)]
       IN  \/ /\ store' = [store EXCEPT ![id] = <<spec>>]
              /\ writing' = <<[does |-> "answer", id |-> id, spec |-> spec, asked |-> q]>>
              /\ UNCHANGED faults
           \/ Faulty /\ UNCHANGED <<store, writing>>
    /\ UNCHANGED <<agents, convs, messageVars, tokens, creating, editing, desk, clock, edits, restarts,
                   acked, admitted, born>>

\* Not an edit: the agent is the same agent, told one more thing.
AnsweredAgent(old, spec, q) == [old EXCEPT !.spec = spec, !.asked = RemoveAt(old.asked, q)]

AnswerSwap ==
    /\ writing # None /\ writing[1].does = "answer"
    /\ LET w == writing[1]
       IN  /\ agents' = [agents EXCEPT ![w.id] = <<AnsweredAgent(@[1], w.spec, w.asked)>>]
           /\ acked' = [acked EXCEPT ![w.id] = <<w.spec>>]
    /\ writing' = None
    /\ UNCHANGED <<store, convs, messageVars, tokens, ownerVars, clock, restarts, admitted, born>>

\* Delete: the store first, then everything the agent had.
DeletePut(id) ==
    /\ Free /\ Running(id)
    /\ \/ /\ store' = [store EXCEPT ![id] = None]
          /\ writing' = <<[does |-> "delete", id |-> id]>>
          /\ UNCHANGED faults
       \/ Faulty /\ UNCHANGED <<store, writing>>
    /\ UNCHANGED <<agents, convs, messageVars, tokens, creating, editing, desk, clock, edits, restarts,
                   acked, admitted, born>>

\* What acked says of an id whose owner was told it is deleted: no spec at all.
Deleted == <<None, None>>

DeleteSwap ==
    /\ writing # None /\ writing[1].does = "delete"
    /\ LET id == writing[1].id
       IN  /\ agents' = [agents EXCEPT ![id] = None]
           /\ convs' = {c \in convs : c.agent # id}
           /\ tokens' = tokens \ {id}
           /\ acked' = [acked EXCEPT ![id] = Deleted]
    /\ writing' = None
    /\ UNCHANGED <<store, messageVars, ownerVars, clock, restarts, admitted, born>>

-----------------------------------------------------------------------------
\* take: what the bucket holds by now.
Level(ag) == Min({Burst, ag.tokens + Refill * (clock - ag.filled)})

\* open, at the cap: the least recently used conversation goes, one of them if
\* they are of one instant.
Evicted(ag) ==
    IF Cardinality(ag.convs) < Conversations THEN {{}}
    ELSE {{t} : t \in {t \in ag.convs : \A u \in ag.convs : threads[t].last <= threads[u].last}}

\* What a call copies from the agent: whether it may ask for a tool.
Call(state, id, thread, spec) == [state |-> state, agent |-> id, thread |-> thread, tools |-> spec.tools]

\* A message is turned away: no agent, no webhook, an empty bucket, or no such
\* conversation, the last of which has spent a token.  A conversation of
\* another agent's is no conversation.
TurnedAway(m, id, bucket) ==
    /\ calls' = [calls EXCEPT ![m] = [state |-> "refused"]]
    /\ agents' = IF bucket = None THEN agents
                 ELSE [agents EXCEPT ![id] = <<[@[1] EXCEPT !.tokens = bucket[1], !.filled = clock]>>]

\* say, under the lock: the bucket, the conversation, and a copy of what the
\* call needs.  thread is the conversation named, None to open one.
Say(m, id, thread, event) ==
    /\ calls[m] = Idle /\ Free
    /\ IF ~Running(id) \/ (event /\ ~agents[id][1].spec.webhook)
       THEN TurnedAway(m, id, None) /\ UNCHANGED <<convs, threads, admitted>>
       ELSE LET ag == agents[id][1]
                spent == [ag EXCEPT !.tokens = Level(ag) - 1, !.filled = clock]
            IN  IF Level(ag) < 1
                THEN TurnedAway(m, id, <<Level(ag)>>) /\ UNCHANGED <<convs, threads, admitted>>
                ELSE /\ admitted' = [admitted EXCEPT ![id] = @ + 1]
                     /\ \/ /\ event
                           /\ LET t == IF ag.events = NoThread THEN m ELSE ag.events
                              IN  /\ agents' = [agents EXCEPT ![id] = <<[spent EXCEPT !.events = t]>>]
                                  /\ calls' = [calls EXCEPT ![m] = Call("waiting", id, t, ag.spec)]
                                  /\ threads' = [threads EXCEPT ![t].last = clock]
                           /\ UNCHANGED convs
                        \/ /\ ~event /\ thread = None
                           /\ \E gone \in Evicted(ag) :
                                 /\ agents' = [agents EXCEPT ![id] =
                                        <<[spent EXCEPT !.convs = (ag.convs \ gone) \cup {m}]>>]
                                 /\ convs' = {c \in convs : c.id \notin gone} \cup {[id |-> m, agent |-> id]}
                           /\ calls' = [calls EXCEPT ![m] = Call("waiting", id, m, ag.spec)]
                           /\ threads' = [threads EXCEPT ![m].last = clock]
                        \/ /\ ~event /\ thread # None /\ [id |-> thread[1], agent |-> id] \in convs
                           /\ agents' = [agents EXCEPT ![id] = <<spent>>]
                           /\ calls' = [calls EXCEPT ![m] = Call("waiting", id, thread[1], ag.spec)]
                           /\ threads' = [threads EXCEPT ![thread[1]].last = clock]
                           /\ UNCHANGED convs
                        \/ /\ ~event /\ thread # None /\ [id |-> thread[1], agent |-> id] \notin convs
                           /\ TurnedAway(m, id, <<spent.tokens>>)
                           /\ UNCHANGED <<convs, threads>>
    /\ UNCHANGED <<store, tokens, wallet, ownerVars, writing, clock, restarts, acked, said, born>>

\* Mutant: two messages are answered at once.
AnyTurn(m) == TRUE

MyTurn(m) == ~threads[calls[m].thread].busy

\* conv.mu: one call on a conversation at a time, which sees the one before.
Begin(m) ==
    /\ calls[m].state = "waiting" /\ MyTurn(m)
    /\ LET c == calls[m]
       IN  calls' = [calls EXCEPT ![m] = [state |-> "calling", agent |-> c.agent, thread |-> c.thread,
                                          tools |-> c.tools, rounds |-> 0,
                                          history |-> threads[c.thread].messages]]
    /\ threads' = [threads EXCEPT ![calls[m].thread].busy = TRUE]
    /\ UNCHANGED <<store, agents, convs, tokens, wallet, ownerVars, writing, clock, restarts, acked, said,
                   admitted, born>>

\* Mutant: a refused call keeps the conversation to itself.
RefusedBusy(m, how) == calls' = [calls EXCEPT ![m] = [state |-> how]] /\ UNCHANGED threads

Refused(m, how) ==
    /\ calls' = [calls EXCEPT ![m] = [state |-> how]]
    /\ threads' = [threads EXCEPT ![calls[m].thread].busy = FALSE]

\* The newest exchanges of a history.
Kept(history, m) ==
    LET all == Append(history, m)
    IN  IF Len(all) > History THEN SubSeq(all, Len(all) - History + 1, Len(all)) ELSE all

\* Answered, and to be put to the owner.
Asking(c) == [state |-> "asking", agent |-> c.agent, thread |-> c.thread]

\* converse, a round of it: a metered call, refused for the token, the wallet,
\* the provider or the deadline; answered with a tool to call, while there
\* are rounds left; or with words, which the conversation keeps.
Round(m) ==
    /\ calls[m].state = "calling"
    /\ LET c == calls[m]
       IN  \/ c.agent \notin tokens /\ Refused(m, "revoked") /\ UNCHANGED <<wallet, said>>
           \/ c.agent \in tokens /\ wallet < 1 /\ Refused(m, "refused") /\ UNCHANGED <<wallet, said>>
           \* Free of charge, or paid for and not to be read.
           \/ /\ c.agent \in tokens /\ wallet >= 1 /\ Refused(m, "refused")
              /\ wallet' \in {wallet, wallet - 1}
              /\ UNCHANGED said
           \/ /\ c.agent \in tokens /\ wallet >= 1
              /\ c.tools /\ c.rounds < MaxToolRounds
              /\ wallet' = wallet - 1
              /\ calls' = [calls EXCEPT ![m].rounds = @ + 1]
              /\ UNCHANGED <<threads, said>>
           \/ /\ c.agent \in tokens /\ wallet >= 1
              /\ wallet' = wallet - 1
              /\ threads' = [threads EXCEPT ![c.thread].messages = Kept(c.history, m)]
              /\ said' = [said EXCEPT ![c.thread] = Append(@, m)]
              /\ calls' = [calls EXCEPT ![m] = Asking(@)]
    /\ UNCHANGED <<store, agents, convs, tokens, ownerVars, writing, clock, restarts, acked, admitted, born>>

\* Step, for an agent lodged at the fair: one call with no history, on the
\* fair's token and out of no bucket.
Step(m, id) ==
    /\ calls[m] = Idle /\ Free /\ Running(id)
    /\ calls' = [calls EXCEPT ![m] = Call("stepping", id, NoThread, agents[id][1].spec)]
    /\ UNCHANGED <<store, agents, convs, threads, tokens, wallet, ownerVars, writing, clock, restarts, acked,
                   said, admitted, born>>

StepReply(m) ==
    /\ calls[m].state = "stepping"
    /\ \/ calls' = [calls EXCEPT ![m] = Asking(@)]
       \/ calls' = [calls EXCEPT ![m] = [state |-> "refused"]]
    /\ UNCHANGED <<store, agents, convs, threads, tokens, wallet, ownerVars, writing, clock, restarts, acked,
                   said, admitted, born>>

\* The newest questions.
Asked(asked, m) ==
    LET all == Append(asked, m)
    IN  IF Len(all) > MaxQuestions THEN Tail(all) ELSE all

\* ask, and the conversation is let go.
Ask(m) ==
    /\ calls[m].state = "asking" /\ Free
    /\ LET id == calls[m].agent
       IN  agents' = IF Running(id) THEN [agents EXCEPT ![id] = <<[@[1] EXCEPT !.asked = Asked(agents[id][1].asked, m)]>>]
                     ELSE agents
    /\ calls' = [calls EXCEPT ![m] = [state |-> "answered", agent |-> @.agent]]
    /\ threads' = [t \in Message |-> IF t = calls[m].thread THEN [threads[t] EXCEPT !.busy = FALSE]
                                                          ELSE threads[t]]
    /\ UNCHANGED <<store, convs, tokens, wallet, ownerVars, writing, clock, restarts, acked, said, admitted, born>>

-----------------------------------------------------------------------------
\* Nothing is being written about an agent, so what its owner was told stands;
\* what was under way at a kill may have been done.
Settled(id) ==
    /\ writing = None \/ writing[1].id # id
    /\ creating = None \/ creating[1].id # id

\* The process is killed and started again over its store.
Restart ==
    /\ restarts < MaxRestarts /\ restarts' = restarts + 1
    /\ agents' = [id \in Agents |-> IF store[id] = None THEN None ELSE <<Run(store[id][1])>>]
    /\ tokens' = {id \in Agents : store[id] # None}
    /\ born' = [id \in Agents |-> clock] /\ admitted' = [id \in Agents |-> 0]
    /\ convs' = {}
    /\ calls' = [m \in Message |-> IF calls[m].state \in {"waiting", "calling", "stepping", "asking"}
                                   THEN [state |-> "lost"] ELSE calls[m]]
    /\ threads' = [m \in Message |-> [messages |-> <<>>, last |-> 0, busy |-> FALSE]]
    /\ said' = [m \in Message |-> <<>>]
    /\ creating' = None /\ editing' = None /\ writing' = None
    /\ acked' = [id \in Agents |->
           IF Settled(id) THEN acked[id]
           ELSE IF store[id] = None /\ acked[id] # None THEN Deleted ELSE store[id]]
    /\ UNCHANGED <<store, wallet, desk, clock, edits, faults>>

Owner ==
    \/ \E id \in Agents : Authorize(id) \/ Read(id) \/ Draft(id) \/ UpdateCheck(id) \/ DeletePut(id)
    \/ \E id \in Agents, q \in 1..MaxQuestions : AnswerPut(id, q)
    \/ CreatePut \/ CreateInsert \/ UpdatePut \/ UpdateSwap \/ AnswerSwap \/ DeleteSwap

Stranger ==
    \E m \in Message, id \in Agents :
        /\ \A n \in 1..(m - 1) : calls[n] # Idle
        /\ \/ \E thread \in {None} \cup {<<t>> : t \in Message} : Say(m, id, thread, FALSE)
           \/ Say(m, id, None, TRUE)
           \/ Step(m, id)

\* The handler of a message.
Handler(m) == Begin(m) \/ Round(m) \/ StepReply(m) \/ Ask(m)

ServiceNext == Tick \/ Owner \/ Stranger \/ Restart \/ \E m \in Message : Handler(m)

\* A handler that can go on does, and one that waits for a lock nobody keeps
\* gets it: messages and edits come to an end here, so weak fairness says it.
ServiceSpec ==
    /\ ServiceInit /\ [][ServiceNext]_vars
    /\ \A m \in Message : WF_vars(Handler(m))
    /\ WF_vars(UpdateSwap \/ AnswerSwap \/ DeleteSwap)

-----------------------------------------------------------------------------
Specs == {[s EXCEPT !.memory = mem] : s \in Spec, mem \in SeqOf(Message, MaxMemory)}

ServiceTypeOK ==
    /\ \A id \in Agents :
          /\ store[id] \in {None} \cup {<<s>> : s \in Specs}
          /\ Running(id) =>
                /\ agents[id][1].tokens \in 0..Burst /\ agents[id][1].filled <= clock
                /\ Len(agents[id][1].asked) <= MaxQuestions
                /\ Cardinality(agents[id][1].convs) <= Conversations
    /\ \A m \in Message :
          /\ calls[m].state \in {"unsent", "waiting", "calling", "stepping", "asking", "answered",
                                "refused", "revoked", "lost"}
          /\ calls[m].state = "calling" => calls[m].rounds \in 0..MaxToolRounds
    /\ wallet \in 0..Grant /\ tokens \subseteq Agents

\* What an owner was told is what the store holds and what the service runs,
\* across refused writes, edits that overlap and kills: the store is ahead and
\* never behind, and what was deleted does not come back (store.go:15-19,
\* service.go:488-496, 503-521, 760-763).
StoreIsNeverBehind ==
    \A id \in Agents :
        /\ acked[id] = Deleted => store[id] = None
        /\ Settled(id) =>
              /\ store[id] = IF acked[id] = Deleted THEN None ELSE acked[id]
              /\ store[id] = IF Running(id) THEN <<agents[id][1].spec>> ELSE None

\* A token spends the wallet of an agent that is there, or being made: none is
\* left behind by a create that failed or an agent that was deleted.
TokensAreTheAgents ==
    tokens = {id \in Agents : Running(id)} \cup
             IF creating = None THEN {} ELSE {creating[1].id}

\* A conversation is the newest of what was said and answered on it, in order,
\* whoever sent messages at the same time and whatever was refused in between
\* (service.go:293-295, 676-690).
HistoryIsWhatWasSaid ==
    \A t \in Message :
        threads[t].messages =
            SubSeq(said[t], IF Len(said[t]) > History THEN Len(said[t]) - History + 1 ELSE 1, Len(said[t]))

\* An agent is spoken to no oftener than its bucket allows, counted from when
\* it was made: no edit and no answer refills it (service.go:458-462, 564-576).
BucketHolds ==
    \A id \in Agents : admitted[id] <= Burst + Refill * (clock - born[id])

\* A message that is taken is answered or refused in the end, whoever holds
\* the conversation before it, unless the process is killed
\* (service.go:676-692).
EveryMessageEnds ==
    \A m \in Message :
        calls[m].state = "waiting" ~> calls[m].state \in {"answered", "refused", "revoked", "lost"}

(***************************************************************************)
(* What service.go:499-501 says of Delete and the code does not do: "A     *)
(* message in flight completes - the hold was taken - and is the last."    *)
(* A message that waits for its turn, or is between two rounds of tools,   *)
(* has no hold: its next call finds the token revoked, and is refused.     *)
(***************************************************************************)
MessageInFlightCompletes ==
    \A m \in Message : calls[m].state # "revoked"
=============================================================================
