------------------------------ MODULE MCService ------------------------------
EXTENDS Service, TLC
CONSTANT x

MCAgents == {x}
\* One plain agent, and one that calls a tool and hears events.
Plain == [persona |-> "plain", tools |-> FALSE, webhook |-> FALSE, memory |-> <<>>]
Wired == [persona |-> "wired", tools |-> TRUE, webhook |-> TRUE, memory |-> <<>>]
MCSpec == {Plain, Wired}
=============================================================================
