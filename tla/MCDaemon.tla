------------------------------- MODULE MCDaemon -------------------------------
EXTENDS Daemon
CONSTANTS a1, a2

MCCompetitor == {a1, a2}
\* One generator that works, one a model would judge, one that is broken.
MCGenerators == <<[probes |-> TRUE, judged |-> TRUE], [probes |-> TRUE, judged |-> FALSE],
                  [probes |-> FALSE, judged |-> FALSE]>>
=============================================================================
