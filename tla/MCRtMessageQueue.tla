-------------------------- MODULE MCRtMessageQueue --------------------------
EXTENDS RtMessageQueue, TLC

CONSTANTS t1, t2, t3, m1, m2

\* First-in first-out lists, as rx_mq has them: priorities do not matter.
MCPriority == [t \in Threads |-> 14]

MCSymmetry == Permutations(Threads) \cup Permutations(Messages)
=============================================================================
