---------------------------- MODULE MCRtMailbox ----------------------------
(* Small mailboxes for TLC. *)
EXTENDS RtMailbox

CONSTANTS t1, t2, t3, m1, m2

\* One urgent thread and two of equal priority, as net_th among the threads of
\* priority 12.
MCPriority == (t1 :> 10) @@ (t2 :> 12) @@ (t3 :> 12)
=============================================================================
