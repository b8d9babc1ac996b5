----------------------------- MODULE MCRtMutex -----------------------------
EXTENDS RtMutex, TLC

CONSTANTS l1, l2, m, h

\* Four threads, two of them equally urgent.
MCBase == l1 :> 3 @@ l2 :> 3 @@ m :> 2 @@ h :> 1
=============================================================================
