------------------------------ MODULE MCRtTimer ------------------------------
(* RtTimer for TLC. *)
EXTENDS RtTimer, TLC

CONSTANTS tt, h1, s1, s2

\* The soft timers are alike.
MCSymmetry == Permutations({s1, s2})
=============================================================================
