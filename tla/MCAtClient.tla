---------------------------- MODULE MCAtClient ----------------------------
(* Instances of AtClient for TLC: qsdk_th is above the parser, data_th below *)
(* it.                                                                      *)
EXTENDS AtClient

CONSTANTS qsdk_th, at_clnt0, data_th

MCPriority == [t \in Threads |-> CASE t = qsdk_th -> 7 [] t = at_clnt0 -> 9
                                   [] OTHER -> 12]
=============================================================================
