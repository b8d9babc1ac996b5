----------------------------- MODULE MCNbEvents -----------------------------
EXTENDS NbEvents, TLC

CONSTANTS app, data_up

\* qsdk_psm and data_up run at 12, and so do all users here: they are alike.
MCPriority == [t \in Threads |-> 12]

MCFlags == {"ENTER_PSM", "EXIT_PSM", "EXIT_PSM_REBOOT", "ENTER_RUN", "PING_OK", "PING_ERROR"}

MCSymmetry == Permutations(Users)
=============================================================================
