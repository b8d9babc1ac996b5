\* Two users of the driver, which may both wait for the same flag.
CONSTANTS
    app = app
    data_up = data_up
    qsdk_psm = qsdk_psm
    Users = {app, data_up}
    Threads = {qsdk_psm, app, data_up}
    current_priority <- MCPriority
    FlagPrio = TRUE
    Flags <- MCFlags
    MailMax = 1
    PingMax = 1
    HoldMax = 2
SYMMETRY MCSymmetry
SPECIFICATION EventsSpec
INVARIANTS NoLostEvent AtLockedInPsm
PROPERTY FlagTakenOnce
