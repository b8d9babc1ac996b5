\* Two turns for each polling loop, one mail and one topic.
CONSTANTS
    Threads = {"net", "data_up", "qsdk"}
    FlagPrio = FALSE
    Polls = 2
    MailMax = 1
    TopicMax = 1
SPECIFICATION NetFairSpec
INVARIANTS TypeOK StartedOnce NobodyForgotten AtExclusive DataUpSuspended
PROPERTY RecoveryEnds
CHECK_DEADLOCK FALSE
