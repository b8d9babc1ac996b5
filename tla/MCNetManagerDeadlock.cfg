\* net_entry suspends the owner of the AT lock and waits for it.
CONSTANTS
    Threads = {"net", "data_up", "qsdk"}
    FlagPrio = FALSE
    Polls = 2
    MailMax = 1
    TopicMax = 1
SPECIFICATION FairSpec
PROPERTY RebootGoesToInit
CHECK_DEADLOCK FALSE
