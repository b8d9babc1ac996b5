\* A mailbox of two slots whose lists are ordered by priority.
CONSTANTS
    t1 = t1
    t2 = t2
    t3 = t3
    m1 = m1
    m2 = m2
    NoMail = NoMail
    Threads = {t1, t2, t3}
    Mails = {m1, m2}
    Priority <- MCPriority
    FlagPrio = TRUE
    Size = 2
SPECIFICATION Spec
INVARIANTS TypeOK RingConsistent WaitersCorrect NobodySleepsInVain
PROPERTY ImplementsFifo
