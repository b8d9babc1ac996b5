\* Three threads on a queue of two blocks: both may be in flight at once.
CONSTANTS
    t1 = t1
    t2 = t2
    t3 = t3
    m1 = m1
    m2 = m2
    NoMessage = NoMessage
    Threads = {t1, t2, t3}
    Messages = {m1, m2}
    Priority <- MCPriority
    FlagPrio = FALSE
    Size = 2
SYMMETRY MCSymmetry
SPECIFICATION Spec
INVARIANTS BlocksConserved CopyIntact NoLostWakeup
PROPERTY ImplementsBuffer
