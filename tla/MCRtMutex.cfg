\* Four threads of three priorities and two nested mutexes, so that an owner is
\* boosted before and after it takes the second one, and lists have three waiters.
CONSTANTS
    l1 = l1
    l2 = l2
    m = m
    h = h
    None = None
    Threads = {l1, l2, m, h}
    Mutexes = {1, 2}
    Base <- MCBase
    FlagPrio = TRUE
    MaxHold = 2
SPECIFICATION Spec
INVARIANTS MutexConsistent WaitsOnce PriorityRestored Inherits
