\* A soft timer whose timeout is at the last tick before the wrap.
CONSTANTS
    tt = tt
    h1 = h1
    s1 = s1
    s2 = s2
    Timers = {tt, h1, s1, s2}
    Soft = {s1, s2}
    Restarts = {h1}
    ThreadTimer = tt
    Times = {1, 2}
    TickMax = 8
    MaxDelay = 1
    MaxCalls = 1
SYMMETRY MCSymmetry
SPECIFICATION Spec
INVARIANT SuspendedIfNone
