\* The timer of the timer thread, a hard timer and two soft ones of 1 or 2 ticks, on
\* a tick that wraps after 8; the hard timer may start itself.
CONSTANTS
    tt = tt
    h1 = h1
    s1 = s1
    s2 = s2
    Timers = {tt, h1, s1, s2}
    Soft = {s1, s2}
    Restarts = {h1}
    ThreadTimer = tt
    Times = {1, 2}
    TickMax = 8
    MaxDelay = 1
    MaxCalls = 1
SYMMETRY MCSymmetry
SPECIFICATION Spec
INVARIANTS TimersOrdered SleepsNotTooLong FlagTellsListed
PROPERTY CalledOnTime
