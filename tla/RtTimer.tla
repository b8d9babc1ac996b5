------------------------------- MODULE RtTimer -------------------------------
(***************************************************************************)
(* The timers of the kernel (rt-thread/src/timer.c, clock.c): the hard     *)
(* ones, called by the clock interrupt, and the soft ones, called by the   *)
(* timer thread, which sleeps on a hard timer of its own.  The tick wraps  *)
(* at TickMax, and all comparisons of ticks are modulo TickMax + 1.        *)
(*                                                                         *)
(* An action is a stretch of code that interrupts cannot split, or one     *)
(* turn of the loop of the clock interrupt, in which nothing else runs.  A *)
(* timer is operated by one thread at a time, less urgent than the timer   *)
(* thread.                                                                 *)
(***************************************************************************)
EXTENDS Integers, FiniteSets, SequencesExt

CONSTANTS
    Timers,      \* all timers
    Soft,        \* those with RT_TIMER_FLAG_SOFT_TIMER
    Restarts,    \* those whose timeout function starts them again
    ThreadTimer, \* timer_thread.thread_timer
    Times,       \* values of init_tick
    TickMax,     \* RT_TICK_MAX
    MaxDelay,    \* bound: ticks for which rt_timer_start may be preempted
    MaxCalls     \* bound: calls in progress at once

Half == TickMax \div 2

ASSUME TimersAssumption == Soft \cup Restarts \subseteq Timers \ {ThreadTimer} /\ ThreadTimer \in Timers
ASSUME TickAssumption == TickMax \in Nat /\ MaxDelay \in Nat
\* A periodic timer of 0 ticks would be called for ever in one interrupt.  A
\* start that is preempted for longer meets ticks it cannot compare.
ASSUME TimesAssumption == Times # {} /\ \A n \in Times : n \in Nat \ {0} /\ n + MaxDelay < Half

VARIABLES
    rt_tick, rt_timer_list, rt_soft_timer_list,
    checking,   \* the clock interrupt is in the loop of rt_timer_check
    activated, periodic,        \* the timers with these flags
    init_tick, timeout_tick,
    pc,         \* where the caller of a timer is: "idle", "removed", "computed" and
                \* "inserted" in rt_timer_start, "stopping" and "stopped" in rt_timer_stop
    stat,       \* the timer thread: "enter", "check", "read" and "sleep" while it
                \* runs, "delay" or "suspend" while it is suspended
    current_tick,               \* of rt_soft_timer_check
    next_timeout,               \* the ticks the timer thread is to sleep
    due,        \* how many ticks are really left until the timeout of a timer
    called      \* the timers whose timeout function ran in the last step

lists == <<rt_timer_list, rt_soft_timer_list>>
settings == <<periodic, init_tick>>
thread == <<stat, current_tick, next_timeout>>
vars == <<rt_tick, lists, checking, activated, settings, timeout_tick, pc, thread, due, called>>

Hard == Timers \ Soft
User == Timers \ {ThreadTimer}

\* rt_system_timer_init, rt_system_timer_thread_init, _rt_timer_init.
Init ==
    /\ rt_tick = 0
    /\ rt_timer_list = <<>> /\ rt_soft_timer_list = <<>> /\ checking = FALSE
    /\ activated = {} /\ periodic = {}
    /\ init_tick = [t \in Timers |-> CHOOSE n \in Times : TRUE]
    /\ timeout_tick = [t \in Timers |-> 0]
    /\ pc = [t \in Timers |-> "idle"]
    /\ stat = "read" /\ current_tick = 0 /\ next_timeout = 0
    /\ due = [t \in Timers |-> 0]
    /\ called = {}

-----------------------------------------------------------------------------
(* The lists *)

\* Unsigned subtraction of ticks.
Minus(a, b) == (a - b) % (TickMax + 1)

\* The test of rt_timer_check, for a tick that was read as now.
Expired(now, tick) == Minus(now, tick) < Half

\* The condition under which a check loop calls the first timer of its list.
FirstExpired(list, now) == list # <<>> /\ Expired(now, timeout_tick[Head(list)])

\* The position in front of which t is put, if the timers at the positions of
\* later have to come after it: the first of them, or the end.
FirstOf(later, list) == Min(later \cup {Len(list) + 1})

\* Mutant: the timers with a smaller tick come first, whatever the wrap.
InsertPlain(list, t, tick) ==
    InsertAt(list, FirstOf({i \in 1..Len(list) : tick[list[i]] > tick[t]}, list), t)

\* The search of rt_timer_start, where tick is the timeout_tick of all timers:
\* t is put before the first timer with a later timeout.
Insert(list, t, tick) ==
    LET later == {i \in 1..Len(list) : Minus(tick[list[i]], tick[t]) \in 1..(Half - 1)}
    IN  InsertAt(list, FirstOf(later, list), t)

Unlink(list, t) ==
    IF t \in ToSet(list) THEN RemoveAt(list, CHOOSE i \in 1..Len(list) : list[i] = t) ELSE list

\* _rt_timer_remove.  The timeout_tick of a timer in no list is dead: 0 here.
_rt_timer_remove(t) ==
    /\ rt_timer_list' = Unlink(rt_timer_list, t)
    /\ rt_soft_timer_list' = Unlink(rt_soft_timer_list, t)
    /\ timeout_tick' = [timeout_tick EXCEPT ![t] = 0]
    /\ due' = [due EXCEPT ![t] = 0]

\* What the function of a called timer, and the code after it, do to the timer:
\* one for which Again holds is started at once, the others leave.
Again(t) == t \in Restarts \/ (t \in periodic /\ t \in activated)
StaysActivated(t) == t \in periodic /\ Again(t)

\* The first timer of a list is called, at the tick rt_tick.
AfterCall(list, tick) ==
    IF Again(Head(list)) THEN Insert(Tail(list), Head(list), tick) ELSE Tail(list)

TickAfter(t) ==
    [timeout_tick EXCEPT ![t] = IF Again(t) THEN (rt_tick + init_tick[t]) % (TickMax + 1) ELSE 0]

Call(t) ==
    /\ timeout_tick' = TickAfter(t)
    /\ due' = [due EXCEPT ![t] = IF Again(t) THEN init_tick[t] ELSE 0]
    /\ activated' = IF StaysActivated(t) THEN activated \cup {t} ELSE activated \ {t}
    /\ called' = {t}

-----------------------------------------------------------------------------
(* rt_timer_start, rt_timer_stop, rt_timer_control *)

\* Threads that use timers run while the timer thread is suspended.
ThreadsRun == stat \in {"delay", "suspend"} /\ ~checking

At(t, from, to) ==
    /\ ThreadsRun
    /\ pc[t] = from /\ pc' = [pc EXCEPT ![t] = to]
    /\ from = "idle" => Cardinality({u \in Timers : pc[u] # "idle"}) < MaxCalls
    /\ called' = {}

rt_timer_start(t) ==
    /\ At(t, "idle", "removed")
    /\ _rt_timer_remove(t)
    /\ activated' = activated \ {t}
    /\ UNCHANGED <<rt_tick, checking, settings, thread>>

\* timeout_tick is computed with interrupts enabled, before the insertion.
StartCompute(t) ==
    /\ At(t, "removed", "computed")
    /\ timeout_tick' = [timeout_tick EXCEPT ![t] = (rt_tick + init_tick[t]) % (TickMax + 1)]
    /\ due' = [due EXCEPT ![t] = init_tick[t]]
    /\ UNCHANGED <<rt_tick, lists, checking, activated, settings, thread>>

StartInsert(t) ==
    /\ At(t, "computed", IF t \in Soft THEN "inserted" ELSE "idle")
    /\ activated' = activated \cup {t}
    /\ IF t \in Soft
       THEN rt_soft_timer_list' = Insert(rt_soft_timer_list, t, timeout_tick) /\ UNCHANGED rt_timer_list
       ELSE rt_timer_list' = Insert(rt_timer_list, t, timeout_tick) /\ UNCHANGED rt_soft_timer_list
    /\ UNCHANGED <<rt_tick, checking, settings, thread, timeout_tick, due>>

\* Mutant: only a timer thread that waits for a first timer is woken.
StartResumeSuspended(t) ==
    /\ At(t, "inserted", "idle")
    /\ stat' = IF stat = "suspend" THEN "enter" ELSE stat
    /\ UNCHANGED <<rt_tick, lists, checking, activated, settings, timeout_tick, current_tick, next_timeout, due>>

\* After a soft timer the timer thread is resumed, which stops its own timer.
StartResume(t) ==
    /\ At(t, "inserted", "idle")
    /\ stat' = "enter"
    /\ _rt_timer_remove(ThreadTimer)
    /\ activated' = activated \ {ThreadTimer}
    /\ UNCHANGED <<rt_tick, checking, settings, current_tick, next_timeout>>

\* The flag is tested, the timer removed and the flag cleared in three stretches.
rt_timer_stop(t) ==
    /\ t \in activated
    /\ At(t, "idle", "stopping")
    /\ UNCHANGED <<rt_tick, lists, checking, activated, settings, timeout_tick, thread, due>>

StopRemove(t) ==
    /\ At(t, "stopping", "stopped")
    /\ _rt_timer_remove(t)
    /\ UNCHANGED <<rt_tick, checking, activated, settings, thread>>

\* Mutant: rt_timer_stop leaves the flag.
StopClearNot(t) ==
    /\ At(t, "stopped", "idle")
    /\ UNCHANGED <<rt_tick, lists, checking, activated, settings, timeout_tick, thread, due>>

StopClear(t) ==
    /\ At(t, "stopped", "idle")
    /\ activated' = activated \ {t}
    /\ UNCHANGED <<rt_tick, lists, checking, settings, timeout_tick, thread, due>>

rt_timer_control(t) ==
    /\ At(t, "idle", "idle")
    /\ \/ periodic' \in {periodic \cup {t}, periodic \ {t}} /\ UNCHANGED init_tick
       \/ (\E n \in Times : init_tick' = [init_tick EXCEPT ![t] = n]) /\ UNCHANGED periodic
    /\ UNCHANGED <<rt_tick, lists, checking, activated, timeout_tick, thread, due>>

-----------------------------------------------------------------------------
(* The clock interrupt *)

\* The timers that have a timeout ahead of them.
Running == {t \in Timers : pc[t] = "computed"} \cup ToSet(rt_timer_list) \cup ToSet(rt_soft_timer_list)

\* Bounds: how long rt_timer_start is preempted, how late the timer thread may be.
TickBound ==
    /\ \A t \in Timers : pc[t] = "computed" => due[t] > init_tick[t] - MaxDelay
    /\ \A t \in ToSet(rt_soft_timer_list) : due[t] > -MaxDelay
    /\ stat = "sleep" => due[Head(rt_soft_timer_list)] > next_timeout - MaxDelay

\* rt_tick_increase, which goes on with rt_timer_check.
rt_tick_increase ==
    /\ ~checking /\ checking' = TRUE
    /\ TickBound
    /\ rt_tick' = (rt_tick + 1) % (TickMax + 1)
    /\ due' = [t \in Timers |-> IF t \in Running THEN due[t] - 1 ELSE due[t]]
    /\ called' = {}
    /\ UNCHANGED <<lists, activated, settings, timeout_tick, pc, thread>>

\* One turn of the loop of rt_timer_check, while the first timer has expired.
\* The function of ThreadTimer is rt_thread_timeout: the timer thread is ready.
CheckCall ==
    /\ checking
    /\ FirstExpired(rt_timer_list, rt_tick)
    /\ Call(Head(rt_timer_list))
    /\ rt_timer_list' = AfterCall(rt_timer_list, TickAfter(Head(rt_timer_list)))
    /\ stat' = IF Head(rt_timer_list) = ThreadTimer THEN "enter" ELSE stat
    /\ UNCHANGED <<rt_tick, rt_soft_timer_list, checking, settings, pc, current_tick, next_timeout>>

\* Mutant: the loop may end while the first timer has expired.
CheckEndEarly ==
    /\ checking /\ checking' = FALSE
    /\ called' = {}
    /\ UNCHANGED <<rt_tick, lists, activated, settings, timeout_tick, pc, thread, due>>

CheckEnd ==
    /\ checking /\ checking' = FALSE
    /\ ~FirstExpired(rt_timer_list, rt_tick)
    /\ called' = {}
    /\ UNCHANGED <<rt_tick, lists, activated, settings, timeout_tick, pc, thread, due>>

rt_timer_check == CheckCall \/ CheckEnd

-----------------------------------------------------------------------------
(* The timer thread *)

SoftEnter ==
    /\ stat = "enter" /\ ~checking
    /\ stat' = "check" /\ current_tick' = rt_tick
    /\ called' = {}
    /\ UNCHANGED <<rt_tick, lists, checking, activated, settings, timeout_tick, pc, next_timeout, due>>

\* One turn of rt_soft_timer_check: the first timer is called if it has expired.
SoftCall ==
    /\ stat = "check" /\ ~checking
    /\ FirstExpired(rt_soft_timer_list, current_tick)
    /\ Call(Head(rt_soft_timer_list))
    /\ rt_soft_timer_list' = AfterCall(rt_soft_timer_list, TickAfter(Head(rt_soft_timer_list)))
    /\ current_tick' = rt_tick
    /\ UNCHANGED <<rt_tick, rt_timer_list, checking, settings, pc, stat, next_timeout>>

SoftEnd ==
    /\ stat = "check" /\ ~checking
    /\ ~FirstExpired(rt_soft_timer_list, current_tick)
    /\ stat' = "read" /\ current_tick' = 0
    /\ called' = {}
    /\ UNCHANGED <<rt_tick, lists, checking, activated, settings, timeout_tick, pc, next_timeout, due>>

rt_soft_timer_check == SoftEnter \/ SoftCall \/ SoftEnd

rt_timer_list_next_timeout ==
    IF rt_soft_timer_list = <<>> THEN TickMax ELSE timeout_tick[Head(rt_soft_timer_list)]

\* rt_thread_timer_entry: the thread suspends itself, sleeps, or checks at once.
rt_thread_timer_entry ==
    /\ stat = "read" /\ ~checking
    /\ IF rt_timer_list_next_timeout = TickMax
       THEN stat' = "suspend" /\ UNCHANGED next_timeout
       ELSE LET n == Minus(rt_timer_list_next_timeout, rt_tick)
            IN  IF n < Half
                THEN stat' = "sleep" /\ next_timeout' = n
                ELSE stat' = "enter" /\ UNCHANGED next_timeout
    /\ called' = {}
    /\ UNCHANGED <<rt_tick, lists, checking, activated, settings, timeout_tick, pc, current_tick, due>>

\* rt_thread_delay, with interrupts disabled.
rt_thread_sleep ==
    LET tick == [timeout_tick EXCEPT ![ThreadTimer] = (rt_tick + next_timeout) % (TickMax + 1)]
    IN  /\ stat = "sleep" /\ stat' = "delay" /\ ~checking
        /\ init_tick' = [init_tick EXCEPT ![ThreadTimer] = next_timeout]
        /\ timeout_tick' = tick
        /\ due' = [due EXCEPT ![ThreadTimer] = next_timeout]
        /\ rt_timer_list' = Insert(rt_timer_list, ThreadTimer, tick)
        /\ activated' = activated \cup {ThreadTimer}
        /\ next_timeout' = 0
        /\ called' = {}
        /\ UNCHANGED <<rt_tick, rt_soft_timer_list, checking, periodic, pc, current_tick>>

Next ==
    \/ \E t \in User : rt_timer_start(t) \/ StartCompute(t) \/ StartInsert(t) \/ StartResume(t)
                       \/ rt_timer_stop(t) \/ StopRemove(t) \/ StopClear(t)
                       \/ rt_timer_control(t)
    \/ rt_tick_increase \/ rt_timer_check
    \/ rt_soft_timer_check \/ rt_thread_timer_entry \/ rt_thread_sleep

Spec == Init /\ [][Next]_vars

-----------------------------------------------------------------------------
(* Properties *)

\* Types of the variables.
TypeOK ==
    /\ rt_tick \in 0..TickMax /\ current_tick \in 0..TickMax
    /\ rt_timer_list \in Seq(Hard) /\ rt_soft_timer_list \in Seq(Soft)
    /\ checking \in BOOLEAN
    /\ activated \subseteq Timers /\ periodic \subseteq Timers
    /\ init_tick \in [Timers -> Nat]
    /\ timeout_tick \in [Timers -> 0..TickMax]
    /\ pc \in [Timers -> {"idle", "removed", "computed", "inserted", "stopping", "stopped"}]
    /\ stat \in {"enter", "check", "read", "sleep", "delay", "suspend"} /\ next_timeout \in 0..TickMax
    /\ due \in [Timers -> Int]
    /\ called \subseteq Timers

Ordered(list) ==
    /\ IsInjective(list)
    /\ \A i, j \in 1..Len(list) : i < j => due[list[i]] <= due[list[j]]
    /\ \A i \in 1..Len(list) : Minus(timeout_tick[list[i]], rt_tick) = due[list[i]] % (TickMax + 1)

\* Each list is in the order of the real timeouts, across every wrap of the tick
\* and whatever ticks a preempted rt_timer_start missed, so that looking at its
\* front is enough; a timer that is in a list twice would corrupt it.
TimersOrdered == TypeOK /\ Ordered(rt_timer_list) /\ Ordered(rt_soft_timer_list)

\* No timeout function is called early, whether the tick it is compared with is
\* new or stale; and the loop of the clock interrupt leaves no hard timer that is
\* due to wait for a later tick.
CalledOnTime ==
    [][/\ \A t \in called' : due[t] <= 0
       /\ checking /\ ~checking' => \A t \in ToSet(rt_timer_list) : due[t] > 0]_vars

\* While the timer thread sleeps, its own timer ends with the first soft timer,
\* whichever were started and stopped since; it is late only by the ticks that
\* came between the reading of the tick and the sleep.
SleepsNotTooLong ==
    stat = "delay" /\ (\A t \in Timers : pc[t] # "inserted") =>
        /\ ThreadTimer \in ToSet(rt_timer_list)
        /\ rt_soft_timer_list # <<>> =>
              due[ThreadTimer] <= due[Head(rt_soft_timer_list)] + MaxDelay

\* A timer that does not start itself has its flag exactly while it is in a list,
\* outside the calls that change both: rt_timer_stop relies on the flag.
FlagTellsListed ==
    \A t \in Timers \ Restarts : pc[t] = "idle" =>
        (t \in activated <=> t \in ToSet(rt_timer_list) \cup ToSet(rt_soft_timer_list))

\* "no software timer exist, suspend self": the timer thread is suspended without
\* a timeout only while there is no soft timer, but for one whose rt_timer_start
\* is about to resume it.
SuspendedIfNone ==
    stat = "suspend" /\ (\A t \in Timers : pc[t] # "inserted") => rt_soft_timer_list = <<>>
=============================================================================
