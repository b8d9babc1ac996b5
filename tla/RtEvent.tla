------------------------------ MODULE RtEvent ------------------------------
(***************************************************************************)
(* The event object of the kernel (rt-thread/src/ipc.c): a set of flags,   *)
(* and a list of threads that wait for some of them.  An action is a       *)
(* stretch of code with interrupts disabled.                               *)
(***************************************************************************)
EXTENDS RtIpcList

CONSTANTS
    Flags,
    current_priority     \* of every thread

ASSUME CurrentPriorityAssumption == current_priority \in [Threads -> Nat]

VARIABLES
    set,               \* the flags that are set
    suspend_thread,    \* the list of waiting threads
    event_set,         \* flags each thread waits for, then those it received
    event_info,        \* how it waits: RT_EVENT_FLAG_AND or _OR, and _CLEAR;
                       \* both are dead, and reset, when it does not wait
    timed              \* threads whose thread_timer runs

event == <<set, suspend_thread, event_set, event_info, timed>>

Options == [and : BOOLEAN, clear : BOOLEAN]

\* rt_event_create, rt_event_init.
EventInit ==
    /\ set = {} /\ suspend_thread = <<>>
    /\ event_set = [t \in Threads |-> {}]
    /\ event_info = [t \in Threads |-> [and |-> FALSE, clear |-> FALSE]]
    /\ timed = {}

\* The condition of a thread that waits for want, when the flags s are set.
Satisfied(option, want, s) ==
    IF option.and THEN want \subseteq s ELSE want \cap s # {}

\* Mutant: a thread that waited leaves the flags it received.
VisitKeep(acc, thread) ==
    IF Satisfied(event_info[thread], event_set[thread], acc.set)
    THEN [acc EXCEPT !.got[thread] = event_set[thread] \cap acc.set,
                     !.list = ListRemove(acc.list, thread)]
    ELSE acc

\* One turn of the loop in rt_event_send: thread is resumed if what is left of
\* the flags satisfies it, and what it receives is cleared if it asked for that.
Visit(acc, thread) ==
    LET received == event_set[thread] \cap acc.set
    IN  IF Satisfied(event_info[thread], event_set[thread], acc.set)
        THEN [set |-> IF event_info[thread].clear THEN acc.set \ received ELSE acc.set,
              got |-> [acc.got EXCEPT ![thread] = received],
              list |-> ListRemove(acc.list, thread)]
        ELSE acc

\* What the loop has made of the flags s, of event_set and of the list after
\* each turn.
Visits(s) ==
    LET acc[n \in 0..Len(suspend_thread)] ==
            IF n = 0 THEN [set |-> s, got |-> event_set, list |-> suspend_thread]
                     ELSE Visit(acc[n - 1], suspend_thread[n])
    IN  acc

\* Mutant: only the first waiting thread is looked at.
SendFirst(flags) ==
    LET last == Visits(set \cup flags)[Min({1, Len(suspend_thread)})]
    IN  /\ set' = last.set
        /\ event_set' = last.got
        /\ suspend_thread' = last.list
        /\ timed' = timed \cap ToSet(last.list)
        /\ UNCHANGED event_info

\* rt_event_send, with the timers of the threads it resumes.
rt_event_send(flags) ==
    LET last == Visits(set \cup flags)[Len(suspend_thread)]
    IN  /\ set' = last.set
        /\ event_set' = last.got
        /\ suspend_thread' = last.list
        /\ timed' = timed \cap ToSet(last.list)
        /\ UNCHANGED event_info

\* rt_event_recv when the condition holds: the caller goes on with want \cap set.
RecvNow(thread, want, option) ==
    /\ Satisfied(option, want, set)
    /\ set' = IF option.clear THEN set \ want ELSE set
    /\ UNCHANGED <<suspend_thread, event_set, event_info, timed>>

\* rt_event_recv when it does not: the caller waits, for ever or for some time.
RecvWait(thread, want, option, forever) ==
    /\ ~Satisfied(option, want, set)
    /\ event_set' = [event_set EXCEPT ![thread] = want]
    /\ event_info' = [event_info EXCEPT ![thread] = option]
    /\ suspend_thread' = ListSuspend(suspend_thread, thread, current_priority)
    /\ timed' = IF forever THEN timed ELSE timed \cup {thread}
    /\ UNCHANGED set

\* rt_thread_timeout: the thread leaves the list.
EventTimeout(thread) ==
    /\ thread \in timed
    /\ timed' = timed \ {thread}
    /\ suspend_thread' = ListRemove(suspend_thread, thread)
    /\ UNCHANGED <<set, event_set, event_info>>

\* A thread returns from its wait; what it received is in its own variable now.
Return(thread) ==
    /\ thread \notin ToSet(suspend_thread)
    /\ event_set' = [event_set EXCEPT ![thread] = {}]
    /\ event_info' = [event_info EXCEPT ![thread] = [and |-> FALSE, clear |-> FALSE]]
    /\ UNCHANGED <<set, suspend_thread, timed>>

-----------------------------------------------------------------------------
(* Properties *)

\* Types of the variables.
EventTypeOK ==
    /\ set \subseteq Flags
    /\ suspend_thread \in Seq(Threads)
    /\ event_set \in [Threads -> SUBSET Flags]
    /\ event_info \in [Threads -> Options]
    /\ timed \subseteq ToSet(suspend_thread)

\* No thread sleeps while the flags it waits for are set: rt_event_send wakes
\* whom it must, whatever flags were set before and whoever is ahead in the list.
NoLostEvent ==
    \A t \in ToSet(suspend_thread) : ~Satisfied(event_info[t], event_set[t], set)

\* A flag that is cleared on receipt wakes one thread only, the first in the
\* list that it satisfies: no two threads act on the same event.
FlagTakenOnce ==
    [][\A t, u \in Threads :
          LET Resumed(v) == /\ v \in ToSet(suspend_thread) \ ToSet(suspend_thread')
                            /\ event_info[v].clear
          IN  t # u /\ Resumed(t) /\ Resumed(u) => event_set'[t] \cap event_set'[u] = {}]_event
=============================================================================
