----------------------------- MODULE RtIpcList -----------------------------
(***************************************************************************)
(* The list of suspended threads that every IPC object of the kernel keeps *)
(* (rt-thread/src/ipc.c): a sequence of threads, its head the next thread  *)
(* to be resumed.                                                          *)
(***************************************************************************)
EXTENDS Integers, SequencesExt

CONSTANTS
    Threads,     \* the threads of the system
    FlagPrio     \* TRUE: RT_IPC_FLAG_PRIO, FALSE: RT_IPC_FLAG_FIFO

ASSUME FlagAssumption == FlagPrio \in BOOLEAN

\* The argument priority is the current_priority of every thread; the smaller
\* is the more urgent.

\* The positions of list in front of which thread may be inserted: the end,
\* and, for a list ordered by priority, every strictly less urgent thread.
InsertPositions(list, thread, priority) ==
    {Len(list) + 1} \cup
        {i \in 1..Len(list) : FlagPrio /\ priority[thread] < priority[list[i]]}

\* rt_ipc_list_suspend: the for loop stops at the first such position.
ListSuspend(list, thread, priority) ==
    InsertAt(list, Min(InsertPositions(list, thread, priority)), thread)

\* rt_list_remove on the node of one thread (rt_thread_resume, rt_thread_timeout).
ListRemove(list, thread) ==
    IF thread \in ToSet(list)
    THEN RemoveAt(list, CHOOSE i \in 1..Len(list) : list[i] = thread)
    ELSE list

\* rt_ipc_list_resume takes the first thread off the list, if there is one.
RestOf(list) == IF list = <<>> THEN list ELSE Tail(list)

\* No thread waits behind a less urgent one.
Ordered(list, priority) ==
    \A i, j \in 1..Len(list) : i < j => priority[list[i]] <= priority[list[j]]
=============================================================================
