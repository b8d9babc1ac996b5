------------------------------ MODULE RtMutex ------------------------------
(***************************************************************************)
(* The mutexes of the kernel (rt-thread/src/ipc.c): recursive, with        *)
(* priority inheritance.  An action is a stretch of code with interrupts   *)
(* disabled; threads and the timers of waiting threads interleave freely.  *)
(*                                                                         *)
(* The callers follow two rules: a mutex is given back only by a thread    *)
(* that holds it, the last taken first (Lifo), and a thread takes a new    *)
(* mutex only if its number is above all it holds.                         *)
(***************************************************************************)
EXTENDS RtIpcList

CONSTANTS
    Mutexes,     \* numbers, the order in which a thread takes them
    Base,        \* init_priority of every thread; the smaller is the more urgent
    MaxHold,     \* how often a caller takes what it holds: a bound of the model
    None         \* RT_NULL

ASSUME MutexesAssumption == Mutexes \subseteq Nat
ASSUME BaseAssumption == Base \in [Threads -> 0..254]
ASSUME MaxHoldAssumption == MaxHold \in Nat \ {0}
ASSUME NoneAssumption == None \notin Threads

VARIABLES
    value, owner, hold, original_priority,
    suspend_thread,    \* the list of waiting threads of every mutex
    current_priority,
    timed,             \* threads whose thread_timer runs
    nest,              \* mutexes a caller has taken and not given back, in order
    unwound,           \* threads that gave back a mutex while they hold another
    raised             \* threads that became more urgent while they wait

vars == <<value, owner, hold, original_priority, suspend_thread,
          current_priority, timed, nest, unwound, raised>>

\* 0xFF.
NoPriority == 255

Waiting(thread) == \E m \in Mutexes : thread \in ToSet(suspend_thread[m])

\* rt_mutex_init, rt_mutex_create.
Init ==
    /\ value = [m \in Mutexes |-> 1]
    /\ owner = [m \in Mutexes |-> None]
    /\ hold = [m \in Mutexes |-> 0]
    /\ original_priority = [m \in Mutexes |-> NoPriority]
    /\ suspend_thread = [m \in Mutexes |-> <<>>]
    /\ current_priority = Base
    /\ timed = {}
    /\ nest = [t \in Threads |-> <<>>]
    /\ unwound = {} /\ raised = {}

-----------------------------------------------------------------------------
(* rt_mutex_take *)

\* The owner takes it again.
TakeAgain(thread, mutex) ==
    /\ owner[mutex] = thread
    /\ hold' = [hold EXCEPT ![mutex] = @ + 1]
    /\ UNCHANGED <<value, owner, original_priority, suspend_thread, current_priority,
                   timed, nest, unwound, raised>>

\* The mutex is available.
TakeFree(thread, mutex) ==
    /\ owner[mutex] # thread /\ value[mutex] > 0
    /\ value' = [value EXCEPT ![mutex] = @ - 1]
    /\ owner' = [owner EXCEPT ![mutex] = thread]
    /\ original_priority' = [original_priority EXCEPT ![mutex] = current_priority[thread]]
    /\ hold' = [hold EXCEPT ![mutex] = @ + 1]
    /\ nest' = [nest EXCEPT ![thread] = Append(@, mutex)]
    /\ UNCHANGED <<suspend_thread, current_priority, timed, unwound, raised>>

\* Mutant: the owner is not made as urgent as the thread that waits.
TakeWaitPlain(thread, mutex, time) ==
    /\ owner[mutex] # thread /\ value[mutex] = 0
    /\ suspend_thread' = [suspend_thread EXCEPT ![mutex] = ListSuspend(@, thread, current_priority)]
    /\ timed' = IF time THEN timed \cup {thread} ELSE timed
    /\ UNCHANGED <<value, owner, hold, original_priority, current_priority, nest, unwound,
                   raised>>

\* The mutex is taken: the owner becomes at least as urgent as the thread, which
\* waits, with a time limit or without (with time 0 nothing changes).  An owner
\* that waits itself keeps its place, and those it waits for their priority.
TakeWait(thread, mutex, time) ==
    /\ owner[mutex] # thread /\ value[mutex] = 0
    /\ current_priority' =
          [current_priority EXCEPT ![owner[mutex]] =
              IF current_priority[thread] < @ THEN current_priority[thread] ELSE @]
    /\ suspend_thread' = [suspend_thread EXCEPT ![mutex] = ListSuspend(@, thread, current_priority)]
    /\ timed' = IF time THEN timed \cup {thread} ELSE timed
    /\ raised' = IF Waiting(owner[mutex]) /\ current_priority[thread] < current_priority[owner[mutex]]
                 THEN raised \cup {owner[mutex]} ELSE raised
    /\ UNCHANGED <<value, owner, hold, original_priority, nest, unwound>>

rt_mutex_take(thread, mutex) ==
    /\ ~Waiting(thread)
    /\ \/ hold[mutex] < MaxHold /\ TakeAgain(thread, mutex)
       \/ /\ \A i \in 1..Len(nest[thread]) : nest[thread][i] < mutex
          /\ \/ TakeFree(thread, mutex)
             \/ \E time \in BOOLEAN : TakeWait(thread, mutex, time)

\* rt_thread_timeout: the thread leaves the list and rt_mutex_take returns
\* -RT_ETIMEOUT.  The priority its owner inherited stays.
rt_thread_timeout(thread) ==
    /\ thread \in timed
    /\ timed' = timed \ {thread}
    /\ suspend_thread' = [m \in Mutexes |-> ListRemove(suspend_thread[m], thread)]
    /\ raised' = raised \ {thread}
    /\ UNCHANGED <<value, owner, hold, original_priority, current_priority, nest, unwound>>

-----------------------------------------------------------------------------
(* rt_mutex_release *)

\* Mutant: the priority to return to is still that of the last owner.
HandOverOldPriority(mutex) ==
    LET heir == Head(suspend_thread[mutex])
    IN  /\ owner' = [owner EXCEPT ![mutex] = heir]
        /\ hold' = [hold EXCEPT ![mutex] = 1]
        /\ suspend_thread' = [suspend_thread EXCEPT ![mutex] = Tail(@)]
        /\ timed' = timed \ {heir}
        /\ UNCHANGED <<value, original_priority>>

\* Mutant: the timer of the new owner runs on.
HandOverTimed(mutex) ==
    LET heir == Head(suspend_thread[mutex])
    IN  /\ owner' = [owner EXCEPT ![mutex] = heir]
        /\ original_priority' = [original_priority EXCEPT ![mutex] = current_priority[heir]]
        /\ hold' = [hold EXCEPT ![mutex] = 1]
        /\ suspend_thread' = [suspend_thread EXCEPT ![mutex] = Tail(@)]
        /\ UNCHANGED <<value, timed>>

\* Mutant: the mutex is made available although it has a new owner.
HandOverFree(mutex) ==
    LET heir == Head(suspend_thread[mutex])
    IN  /\ owner' = [owner EXCEPT ![mutex] = heir]
        /\ original_priority' = [original_priority EXCEPT ![mutex] = current_priority[heir]]
        /\ hold' = [hold EXCEPT ![mutex] = 1]
        /\ suspend_thread' = [suspend_thread EXCEPT ![mutex] = Tail(@)]
        /\ timed' = timed \ {heir}
        /\ value' = [value EXCEPT ![mutex] = @ + 1]

\* The first waiting thread becomes the owner and is resumed.
HandOver(mutex) ==
    LET heir == Head(suspend_thread[mutex])
    IN  /\ owner' = [owner EXCEPT ![mutex] = heir]
        /\ original_priority' = [original_priority EXCEPT ![mutex] = current_priority[heir]]
        /\ hold' = [hold EXCEPT ![mutex] = 1]
        /\ suspend_thread' = [suspend_thread EXCEPT ![mutex] = Tail(@)]
        /\ timed' = timed \ {heir}
        /\ UNCHANGED value

\* Nobody waits: the mutex is available again.
MakeAvailable(mutex) ==
    /\ value' = [value EXCEPT ![mutex] = @ + 1]
    /\ owner' = [owner EXCEPT ![mutex] = None]
    /\ original_priority' = [original_priority EXCEPT ![mutex] = NoPriority]
    /\ hold' = [hold EXCEPT ![mutex] = 0]
    /\ UNCHANGED <<suspend_thread, timed>>

\* The owner lets go of a mutex it took once: it gets back the priority it had
\* when it took the mutex.
LetGo(thread, mutex) ==
    LET heirs == IF suspend_thread[mutex] = <<>> THEN {} ELSE {Head(suspend_thread[mutex])}
    IN  /\ hold[mutex] = 1
        /\ current_priority' = [current_priority EXCEPT ![thread] = original_priority[mutex]]
        /\ IF heirs = {} THEN MakeAvailable(mutex) ELSE HandOver(mutex)
        /\ nest' = [t \in Threads |-> IF t = thread THEN Front(nest[t])
                                      ELSE IF t \in heirs THEN Append(nest[t], mutex) ELSE nest[t]]
        /\ raised' = raised \ heirs
        /\ unwound' = IF Len(nest[thread]) > 1 THEN unwound \cup {thread} ELSE unwound \ {thread}

\* A thread that is not the owner gets -RT_ERROR and changes nothing.
rt_mutex_release(thread, mutex) ==
    /\ ~Waiting(thread)
    /\ owner[mutex] = thread /\ Last(nest[thread]) = mutex
    /\ \/ LetGo(thread, mutex)
       \/ /\ hold[mutex] > 1
          /\ hold' = [hold EXCEPT ![mutex] = @ - 1]
          /\ UNCHANGED <<value, owner, original_priority, suspend_thread, current_priority,
                         timed, nest, unwound, raised>>

Next ==
    \E thread \in Threads :
        \/ \E mutex \in Mutexes : rt_mutex_take(thread, mutex) \/ rt_mutex_release(thread, mutex)
        \/ rt_thread_timeout(thread)

Spec == Init /\ [][Next]_vars

-----------------------------------------------------------------------------
(* Properties *)

Priorities == {Base[t] : t \in Threads}

\* Types of the variables.
TypeOK ==
    /\ value \in [Mutexes -> {0, 1}]
    /\ owner \in [Mutexes -> Threads \cup {None}]
    /\ hold \in [Mutexes -> 0..MaxHold]
    /\ original_priority \in [Mutexes -> Priorities \cup {NoPriority}]
    /\ suspend_thread \in [Mutexes -> Seq(Threads)]
    /\ current_priority \in [Threads -> Priorities]
    /\ timed \subseteq Threads
    /\ nest \in [Threads -> Seq(Mutexes)]
    /\ unwound \subseteq Threads /\ raised \subseteq Threads

\* A mutex belongs to the one caller that believes it has it, or is available
\* and nobody waits for it: hand-over, timeout and recursion never leave it
\* with two holders or with none while threads sleep on it.
MutexConsistent ==
    /\ TypeOK
    /\ \A m \in Mutexes :
          /\ value[m] = 1 <=> owner[m] = None
          /\ hold[m] > 0 <=> owner[m] # None
          /\ owner[m] = None => suspend_thread[m] = <<>>
          /\ \A t \in Threads : owner[m] = t <=> m \in ToSet(nest[t])

\* A thread waits in at most one place and never for what it holds, and only a
\* waiting thread has its timer running.
WaitsOnce ==
    /\ timed \subseteq {t \in Threads : Waiting(t)}
    /\ \A m \in Mutexes :
          /\ \A i, j \in 1..Len(suspend_thread[m]) :
                suspend_thread[m][i] = suspend_thread[m][j] => i = j
          /\ \A t \in ToSet(suspend_thread[m]) :
                /\ owner[m] # t
                /\ \A n \in Mutexes \ {m} : t \notin ToSet(suspend_thread[n])

\* A thread that holds no mutex has its own priority again, whatever it
\* inherited and however mutexes were nested and handed over ("change the owner
\* thread to original priority" in rt_mutex_release).
PriorityRestored ==
    \A t \in Threads : nest[t] = <<>> => current_priority[t] = Base[t]

\* A mutex ordered by priority is never held by a thread that is now less urgent
\* than one that waits for it, through any nesting, hand-over and timeout, with
\* two exceptions.  An owner that gives back an inner mutex loses what it
\* inherited meanwhile through the outer one (unwound).  And inheritance is not
\* transitive (ipc.c:722 raises the owner of the one mutex): a waiter that is
\* itself raised while it waits passes nothing on (raised), and a thread between
\* the two can delay it.
Inherits ==
    FlagPrio =>
        \A m \in Mutexes : \A t \in ToSet(suspend_thread[m]) :
            \/ current_priority[owner[m]] <= current_priority[t]
            \/ owner[m] \in unwound
            \/ t \in raised

\* Without the second exception: whoever an urgent thread waits for, directly or
\* through the owner of its mutex, is as urgent.
InheritsTransitively ==
    FlagPrio =>
        \A m \in Mutexes : \A t \in ToSet(suspend_thread[m]) :
            owner[m] \in unwound \/ current_priority[owner[m]] <= current_priority[t]
=============================================================================
