---------------------------- MODULE RtMutexProofs ----------------------------
(***************************************************************************)
(* Ownership, waiting and priority inheritance of the mutexes, for every   *)
(* number of threads and mutexes, all priorities and both orders of the    *)
(* waiting lists.                                                          *)
(***************************************************************************)
EXTENDS RtMutex, RtIpcListProofs

\* Who holds what, without the types: MutexConsistent is TypeOK and this.
Owned ==
    \A m \in Mutexes :
        /\ value[m] = 1 <=> owner[m] = None
        /\ hold[m] > 0 <=> owner[m] # None
        /\ owner[m] = None => suspend_thread[m] = <<>>
        /\ \A t \in Threads : owner[m] = t <=> m \in ToSet(nest[t])

Increasing(s) == \A i, j \in 1..Len(s) : i < j => s[i] < s[j]

\* A thread holds and asks for mutexes in increasing order, so that a mutex that
\* is handed to it becomes the last of its nest.
Nested ==
    /\ \A t \in Threads : Increasing(nest[t])
    /\ \A m \in Mutexes : \A t \in ToSet(suspend_thread[m]) :
          \A i \in 1..Len(nest[t]) : nest[t][i] < m

\* The priority a thread returns to is never below its own, and the outermost
\* mutex brings it back to its own.
Restorable ==
    /\ \A t \in Threads : current_priority[t] <= Base[t]
    /\ \A m \in Mutexes : owner[m] # None => original_priority[m] <= Base[owner[m]]
    /\ \A t \in Threads : nest[t] # <<>> => original_priority[nest[t][1]] = Base[t]

\* A list is sorted when its threads are inserted; afterwards a thread on it may
\* only become more urgent.  So each thread on it is at least as urgent as all
\* behind it that were not raised since.
Urgency ==
    FlagPrio => \A m \in Mutexes : \A i, j \in 1..Len(suspend_thread[m]) :
        i < j => \/ current_priority[suspend_thread[m][i]] <= current_priority[suspend_thread[m][j]]
                 \/ suspend_thread[m][j] \in raised

Inv ==
    /\ TypeOK /\ Owned /\ WaitsOnce /\ Nested
    /\ Restorable /\ PriorityRestored /\ Urgency /\ Inherits

(***************************************************************************)
(* Priorities are numbers below 255, which stands for none.                *)
(***************************************************************************)
LEMMA Bases ==
    /\ \A t \in Threads : Base[t] \in Nat /\ Base[t] <= 254 /\ Base[t] \in Priorities
    /\ \A p \in Priorities : p \in Nat /\ p <= 254
    /\ \A m \in Mutexes : m \in Nat
    /\ None \notin Threads /\ MaxHold \in Nat /\ MaxHold > 0
BY BaseAssumption, MutexesAssumption, NoneAssumption, MaxHoldAssumption DEF Priorities

(***************************************************************************)
(* A larger mutex at the end of an increasing nest.                        *)
(***************************************************************************)
LEMMA NestAppend ==
    ASSUME NEW s \in Seq(Mutexes), Increasing(s), NEW m \in Mutexes,
           \A i \in 1..Len(s) : s[i] < m
    PROVE  /\ Append(s, m) \in Seq(Mutexes) /\ Append(s, m) # <<>>
           /\ ToSet(Append(s, m)) = ToSet(s) \cup {m}
           /\ Increasing(Append(s, m))
           /\ Append(s, m)[1] = IF s = <<>> THEN m ELSE s[1]
           /\ \A i \in 1..Len(Append(s, m)) : Append(s, m)[i] \in ToSet(s) \cup {m}
<1>1. PICK a : a = Append(s, m)
  OBVIOUS
<1>2. /\ a \in Seq(Mutexes) /\ Len(a) = Len(s) + 1 /\ a[Len(s) + 1] = m
      /\ \A i \in 1..Len(s) : a[i] = s[i]
  BY <1>1
<1>3. ToSet(a) = ToSet(s) \cup {m}
  BY <1>2 DEF ToSet
<1>4. Increasing(a)
  BY <1>2 DEF Increasing
<1>5. a # <<>> /\ a[1] = IF s = <<>> THEN m ELSE s[1]
  BY <1>2
<1>6. \A i \in 1..Len(a) : a[i] \in ToSet(a)
  BY <1>2 DEF ToSet
<1> QED
  BY <1>1, <1>2, <1>3, <1>4, <1>5, <1>6

(***************************************************************************)
(* The last mutex of an increasing nest is given back.                     *)
(***************************************************************************)
LEMMA NestFront ==
    ASSUME NEW s \in Seq(Mutexes), Increasing(s), s # <<>>
    PROVE  /\ Front(s) \in Seq(Mutexes)
           /\ ToSet(Front(s)) = ToSet(s) \ {Last(s)}
           /\ Increasing(Front(s))
           /\ Front(s) # <<>> => Front(s)[1] = s[1]
           /\ Front(s) = <<>> => Last(s) = s[1]
           /\ Len(Front(s)) = Len(s) - 1
<1>1. PICK a : a = Front(s)
  OBVIOUS
<1>2. Len(s) \in Nat /\ Len(s) > 0 /\ Last(s) = s[Len(s)]
  BY DEF Last
<1>3. /\ a \in Seq(Mutexes) /\ Len(a) = Len(s) - 1
      /\ \A i \in 1..Len(s)-1 : a[i] = s[i]
  <2>1. PICK n : n = Len(s) - 1
    OBVIOUS
  <2>2. n \in Nat /\ n < Len(s) /\ a = SubSeq(s, 1, n) /\ \A i \in 1..n : s[i] \in Mutexes
    BY <1>1, <1>2, <2>1 DEF Front
  <2>3. /\ a \in Seq(Mutexes) /\ Len(a) = n
        /\ \A i \in 1..n : a[i] = s[i]
    BY <2>2
  <2> QED
    BY <2>1, <2>3
<1>4. \A m \in Mutexes : m \in Nat
  BY Bases
<1>5. \A i \in 1..Len(s)-1 : s[i] # Last(s)
  BY <1>2, <1>4 DEF Increasing
<1>6. ToSet(a) = ToSet(s) \ {Last(s)}
  BY <1>2, <1>3, <1>5 DEF ToSet
<1>7. Increasing(a)
  <2>1. \A i \in 1..Len(a) : i \in 1..Len(s) /\ a[i] = s[i]
    BY <1>2, <1>3
  <2> QED
    BY <2>1 DEF Increasing
<1>8. (a # <<>> => a[1] = s[1]) /\ (a = <<>> => Last(s) = s[1])
  BY <1>2, <1>3
<1> QED
  BY <1>1, <1>3, <1>6, <1>7, <1>8

(***************************************************************************)
(* The initial state.                                                      *)
(***************************************************************************)
LEMMA InitInv == Init => Inv
<1> SUFFICES ASSUME Init PROVE Inv
  OBVIOUS
<1> USE Bases DEF Init
<1>1. TypeOK
  BY BaseAssumption DEF TypeOK, NoPriority
<1>2. Owned /\ WaitsOnce
  BY DEF Owned, WaitsOnce, ToSet
<1>3. Nested
  BY DEF Nested, Increasing, ToSet
<1>4. Restorable /\ PriorityRestored
  BY DEF Restorable, PriorityRestored
<1>5. Urgency /\ Inherits
  BY DEF Urgency, Inherits, ToSet
<1> QED
  BY <1>1, <1>2, <1>3, <1>4, <1>5 DEF Inv

(***************************************************************************)
(* The owner takes its mutex again, or gives it back but not yet for good: *)
(* only hold changes.                                                      *)
(***************************************************************************)
LEMMA HoldInv ==
    ASSUME Inv, NEW m \in Mutexes, NEW n \in 1..MaxHold, owner[m] # None,
           hold' = [hold EXCEPT ![m] = n],
           UNCHANGED <<value, owner, original_priority, suspend_thread, current_priority,
                       timed, nest, unwound, raised>>
    PROVE  Inv'
<1> USE DEF Inv
<1>1. TypeOK'
  BY Bases DEF TypeOK
<1>2. Owned'
  BY DEF Owned, TypeOK
<1>3. WaitsOnce' /\ Nested'
  BY DEF WaitsOnce, Waiting, Nested
<1>4. Restorable' /\ PriorityRestored' /\ Urgency' /\ Inherits'
  BY DEF Restorable, PriorityRestored, Urgency, Inherits
<1> QED
  BY <1>1, <1>2, <1>3, <1>4

(***************************************************************************)
(* An available mutex is taken.                                            *)
(***************************************************************************)
LEMMA TakeFreeInv ==
    ASSUME Inv, NEW thread \in Threads, NEW mutex \in Mutexes, ~Waiting(thread),
           \A i \in 1..Len(nest[thread]) : nest[thread][i] < mutex,
           TakeFree(thread, mutex)
    PROVE  Inv'
<1> USE DEF Inv
<1>1. /\ value[mutex] = 1 /\ owner[mutex] = None /\ suspend_thread[mutex] = <<>>
      /\ hold[mutex] = 0 /\ \A t \in Threads : mutex \notin ToSet(nest[t])
  BY Bases DEF TakeFree, Owned, TypeOK
<1>2. PICK s : s = Append(nest[thread], mutex)
  OBVIOUS
<1>3. /\ s \in Seq(Mutexes) /\ s # <<>>
      /\ ToSet(s) = ToSet(nest[thread]) \cup {mutex}
      /\ Increasing(s)
      /\ s[1] = IF nest[thread] = <<>> THEN mutex ELSE nest[thread][1]
  <2>1. nest[thread] \in Seq(Mutexes) /\ Increasing(nest[thread])
    BY DEF TypeOK, Nested
  <2> QED
    BY <1>2, <2>1, NestAppend
<1>4. /\ value' = [value EXCEPT ![mutex] = 0]
      /\ owner' = [owner EXCEPT ![mutex] = thread]
      /\ original_priority' = [original_priority EXCEPT ![mutex] = current_priority[thread]]
      /\ hold' = [hold EXCEPT ![mutex] = 1]
      /\ nest' = [nest EXCEPT ![thread] = s]
      /\ UNCHANGED <<suspend_thread, current_priority, timed, unwound, raised>>
  BY <1>1, <1>2 DEF TakeFree, TypeOK
<1>5. /\ \A m \in Mutexes :
            /\ value'[m] = IF m = mutex THEN 0 ELSE value[m]
            /\ owner'[m] = IF m = mutex THEN thread ELSE owner[m]
            /\ hold'[m] = IF m = mutex THEN 1 ELSE hold[m]
            /\ original_priority'[m] =
                  IF m = mutex THEN current_priority[thread] ELSE original_priority[m]
      /\ \A t \in Threads : nest'[t] = IF t = thread THEN s ELSE nest[t]
  BY <1>4 DEF TypeOK
<1>6. TypeOK'
  <2>1. nest' \in [Threads -> Seq(Mutexes)]
    BY <1>3, <1>4 DEF TypeOK
  <2>2. hold' \in [Mutexes -> 0..MaxHold] /\ value' \in [Mutexes -> {0, 1}]
    BY <1>4, Bases DEF TypeOK
  <2>3. original_priority' \in [Mutexes -> Priorities \cup {NoPriority}]
    BY <1>4 DEF TypeOK
  <2> QED
    BY <1>4, <2>1, <2>2, <2>3 DEF TypeOK
<1>7. Owned'
  <2>1. \A m \in Mutexes : \A t \in Threads : owner'[m] = t <=> m \in ToSet(nest'[t])
    BY <1>1, <1>3, <1>5 DEF Owned
  <2>2. \A m \in Mutexes : /\ value'[m] = 1 <=> owner'[m] = None
                           /\ hold'[m] > 0 <=> owner'[m] # None
                           /\ owner'[m] = None => suspend_thread'[m] = <<>>
    BY <1>4, <1>5, Bases DEF Owned
  <2> QED
    BY <2>1, <2>2 DEF Owned
<1>8. WaitsOnce'
  <2>1. ToSet(suspend_thread[mutex]) = {}
    BY <1>1 DEF ToSet
  <2>2. \A m \in Mutexes : \A t \in ToSet(suspend_thread[m]) : owner'[m] # t
    BY <1>5, <2>1 DEF WaitsOnce
  <2> QED
    BY <1>4, <2>2 DEF WaitsOnce, Waiting
<1>9. Nested'
  <2>1. \A t \in Threads : Increasing(nest'[t])
    BY <1>3, <1>5 DEF Nested
  <2>2. \A m \in Mutexes : thread \notin ToSet(suspend_thread[m])
    BY DEF Waiting
  <2>3. \A m \in Mutexes : ToSet(suspend_thread[m]) \subseteq Threads
    BY DEF TypeOK, ToSet
  <2> QED
    BY <1>4, <1>5, <2>1, <2>2, <2>3 DEF Nested
<1>10. Restorable'
  <2>1. \A t \in Threads : nest'[t] # <<>> => original_priority'[nest'[t][1]] = Base[t]
    <3> SUFFICES ASSUME NEW t \in Threads, nest'[t] # <<>>
                 PROVE  original_priority'[nest'[t][1]] = Base[t]
      OBVIOUS
    <3>1. CASE nest[t] = <<>>
      BY <1>3, <1>5, <3>1 DEF PriorityRestored
    <3>2. CASE nest[t] # <<>>
      <4>1. nest'[t][1] = nest[t][1]
        BY <1>3, <1>5, <3>2
      <4>2. nest[t] \in Seq(Mutexes) /\ nest[t][1] \in Mutexes /\ nest[t][1] \in ToSet(nest[t])
        BY <3>2 DEF TypeOK, ToSet
      <4>3. nest[t][1] # mutex
        BY <1>1, <4>2
      <4> QED
        BY <1>5, <3>2, <4>1, <4>2, <4>3 DEF Restorable
    <3> QED
      BY <3>1, <3>2
  <2> QED
    BY <1>4, <1>5, <2>1 DEF Restorable
<1>11. PriorityRestored' /\ Urgency'
  <2>1. PriorityRestored'
    BY <1>3, <1>4, <1>5 DEF PriorityRestored
  <2>2. Urgency'
    BY DEF Urgency, TakeFree
  <2> QED
    BY <2>1, <2>2
<1>12. Inherits'
  <2>1. ToSet(suspend_thread[mutex]) = {}
    BY <1>1 DEF ToSet
  <2> QED
    BY <1>4, <1>5, <2>1 DEF Inherits
<1> QED
  BY <1>6, <1>7, <1>8, <1>9, <1>10, <1>11, <1>12

(***************************************************************************)
(* The waiting lists as sets, and their members.                           *)
(***************************************************************************)
LEMMA ListedThreads ==
    ASSUME TypeOK, WaitsOnce, NEW m \in Mutexes
    PROVE  /\ suspend_thread[m] \in Seq(Threads) /\ IsInjective(suspend_thread[m])
           /\ ToSet(suspend_thread[m]) \subseteq Threads
           /\ \A i \in 1..Len(suspend_thread[m]) :
                 suspend_thread[m][i] \in ToSet(suspend_thread[m])
<1>1. suspend_thread[m] \in Seq(Threads)
  BY DEF TypeOK
<1> QED
  BY <1>1 DEF WaitsOnce, IsInjective, ToSet

(***************************************************************************)
(* A taken mutex: the thread waits and lends its owner its priority.       *)
(***************************************************************************)
LEMMA TakeWaitInv ==
    ASSUME Inv, NEW thread \in Threads, NEW mutex \in Mutexes, ~Waiting(thread),
           \A i \in 1..Len(nest[thread]) : nest[thread][i] < mutex,
           NEW time \in BOOLEAN, TakeWait(thread, mutex, time)
    PROVE  Inv'
<1> USE DEF Inv
<1>1. PICK own : own = owner[mutex]
  OBVIOUS
<1>2. PICK new : new = ListSuspend(suspend_thread[mutex], thread, current_priority)
  OBVIOUS
<1>3. own \in Threads /\ own # thread /\ own # None /\ nest[own] # <<>>
  <2>1. owner[mutex] \in Threads \cup {None} /\ owner[mutex] # None /\ owner[mutex] # thread
    BY DEF TakeWait, Owned, TypeOK
  <2>2. mutex \in ToSet(nest[own])
    BY <1>1, <2>1 DEF Owned
  <2> QED
    BY <1>1, <2>1, <2>2 DEF ToSet
<1>4. /\ current_priority' =
            [current_priority EXCEPT ![own] =
                IF current_priority[thread] < @ THEN current_priority[thread] ELSE @]
      /\ suspend_thread' = [suspend_thread EXCEPT ![mutex] = new]
      /\ timed' = timed \/ timed' = timed \cup {thread}
      /\ raised' = IF Waiting(own) /\ current_priority[thread] < current_priority[own]
                   THEN raised \cup {own} ELSE raised
      /\ UNCHANGED <<value, owner, hold, original_priority, nest, unwound>>
  BY <1>1, <1>2 DEF TakeWait, TypeOK
<1>5. /\ \A t \in Threads : current_priority[t] \in Priorities /\ current_priority[t] \in Nat
      /\ \A t \in Threads : Base[t] \in Nat
  BY Bases DEF TypeOK
<1>6. /\ \A t \in Threads : t # own => current_priority'[t] = current_priority[t]
      /\ current_priority'[own] =
            IF current_priority[thread] < current_priority[own]
            THEN current_priority[thread] ELSE current_priority[own]
  BY <1>3, <1>4 DEF TypeOK
<1>7. /\ \A t \in Threads : /\ current_priority'[t] \in Priorities
                            /\ current_priority'[t] \in Nat
                            /\ current_priority'[t] <= current_priority[t]
      /\ current_priority'[own] <= current_priority[thread]
  BY <1>3, <1>5, <1>6
<1>8. \A m \in Mutexes :
         suspend_thread'[m] = IF m = mutex THEN new ELSE suspend_thread[m]
  BY <1>4 DEF TypeOK
<1>9. /\ \A m \in Mutexes : thread \notin ToSet(suspend_thread[m])
      /\ suspend_thread[mutex] \in Seq(Threads) /\ IsInjective(suspend_thread[mutex])
  BY ListedThreads DEF Waiting
<1>10. /\ new \in Seq(Threads) /\ IsInjective(new)
       /\ ToSet(new) = ToSet(suspend_thread[mutex]) \cup {thread}
  BY <1>2, <1>9, ListSuspendProperties
<1>11. TypeOK'
  <2>1. current_priority' \in [Threads -> Priorities]
    BY <1>3, <1>4, <1>5 DEF TypeOK
  <2>2. suspend_thread' \in [Mutexes -> Seq(Threads)]
    BY <1>4, <1>10 DEF TypeOK
  <2>3. raised' \subseteq Threads
    BY <1>3, <1>4 DEF TypeOK
  <2> QED
    BY <1>4, <2>1, <2>2, <2>3 DEF TypeOK
<1>12. Owned'
  BY <1>1, <1>3, <1>4, <1>8 DEF Owned
<1>13. WaitsOnce'
  <2>1. \A t \in Threads : Waiting(t) => Waiting(t)'
    BY <1>8, <1>10 DEF Waiting
  <2>2. Waiting(thread)'
    BY <1>8, <1>10 DEF Waiting
  <2>3. timed' \subseteq {t \in Threads : Waiting(t)'}
    BY <1>4, <2>1, <2>2 DEF WaitsOnce
  <2>4. \A m \in Mutexes : \A i, j \in 1..Len(suspend_thread'[m]) :
           suspend_thread'[m][i] = suspend_thread'[m][j] => i = j
    BY <1>8, <1>10 DEF WaitsOnce, IsInjective
  <2>5. \A m \in Mutexes : \A t \in ToSet(suspend_thread'[m]) :
           /\ owner[m] # t
           /\ \A n \in Mutexes \ {m} : t \notin ToSet(suspend_thread'[n])
    BY <1>1, <1>3, <1>8, <1>9, <1>10 DEF WaitsOnce
  <2> QED
    BY <1>4, <2>3, <2>4, <2>5 DEF WaitsOnce
<1>14. Nested'
  BY <1>4, <1>8, <1>10 DEF Nested
<1>15. Restorable' /\ PriorityRestored'
  <2>1. \A t \in Threads : current_priority'[t] <= Base[t]
    <3> SUFFICES ASSUME NEW t \in Threads PROVE current_priority'[t] <= Base[t]
      OBVIOUS
    <3>1. current_priority[t] <= Base[t]
      BY DEF Restorable
    <3> QED
      BY <1>5, <1>7, <3>1
  <2>2. PriorityRestored'
    BY <1>3, <1>4, <1>6 DEF PriorityRestored
  <2> QED
    BY <1>4, <2>1, <2>2 DEF Restorable
<1>16. PICK old : old = suspend_thread[mutex]
  OBVIOUS
<1>17. PICK i \in 1..Len(old)+1 : SuspendedAt(new, old, thread, current_priority, i)
  BY <1>2, <1>9, <1>16, ListSuspendPosition
<1>20. \A t \in Threads : t \notin raised' =>
          /\ t \notin raised
          /\ t = thread \/ Waiting(t) => current_priority'[t] = current_priority[t]
  BY <1>3, <1>4, <1>6
<1>18. Urgency'
  <2> SUFFICES ASSUME FlagPrio, NEW m \in Mutexes,
                      NEW j \in 1..Len(suspend_thread'[m]), NEW k \in 1..Len(suspend_thread'[m]),
                      j < k, suspend_thread'[m][k] \notin raised'
               PROVE  current_priority'[suspend_thread'[m][j]]
                         <= current_priority'[suspend_thread'[m][k]]
    BY DEF Urgency
  <2>1. CASE m # mutex
    <3>1. PICK x, y : x = suspend_thread[m][j] /\ y = suspend_thread[m][k]
      OBVIOUS
    <3>2. x \in Threads /\ y \in Threads
      BY <1>8, <2>1, <3>1, ListedThreads
    <3>4. suspend_thread'[m][j] = x /\ suspend_thread'[m][k] = y
      BY <1>8, <2>1, <3>1
    <3>6. y \notin raised /\ current_priority'[y] = current_priority[y]
      <4>1. Waiting(y)
        BY <1>8, <2>1, <3>1, ListedThreads DEF Waiting
      <4> QED
        BY <1>20, <3>2, <3>4, <4>1
    <3>3. current_priority[x] <= current_priority[y]
      BY <1>8, <2>1, <3>1, <3>6 DEF Urgency
    <3>5. current_priority'[x] <= current_priority'[y]
      BY <1>5, <1>7, <3>2, <3>3, <3>6
    <3> QED
      BY <3>4, <3>5
  <2>2. CASE m = mutex
    <3>2. /\ i \in 1..Len(old)+1 /\ new \in Seq(Threads) /\ Len(new) = Len(old) + 1
          /\ \A l \in 1..Len(old)+1 :
                new[l] = IF l < i THEN old[l] ELSE IF l = i THEN thread ELSE old[l-1]
          /\ \A l \in 1..Len(old) :
                /\ l < i => ~(current_priority[thread] < current_priority[old[l]])
                /\ l = i => current_priority[thread] < current_priority[old[l]]
      BY <1>17 DEF SuspendedAt
    <3>3. /\ old \in Seq(Threads) /\ Len(old) \in Nat
          /\ \A l \in 1..Len(old) : /\ old[l] \in Threads
                                    /\ current_priority[old[l]] \in Nat
          /\ current_priority[thread] \in Nat
      BY <1>5, <1>9, <1>16
    <3>4. \A x, y \in 1..Len(old) :
             x < y /\ old[y] \notin raised => current_priority[old[x]] <= current_priority[old[y]]
      BY <1>16 DEF Urgency
    <3>5. \A x \in 1..Len(old) : x < i => current_priority[old[x]] <= current_priority[thread]
      BY <3>2, <3>3
    <3>6. \A y \in 1..Len(old) :
             y >= i /\ old[y] \notin raised => current_priority[thread] <= current_priority[old[y]]
      <4> SUFFICES ASSUME NEW y \in 1..Len(old), y >= i, old[y] \notin raised
                   PROVE  current_priority[thread] <= current_priority[old[y]]
        OBVIOUS
      <4>1. i \in 1..Len(old) /\ current_priority[thread] < current_priority[old[i]]
        BY <3>2, <3>3
      <4>2. current_priority[old[i]] <= current_priority[old[y]]
        BY <3>3, <3>4, <4>1
      <4> QED
        BY <3>3, <4>1, <4>2
    <3>7. j \in 1..Len(old)+1 /\ k \in 1..Len(old)+1 /\ new[j] \in Threads /\ new[k] \in Threads
      BY <1>8, <2>2, <3>2
    <3>9. new[k] \notin raised /\ current_priority'[new[k]] = current_priority[new[k]]
      <4>1. new[k] = thread \/ Waiting(new[k])
        <5>1. new[k] \in ToSet(new)
          BY <3>2, <3>7 DEF ToSet
        <5> QED
          BY <1>10, <5>1 DEF Waiting
      <4> QED
        BY <1>8, <1>20, <2>2, <3>7, <4>1
    <3>8. current_priority[new[j]] <= current_priority[new[k]]
      <4>1. CASE j = i
        <5>1. new[j] = thread /\ new[k] = old[k-1] /\ k-1 \in 1..Len(old) /\ k-1 >= i
          BY <3>2, <3>3, <3>7, <4>1
        <5> QED
          BY <3>6, <3>9, <5>1
      <4>2. CASE k = i
        <5>1. new[k] = thread /\ new[j] = old[j] /\ j \in 1..Len(old) /\ j < i
          BY <3>2, <3>3, <3>7, <4>2
        <5> QED
          BY <3>5, <5>1
      <4>3. CASE k < i
        <5>1. new[k] = old[k] /\ new[j] = old[j] /\ j \in 1..Len(old) /\ k \in 1..Len(old)
          BY <3>2, <3>3, <3>7, <4>3
        <5> QED
          BY <3>4, <3>9, <5>1
      <4>4. CASE j > i
        <5>1. /\ new[k] = old[k-1] /\ new[j] = old[j-1] /\ j-1 < k-1
              /\ j-1 \in 1..Len(old) /\ k-1 \in 1..Len(old)
          BY <3>2, <3>3, <3>7, <4>4
        <5> QED
          BY <3>4, <3>9, <5>1
      <4>5. CASE j < i /\ k > i
        <5>1. /\ new[k] = old[k-1] /\ new[j] = old[j] /\ j < k-1
              /\ j \in 1..Len(old) /\ k-1 \in 1..Len(old)
          BY <3>2, <3>3, <3>7, <4>5
        <5> QED
          BY <3>4, <3>9, <5>1
      <4>6. j = i \/ k = i \/ k < i \/ j > i \/ (j < i /\ k > i)
        BY <3>2, <3>3, <3>7
      <4> QED
        BY <4>1, <4>2, <4>3, <4>4, <4>5, <4>6
    <3> QED
      BY <1>5, <1>7, <1>8, <2>2, <3>7, <3>8, <3>9
  <2> QED
    BY <2>1, <2>2
<1>19. Inherits'
  <2> SUFFICES ASSUME FlagPrio, NEW m \in Mutexes, NEW t \in ToSet(suspend_thread'[m]),
                      owner[m] \notin unwound, t \notin raised'
               PROVE  current_priority'[owner[m]] <= current_priority'[t]
    BY <1>4 DEF Inherits
  <2>1. ToSet(suspend_thread'[m]) \subseteq Threads
    BY <1>8, <1>10, ListedThreads
  <2>2. CASE t \in ToSet(suspend_thread[m])
    <3>1. owner[m] \in Threads
      <4>1. suspend_thread[m] # <<>>
        BY <2>2 DEF ToSet
      <4> QED
        BY <4>1 DEF Owned, TypeOK
    <3>2. t \notin raised /\ current_priority'[t] = current_priority[t]
      BY <1>20, <2>1, <2>2 DEF Waiting
    <3>3. current_priority[owner[m]] <= current_priority[t]
      BY <2>2, <3>2 DEF Inherits
    <3> QED
      BY <1>5, <1>7, <2>1, <3>1, <3>2, <3>3
  <2>3. CASE m = mutex /\ t = thread
    BY <1>1, <1>3, <1>5, <1>6, <1>7, <2>3
  <2> QED
    BY <1>8, <1>10, <2>2, <2>3
<1> QED
  BY <1>11, <1>12, <1>13, <1>14, <1>15, <1>18, <1>19

(***************************************************************************)
(* A waiting thread times out and leaves its list.                         *)
(***************************************************************************)
LEMMA TimeoutInv ==
    ASSUME Inv, NEW thread \in Threads, rt_thread_timeout(thread)
    PROVE  Inv'
<1> USE DEF Inv
<1>1. UNCHANGED <<value, owner, hold, original_priority, current_priority, nest, unwound>>
  BY DEF rt_thread_timeout
<1>10. raised' = raised \ {thread}
  BY DEF rt_thread_timeout
<1>2. \A m \in Mutexes : suspend_thread'[m] = ListRemove(suspend_thread[m], thread)
  BY DEF rt_thread_timeout
<1>3. \A m \in Mutexes :
         /\ suspend_thread'[m] \in Seq(Threads) /\ IsInjective(suspend_thread'[m])
         /\ ToSet(suspend_thread'[m]) = ToSet(suspend_thread[m]) \ {thread}
  BY <1>2, ListedThreads, ListRemoveProperties
<1>4. TypeOK'
  <2>1. suspend_thread' \in [Mutexes -> Seq(Threads)]
    BY <1>3 DEF rt_thread_timeout
  <2> QED
    BY <1>1, <2>1 DEF TypeOK, rt_thread_timeout
<1>5. Owned'
  <2>1. \A m \in Mutexes : owner'[m] = None => suspend_thread'[m] = <<>>
    <3> SUFFICES ASSUME NEW m \in Mutexes, owner'[m] = None PROVE suspend_thread'[m] = <<>>
      OBVIOUS
    <3>1. ToSet(suspend_thread[m]) = {}
      BY <1>1 DEF Owned, ToSet
    <3>2. suspend_thread'[m] = suspend_thread[m]
      BY <1>2, <3>1 DEF ListRemove
    <3> QED
      BY <1>1, <3>2 DEF Owned
  <2> QED
    BY <1>1, <2>1 DEF Owned
<1>6. WaitsOnce'
  <2>1. \A t \in Threads : Waiting(t) /\ t # thread => Waiting(t)'
    BY <1>3 DEF Waiting
  <2>2. timed' \subseteq {t \in Threads : Waiting(t)'}
    BY <2>1 DEF WaitsOnce, rt_thread_timeout
  <2>3. \A m \in Mutexes : \A i, j \in 1..Len(suspend_thread'[m]) :
           suspend_thread'[m][i] = suspend_thread'[m][j] => i = j
    BY <1>3 DEF IsInjective
  <2>4. \A m \in Mutexes : \A t \in ToSet(suspend_thread'[m]) :
           /\ owner[m] # t
           /\ \A n \in Mutexes \ {m} : t \notin ToSet(suspend_thread'[n])
    BY <1>3 DEF WaitsOnce
  <2> QED
    BY <1>1, <2>2, <2>3, <2>4 DEF WaitsOnce
<1>7. Nested' /\ Restorable' /\ PriorityRestored'
  BY <1>1, <1>3 DEF Nested, Restorable, PriorityRestored
<1>8. Urgency'
  <2> SUFFICES ASSUME FlagPrio, NEW m \in Mutexes
               PROVE  \A i, j \in 1..Len(suspend_thread'[m]) : i < j =>
                         \/ current_priority[suspend_thread'[m][i]]
                               <= current_priority[suspend_thread'[m][j]]
                         \/ suspend_thread'[m][j] \in raised \ {thread}
    BY <1>1, <1>10 DEF Urgency
  <2>1. PICK list : list = suspend_thread[m]
    OBVIOUS
  <2>2. /\ list \in Seq(Threads)
        /\ \A i, j \in 1..Len(list) : i < j =>
              current_priority[list[i]] <= current_priority[list[j]] \/ list[j] \in raised
        /\ \A j \in 1..Len(suspend_thread'[m]) : suspend_thread'[m][j] # thread
    <3>1. \A j \in 1..Len(suspend_thread'[m]) :
             suspend_thread'[m][j] \in ToSet(suspend_thread'[m])
      BY <1>3 DEF ToSet
    <3> QED
      BY <1>3, <2>1, <3>1 DEF TypeOK, Urgency
  <2>3. CASE thread \notin ToSet(list)
    BY <1>2, <2>1, <2>2, <2>3 DEF ListRemove
  <2>4. CASE thread \in ToSet(list)
    <3>1. PICK k \in 1..Len(list) : ListRemove(list, thread) = RemoveAt(list, k)
      <4>1. \E k \in 1..Len(list) : list[k] = thread
        BY <2>4 DEF ToSet
      <4>2. (CHOOSE k \in 1..Len(list) : list[k] = thread) \in 1..Len(list)
        BY <4>1
      <4> QED
        BY <2>4, <4>2 DEF ListRemove
    <3>2. PICK new : new = RemoveAt(list, k)
      OBVIOUS
    <3>3. /\ Len(new) = Len(list) - 1
          /\ \A j \in 1..Len(list)-1 : new[j] = IF j < k THEN list[j] ELSE list[j+1]
      BY <2>2, <3>2, RemoveAtProperties
    <3>4. suspend_thread'[m] = new
      BY <1>2, <2>1, <3>1, <3>2
    <3>5. \A i, j \in 1..Len(new) : i < j =>
             current_priority[new[i]] <= current_priority[new[j]] \/ new[j] \in raised
      BY <2>2, <3>3
    <3> QED
      BY <2>2, <3>4, <3>5
  <2> QED
    BY <2>3, <2>4
<1>9. Inherits'
  BY <1>1, <1>3, <1>10 DEF Inherits
<1> QED
  BY <1>4, <1>5, <1>6, <1>7, <1>8, <1>9

(***************************************************************************)
(* What the thread that lets go of a mutex keeps: the front of its nest    *)
(* and the priority it had when it took the mutex.                         *)
(***************************************************************************)
LEMMA LetGoThread ==
    ASSUME Inv, NEW thread \in Threads, NEW mutex \in Mutexes,
           owner[mutex] = thread, Last(nest[thread]) = mutex
    PROVE  /\ Front(nest[thread]) \in Seq(Mutexes) /\ Increasing(Front(nest[thread]))
           /\ ToSet(Front(nest[thread])) = ToSet(nest[thread]) \ {mutex}
           /\ Front(nest[thread]) = <<>> => original_priority[mutex] = Base[thread]
           /\ Front(nest[thread]) # <<>> =>
                 /\ Front(nest[thread])[1] \in Mutexes \ {mutex}
                 /\ original_priority[Front(nest[thread])[1]] = Base[thread]
                 /\ Len(nest[thread]) > 1
           /\ original_priority[mutex] <= Base[thread]
           /\ original_priority[mutex] \in Priorities
           /\ \A t \in Threads \ {thread} : mutex \notin ToSet(nest[t])
           /\ \A m \in Mutexes \ {mutex} : owner[m] = thread => Len(nest[thread]) > 1
<1> USE DEF Inv
<1>1. PICK s : s = nest[thread]
  OBVIOUS
<1>2. /\ s \in Seq(Mutexes) /\ Increasing(s) /\ mutex \in ToSet(s)
      /\ \A t \in Threads \ {thread} : mutex \notin ToSet(nest[t])
  BY <1>1 DEF TypeOK, Nested, Owned
<1>3. s # <<>>
  BY <1>2 DEF ToSet
<1>4. PICK f : f = Front(s)
  OBVIOUS
<1>5. /\ f \in Seq(Mutexes) /\ Increasing(f)
      /\ ToSet(f) = ToSet(s) \ {mutex}
      /\ f # <<>> => f[1] = s[1]
      /\ f = <<>> => mutex = s[1]
      /\ Len(f) = Len(s) - 1
  BY <1>1, <1>2, <1>3, <1>4, NestFront
<1>6. original_priority[s[1]] = Base[thread]
  BY <1>1, <1>3 DEF Restorable
<1>7. f # <<>> => f[1] \in ToSet(f) /\ f[1] \in Mutexes /\ Len(s) > 1
  BY <1>2, <1>5 DEF ToSet
<1>8. original_priority[mutex] <= Base[thread] /\ original_priority[mutex] \in Priorities
  <2>1. original_priority[mutex] <= Base[thread]
    BY Bases DEF Restorable
  <2>2. original_priority[mutex] \in Priorities \cup {255}
    BY DEF TypeOK, NoPriority
  <2> QED
    BY <2>1, <2>2, Bases
<1>9. ASSUME NEW m \in Mutexes \ {mutex}, owner[m] = thread
      PROVE  Len(s) > 1
  <2>1. m \in ToSet(f)
    BY <1>1, <1>5, <1>9 DEF Owned
  <2>2. f # <<>>
    BY <2>1 DEF ToSet
  <2> QED
    BY <1>7, <2>2
<1> QED
  BY <1>1, <1>2, <1>4, <1>5, <1>6, <1>7, <1>8, <1>9

(***************************************************************************)
(* Nobody waits: the mutex is available again.                             *)
(***************************************************************************)
LEMMA MakeAvailableInv ==
    ASSUME Inv, NEW thread \in Threads, NEW mutex \in Mutexes, ~Waiting(thread),
           owner[mutex] = thread, Last(nest[thread]) = mutex,
           suspend_thread[mutex] = <<>>, LetGo(thread, mutex)
    PROVE  Inv'
<1> USE DEF Inv
<1>1. PICK f : f = Front(nest[thread])
  OBVIOUS
<1>2. PICK p : p = original_priority[mutex]
  OBVIOUS
<1>3. /\ f \in Seq(Mutexes) /\ Increasing(f)
      /\ ToSet(f) = ToSet(nest[thread]) \ {mutex}
      /\ f = <<>> => p = Base[thread]
      /\ f # <<>> => /\ f[1] \in Mutexes \ {mutex}
                     /\ original_priority[f[1]] = Base[thread]
                     /\ Len(nest[thread]) > 1
      /\ p <= Base[thread] /\ p \in Priorities
      /\ \A t \in Threads \ {thread} : mutex \notin ToSet(nest[t])
      /\ \A m \in Mutexes \ {mutex} : owner[m] = thread => Len(nest[thread]) > 1
  BY <1>1, <1>2, LetGoThread
<1>4. /\ current_priority' = [current_priority EXCEPT ![thread] = p]
      /\ nest' = [t \in Threads |-> IF t = thread THEN f ELSE nest[t]]
      /\ unwound' = IF Len(nest[thread]) > 1 THEN unwound \cup {thread} ELSE unwound \ {thread}
      /\ raised' = raised
      /\ MakeAvailable(mutex)
  BY <1>1, <1>2 DEF LetGo
<1>5. value[mutex] = 0
  BY Bases DEF Owned, TypeOK
<1>6. /\ value' = [value EXCEPT ![mutex] = 1]
      /\ owner' = [owner EXCEPT ![mutex] = None]
      /\ original_priority' = [original_priority EXCEPT ![mutex] = NoPriority]
      /\ hold' = [hold EXCEPT ![mutex] = 0]
      /\ UNCHANGED <<suspend_thread, timed>>
  BY <1>4, <1>5 DEF MakeAvailable, TypeOK
<1>7. /\ \A m \in Mutexes :
            /\ value'[m] = IF m = mutex THEN 1 ELSE value[m]
            /\ owner'[m] = IF m = mutex THEN None ELSE owner[m]
            /\ hold'[m] = IF m = mutex THEN 0 ELSE hold[m]
            /\ m # mutex => original_priority'[m] = original_priority[m]
      /\ \A t \in Threads :
            /\ nest'[t] = IF t = thread THEN f ELSE nest[t]
            /\ current_priority'[t] = IF t = thread THEN p ELSE current_priority[t]
  BY <1>4, <1>6 DEF TypeOK
<1>8. TypeOK'
  <2>1. nest' \in [Threads -> Seq(Mutexes)]
    BY <1>3, <1>4 DEF TypeOK
  <2>2. /\ hold' \in [Mutexes -> 0..MaxHold] /\ value' \in [Mutexes -> {0, 1}]
        /\ owner' \in [Mutexes -> Threads \cup {None}]
    BY <1>6, Bases DEF TypeOK
  <2>3. /\ original_priority' \in [Mutexes -> Priorities \cup {NoPriority}]
        /\ current_priority' \in [Threads -> Priorities]
    BY <1>3, <1>4, <1>6 DEF TypeOK
  <2>4. unwound' \subseteq Threads /\ raised' \subseteq Threads
    BY <1>4 DEF TypeOK
  <2> QED
    BY <1>6, <2>1, <2>2, <2>3, <2>4 DEF TypeOK
<1>9. Owned'
  <2>1. \A m \in Mutexes : \A t \in Threads : owner'[m] = t <=> m \in ToSet(nest'[t])
    BY <1>3, <1>7, Bases DEF Owned
  <2>2. \A m \in Mutexes : /\ value'[m] = 1 <=> owner'[m] = None
                           /\ hold'[m] > 0 <=> owner'[m] # None
                           /\ owner'[m] = None => suspend_thread'[m] = <<>>
    BY <1>6, <1>7 DEF Owned
  <2> QED
    BY <2>1, <2>2 DEF Owned
<1>10. WaitsOnce'
  <2>1. \A m \in Mutexes : ToSet(suspend_thread[m]) \subseteq Threads
    BY ListedThreads
  <2>2. \A m \in Mutexes : \A t \in ToSet(suspend_thread[m]) : owner'[m] # t
    BY <1>7, <2>1, Bases DEF WaitsOnce
  <2> QED
    BY <1>6, <2>2 DEF WaitsOnce, Waiting
<1>11. \A m \in Mutexes : thread \notin ToSet(suspend_thread[m])
  BY DEF Waiting
<1>12. Nested'
  <2>1. \A t \in Threads : Increasing(nest'[t])
    BY <1>3, <1>7 DEF Nested
  <2>2. \A m \in Mutexes : ToSet(suspend_thread[m]) \subseteq Threads
    BY ListedThreads
  <2> QED
    BY <1>6, <1>7, <1>11, <2>1, <2>2 DEF Nested
<1>13. Restorable' /\ PriorityRestored'
  <2>1. ASSUME NEW t \in Threads, nest'[t] # <<>>
        PROVE  original_priority'[nest'[t][1]] = Base[t]
    <3>1. CASE t = thread
      BY <1>3, <1>7, <2>1, <3>1
    <3>2. CASE t # thread
      <4>1. nest[t] \in Seq(Mutexes) /\ nest[t] # <<>> /\ nest'[t] = nest[t]
        BY <1>7, <2>1, <3>2 DEF TypeOK
      <4>2. nest[t][1] \in Mutexes /\ nest[t][1] \in ToSet(nest[t])
        BY <4>1 DEF ToSet
      <4> QED
        BY <1>3, <1>7, <3>2, <4>1, <4>2 DEF Restorable
    <3> QED
      BY <3>1, <3>2
  <2>2. \A t \in Threads : current_priority'[t] <= Base[t]
    BY <1>3, <1>7 DEF Restorable
  <2>3. \A m \in Mutexes : owner'[m] # None => original_priority'[m] <= Base[owner'[m]]
    BY <1>7 DEF Restorable
  <2>4. \A t \in Threads : nest'[t] = <<>> => current_priority'[t] = Base[t]
    BY <1>3, <1>7 DEF PriorityRestored
  <2> QED
    BY <2>1, <2>2, <2>3, <2>4 DEF Restorable, PriorityRestored
<1>14. Urgency'
  <2>1. \A m \in Mutexes : \A i \in 1..Len(suspend_thread[m]) :
           /\ suspend_thread[m][i] \in Threads
           /\ current_priority'[suspend_thread[m][i]] = current_priority[suspend_thread[m][i]]
    BY <1>7, <1>11, ListedThreads
  <2> QED
    BY <1>4, <1>6, <2>1 DEF Urgency
<1>15. Inherits'
  <2> SUFFICES ASSUME FlagPrio, NEW m \in Mutexes, NEW t \in ToSet(suspend_thread[m]),
                      owner'[m] \notin unwound', t \notin raised
               PROVE  current_priority'[owner'[m]] <= current_priority'[t]
    BY <1>4, <1>6 DEF Inherits
  <2>1. m # mutex /\ suspend_thread[m] # <<>>
    BY DEF ToSet
  <2>2. owner'[m] = owner[m] /\ owner[m] \in Threads
    BY <1>7, <2>1 DEF Owned, TypeOK
  <2>3. owner[m] # thread /\ owner[m] \notin unwound
    BY <1>3, <1>4, <2>1, <2>2
  <2>4. t \in Threads /\ t # thread
    BY <1>11, ListedThreads
  <2> QED
    BY <1>7, <2>2, <2>3, <2>4 DEF Inherits
<1> QED
  BY <1>8, <1>9, <1>10, <1>12, <1>13, <1>14, <1>15

(***************************************************************************)
(* The first waiting thread becomes the owner.                             *)
(***************************************************************************)
LEMMA HandOverInv ==
    ASSUME Inv, NEW thread \in Threads, NEW mutex \in Mutexes, ~Waiting(thread),
           owner[mutex] = thread, Last(nest[thread]) = mutex,
           suspend_thread[mutex] # <<>>, LetGo(thread, mutex)
    PROVE  Inv'
<1> USE DEF Inv
<1>1. PICK f : f = Front(nest[thread])
  OBVIOUS
<1>2. PICK p : p = original_priority[mutex]
  OBVIOUS
<1>3. /\ f \in Seq(Mutexes) /\ Increasing(f)
      /\ ToSet(f) = ToSet(nest[thread]) \ {mutex}
      /\ f = <<>> => p = Base[thread]
      /\ f # <<>> => /\ f[1] \in Mutexes \ {mutex}
                     /\ original_priority[f[1]] = Base[thread]
                     /\ Len(nest[thread]) > 1
      /\ p <= Base[thread] /\ p \in Priorities
      /\ \A t \in Threads \ {thread} : mutex \notin ToSet(nest[t])
      /\ \A m \in Mutexes \ {mutex} : owner[m] = thread => Len(nest[thread]) > 1
  BY <1>1, <1>2, LetGoThread
<1>4. PICK list : list = suspend_thread[mutex]
  OBVIOUS
<1>5. PICK heir : heir = Head(list)
  OBVIOUS
<1>6. PICK rest : rest = Tail(list)
  OBVIOUS
<1>7. list \in Seq(Threads) /\ IsInjective(list) /\ list # <<>> /\ ToSet(list) \subseteq Threads
  BY <1>4, ListedThreads
<1>8. /\ heir \in ToSet(list) /\ rest \in Seq(Threads) /\ IsInjective(rest)
      /\ ToSet(rest) = ToSet(list) \ {heir}
  BY <1>5, <1>6, <1>7, TailProperties
<1>9. heir \in Threads /\ heir # thread
  BY <1>4, <1>7, <1>8 DEF Waiting
<1>10. PICK s : s = Append(nest[heir], mutex)
  OBVIOUS
<1>11. /\ s \in Seq(Mutexes) /\ s # <<>>
       /\ ToSet(s) = ToSet(nest[heir]) \cup {mutex}
       /\ Increasing(s)
       /\ s[1] = IF nest[heir] = <<>> THEN mutex ELSE nest[heir][1]
  <2>1. /\ nest[heir] \in Seq(Mutexes) /\ Increasing(nest[heir])
        /\ \A i \in 1..Len(nest[heir]) : nest[heir][i] < mutex
    BY <1>4, <1>8, <1>9 DEF TypeOK, Nested
  <2> QED
    BY <1>10, <2>1, NestAppend
<1>12. /\ current_priority' = [current_priority EXCEPT ![thread] = p]
       /\ nest' = [t \in Threads |-> IF t = thread THEN f ELSE IF t = heir THEN s ELSE nest[t]]
       /\ unwound' = IF Len(nest[thread]) > 1 THEN unwound \cup {thread} ELSE unwound \ {thread}
       /\ raised' = raised \ {heir}
       /\ HandOver(mutex)
  <2>1. PICK heirs : heirs = {heir}
    OBVIOUS
  <2>2. heirs = IF suspend_thread[mutex] = <<>> THEN {} ELSE {Head(suspend_thread[mutex])}
    BY <1>4, <1>5, <2>1
  <2>3. heirs # {} /\ \A t : t \in heirs <=> t = heir
    BY <2>1
  <2>4. /\ current_priority' = [current_priority EXCEPT ![thread] = p]
        /\ HandOver(mutex)
        /\ nest' = [t \in Threads |-> IF t = thread THEN Front(nest[t])
                                      ELSE IF t \in heirs THEN Append(nest[t], mutex) ELSE nest[t]]
        /\ unwound' = IF Len(nest[thread]) > 1 THEN unwound \cup {thread} ELSE unwound \ {thread}
        /\ raised' = raised \ heirs
    BY <1>2, <2>2, <2>3 DEF LetGo
  <2>5. nest' = [t \in Threads |-> IF t = thread THEN f ELSE IF t = heir THEN s ELSE nest[t]]
    BY <1>1, <1>10, <2>3, <2>4
  <2> QED
    BY <2>1, <2>4, <2>5
<1>13. /\ owner' = [owner EXCEPT ![mutex] = heir]
       /\ original_priority' = [original_priority EXCEPT ![mutex] = current_priority[heir]]
       /\ hold' = [hold EXCEPT ![mutex] = 1]
       /\ suspend_thread' = [suspend_thread EXCEPT ![mutex] = rest]
       /\ timed' = timed \ {heir}
       /\ UNCHANGED value
  BY <1>4, <1>5, <1>6, <1>12 DEF HandOver, TypeOK
<1>14. /\ \A m \in Mutexes :
             /\ owner'[m] = IF m = mutex THEN heir ELSE owner[m]
             /\ hold'[m] = IF m = mutex THEN 1 ELSE hold[m]
             /\ original_priority'[m] =
                   IF m = mutex THEN current_priority[heir] ELSE original_priority[m]
             /\ suspend_thread'[m] = IF m = mutex THEN rest ELSE suspend_thread[m]
       /\ \A t \in Threads :
             /\ nest'[t] = IF t = thread THEN f ELSE IF t = heir THEN s ELSE nest[t]
             /\ current_priority'[t] = IF t = thread THEN p ELSE current_priority[t]
  BY <1>12, <1>13 DEF TypeOK
<1>15. TypeOK'
  <2>1. nest' \in [Threads -> Seq(Mutexes)]
    BY <1>3, <1>11, <1>12 DEF TypeOK
  <2>2. /\ hold' \in [Mutexes -> 0..MaxHold] /\ value' \in [Mutexes -> {0, 1}]
        /\ owner' \in [Mutexes -> Threads \cup {None}]
    BY <1>9, <1>13, Bases DEF TypeOK
  <2>3. /\ original_priority' \in [Mutexes -> Priorities \cup {NoPriority}]
        /\ current_priority' \in [Threads -> Priorities]
    BY <1>3, <1>9, <1>12, <1>13 DEF TypeOK
  <2>4. unwound' \subseteq Threads /\ timed' \subseteq Threads /\ raised' \subseteq Threads
    BY <1>12, <1>13 DEF TypeOK
  <2>5. suspend_thread' \in [Mutexes -> Seq(Threads)]
    BY <1>8, <1>13 DEF TypeOK
  <2> QED
    BY <2>1, <2>2, <2>3, <2>4, <2>5 DEF TypeOK
<1>16. Owned'
  <2>1. \A m \in Mutexes : \A t \in Threads : owner'[m] = t <=> m \in ToSet(nest'[t])
    BY <1>3, <1>9, <1>11, <1>14, Bases DEF Owned
  <2>2. \A m \in Mutexes : /\ value'[m] = 1 <=> owner'[m] = None
                           /\ hold'[m] > 0 <=> owner'[m] # None
                           /\ owner'[m] = None => suspend_thread'[m] = <<>>
    BY <1>9, <1>13, <1>14, Bases DEF Owned
  <2> QED
    BY <2>1, <2>2 DEF Owned
<1>17. \A m \in Mutexes : /\ ToSet(suspend_thread'[m]) \subseteq ToSet(suspend_thread[m]) \ {heir}
                          /\ IsInjective(suspend_thread'[m])
                          /\ ToSet(suspend_thread[m]) \subseteq Threads
                          /\ thread \notin ToSet(suspend_thread[m])
  <2>1. \A m \in Mutexes \ {mutex} : heir \notin ToSet(suspend_thread[m])
    BY <1>4, <1>8 DEF WaitsOnce
  <2> QED
    BY <1>4, <1>8, <1>14, <2>1, ListedThreads DEF Waiting
<1>18. WaitsOnce'
  <2>1. \A t \in Threads : Waiting(t) /\ t # heir => Waiting(t)'
    BY <1>4, <1>8, <1>14 DEF Waiting
  <2>2. timed' \subseteq {t \in Threads : Waiting(t)'}
    BY <1>13, <2>1 DEF WaitsOnce
  <2>3. \A m \in Mutexes : \A i, j \in 1..Len(suspend_thread'[m]) :
           suspend_thread'[m][i] = suspend_thread'[m][j] => i = j
    <3>1. \A m \in Mutexes : suspend_thread'[m] \in Seq(Threads)
      BY <1>15 DEF TypeOK
    <3> QED
      BY <1>17, <3>1 DEF IsInjective
  <2>4. \A m \in Mutexes : \A t \in ToSet(suspend_thread'[m]) :
           /\ owner'[m] # t
           /\ \A n \in Mutexes \ {m} : t \notin ToSet(suspend_thread'[n])
    BY <1>14, <1>17 DEF WaitsOnce
  <2> QED
    BY <2>2, <2>3, <2>4 DEF WaitsOnce
<1>19. Nested'
  <2>1. \A t \in Threads : Increasing(nest'[t])
    BY <1>3, <1>11, <1>14 DEF Nested
  <2>2. ASSUME NEW m \in Mutexes, NEW t \in ToSet(suspend_thread'[m])
        PROVE  nest'[t] = nest[t] /\ t \in ToSet(suspend_thread[m])
    BY <1>14, <1>17
  <2> QED
    BY <2>1, <2>2 DEF Nested
<1>20. Restorable' /\ PriorityRestored'
  <2>1. ASSUME NEW t \in Threads, nest'[t] # <<>>
        PROVE  original_priority'[nest'[t][1]] = Base[t]
    <3>1. CASE t = thread
      BY <1>3, <1>14, <2>1, <3>1
    <3>2. CASE t = heir /\ nest[t] = <<>>
      BY <1>9, <1>11, <1>14, <3>2 DEF PriorityRestored
    <3>3. CASE t # thread /\ nest[t] # <<>>
      <4>1. nest[t] \in Seq(Mutexes)
        BY DEF TypeOK
      <4>2. nest[t][1] \in Mutexes /\ nest[t][1] \in ToSet(nest[t])
        BY <3>3, <4>1 DEF ToSet
      <4>3. nest'[t][1] = nest[t][1] /\ nest[t][1] # mutex
        BY <1>3, <1>11, <1>14, <3>3, <4>2
      <4> QED
        BY <1>14, <3>3, <4>2, <4>3 DEF Restorable
    <3> QED
      BY <1>14, <2>1, <3>1, <3>2, <3>3
  <2>2. \A t \in Threads : current_priority'[t] <= Base[t]
    BY <1>3, <1>14 DEF Restorable
  <2>3. \A m \in Mutexes : owner'[m] # None => original_priority'[m] <= Base[owner'[m]]
    BY <1>9, <1>14 DEF Restorable
  <2>4. \A t \in Threads : nest'[t] = <<>> => current_priority'[t] = Base[t]
    BY <1>3, <1>11, <1>14 DEF PriorityRestored
  <2> QED
    BY <2>1, <2>2, <2>3, <2>4 DEF Restorable, PriorityRestored
<1>21. /\ Len(rest) = Len(list) - 1 /\ Len(list) \in Nat /\ Len(list) > 0
       /\ \A i \in 1..Len(rest) : rest[i] = list[i + 1] /\ i + 1 \in 1..Len(list)
       /\ heir = list[1]
  BY <1>5, <1>6, <1>7
<1>22. Urgency'
  <2> SUFFICES ASSUME FlagPrio, NEW m \in Mutexes,
                      NEW i \in 1..Len(suspend_thread'[m]), NEW j \in 1..Len(suspend_thread'[m]),
                      i < j, suspend_thread'[m][j] \notin raised'
               PROVE  current_priority'[suspend_thread'[m][i]]
                         <= current_priority'[suspend_thread'[m][j]]
    BY DEF Urgency
  <2>1. /\ suspend_thread'[m][i] \in ToSet(suspend_thread'[m])
        /\ suspend_thread'[m][j] \in ToSet(suspend_thread'[m])
    <3>1. suspend_thread'[m] \in Seq(Threads)
      BY <1>15 DEF TypeOK
    <3> QED
      BY <3>1 DEF ToSet
  <2>2. /\ suspend_thread'[m][i] \in Threads
        /\ current_priority'[suspend_thread'[m][i]] = current_priority[suspend_thread'[m][i]]
        /\ current_priority'[suspend_thread'[m][j]] = current_priority[suspend_thread'[m][j]]
        /\ suspend_thread'[m][j] \notin raised
    BY <1>12, <1>14, <1>17, <2>1
  <2>3. CASE m = mutex
    <3>1. /\ suspend_thread'[m] = rest /\ rest[i] = list[i+1] /\ rest[j] = list[j+1]
          /\ i+1 \in 1..Len(list) /\ j+1 \in 1..Len(list) /\ i+1 < j+1
      BY <1>14, <1>21, <2>3
    <3>2. current_priority[list[i+1]] <= current_priority[list[j+1]]
      BY <1>4, <2>2, <3>1 DEF Urgency
    <3> QED
      BY <2>2, <3>1, <3>2
  <2>4. CASE m # mutex
    BY <1>14, <2>2, <2>4 DEF Urgency
  <2> QED
    BY <2>3, <2>4
<1>23. Inherits'
  <2> SUFFICES ASSUME FlagPrio, NEW m \in Mutexes, NEW t \in ToSet(suspend_thread'[m]),
                      owner'[m] \notin unwound', t \notin raised'
               PROVE  current_priority'[owner'[m]] <= current_priority'[t]
    BY DEF Inherits
  <2>3. t \in Threads /\ current_priority'[t] = current_priority[t] /\ t \notin raised
    BY <1>12, <1>14, <1>17
  <2>1. CASE m = mutex
    <3>1. PICK i \in 1..Len(rest) : t = rest[i]
      BY <1>8, <1>14, <2>1 DEF ToSet
    <3>2. 1 \in 1..Len(list) /\ i + 1 \in 1..Len(list) /\ t = list[i + 1] /\ 1 < i + 1
      BY <1>21, <3>1
    <3>3. current_priority[list[1]] <= current_priority[list[i + 1]]
      BY <1>4, <2>3, <3>2 DEF Urgency
    <3> QED
      BY <1>9, <1>14, <1>21, <2>1, <2>3, <3>2, <3>3
  <2>2. CASE m # mutex
    <3>1. t \in ToSet(suspend_thread[m]) /\ suspend_thread[m] # <<>>
      BY <1>17 DEF ToSet
    <3>2. owner'[m] = owner[m] /\ owner[m] \in Threads
      BY <1>14, <2>2, <3>1 DEF Owned, TypeOK
    <3>3. owner[m] # thread /\ owner[m] \notin unwound
      BY <1>3, <1>12, <2>2, <3>2
    <3> QED
      BY <1>14, <2>3, <3>1, <3>2, <3>3 DEF Inherits
  <2> QED
    BY <2>1, <2>2
<1> QED
  BY <1>15, <1>16, <1>18, <1>19, <1>20, <1>22, <1>23

(***************************************************************************)
(* Every call, every timeout.                                              *)
(***************************************************************************)
LEMMA NextInv == Inv /\ [Next]_vars => Inv'
<1> SUFFICES ASSUME Inv, [Next]_vars PROVE Inv'
  OBVIOUS
<1>1. ASSUME NEW thread \in Threads, NEW mutex \in Mutexes, rt_mutex_take(thread, mutex)
      PROVE  Inv'
  <2>1. CASE hold[mutex] < MaxHold /\ TakeAgain(thread, mutex)
    <3>1. hold[mutex] + 1 \in 1..MaxHold /\ owner[mutex] # None
      BY <2>1, Bases DEF Inv, TypeOK, TakeAgain
    <3> QED
      BY <2>1, <3>1, HoldInv DEF TakeAgain
  <2>2. CASE /\ \A i \in 1..Len(nest[thread]) : nest[thread][i] < mutex
             /\ TakeFree(thread, mutex)
    BY <1>1, <2>2, TakeFreeInv DEF rt_mutex_take
  <2>3. ASSUME \A i \in 1..Len(nest[thread]) : nest[thread][i] < mutex,
               NEW time \in BOOLEAN, TakeWait(thread, mutex, time)
        PROVE  Inv'
    BY <1>1, <2>3, TakeWaitInv DEF rt_mutex_take
  <2> QED
    BY <1>1, <2>1, <2>2, <2>3 DEF rt_mutex_take
<1>2. ASSUME NEW thread \in Threads, NEW mutex \in Mutexes, rt_mutex_release(thread, mutex)
      PROVE  Inv'
  <2>1. ~Waiting(thread) /\ owner[mutex] = thread /\ Last(nest[thread]) = mutex
    BY <1>2 DEF rt_mutex_release
  <2>2. CASE LetGo(thread, mutex)
    BY <2>1, <2>2, MakeAvailableInv, HandOverInv
  <2>3. CASE /\ hold[mutex] > 1
             /\ hold' = [hold EXCEPT ![mutex] = @ - 1]
             /\ UNCHANGED <<value, owner, original_priority, suspend_thread, current_priority,
                            timed, nest, unwound, raised>>
    <3>1. hold[mutex] - 1 \in 1..MaxHold /\ owner[mutex] # None
      BY <2>1, <2>3, Bases DEF Inv, TypeOK
    <3> QED
      BY <2>3, <3>1, HoldInv
  <2> QED
    BY <1>2, <2>2, <2>3 DEF rt_mutex_release
<1>3. ASSUME NEW thread \in Threads, rt_thread_timeout(thread)
      PROVE  Inv'
  BY <1>3, TimeoutInv
<1>4. CASE UNCHANGED vars
  BY <1>4 DEF vars, Inv, TypeOK, Owned, WaitsOnce, Waiting, Nested, Restorable,
              PriorityRestored, Urgency, Inherits
<1> QED
  BY <1>1, <1>2, <1>3, <1>4 DEF Next

\* The invariant holds in every reachable state.
LEMMA Invariance == Spec => []Inv
BY InitInv, NextInv, PTL DEF Spec

(***************************************************************************)
(* A mutex has one holder, or is available and nobody waits for it.        *)
(***************************************************************************)
THEOREM MutexAlwaysConsistent == Spec => []MutexConsistent
<1>1. Inv => MutexConsistent
  BY DEF Inv, Owned, MutexConsistent
<1> QED
  BY <1>1, Invariance, PTL

(***************************************************************************)
(* A thread waits in one place at most and never for what it holds.        *)
(***************************************************************************)
THEOREM AlwaysWaitsOnce == Spec => []WaitsOnce
<1>1. Inv => WaitsOnce
  BY DEF Inv
<1> QED
  BY <1>1, Invariance, PTL

(***************************************************************************)
(* Whatever it inherited, a thread without a mutex has its own priority.   *)
(***************************************************************************)
THEOREM PriorityAlwaysRestored == Spec => []PriorityRestored
<1>1. Inv => PriorityRestored
  BY DEF Inv
<1> QED
  BY <1>1, Invariance, PTL

(***************************************************************************)
(* The owner of a mutex ordered by priority is now at least as urgent as   *)
(* every thread that waits for it, unless it has given back an inner mutex *)
(* or the waiting thread was raised while it waits, which rt_mutex_take    *)
(* does not pass on.                                                       *)
(***************************************************************************)
THEOREM AlwaysInherits == Spec => []Inherits
<1>1. Inv => Inherits
  BY DEF Inv
<1> QED
  BY <1>1, Invariance, PTL
=============================================================================
