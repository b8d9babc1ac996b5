------------------------ MODULE RtMessageQueueProofs ------------------------
(***************************************************************************)
(* The message queue loses no block and no wake-up, hands out each message *)
(* intact and implements the bounded buffer, for every number of threads   *)
(* and blocks and both orders of its lists.                                *)
(***************************************************************************)
EXTENDS RtMessageQueue, RtIpcListProofs

\* From first on, the fields nx lead through the n blocks f[1], ..., f[n] to Null.
Linked(f, n, first, nx) ==
    /\ n \in Nat /\ f \in [1..n -> Blocks]
    /\ \A i, j \in 1..n : f[i] = f[j] => i = j
    /\ first = IF n = 0 THEN Null ELSE f[1]
    /\ \A i \in 1..n : nx[f[i]] = IF i = n THEN Null ELSE f[i + 1]

\* The blocks of a list.
Members(f, n) == {f[i] : i \in 1..n}

\* A list without its first block, with a block before it, and one behind it.
Popped(f, n) == [i \in 1..n-1 |-> f[i + 1]]
Pushed(f, n, b) == [i \in 1..n+1 |-> IF i = 1 THEN b ELSE f[i - 1]]
Appended(f, n, b) == [i \in 1..n+1 |-> IF i = n + 1 THEN b ELSE f[i]]

\* q is the queue and f the free list, of n blocks; a block is in one of them or
\* with one thread.  BlocksConserved does not say that the free list ends: with
\* a circle of free blocks beside it that would not be inductive.
Lists(q, f, n) ==
    /\ Linked(q, entry, msg_queue_head, next)
    /\ Linked(f, n, msg_queue_free, next)
    /\ msg_queue_tail = IF entry = 0 THEN Null ELSE q[entry]
    /\ \A i \in 1..entry, j \in 1..n : q[i] # f[j]
    /\ \A t \in Threads : /\ \A i \in 1..entry : q[i] # block[t]
                          /\ \A j \in 1..n : f[j] # block[t]
    /\ \A t, u \in Copying : block[t] = block[u] => t = u
    /\ \A b \in Blocks : \/ \E i \in 1..entry : q[i] = b
                         \/ \E j \in 1..n : f[j] = b
                         \/ \E t \in Threads : block[t] = b

\* What the place of a thread in its call tells of its other variables.
Calls ==
    /\ IsInjective(suspend_thread) /\ IsInjective(suspend_sender_thread)
    /\ \A t \in ToSet(suspend_thread) : pc[t] = "recv" /\ error[t] = "EOK"
    /\ \A t \in ToSet(suspend_sender_thread) : pc[t] = "send" /\ error[t] = "EOK"
    /\ \A t \in Threads : block[t] # Null <=> pc[t] \in {"link", "link_urgent", "copy"}
    /\ \A t \in Threads : pc[t] \in {"send", "link", "link_urgent"} => msg[t] \in Messages

WokenReceivers ==
    suspend_thread # <<>> => Cardinality(Woken("recv")) >= entry

WokenSenders(n) ==
    suspend_sender_thread # <<>> => Cardinality(Woken("send")) >= n

Inv ==
    /\ TypeOK /\ Calls /\ CopyIntact /\ WokenReceivers
    /\ \E q, f, n : Lists(q, f, n) /\ WokenSenders(n)

(***************************************************************************)
(* Linked lists                                                            *)
(***************************************************************************)

\* The blocks of a list are as many as its length says.
LEMMA LinkedCount ==
    ASSUME NEW f, NEW n, NEW first, NEW nx, Linked(f, n, first, nx)
    PROVE  /\ IsFiniteSet(Members(f, n)) /\ Cardinality(Members(f, n)) = n
           /\ Members(f, n) \subseteq Blocks
<1>0. PICK S : S = Members(f, n)
  OBVIOUS
<1>1. n \in Nat /\ f \in [1..n -> Blocks] /\ \A i, j \in 1..n : f[i] = f[j] => i = j
  BY DEF Linked
<1>2. f \in [1..n -> S] /\ S \subseteq Blocks /\ \A b \in S : \E i \in 1..n : f[i] = b
  BY <1>0, <1>1 DEF Members
<1>3. f \in Bijection(1..n, S)
  BY <1>1, <1>2 DEF Bijection, Injection, Surjection, IsInjective
<1>4. ExistsBijection(1..n, S)
  BY <1>3 DEF ExistsBijection
<1>5. Cardinality(S) = n /\ IsFiniteSet(S)
  BY <1>1, <1>4, FS_CountingElements, FS_NatBijection
<1> QED
  BY <1>0, <1>2, <1>5

\* A change of other blocks leaves a list alone.
LEMMA LinkedKeep ==
    ASSUME NEW f, NEW n, NEW first, NEW nx, Linked(f, n, first, nx),
           NEW nx2, \A i \in 1..n : nx2[f[i]] = nx[f[i]]
    PROVE  Linked(f, n, first, nx2)
BY DEF Linked

\* The first block is taken off a list.
LEMMA LinkedPop ==
    ASSUME NEW f, NEW n, NEW first, NEW nx, Linked(f, n, first, nx), n # 0
    PROVE  Linked(Popped(f, n), n - 1, nx[first], nx)
<1>0. PICK f2 : f2 = Popped(f, n)
  OBVIOUS
<1>1. n \in Nat /\ n - 1 \in Nat /\ f \in [1..n -> Blocks] /\ first = f[1]
  BY DEF Linked
<1>2. \A i \in 1..n-1 : i \in 1..n /\ i + 1 \in 1..n /\ f2[i] = f[i + 1]
  BY <1>0, <1>1 DEF Popped
<1>3. f2 \in [1..n-1 -> Blocks]
  BY <1>0, <1>1, <1>2 DEF Popped
<1>4. ASSUME NEW i \in 1..n-1, NEW j \in 1..n-1, f2[i] = f2[j]
      PROVE  i = j
  <2>1. f[i + 1] = f[j + 1] /\ i + 1 \in 1..n /\ j + 1 \in 1..n
    BY <1>2, <1>4
  <2>2. i + 1 = j + 1
    BY <2>1 DEF Linked
  <2> QED
    BY <1>1, <2>2
<1>5. nx[first] = IF n - 1 = 0 THEN Null ELSE f2[1]
  <2>1. 1 \in 1..n /\ nx[first] = IF 1 = n THEN Null ELSE f[1 + 1]
    BY <1>1 DEF Linked
  <2> QED
    BY <1>1, <1>2, <2>1
<1>6. ASSUME NEW i \in 1..n-1
      PROVE  nx[f2[i]] = IF i = n - 1 THEN Null ELSE f2[i + 1]
  <2>1. nx[f[i + 1]] = IF i + 1 = n THEN Null ELSE f[(i + 1) + 1]
    BY <1>2 DEF Linked
  <2>2. CASE i = n - 1
    BY <1>1, <1>2, <2>1, <2>2
  <2>3. CASE i # n - 1
    <3>1. i + 1 \in 1..n-1 /\ i + 1 # n
      BY <1>1, <2>3
    <3> QED
      BY <1>2, <2>1, <2>3, <3>1
  <2> QED
    BY <2>2, <2>3
<1> QED
  BY <1>0, <1>1, <1>3, <1>4, <1>5, <1>6 DEF Linked

\* A block is put before a list.
LEMMA LinkedPush ==
    ASSUME NEW f, NEW n, NEW first, NEW nx, Linked(f, n, first, nx),
           NEW b \in Blocks, \A i \in 1..n : f[i] # b,
           NEW nx2, nx2[b] = first, \A i \in 1..n : nx2[f[i]] = nx[f[i]]
    PROVE  Linked(Pushed(f, n, b), n + 1, b, nx2)
<1>0. PICK f2 : f2 = Pushed(f, n, b)
  OBVIOUS
<1>1. n \in Nat /\ n + 1 \in Nat /\ n + 1 # 0 /\ 1 \in 1..n+1 /\ f \in [1..n -> Blocks]
  BY DEF Linked
<1>2. f2[1] = b /\ \A i \in 1..n+1 : i # 1 => i - 1 \in 1..n /\ f2[i] = f[i - 1]
  BY <1>0, <1>1 DEF Pushed
<1>3. f2 \in [1..n+1 -> Blocks]
  BY <1>0, <1>1, <1>2 DEF Pushed
<1>4. ASSUME NEW i \in 1..n+1, NEW j \in 1..n+1, f2[i] = f2[j]
      PROVE  i = j
  <2>1. CASE i = 1 \/ j = 1
    BY <1>2, <1>4, <2>1
  <2>2. CASE i # 1 /\ j # 1
    <3>1. f[i - 1] = f[j - 1] /\ i - 1 \in 1..n /\ j - 1 \in 1..n
      BY <1>2, <1>4, <2>2
    <3>2. i - 1 = j - 1
      BY <3>1 DEF Linked
    <3> QED
      BY <1>1, <3>2
  <2> QED
    BY <2>1, <2>2
<1>5. ASSUME NEW i \in 1..n+1
      PROVE  nx2[f2[i]] = IF i = n + 1 THEN Null ELSE f2[i + 1]
  <2>1. CASE i = 1
    <3>1. nx2[f2[i]] = IF n = 0 THEN Null ELSE f[1]
      BY <1>2, <2>1 DEF Linked
    <3>2. n # 0 => 2 \in 1..n+1 /\ 2 - 1 = 1 /\ f2[2] = f[2 - 1]
      BY <1>1, <1>2
    <3> QED
      BY <1>1, <2>1, <3>1, <3>2
  <2>2. CASE i # 1
    <3>1. i - 1 \in 1..n /\ nx2[f2[i]] = nx[f[i - 1]]
      BY <1>2, <2>2
    <3>2. nx[f[i - 1]] = IF i - 1 = n THEN Null ELSE f[(i - 1) + 1]
      BY <3>1 DEF Linked
    <3>3. i # n + 1 => i + 1 \in 1..n+1 /\ i + 1 # 1 /\ (i + 1) - 1 = (i - 1) + 1
      BY <1>1, <2>2
    <3>4. i # n + 1 => f2[i + 1] = f[(i - 1) + 1]
      BY <1>2, <3>3
    <3>5. i = n + 1 <=> i - 1 = n
      BY <1>1
    <3> QED
      BY <3>1, <3>2, <3>4, <3>5
  <2> QED
    BY <2>1, <2>2
<1> QED
  BY <1>0, <1>1, <1>2, <1>3, <1>4, <1>5 DEF Linked

\* A block is put behind a list.
LEMMA LinkedAppend ==
    ASSUME NEW f, NEW n, NEW first, NEW nx, Linked(f, n, first, nx),
           NEW b \in Blocks, \A i \in 1..n : f[i] # b,
           NEW nx2, nx2[b] = Null,
           \A i \in 1..n : nx2[f[i]] = IF i = n THEN b ELSE nx[f[i]],
           NEW first2, first2 = IF n = 0 THEN b ELSE first
    PROVE  Linked(Appended(f, n, b), n + 1, first2, nx2)
<1>0. PICK f2 : f2 = Appended(f, n, b)
  OBVIOUS
<1>1. n \in Nat /\ n + 1 \in Nat /\ n + 1 # 0 /\ 1 \in 1..n+1 /\ f \in [1..n -> Blocks]
  BY DEF Linked
<1>2. f2[n + 1] = b /\ \A i \in 1..n+1 : i # n + 1 => i \in 1..n /\ f2[i] = f[i]
  BY <1>0, <1>1 DEF Appended
<1>3. f2 \in [1..n+1 -> Blocks]
  BY <1>0, <1>1, <1>2 DEF Appended
<1>4. ASSUME NEW i \in 1..n+1, NEW j \in 1..n+1, f2[i] = f2[j]
      PROVE  i = j
  BY <1>2, <1>4 DEF Linked
<1>5. ASSUME NEW i \in 1..n+1
      PROVE  nx2[f2[i]] = IF i = n + 1 THEN Null ELSE f2[i + 1]
  <2>1. CASE i = n + 1
    BY <1>2, <2>1
  <2>2. CASE i # n + 1
    <3>1. i \in 1..n /\ nx2[f2[i]] = IF i = n THEN b ELSE nx[f[i]]
      BY <1>2, <2>2
    <3>2. nx[f[i]] = IF i = n THEN Null ELSE f[i + 1]
      BY <3>1 DEF Linked
    <3>3. i = n \/ (i + 1 \in 1..n+1 /\ i + 1 # n + 1)
      BY <1>1, <3>1
    <3> QED
      BY <1>2, <2>2, <3>1, <3>2, <3>3
  <2> QED
    BY <2>1, <2>2
<1>6. first2 = f2[1]
  BY <1>1, <1>2 DEF Linked
<1> QED
  BY <1>0, <1>1, <1>3, <1>4, <1>5, <1>6 DEF Linked

\* The blocks from head on, e of them, as Queue reads them.
Follow(e, head, nx) ==
    CHOOSE g : g = [i \in 1..e |-> IF i = 1 THEN head ELSE nx[g[i - 1]]]

\* What is read by following the fields from head on, e times, is the list there.
LEMMA FollowIs ==
    ASSUME NEW q, NEW e, NEW head, NEW nx, Linked(q, e, head, nx)
    PROVE  Follow(e, head, nx) = q
<1>1. PICK E : E = 1..e
  OBVIOUS
<1>2. e \in Nat /\ q \in [1..e -> Blocks]
  BY DEF Linked
<1>3. ASSUME NEW i \in 1..e
      PROVE  q[i] = IF i = 1 THEN head ELSE nx[q[i - 1]]
  <2>1. CASE i = 1
    BY <1>2, <2>1 DEF Linked
  <2>2. CASE i # 1
    <3>1. i - 1 \in 1..e /\ i - 1 # e /\ (i - 1) + 1 = i
      BY <1>2, <2>2
    <3>2. nx[q[i - 1]] = q[(i - 1) + 1]
      BY <3>1 DEF Linked
    <3> QED
      BY <2>2, <3>1, <3>2
  <2> QED
    BY <2>1, <2>2
<1>4. q = [i \in 1..e |-> IF i = 1 THEN head ELSE nx[q[i - 1]]]
  BY <1>2, <1>3
<1>5. ASSUME NEW g, g = [i \in 1..e |-> IF i = 1 THEN head ELSE nx[g[i - 1]]]
      PROVE  g = q
  <2> SUFFICES ASSUME g # q PROVE FALSE
    OBVIOUS
  <2>1. PICK S : S = {i \in 1..e : g[i] # q[i]}
    OBVIOUS
  <2>2. S # {} /\ S \in SUBSET Nat
    <3>1. g = [i \in 1..e |-> g[i]] /\ q = [i \in 1..e |-> q[i]]
      BY <1>2, <1>5
    <3>2. \E i \in 1..e : g[i] # q[i]
      BY <3>1
    <3> QED
      BY <1>2, <2>1, <3>2
  <2>3. PICK m : m = Min(S)
    OBVIOUS
  <2>4. m \in S /\ \A y \in S : m <= y
    BY <2>2, <2>3, MinNat
  <2>5. m \in 1..e /\ g[m] # q[m]
    BY <2>1, <2>4
  <2>6. CASE m = 1
    BY <1>3, <1>5, <2>5, <2>6
  <2>7. CASE m # 1
    <3>1. PICK k : k = m - 1
      OBVIOUS
    <3>2. k \in 1..e /\ k < m
      BY <1>2, <2>5, <2>7, <3>1
    <3>3. k \notin S
      BY <1>2, <2>4, <2>5, <3>1, <3>2
    <3>4. g[k] = q[k]
      BY <2>1, <3>2, <3>3
    <3>5. g[m] = nx[g[k]] /\ q[m] = nx[q[k]]
      BY <1>3, <1>5, <2>5, <2>7, <3>1
    <3> QED
      BY <2>5, <3>4, <3>5
  <2> QED
    BY <2>6, <2>7
<1> QED
  BY <1>4, <1>5 DEF Follow

\* The recursive function Queue is the list that begins at the head, in a state
\* and in the next.
LEMMA QueueIs ==
    ASSUME NEW q
    PROVE  /\ Linked(q, entry, msg_queue_head, next) => Queue = q
           /\ Linked(q, entry', msg_queue_head', next') => Queue' = q
<1>1. Queue = Follow(entry, msg_queue_head, next)
  BY DEF Queue, Follow
<1>2. Queue' = Follow(entry', msg_queue_head', next')
  BY DEF Queue, Follow
<1> QED
  BY <1>1, <1>2, FollowIs

(***************************************************************************)
(* The lists after each stretch of the calls                               *)
(***************************************************************************)

\* Nothing of the pool changes.
LEMMA KeepLists ==
    ASSUME NEW q, NEW f, NEW n, Lists(q, f, n), UNCHANGED <<pool, block>>
    PROVE  Lists(q, f, n)'
BY DEF Lists, pool, queue, Copying

\* The facts about the lists that every stretch uses.
LEMMA ListFacts ==
    ASSUME TypeOK, NEW q, NEW f, NEW n, Lists(q, f, n)
    PROVE  /\ entry \in Nat /\ q \in [1..entry -> Blocks]
           /\ n \in Nat /\ f \in [1..n -> Blocks] /\ Null \notin Blocks
           /\ \A i, j \in 1..entry : q[i] = q[j] => i = j
           /\ \A i, j \in 1..n : f[i] = f[j] => i = j
           /\ msg_queue_head = Null <=> entry = 0
           /\ msg_queue_tail = Null <=> entry = 0
           /\ msg_queue_free = Null <=> n = 0
           /\ entry # 0 => msg_queue_head = q[1] /\ msg_queue_tail = q[entry]
           /\ n # 0 => msg_queue_free = f[1]
<1>1. /\ Linked(q, entry, msg_queue_head, next) /\ Linked(f, n, msg_queue_free, next)
      /\ msg_queue_tail = IF entry = 0 THEN Null ELSE q[entry]
  BY DEF Lists
<1>2. /\ entry \in Nat /\ q \in [1..entry -> Blocks] /\ n \in Nat /\ f \in [1..n -> Blocks]
      /\ \A i, j \in 1..entry : q[i] = q[j] => i = j
      /\ \A i, j \in 1..n : f[i] = f[j] => i = j
      /\ msg_queue_head = IF entry = 0 THEN Null ELSE q[1]
      /\ msg_queue_free = IF n = 0 THEN Null ELSE f[1]
  BY <1>1 DEF Linked
<1>3. Null \notin Blocks
  BY SizeAssumption DEF Null, Blocks
<1>4. (entry # 0 => q[1] \in Blocks /\ q[entry] \in Blocks) /\ (n # 0 => f[1] \in Blocks)
  BY <1>2
<1> QED
  BY <1>1, <1>2, <1>3, <1>4

\* A free block is taken.
LEMMA ReserveLists ==
    ASSUME TypeOK, NEW t \in Threads, NEW m, NEW link, Reserve(t, m, link), block[t] = Null,
           NEW q, NEW f, NEW n, Lists(q, f, n),
           NEW f2, f2 = Popped(f, n)
    PROVE  Lists(q, f2, n - 1)' /\ n # 0
<1>1. PICK b : b = msg_queue_free
  OBVIOUS
<1>2. /\ entry \in Nat /\ q \in [1..entry -> Blocks] /\ n \in Nat /\ f \in [1..n -> Blocks]
      /\ \A i, j \in 1..n : f[i] = f[j] => i = j
      /\ Null \notin Blocks /\ n # 0 /\ b = f[1] /\ b \in Blocks
  <2>1. b # Null
    BY <1>1 DEF Reserve
  <2>2. /\ entry \in Nat /\ q \in [1..entry -> Blocks] /\ n \in Nat /\ f \in [1..n -> Blocks]
        /\ \A i, j \in 1..n : f[i] = f[j] => i = j
        /\ Null \notin Blocks /\ (b = Null <=> n = 0) /\ (n # 0 => b = f[1])
    BY <1>1, ListFacts
  <2> QED
    BY <2>1, <2>2
<1>3. /\ UNCHANGED <<next, msg_queue_head, msg_queue_tail, entry>>
      /\ msg_queue_free' = next[b] /\ block' = [block EXCEPT ![t] = b]
  BY <1>1 DEF Reserve, queue
<1>4. \A u \in Threads : block'[u] = IF u = t THEN b ELSE block[u]
  BY <1>3 DEF TypeOK
<1>5. Linked(f2, n - 1, msg_queue_free', next)
  BY <1>1, <1>2, <1>3, LinkedPop DEF Lists
<1>6. \A j \in 1..n-1 : j + 1 \in 1..n /\ f2[j] = f[j + 1] /\ f2[j] # b
  BY <1>2 DEF Popped
<1>7. \A i \in 1..entry, j \in 1..n-1 : q[i] # f2[j]
  BY <1>6 DEF Lists
<1>8. \A i \in 1..entry : q[i] # b
  BY <1>2 DEF Lists
<1>9. \A u \in Threads : /\ \A i \in 1..entry : q[i] # block'[u]
                         /\ \A j \in 1..n-1 : f2[j] # block'[u]
  BY <1>4, <1>6, <1>8 DEF Lists
<1>10. \A u \in Threads : block[u] # b
  BY <1>2 DEF Lists
<1>11. \A u, v \in Threads : block'[u] # Null /\ block'[v] # Null /\ block'[u] = block'[v] => u = v
  BY <1>4, <1>10 DEF Lists, Copying
<1>12. ASSUME NEW c \in Blocks
       PROVE  \/ \E i \in 1..entry : q[i] = c
              \/ \E j \in 1..n-1 : f2[j] = c
              \/ \E u \in Threads : block'[u] = c
  <2>1. CASE \E i \in 1..entry : q[i] = c
    BY <2>1
  <2>2. ASSUME NEW j \in 1..n, f[j] = c
        PROVE  \/ \E k \in 1..n-1 : f2[k] = c
               \/ \E u \in Threads : block'[u] = c
    <3>1. CASE j = 1
      BY <1>2, <1>4, <2>2, <3>1
    <3>2. CASE j # 1
      <4>1. j - 1 \in 1..n-1 /\ (j - 1) + 1 = j
        BY <1>2, <3>2
      <4>2. f2[j - 1] = c
        BY <1>6, <2>2, <4>1
      <4> QED
        BY <4>1, <4>2
    <3> QED
      BY <3>1, <3>2
  <2>3. ASSUME NEW u \in Threads, block[u] = c PROVE \E v \in Threads : block'[v] = c
    BY <1>2, <1>4, <2>3
  <2> QED
    BY <2>1, <2>2, <2>3 DEF Lists
<1> QED
  BY <1>2, <1>3, <1>5, <1>7, <1>9, <1>11, <1>12 DEF Lists, Copying

\* The block of a message becomes the tail of the queue.
LEMMA LinkLists ==
    ASSUME TypeOK, NEW t \in Threads, Link(t), block[t] # Null,
           NEW q, NEW f, NEW n, Lists(q, f, n),
           NEW q2, q2 = Appended(q, entry, block[t])
    PROVE  Lists(q2, f, n)'
<1>1. PICK b : b = block[t]
  OBVIOUS
<1>2. /\ entry \in Nat /\ q \in [1..entry -> Blocks] /\ n \in Nat /\ f \in [1..n -> Blocks]
      /\ \A i, j \in 1..entry : q[i] = q[j] => i = j
      /\ Null \notin Blocks /\ b \in Blocks /\ b # Null
      /\ msg_queue_head = Null <=> entry = 0
      /\ msg_queue_tail = Null <=> entry = 0
      /\ entry # 0 => msg_queue_tail = q[entry]
  BY <1>1, ListFacts DEF TypeOK
<1>3. /\ next' = [c \in Blocks |-> IF c = b THEN Null ELSE IF c = msg_queue_tail THEN b ELSE next[c]]
      /\ msg_queue_tail' = b /\ entry' = entry + 1 /\ msg_queue_free' = msg_queue_free
      /\ msg_queue_head' = IF msg_queue_head = Null THEN b ELSE msg_queue_head
      /\ block' = [block EXCEPT ![t] = Null]
  BY <1>1 DEF Link, Return
<1>4. \A u \in Threads : block'[u] = IF u = t THEN Null ELSE block[u]
  BY <1>3 DEF TypeOK
<1>5. \A i \in 1..entry : q[i] # b /\ \A j \in 1..n : f[j] # b
  BY <1>1 DEF Lists
<1>6. \A j \in 1..n : f[j] # b
  BY <1>1 DEF Lists
<1>7. next'[b] = Null
  BY <1>2, <1>3
<1>8. ASSUME NEW i \in 1..entry PROVE next'[q[i]] = IF i = entry THEN b ELSE next[q[i]]
  <2>1. q[i] \in Blocks /\ q[i] # b /\ entry # 0 /\ entry \in 1..entry
    BY <1>2, <1>5
  <2>2. q[i] = msg_queue_tail <=> i = entry
    BY <1>2, <2>1
  <2> QED
    BY <1>3, <2>1, <2>2
<1>9. ASSUME NEW j \in 1..n PROVE next'[f[j]] = next[f[j]]
  <2>1. f[j] \in Blocks /\ f[j] # b /\ f[j] # Null
    BY <1>2, <1>6
  <2>2. entry # 0 => entry \in 1..entry
    BY <1>2
  <2>3. f[j] # msg_queue_tail
    BY <1>2, <2>1, <2>2 DEF Lists
  <2> QED
    BY <1>3, <2>1, <2>3
<1>10. PICK head : head = IF entry = 0 THEN b ELSE msg_queue_head
  OBVIOUS
<1>11. head = msg_queue_head'
  BY <1>2, <1>3, <1>10
<1>12. Linked(q2, entry + 1, head, next')
  <2>1. \A i \in 1..entry : q[i] # b
    BY <1>5
  <2>2. Linked(q, entry, msg_queue_head, next)
    BY DEF Lists
  <2> QED
    BY <1>1, <1>2, <1>7, <1>8, <1>10, <2>1, <2>2, LinkedAppend
<1>13. Linked(f, n, msg_queue_free, next')
  BY <1>9, LinkedKeep DEF Lists
<1>14. /\ entry + 1 \in 1..entry+1 /\ q2[entry + 1] = b /\ entry + 1 # 0
       /\ \A i \in 1..entry+1 : i # entry + 1 => i \in 1..entry /\ q2[i] = q[i]
       /\ \A i \in 1..entry : i \in 1..entry+1 /\ q2[i] = q[i]
  BY <1>1, <1>2 DEF Appended
<1>15. \A i \in 1..entry+1, j \in 1..n : q2[i] # f[j]
  BY <1>6, <1>14 DEF Lists
<1>16. \A u \in Threads : u # t /\ block[u] # Null => block[u] # b
  BY <1>1, <1>2 DEF Lists, Copying
<1>17. ASSUME NEW u \in Threads
       PROVE  /\ \A i \in 1..entry+1 : q2[i] # block'[u]
              /\ \A j \in 1..n : f[j] # block'[u]
  <2>1. CASE u = t
    BY <1>2, <1>4, <1>14, <2>1
  <2>2. CASE u # t
    BY <1>2, <1>4, <1>14, <1>16, <2>2 DEF Lists
  <2> QED
    BY <2>1, <2>2
<1>18. \A u, v \in Threads : block'[u] # Null /\ block'[v] # Null /\ block'[u] = block'[v] => u = v
  BY <1>4 DEF Lists, Copying
<1>19. ASSUME NEW c \in Blocks
       PROVE  \/ \E i \in 1..entry+1 : q2[i] = c
              \/ \E j \in 1..n : f[j] = c
              \/ \E u \in Threads : block'[u] = c
  <2>1. ASSUME NEW i \in 1..entry, q[i] = c PROVE \E k \in 1..entry+1 : q2[k] = c
    BY <1>14, <2>1
  <2>2. ASSUME NEW u \in Threads, block[u] = c
        PROVE  \/ \E i \in 1..entry+1 : q2[i] = c
               \/ \E v \in Threads : block'[v] = c
    BY <1>1, <1>4, <1>14, <2>2
  <2> QED
    BY <2>1, <2>2 DEF Lists
<1> QED
  BY <1>3, <1>11, <1>12, <1>13, <1>14, <1>15, <1>17, <1>18, <1>19 DEF Lists, Copying

\* The block of an urgent message becomes the head of the queue.
LEMMA LinkUrgentLists ==
    ASSUME TypeOK, NEW t \in Threads, LinkUrgent(t), block[t] # Null,
           NEW q, NEW f, NEW n, Lists(q, f, n),
           NEW q2, q2 = Pushed(q, entry, block[t])
    PROVE  Lists(q2, f, n)'
<1>1. PICK b : b = block[t]
  OBVIOUS
<1>2. /\ entry \in Nat /\ q \in [1..entry -> Blocks] /\ n \in Nat /\ f \in [1..n -> Blocks]
      /\ Null \notin Blocks /\ b \in Blocks /\ b # Null
      /\ msg_queue_tail = Null <=> entry = 0
      /\ entry # 0 => msg_queue_tail = q[entry]
  BY <1>1, ListFacts DEF TypeOK
<1>3. /\ next' = [next EXCEPT ![b] = msg_queue_head]
      /\ msg_queue_head' = b /\ entry' = entry + 1 /\ msg_queue_free' = msg_queue_free
      /\ msg_queue_tail' = IF msg_queue_tail = Null THEN b ELSE msg_queue_tail
      /\ block' = [block EXCEPT ![t] = Null]
  BY <1>1 DEF LinkUrgent, Return
<1>4. \A u \in Threads : block'[u] = IF u = t THEN Null ELSE block[u]
  BY <1>3 DEF TypeOK
<1>5. \A i \in 1..entry : q[i] # b
  BY <1>1 DEF Lists
<1>6. \A j \in 1..n : f[j] # b
  BY <1>1 DEF Lists
<1>7. next'[b] = msg_queue_head /\ \A c \in Blocks : c # b => next'[c] = next[c]
  BY <1>2, <1>3 DEF TypeOK
<1>8. Linked(q2, entry + 1, b, next')
  <2>1. \A i \in 1..entry : next'[q[i]] = next[q[i]]
    BY <1>2, <1>5, <1>7
  <2>2. Linked(q, entry, msg_queue_head, next)
    BY DEF Lists
  <2> QED
    BY <1>1, <1>2, <1>5, <1>7, <2>1, <2>2, LinkedPush
<1>9. Linked(f, n, msg_queue_free, next')
  <2>1. \A j \in 1..n : next'[f[j]] = next[f[j]]
    BY <1>2, <1>6, <1>7
  <2> QED
    BY <2>1, LinkedKeep DEF Lists
<1>10. /\ 1 \in 1..entry+1 /\ q2[1] = b /\ entry + 1 # 0
       /\ \A i \in 1..entry+1 : i # 1 => i - 1 \in 1..entry /\ q2[i] = q[i - 1]
       /\ \A i \in 1..entry : i + 1 \in 1..entry+1 /\ i + 1 # 1 /\ (i + 1) - 1 = i
  BY <1>1, <1>2 DEF Pushed
<1>11. \A i \in 1..entry : q2[i + 1] = q[i]
  BY <1>10
<1>12. msg_queue_tail' = q2[entry + 1]
  <2>1. CASE entry = 0
    BY <1>2, <1>3, <1>10, <2>1
  <2>2. CASE entry # 0
    <3>1. entry \in 1..entry
      BY <1>2, <2>2
    <3> QED
      BY <1>2, <1>3, <1>11, <2>2, <3>1
  <2> QED
    BY <2>1, <2>2
<1>15. \A i \in 1..entry+1, j \in 1..n : q2[i] # f[j]
  BY <1>6, <1>10 DEF Lists
<1>16. \A u \in Threads : u # t /\ block[u] # Null => block[u] # b
  BY <1>1, <1>2 DEF Lists, Copying
<1>17. ASSUME NEW u \in Threads
       PROVE  /\ \A i \in 1..entry+1 : q2[i] # block'[u]
              /\ \A j \in 1..n : f[j] # block'[u]
  <2>1. CASE u = t
    BY <1>2, <1>4, <1>10, <2>1
  <2>2. CASE u # t
    BY <1>2, <1>4, <1>10, <1>16, <2>2 DEF Lists
  <2> QED
    BY <2>1, <2>2
<1>18. \A u, v \in Threads : block'[u] # Null /\ block'[v] # Null /\ block'[u] = block'[v] => u = v
  BY <1>4 DEF Lists, Copying
<1>19. ASSUME NEW c \in Blocks
       PROVE  \/ \E i \in 1..entry+1 : q2[i] = c
              \/ \E j \in 1..n : f[j] = c
              \/ \E u \in Threads : block'[u] = c
  <2>1. ASSUME NEW i \in 1..entry, q[i] = c PROVE \E k \in 1..entry+1 : q2[k] = c
    BY <1>10, <1>11, <2>1
  <2>2. ASSUME NEW u \in Threads, block[u] = c
        PROVE  \/ \E i \in 1..entry+1 : q2[i] = c
               \/ \E v \in Threads : block'[v] = c
    BY <1>1, <1>4, <1>10, <2>2
  <2> QED
    BY <2>1, <2>2 DEF Lists
<1> QED
  BY <1>3, <1>8, <1>9, <1>10, <1>12, <1>15, <1>17, <1>18, <1>19 DEF Lists, Copying

\* The head of the queue is taken off.
LEMMA UnlinkLists ==
    ASSUME TypeOK, NEW t \in Threads, Unlink(t), block[t] = Null,
           NEW q, NEW f, NEW n, Lists(q, f, n),
           NEW q2, q2 = Popped(q, entry)
    PROVE  Lists(q2, f, n)'
<1>1. PICK b : b = msg_queue_head
  OBVIOUS
<1>2. /\ entry \in Nat /\ q \in [1..entry -> Blocks] /\ n \in Nat /\ f \in [1..n -> Blocks]
      /\ \A i, j \in 1..entry : q[i] = q[j] => i = j
      /\ Null \notin Blocks /\ entry # 0 /\ b = q[1] /\ b \in Blocks
      /\ msg_queue_tail = q[entry]
  <2>1. entry # 0
    BY DEF Unlink
  <2>2. /\ entry \in Nat /\ q \in [1..entry -> Blocks] /\ n \in Nat /\ f \in [1..n -> Blocks]
        /\ \A i, j \in 1..entry : q[i] = q[j] => i = j
        /\ Null \notin Blocks /\ (entry # 0 => b = q[1] /\ msg_queue_tail = q[entry])
    BY <1>1, ListFacts
  <2> QED
    BY <2>1, <2>2
<1>3. /\ UNCHANGED <<next, msg_queue_free>> /\ entry' = entry - 1
      /\ msg_queue_head' = next[b]
      /\ msg_queue_tail' = IF msg_queue_tail = b THEN Null ELSE msg_queue_tail
      /\ block' = [block EXCEPT ![t] = b]
  BY <1>1 DEF Unlink
<1>4. \A u \in Threads : block'[u] = IF u = t THEN b ELSE block[u]
  BY <1>3 DEF TypeOK
<1>5. Linked(q2, entry - 1, msg_queue_head', next)
  BY <1>1, <1>2, <1>3, LinkedPop DEF Lists
<1>6. \A i \in 1..entry-1 : i + 1 \in 1..entry /\ q2[i] = q[i + 1] /\ q2[i] # b
  BY <1>2 DEF Popped
<1>7. \A i \in 1..entry-1, j \in 1..n : q2[i] # f[j]
  BY <1>6 DEF Lists
<1>8. \A j \in 1..n : f[j] # b
  BY <1>2 DEF Lists
<1>9. \A u \in Threads : /\ \A i \in 1..entry-1 : q2[i] # block'[u]
                         /\ \A j \in 1..n : f[j] # block'[u]
  BY <1>4, <1>6, <1>8 DEF Lists
<1>10. \A u \in Threads : block[u] # b
  BY <1>2 DEF Lists
<1>11. \A u, v \in Threads : block'[u] # Null /\ block'[v] # Null /\ block'[u] = block'[v] => u = v
  BY <1>4, <1>10 DEF Lists, Copying
<1>12. ASSUME NEW c \in Blocks
       PROVE  \/ \E i \in 1..entry-1 : q2[i] = c
              \/ \E j \in 1..n : f[j] = c
              \/ \E u \in Threads : block'[u] = c
  <2>1. CASE \E j \in 1..n : f[j] = c
    BY <2>1
  <2>2. ASSUME NEW j \in 1..entry, q[j] = c
        PROVE  \/ \E k \in 1..entry-1 : q2[k] = c
               \/ \E u \in Threads : block'[u] = c
    <3>1. CASE j = 1
      BY <1>2, <1>4, <2>2, <3>1
    <3>2. CASE j # 1
      <4>1. j - 1 \in 1..entry-1 /\ (j - 1) + 1 = j
        BY <1>2, <3>2
      <4>2. q2[j - 1] = c
        BY <1>6, <2>2, <4>1
      <4> QED
        BY <4>1, <4>2
    <3> QED
      BY <3>1, <3>2
  <2>3. ASSUME NEW u \in Threads, block[u] = c PROVE \E v \in Threads : block'[v] = c
    BY <1>2, <1>4, <2>3
  <2> QED
    BY <2>1, <2>2, <2>3 DEF Lists
<1>13. msg_queue_tail' = IF entry - 1 = 0 THEN Null ELSE q2[entry - 1]
  <2>1. entry \in 1..entry /\ 1 \in 1..entry
    BY <1>2
  <2>2. msg_queue_tail = b <=> entry = 1
    BY <1>2, <2>1
  <2>3. entry # 1 => entry - 1 \in 1..entry-1 /\ (entry - 1) + 1 = entry /\ entry - 1 # 0
    BY <1>2
  <2> QED
    BY <1>2, <1>3, <1>6, <2>2, <2>3
<1> QED
  BY <1>2, <1>3, <1>5, <1>7, <1>9, <1>11, <1>12, <1>13 DEF Lists, Copying

\* The block of a received message goes back to the free list.
LEMMA FreeLists ==
    ASSUME TypeOK, NEW t \in Threads, Free(t), block[t] # Null,
           NEW q, NEW f, NEW n, Lists(q, f, n),
           NEW f2, f2 = Pushed(f, n, block[t])
    PROVE  Lists(q, f2, n + 1)'
<1>1. PICK b : b = block[t]
  OBVIOUS
<1>2. /\ entry \in Nat /\ q \in [1..entry -> Blocks] /\ n \in Nat /\ f \in [1..n -> Blocks]
      /\ Null \notin Blocks /\ b \in Blocks /\ b # Null
  BY <1>1, ListFacts DEF TypeOK
<1>3. /\ next' = [next EXCEPT ![b] = msg_queue_free] /\ msg_queue_free' = b
      /\ UNCHANGED <<msg_queue_head, msg_queue_tail, entry>>
      /\ block' = [block EXCEPT ![t] = Null]
  BY <1>1 DEF Free, Return, queue
<1>4. \A u \in Threads : block'[u] = IF u = t THEN Null ELSE block[u]
  BY <1>3 DEF TypeOK
<1>5. \A i \in 1..entry : q[i] # b
  BY <1>1 DEF Lists
<1>6. \A j \in 1..n : f[j] # b
  BY <1>1 DEF Lists
<1>7. next'[b] = msg_queue_free /\ \A c \in Blocks : c # b => next'[c] = next[c]
  BY <1>2, <1>3 DEF TypeOK
<1>8. Linked(f2, n + 1, b, next')
  <2>1. \A j \in 1..n : next'[f[j]] = next[f[j]]
    BY <1>2, <1>6, <1>7
  <2>2. Linked(f, n, msg_queue_free, next)
    BY DEF Lists
  <2> QED
    BY <1>1, <1>2, <1>6, <1>7, <2>1, <2>2, LinkedPush
<1>9. Linked(q, entry, msg_queue_head, next')
  <2>1. \A i \in 1..entry : next'[q[i]] = next[q[i]]
    BY <1>2, <1>5, <1>7
  <2> QED
    BY <2>1, LinkedKeep DEF Lists
<1>10. /\ 1 \in 1..n+1 /\ f2[1] = b
       /\ \A j \in 1..n+1 : j # 1 => j - 1 \in 1..n /\ f2[j] = f[j - 1]
       /\ \A j \in 1..n : j + 1 \in 1..n+1 /\ j + 1 # 1 /\ (j + 1) - 1 = j
  BY <1>1, <1>2 DEF Pushed
<1>11. \A j \in 1..n : f2[j + 1] = f[j]
  BY <1>10
<1>12. \A i \in 1..entry, j \in 1..n+1 : q[i] # f2[j]
  BY <1>5, <1>10 DEF Lists
<1>13. \A u \in Threads : u # t /\ block[u] # Null => block[u] # b
  BY <1>1, <1>2 DEF Lists, Copying
<1>14. ASSUME NEW u \in Threads
       PROVE  /\ \A i \in 1..entry : q[i] # block'[u]
              /\ \A j \in 1..n+1 : f2[j] # block'[u]
  <2>1. CASE u = t
    BY <1>2, <1>4, <1>10, <2>1
  <2>2. CASE u # t
    BY <1>2, <1>4, <1>10, <1>13, <2>2 DEF Lists
  <2> QED
    BY <2>1, <2>2
<1>15. \A u, v \in Threads : block'[u] # Null /\ block'[v] # Null /\ block'[u] = block'[v] => u = v
  BY <1>4 DEF Lists, Copying
<1>16. ASSUME NEW c \in Blocks
       PROVE  \/ \E i \in 1..entry : q[i] = c
              \/ \E j \in 1..n+1 : f2[j] = c
              \/ \E u \in Threads : block'[u] = c
  <2>1. ASSUME NEW j \in 1..n, f[j] = c PROVE \E k \in 1..n+1 : f2[k] = c
    BY <1>10, <1>11, <2>1
  <2>2. ASSUME NEW u \in Threads, block[u] = c
        PROVE  \/ \E j \in 1..n+1 : f2[j] = c
               \/ \E v \in Threads : block'[v] = c
    BY <1>1, <1>4, <1>10, <2>2
  <2> QED
    BY <2>1, <2>2 DEF Lists
<1> QED
  BY <1>3, <1>8, <1>9, <1>12, <1>14, <1>15, <1>16 DEF Lists, Copying

\* The free list after a reset: the queue in reverse, then what was free.
Reversed(q, e, f, n) == [i \in 1..e+n |-> IF i <= e THEN q[e + 1 - i] ELSE f[i - e]]

\* A reset pushes every block of the queue onto the free list.
LEMMA ResetLists ==
    ASSUME TypeOK, rt_mq_control,
           NEW q, NEW f, NEW n, Lists(q, f, n),
           NEW q2, q2 = [i \in 1..0 |-> Null],
           NEW f2, f2 = Reversed(q, entry, f, n),
           NEW n2, n2 = entry + n
    PROVE  Lists(q2, f2, n2)'
<1>1. /\ entry \in Nat /\ q \in [1..entry -> Blocks] /\ n \in Nat /\ f \in [1..n -> Blocks]
      /\ \A i, j \in 1..entry : q[i] = q[j] => i = j
      /\ \A i, j \in 1..n : f[i] = f[j] => i = j
      /\ Null \notin Blocks /\ (n = 0 => msg_queue_free = Null) /\ (n # 0 => msg_queue_free = f[1])
  BY ListFacts
<1>2. Queue = q
  BY QueueIs DEF Lists
<1>3. /\ next' = [b \in Blocks |->
              IF \E i \in 1..entry : q[i] = b
              THEN IF (CHOOSE j \in 1..entry : q[j] = b) = 1 THEN msg_queue_free
                   ELSE q[(CHOOSE j \in 1..entry : q[j] = b) - 1]
              ELSE next[b]]
      /\ msg_queue_free' = IF entry = 0 THEN msg_queue_free ELSE q[entry]
      /\ msg_queue_head' = Null /\ msg_queue_tail' = Null /\ entry' = 0 /\ block' = block
  BY <1>2 DEF rt_mq_control
<1>4. ASSUME NEW i \in 1..entry
      PROVE  next'[q[i]] = IF i = 1 THEN msg_queue_free ELSE q[i - 1]
  <2>1. PICK k : k = CHOOSE j \in 1..entry : q[j] = q[i]
    OBVIOUS
  <2>2. k \in 1..entry /\ q[k] = q[i]
    BY <2>1
  <2>3. k = i
    BY <1>1, <2>2
  <2>4. q[i] \in Blocks
    BY <1>1
  <2> QED
    BY <1>3, <2>1, <2>3, <2>4
<1>5. ASSUME NEW j \in 1..n PROVE next'[f[j]] = next[f[j]]
  <2>1. f[j] \in Blocks /\ ~(\E i \in 1..entry : q[i] = f[j])
    BY <1>1 DEF Lists
  <2> QED
    BY <1>3, <2>1
<1>6. /\ \A i \in 1..entry+n : i <= entry => entry + 1 - i \in 1..entry /\ f2[i] = q[entry + 1 - i]
      /\ \A i \in 1..entry+n : ~(i <= entry) => i - entry \in 1..n /\ f2[i] = f[i - entry]
  BY <1>1 DEF Reversed
<1>7. f2 \in [1..entry+n -> Blocks]
  <2>1. \A i \in 1..entry+n : f2[i] \in Blocks
    BY <1>1, <1>6
  <2> QED
    BY <2>1 DEF Reversed
<1>8. ASSUME NEW i \in 1..entry+n, NEW j \in 1..entry+n, f2[i] = f2[j] PROVE i = j
  <2>1. CASE i <= entry /\ j <= entry
    <3>1. entry + 1 - i = entry + 1 - j
      BY <1>1, <1>6, <1>8, <2>1
    <3> QED
      BY <1>1, <3>1
  <2>2. CASE ~(i <= entry) /\ ~(j <= entry)
    <3>1. i - entry = j - entry
      BY <1>1, <1>6, <1>8, <2>2
    <3> QED
      BY <1>1, <3>1
  <2>3. CASE i <= entry /\ ~(j <= entry)
    BY <1>6, <1>8, <2>3 DEF Lists
  <2>4. CASE ~(i <= entry) /\ j <= entry
    BY <1>6, <1>8, <2>4 DEF Lists
  <2> QED
    BY <2>1, <2>2, <2>3, <2>4
<1>9. msg_queue_free' = IF entry + n = 0 THEN Null ELSE f2[1]
  <2>1. CASE entry = 0 /\ n = 0
    BY <1>1, <1>3, <2>1
  <2>2. CASE entry = 0 /\ n # 0
    <3>1. 1 \in 1..entry+n /\ ~(1 <= entry) /\ 1 - entry = 1 /\ entry + n # 0
      BY <1>1, <2>2
    <3> QED
      BY <1>1, <1>3, <1>6, <2>2, <3>1
  <2>3. CASE entry # 0
    <3>1. 1 \in 1..entry+n /\ 1 <= entry /\ entry + 1 - 1 = entry /\ entry + n # 0
      BY <1>1, <2>3
    <3> QED
      BY <1>3, <1>6, <2>3, <3>1
  <2> QED
    BY <2>1, <2>2, <2>3
<1>10. ASSUME NEW i \in 1..entry+n
       PROVE  next'[f2[i]] = IF i = entry + n THEN Null ELSE f2[i + 1]
  <2>1. CASE i < entry
    <3>1. PICK k : k = entry + 1 - i
      OBVIOUS
    <3>2. k \in 1..entry /\ k # 1 /\ f2[i] = q[k] /\ next'[q[k]] = q[k - 1]
      BY <1>1, <1>4, <1>6, <2>1, <3>1
    <3>3. i + 1 \in 1..entry+n /\ i + 1 <= entry /\ entry + 1 - (i + 1) = k - 1 /\ i # entry + n
      BY <1>1, <2>1, <3>1
    <3>4. f2[i + 1] = q[k - 1]
      BY <1>6, <3>3
    <3> QED
      BY <3>2, <3>3, <3>4
  <2>2. CASE i = entry
    <3>1. entry + 1 - i = 1 /\ i <= entry
      BY <1>1, <2>2
    <3>2. 1 \in 1..entry /\ f2[i] = q[1] /\ next'[q[1]] = msg_queue_free
      BY <1>4, <1>6, <3>1
    <3>3. n # 0 => /\ i + 1 \in 1..entry+n /\ ~(i + 1 <= entry) /\ (i + 1) - entry = 1
                   /\ i # entry + n
      BY <1>1, <2>2
    <3>4. n # 0 => f2[i + 1] = f[1]
      BY <1>6, <3>3
    <3>5. n = 0 => i = entry + n
      BY <1>1, <2>2
    <3> QED
      BY <1>1, <3>2, <3>3, <3>4, <3>5
  <2>3. CASE i > entry
    <3>1. PICK k : k = i - entry
      OBVIOUS
    <3>2. k \in 1..n /\ f2[i] = f[k] /\ next'[f[k]] = next[f[k]]
      BY <1>1, <1>5, <1>6, <2>3, <3>1
    <3>3. next[f[k]] = IF k = n THEN Null ELSE f[k + 1]
      BY <3>2 DEF Lists, Linked
    <3>4. k = n <=> i = entry + n
      BY <1>1, <3>1
    <3>5. k # n => i + 1 \in 1..entry+n /\ ~(i + 1 <= entry) /\ (i + 1) - entry = k + 1
      BY <1>1, <2>3, <3>1
    <3>6. k # n => f2[i + 1] = f[k + 1]
      BY <1>6, <3>5
    <3> QED
      BY <3>2, <3>3, <3>4, <3>6
  <2> QED
    BY <1>1, <2>1, <2>2, <2>3
<1>11. entry + n \in Nat
  BY <1>1
<1>12. Linked(f2, entry + n, msg_queue_free', next')
  BY <1>7, <1>8, <1>9, <1>10, <1>11 DEF Linked
<1>13. Linked(q2, 0, Null, next')
  BY DEF Linked
<1>14. \A u \in Threads : \A i \in 1..entry+n : f2[i] # block[u]
  BY <1>6 DEF Lists
<1>15. ASSUME NEW c \in Blocks
       PROVE  \/ \E i \in 1..entry+n : f2[i] = c
              \/ \E u \in Threads : block[u] = c
  <2>1. ASSUME NEW i \in 1..entry, q[i] = c PROVE \E k \in 1..entry+n : f2[k] = c
    <3>1. PICK l : l = entry + 1 - i
      OBVIOUS
    <3>2. l \in 1..entry+n /\ l <= entry /\ entry + 1 - l = i
      BY <1>1, <3>1
    <3> QED
      BY <1>6, <2>1, <3>2
  <2>2. ASSUME NEW j \in 1..n, f[j] = c PROVE \E k \in 1..entry+n : f2[k] = c
    <3>1. PICK l : l = entry + j
      OBVIOUS
    <3>2. l \in 1..entry+n /\ ~(l <= entry) /\ l - entry = j
      BY <1>1, <3>1
    <3> QED
      BY <1>6, <2>2, <3>2
  <2> QED
    BY <2>1, <2>2 DEF Lists
<1>16. \A u, v \in Threads : block[u] # Null /\ block[v] # Null /\ block[u] = block[v] => u = v
  BY DEF Lists, Copying
<1>17. 1..0 = {}
  OBVIOUS
<1>18. /\ Linked(q2, entry', msg_queue_head', next') /\ Linked(f2, n2, msg_queue_free', next')
       /\ msg_queue_tail' = IF entry' = 0 THEN Null ELSE q2[entry']
       /\ \A i \in 1..entry', j \in 1..n2 : q2[i] # f2[j]
  BY <1>3, <1>12, <1>13, <1>17
<1>19. \A u \in Threads : /\ \A i \in 1..entry' : q2[i] # block'[u]
                          /\ \A j \in 1..n2 : f2[j] # block'[u]
  BY <1>3, <1>14, <1>17
<1>20. \A u, v \in Copying' : block'[u] = block'[v] => u = v
  BY <1>3, <1>16 DEF Copying
<1>21. \A c \in Blocks : \/ \E i \in 1..entry' : q2[i] = c
                         \/ \E j \in 1..n2 : f2[j] = c
                         \/ \E u \in Threads : block'[u] = c
  BY <1>3, <1>15
<1> QED
  BY <1>18, <1>19, <1>20, <1>21 DEF Lists

(***************************************************************************)
(* Counting                                                                *)
(***************************************************************************)

\* The woken threads are finitely many.
LEMMA WokenFinite ==
    ASSUME NEW where
    PROVE  /\ IsFiniteSet(Woken(where)) /\ Cardinality(Woken(where)) \in Nat
           /\ IsFiniteSet(Woken(where)') /\ Cardinality(Woken(where)') \in Nat
<1>1. Woken(where) \subseteq Threads /\ Woken(where)' \subseteq Threads
  BY DEF Woken
<1> QED
  BY <1>1, ThreadsAssumption, FS_Subset, FS_CardinalityType

\* While a thread has a block the queue is not full.
LEMMA RoomForOne ==
    ASSUME TypeOK, NEW t \in Threads, block[t] # Null,
           NEW q, NEW f, NEW n, Lists(q, f, n)
    PROVE  entry < Size
<1>1. PICK b : b = block[t]
  OBVIOUS
<1>2. b \in Blocks /\ b \in 1..Size
  BY <1>1 DEF TypeOK, Blocks
<1>3. PICK S : S = Members(q, entry)
  OBVIOUS
<1>4. IsFiniteSet(S) /\ Cardinality(S) = entry /\ S \subseteq Blocks
  BY <1>3, LinkedCount DEF Lists
<1>5. b \notin S
  BY <1>1, <1>3 DEF Lists, Members
<1>6. IsFiniteSet(1..Size) /\ Cardinality(1..Size) = Size
  <2>1. 1 \in Int /\ Size \in Int /\ Size >= 1
    BY SizeAssumption
  <2>2. IsFiniteSet(1..Size) /\ Cardinality(1..Size) = IF 1 > Size THEN 0 ELSE Size - 1 + 1
    BY <2>1, FS_Interval
  <2> QED
    BY <2>1, <2>2
<1>7. S \cup {b} \subseteq 1..Size
  BY <1>2, <1>4 DEF Blocks
<1>8. Size >= entry + 1
  BY <1>4, <1>5, <1>6, <1>7, CountAdd
<1> QED
  BY <1>8, SizeAssumption DEF TypeOK

(***************************************************************************)
(* Every stretch of a call keeps the invariant                             *)
(***************************************************************************)

\* A sender takes a free block.
LEMMA ReserveInv ==
    ASSUME Inv, NEW t \in Threads, NEW m \in Messages, NEW link \in {"link", "link_urgent"},
           pc[t] \in {"idle", "send"}, Runs(t), Reserve(t, m, link)
    PROVE  Inv'
<1>1. TypeOK /\ Calls /\ CopyIntact /\ WokenReceivers
  BY DEF Inv
<1>2. PICK q, f, n : Lists(q, f, n) /\ WokenSenders(n)
  BY DEF Inv
<1>3. block[t] = Null
  BY <1>1 DEF Calls
<1>4. PICK f2 : f2 = Popped(f, n)
  OBVIOUS
<1>5. Lists(q, f2, n - 1)' /\ n # 0 /\ n \in Nat
  BY <1>1, <1>2, <1>3, <1>4, ReserveLists, ListFacts
<1>6. /\ UNCHANGED <<next, content, msg_queue_head, msg_queue_tail, entry>>
      /\ UNCHANGED <<suspend_thread, suspend_sender_thread, error, timeout, got>>
      /\ msg_queue_free' = next[msg_queue_free] /\ msg_queue_free # Null
      /\ block' = [block EXCEPT ![t] = msg_queue_free]
      /\ msg' = [msg EXCEPT ![t] = m] /\ pc' = [pc EXCEPT ![t] = link]
  BY DEF Reserve, queue, lists
<1>7. TypeOK'
  BY <1>1, <1>6 DEF TypeOK
<1>8. \A u \in Threads : /\ block'[u] = IF u = t THEN msg_queue_free ELSE block[u]
                         /\ msg'[u] = IF u = t THEN m ELSE msg[u]
                         /\ pc'[u] = IF u = t THEN link ELSE pc[u]
  BY <1>1, <1>6 DEF TypeOK
<1>9. t \notin ToSet(suspend_thread) /\ t \notin ToSet(suspend_sender_thread)
  BY DEF Runs, Listed
<1>10. /\ \A u \in ToSet(suspend_thread) : u \in Threads
       /\ \A u \in ToSet(suspend_sender_thread) : u \in Threads
  BY <1>1 DEF TypeOK, ToSet
<1>11. Calls'
  <2>1. /\ \A u \in ToSet(suspend_thread) : pc'[u] = "recv" /\ error'[u] = "EOK"
        /\ \A u \in ToSet(suspend_sender_thread) : pc'[u] = "send" /\ error'[u] = "EOK"
    BY <1>1, <1>6, <1>8, <1>9, <1>10 DEF Calls
  <2>2. \A u \in Threads : block'[u] # Null <=> pc'[u] \in {"link", "link_urgent", "copy"}
    BY <1>1, <1>6, <1>8 DEF Calls
  <2>3. \A u \in Threads : pc'[u] \in {"send", "link", "link_urgent"} => msg'[u] \in Messages
    BY <1>1, <1>8 DEF Calls
  <2> QED
    BY <1>1, <1>6, <2>1, <2>2, <2>3 DEF Calls
<1>12. CopyIntact'
  BY <1>1, <1>6, <1>8 DEF CopyIntact
<1>13. WokenReceivers'
  <2>1. Woken("recv")' = Woken("recv")
    BY <1>6, <1>8 DEF Woken, Runs, Listed
  <2> QED
    BY <1>1, <1>6, <2>1 DEF WokenReceivers
<1>14. WokenSenders(n - 1)'
  <2> SUFFICES ASSUME suspend_sender_thread # <<>>
               PROVE  Cardinality(Woken("send")') >= n - 1
    BY <1>6 DEF WokenSenders
  <2>1. Woken("send") \ {t} \subseteq Woken("send")'
    BY <1>6, <1>8 DEF Woken, Runs, Listed
  <2>2. Cardinality(Woken("send")') >= Cardinality(Woken("send")) - 1
    BY <2>1, WokenFinite, CountRemove
  <2>3. Cardinality(Woken("send")) >= n
    BY <1>2 DEF WokenSenders
  <2> QED
    BY <1>5, <2>2, <2>3, WokenFinite
<1> QED
  BY <1>5, <1>7, <1>11, <1>12, <1>13, <1>14 DEF Inv

\* A receiver takes the head of the queue.
LEMMA UnlinkInv ==
    ASSUME Inv, NEW t \in Threads, pc[t] \in {"idle", "recv"}, Runs(t), Unlink(t)
    PROVE  Inv'
<1>1. TypeOK /\ Calls /\ CopyIntact /\ WokenReceivers
  BY DEF Inv
<1>2. PICK q, f, n : Lists(q, f, n) /\ WokenSenders(n)
  BY DEF Inv
<1>3. block[t] = Null
  BY <1>1 DEF Calls
<1>4. PICK q2 : q2 = Popped(q, entry)
  OBVIOUS
<1>5. Lists(q2, f, n)'
  BY <1>1, <1>2, <1>3, <1>4, UnlinkLists
<1>6. PICK b : b = msg_queue_head
  OBVIOUS
<1>7. /\ UNCHANGED <<next, content, msg_queue_free>>
      /\ UNCHANGED <<suspend_thread, suspend_sender_thread, error, timeout>>
      /\ entry > 0 /\ entry' = entry - 1 /\ msg_queue_head' = next[b]
      /\ msg_queue_tail' = IF msg_queue_tail = b THEN Null ELSE msg_queue_tail
      /\ block' = [block EXCEPT ![t] = b]
      /\ msg' = [msg EXCEPT ![t] = content[b]] /\ pc' = [pc EXCEPT ![t] = "copy"]
      /\ got' = content[b]
  BY <1>6 DEF Unlink, lists
<1>8. b \in Blocks /\ b # Null
  <2>1. /\ entry \in Nat /\ q \in [1..entry -> Blocks] /\ Null \notin Blocks
        /\ entry # 0 => b = q[1]
    BY <1>1, <1>2, <1>6, ListFacts
  <2>2. 1 \in 1..entry
    BY <1>7, <2>1
  <2> QED
    BY <1>7, <2>1, <2>2
<1>9. TypeOK'
  <2>1. entry' \in 0..Size
    BY <1>1, <1>7, SizeAssumption DEF TypeOK
  <2> QED
    BY <1>1, <1>7, <1>8, <2>1 DEF TypeOK
<1>10. \A u \in Threads : /\ block'[u] = IF u = t THEN b ELSE block[u]
                          /\ msg'[u] = IF u = t THEN content[b] ELSE msg[u]
                          /\ pc'[u] = IF u = t THEN "copy" ELSE pc[u]
  BY <1>1, <1>7 DEF TypeOK
<1>11. t \notin ToSet(suspend_thread) /\ t \notin ToSet(suspend_sender_thread)
  BY DEF Runs, Listed
<1>12. /\ \A u \in ToSet(suspend_thread) : u \in Threads
       /\ \A u \in ToSet(suspend_sender_thread) : u \in Threads
  BY <1>1 DEF TypeOK, ToSet
<1>13. Calls'
  <2>1. /\ \A u \in ToSet(suspend_thread) : pc'[u] = "recv" /\ error'[u] = "EOK"
        /\ \A u \in ToSet(suspend_sender_thread) : pc'[u] = "send" /\ error'[u] = "EOK"
    BY <1>1, <1>7, <1>10, <1>11, <1>12 DEF Calls
  <2>2. \A u \in Threads : block'[u] # Null <=> pc'[u] \in {"link", "link_urgent", "copy"}
    BY <1>1, <1>8, <1>10 DEF Calls
  <2>3. \A u \in Threads : pc'[u] \in {"send", "link", "link_urgent"} => msg'[u] \in Messages
    BY <1>1, <1>10 DEF Calls
  <2> QED
    BY <1>1, <1>7, <2>1, <2>2, <2>3 DEF Calls
<1>14. CopyIntact'
  BY <1>1, <1>7, <1>10 DEF CopyIntact
<1>15. WokenReceivers'
  <2> SUFFICES ASSUME suspend_thread # <<>>
               PROVE  Cardinality(Woken("recv")') >= entry - 1
    BY <1>7 DEF WokenReceivers
  <2>1. Woken("recv") \ {t} \subseteq Woken("recv")'
    BY <1>7, <1>10 DEF Woken, Runs, Listed
  <2>2. Cardinality(Woken("recv")') >= Cardinality(Woken("recv")) - 1
    BY <2>1, WokenFinite, CountRemove
  <2>3. Cardinality(Woken("recv")) >= entry
    BY <1>1 DEF WokenReceivers
  <2>4. entry \in Nat
    BY <1>1, SizeAssumption DEF TypeOK
  <2> QED
    BY <2>2, <2>3, <2>4, WokenFinite
<1>16. WokenSenders(n)'
  <2>1. Woken("send")' = Woken("send")
    BY <1>7, <1>10 DEF Woken, Runs, Listed
  <2> QED
    BY <1>2, <1>7, <2>1 DEF WokenSenders
<1> QED
  BY <1>5, <1>9, <1>13, <1>14, <1>15, <1>16 DEF Inv

\* A sender links its block into the queue and one receiver runs.
LEMMA LinkInv ==
    ASSUME Inv, NEW t \in Threads,
           (pc[t] = "link" /\ Link(t)) \/ (pc[t] = "link_urgent" /\ LinkUrgent(t))
    PROVE  Inv'
<1>1. TypeOK /\ Calls /\ CopyIntact /\ WokenReceivers
  BY DEF Inv
<1>2. PICK q, f, n : Lists(q, f, n) /\ WokenSenders(n)
  BY DEF Inv
<1>3. block[t] # Null /\ msg[t] \in Messages /\ pc[t] \in {"link", "link_urgent"}
  BY <1>1 DEF Calls
<1>4. PICK b : b = block[t]
  OBVIOUS
<1>5. b \in Blocks
  BY <1>1, <1>3, <1>4 DEF TypeOK
<1>6. PICK q2 : Lists(q2, f, n)'
  <2>1. PICK q3 : q3 = Appended(q, entry, block[t])
    OBVIOUS
  <2>2. PICK q4 : q4 = Pushed(q, entry, block[t])
    OBVIOUS
  <2>3. CASE Link(t)
    BY <1>1, <1>2, <1>3, <2>1, <2>3, LinkLists
  <2>4. CASE LinkUrgent(t)
    BY <1>1, <1>2, <1>3, <2>2, <2>4, LinkUrgentLists
  <2> QED
    BY <2>3, <2>4
<1>7. /\ content' = [content EXCEPT ![b] = msg[t]] /\ entry' = entry + 1
      /\ suspend_thread' = RestOf(suspend_thread)
      /\ UNCHANGED <<msg_queue_free, suspend_sender_thread, got>>
      /\ Return(t)
  BY <1>4 DEF Link, LinkUrgent
<1>8. next' \in [Blocks -> Blocks \cup {Null}]
  <2>1. CASE Link(t)
    BY <1>1, <1>4, <1>5, <2>1 DEF Link, TypeOK
  <2>2. CASE LinkUrgent(t)
    BY <1>1, <1>4, <1>5, <2>2 DEF LinkUrgent, TypeOK
  <2> QED
    BY <2>1, <2>2
<1>9. msg_queue_head' \in Blocks \cup {Null} /\ msg_queue_tail' \in Blocks \cup {Null}
  BY <1>1, <1>4, <1>5 DEF Link, LinkUrgent, TypeOK
<1>10. entry' \in 0..Size /\ entry \in Nat
  <2>1. entry < Size
    BY <1>1, <1>2, <1>3, RoomForOne
  <2> QED
    BY <1>1, <1>7, <2>1, SizeAssumption DEF TypeOK
<1>11. \A u \in Threads : /\ block'[u] = IF u = t THEN Null ELSE block[u]
                          /\ msg'[u] = IF u = t THEN NoMessage ELSE msg[u]
                          /\ pc'[u] = IF u = t THEN "idle" ELSE pc[u]
                          /\ error'[u] = IF u = t THEN "EOK" ELSE error[u]
  BY <1>1, <1>7 DEF TypeOK, Return
<1>12. /\ suspend_thread \in Seq(Threads) /\ IsInjective(suspend_thread)
       /\ suspend_sender_thread \in Seq(Threads)
  BY <1>1 DEF TypeOK, Calls
<1>13. /\ suspend_thread' \in Seq(Threads) /\ IsInjective(suspend_thread')
       /\ ToSet(suspend_thread') \subseteq ToSet(suspend_thread)
       /\ suspend_thread = <<>> => suspend_thread' = <<>>
       /\ suspend_thread # <<>> =>
             /\ Head(suspend_thread) \in ToSet(suspend_thread)
             /\ ToSet(suspend_thread') = ToSet(suspend_thread) \ {Head(suspend_thread)}
  BY <1>7, <1>12, RestOfProperties
<1>14. TypeOK'
  <2>1. content' \in [Blocks -> Messages \cup {NoMessage}]
    BY <1>1, <1>3, <1>5, <1>7 DEF TypeOK
  <2>2. /\ pc' \in [Threads -> {"idle", "send", "recv", "link", "link_urgent", "copy"}]
        /\ error' \in [Threads -> {"EOK", "ETIMEOUT", "ERROR"}]
        /\ timeout' \in [Threads -> Timeouts]
        /\ msg' \in [Threads -> Messages \cup {NoMessage}]
        /\ block' \in [Threads -> Blocks \cup {Null}]
    BY <1>1, <1>7 DEF TypeOK, Return, Timeouts
  <2> QED
    BY <1>1, <1>7, <1>8, <1>9, <1>10, <1>13, <2>1, <2>2 DEF TypeOK
<1>15. /\ \A u \in ToSet(suspend_thread) : u \in Threads /\ u # t
       /\ \A u \in ToSet(suspend_sender_thread) : u \in Threads /\ u # t
  <2>1. /\ \A u \in ToSet(suspend_thread) : u \in Threads
        /\ \A u \in ToSet(suspend_sender_thread) : u \in Threads
    BY <1>12 DEF ToSet
  <2> QED
    BY <1>1, <1>3, <2>1 DEF Calls
<1>16. Calls'
  <2>1. /\ \A u \in ToSet(suspend_thread') : pc'[u] = "recv" /\ error'[u] = "EOK"
        /\ \A u \in ToSet(suspend_sender_thread') : pc'[u] = "send" /\ error'[u] = "EOK"
    BY <1>1, <1>7, <1>11, <1>13, <1>15 DEF Calls
  <2>2. \A u \in Threads : block'[u] # Null <=> pc'[u] \in {"link", "link_urgent", "copy"}
    BY <1>1, <1>11 DEF Calls
  <2>3. \A u \in Threads : pc'[u] \in {"send", "link", "link_urgent"} => msg'[u] \in Messages
    BY <1>1, <1>11 DEF Calls
  <2>4. IsInjective(suspend_sender_thread')
    BY <1>1, <1>7 DEF Calls
  <2> QED
    BY <1>13, <2>1, <2>2, <2>3, <2>4 DEF Calls
<1>17. CopyIntact'
  <2> SUFFICES ASSUME NEW u \in Threads, pc'[u] = "copy"
               PROVE  content'[block'[u]] = msg'[u]
    BY DEF CopyIntact
  <2>1. u # t /\ pc[u] = "copy" /\ block'[u] = block[u] /\ msg'[u] = msg[u]
    BY <1>11
  <2>2. block[u] \in Blocks /\ block[u] # Null
    BY <1>1, <2>1 DEF Calls, TypeOK
  <2>3. block[u] # b
    BY <1>2, <1>3, <1>4, <2>1, <2>2 DEF Lists, Copying
  <2>4. content'[block[u]] = content[block[u]]
    BY <1>1, <1>7, <2>2, <2>3 DEF TypeOK
  <2> QED
    BY <1>1, <2>1, <2>4 DEF CopyIntact
<1>18. WokenReceivers'
  <2> SUFFICES ASSUME suspend_thread' # <<>>
               PROVE  Cardinality(Woken("recv")') >= entry + 1
    BY <1>7 DEF WokenReceivers
  <2>1. PICK h : h = Head(suspend_thread)
    OBVIOUS
  <2>2. /\ h \in ToSet(suspend_thread) /\ h \in Threads /\ h # t /\ suspend_thread # <<>>
        /\ ToSet(suspend_thread') = ToSet(suspend_thread) \ {h}
    BY <1>13, <1>15, <2>1
  <2>3. pc[h] = "recv" /\ error[h] = "EOK" /\ h \notin ToSet(suspend_sender_thread)
    BY <1>1, <2>2 DEF Calls
  <2>4. h \notin Woken("recv") /\ Woken("recv") \cup {h} \subseteq Woken("recv")'
    BY <1>3, <1>7, <1>11, <2>2, <2>3 DEF Woken, Runs, Listed
  <2>5. Cardinality(Woken("recv")') >= Cardinality(Woken("recv")) + 1
    BY <2>4, WokenFinite, CountAdd
  <2>6. Cardinality(Woken("recv")) >= entry
    BY <1>1, <2>2 DEF WokenReceivers
  <2> QED
    BY <1>10, <2>5, <2>6, WokenFinite
<1>19. WokenSenders(n)'
  <2>1. Woken("send") \subseteq Woken("send")'
    BY <1>3, <1>7, <1>11, <1>13 DEF Woken, Runs, Listed
  <2>2. Cardinality(Woken("send")) <= Cardinality(Woken("send")')
    BY <2>1, WokenFinite, FS_Subset
  <2>3. n \in Nat
    BY <1>1, <1>2, ListFacts
  <2> QED
    BY <1>2, <1>7, <2>2, <2>3, WokenFinite DEF WokenSenders
<1> QED
  BY <1>6, <1>14, <1>16, <1>17, <1>18, <1>19 DEF Inv

\* A receiver frees its block and one sender runs.
LEMMA FreeInv ==
    ASSUME Inv, NEW t \in Threads, pc[t] = "copy", Free(t)
    PROVE  Inv'
<1>1. TypeOK /\ Calls /\ CopyIntact /\ WokenReceivers
  BY DEF Inv
<1>2. PICK q, f, n : Lists(q, f, n) /\ WokenSenders(n)
  BY DEF Inv
<1>3. block[t] # Null
  BY <1>1 DEF Calls
<1>4. PICK b : b = block[t]
  OBVIOUS
<1>5. b \in Blocks
  BY <1>1, <1>3, <1>4 DEF TypeOK
<1>6. PICK f2 : f2 = Pushed(f, n, block[t])
  OBVIOUS
<1>7. Lists(q, f2, n + 1)' /\ n \in Nat
  BY <1>1, <1>2, <1>3, <1>6, FreeLists, ListFacts
<1>8. /\ next' = [next EXCEPT ![b] = msg_queue_free] /\ msg_queue_free' = b
      /\ suspend_sender_thread' = RestOf(suspend_sender_thread)
      /\ UNCHANGED <<content, msg_queue_head, msg_queue_tail, entry, suspend_thread, got>>
      /\ Return(t)
  BY <1>4 DEF Free, queue
<1>9. \A u \in Threads : /\ block'[u] = IF u = t THEN Null ELSE block[u]
                         /\ msg'[u] = IF u = t THEN NoMessage ELSE msg[u]
                         /\ pc'[u] = IF u = t THEN "idle" ELSE pc[u]
                         /\ error'[u] = IF u = t THEN "EOK" ELSE error[u]
  BY <1>1, <1>8 DEF TypeOK, Return
<1>10. /\ suspend_sender_thread \in Seq(Threads) /\ IsInjective(suspend_sender_thread)
       /\ suspend_thread \in Seq(Threads)
  BY <1>1 DEF TypeOK, Calls
<1>11. /\ suspend_sender_thread' \in Seq(Threads) /\ IsInjective(suspend_sender_thread')
       /\ ToSet(suspend_sender_thread') \subseteq ToSet(suspend_sender_thread)
       /\ suspend_sender_thread = <<>> => suspend_sender_thread' = <<>>
       /\ suspend_sender_thread # <<>> =>
             /\ Head(suspend_sender_thread) \in ToSet(suspend_sender_thread)
             /\ ToSet(suspend_sender_thread') =
                   ToSet(suspend_sender_thread) \ {Head(suspend_sender_thread)}
  BY <1>8, <1>10, RestOfProperties
<1>12. TypeOK'
  <2>1. next' \in [Blocks -> Blocks \cup {Null}] /\ msg_queue_free' \in Blocks \cup {Null}
    BY <1>1, <1>5, <1>8 DEF TypeOK
  <2>2. /\ pc' \in [Threads -> {"idle", "send", "recv", "link", "link_urgent", "copy"}]
        /\ error' \in [Threads -> {"EOK", "ETIMEOUT", "ERROR"}]
        /\ timeout' \in [Threads -> Timeouts]
        /\ msg' \in [Threads -> Messages \cup {NoMessage}]
        /\ block' \in [Threads -> Blocks \cup {Null}]
    BY <1>1, <1>8 DEF TypeOK, Return, Timeouts
  <2> QED
    BY <1>1, <1>8, <1>11, <2>1, <2>2 DEF TypeOK
<1>13. /\ \A u \in ToSet(suspend_thread) : u \in Threads /\ u # t
       /\ \A u \in ToSet(suspend_sender_thread) : u \in Threads /\ u # t
  <2>1. /\ \A u \in ToSet(suspend_thread) : u \in Threads
        /\ \A u \in ToSet(suspend_sender_thread) : u \in Threads
    BY <1>10 DEF ToSet
  <2> QED
    BY <1>1, <2>1 DEF Calls
<1>14. Calls'
  <2>1. /\ \A u \in ToSet(suspend_thread') : pc'[u] = "recv" /\ error'[u] = "EOK"
        /\ \A u \in ToSet(suspend_sender_thread') : pc'[u] = "send" /\ error'[u] = "EOK"
    BY <1>1, <1>8, <1>9, <1>11, <1>13 DEF Calls
  <2>2. \A u \in Threads : block'[u] # Null <=> pc'[u] \in {"link", "link_urgent", "copy"}
    BY <1>1, <1>9 DEF Calls
  <2>3. \A u \in Threads : pc'[u] \in {"send", "link", "link_urgent"} => msg'[u] \in Messages
    BY <1>1, <1>9 DEF Calls
  <2>4. IsInjective(suspend_thread')
    BY <1>1, <1>8 DEF Calls
  <2> QED
    BY <1>11, <2>1, <2>2, <2>3, <2>4 DEF Calls
<1>15. CopyIntact'
  BY <1>1, <1>8, <1>9 DEF CopyIntact
<1>16. WokenSenders(n + 1)'
  <2> SUFFICES ASSUME suspend_sender_thread' # <<>>
               PROVE  Cardinality(Woken("send")') >= n + 1
    BY DEF WokenSenders
  <2>1. PICK h : h = Head(suspend_sender_thread)
    OBVIOUS
  <2>2. /\ h \in ToSet(suspend_sender_thread) /\ h \in Threads /\ h # t
        /\ suspend_sender_thread # <<>>
        /\ ToSet(suspend_sender_thread') = ToSet(suspend_sender_thread) \ {h}
    BY <1>11, <1>13, <2>1
  <2>3. pc[h] = "send" /\ error[h] = "EOK" /\ h \notin ToSet(suspend_thread)
    BY <1>1, <2>2 DEF Calls
  <2>4. h \notin Woken("send") /\ Woken("send") \cup {h} \subseteq Woken("send")'
    BY <1>8, <1>9, <2>2, <2>3 DEF Woken, Runs, Listed
  <2>5. Cardinality(Woken("send")') >= Cardinality(Woken("send")) + 1
    BY <2>4, WokenFinite, CountAdd
  <2>6. Cardinality(Woken("send")) >= n
    BY <1>2, <2>2 DEF WokenSenders
  <2> QED
    BY <1>7, <2>5, <2>6, WokenFinite
<1>17. WokenReceivers'
  <2>1. Woken("recv") \subseteq Woken("recv")'
    BY <1>8, <1>9, <1>11 DEF Woken, Runs, Listed
  <2>2. Cardinality(Woken("recv")) <= Cardinality(Woken("recv")')
    BY <2>1, WokenFinite, FS_Subset
  <2>3. entry \in Nat
    BY <1>1, SizeAssumption DEF TypeOK
  <2> QED
    BY <1>1, <1>8, <2>2, <2>3, WokenFinite DEF WokenReceivers
<1> QED
  BY <1>7, <1>12, <1>14, <1>15, <1>16, <1>17 DEF Inv

\* A thread begins to wait, for a block or for a message.
LEMMA WaitInv ==
    ASSUME Inv, NEW t \in Threads, NEW where \in {"send", "recv"},
           NEW m \in Messages \cup {NoMessage}, NEW time \in Timeouts,
           pc[t] \in {"idle", where}, Runs(t), Wait(t, where, m, time),
           where = "send" => m \in Messages /\ msg_queue_free = Null,
           where = "recv" => entry = 0
    PROVE  Inv'
<1>1. TypeOK /\ Calls /\ CopyIntact /\ WokenReceivers
  BY DEF Inv
<1>2. PICK q, f, n : Lists(q, f, n) /\ WokenSenders(n)
  BY DEF Inv
<1>3. /\ UNCHANGED <<pool, block, got>>
      /\ UNCHANGED <<next, content, msg_queue_head, msg_queue_tail, entry, msg_queue_free>>
      /\ pc' = [pc EXCEPT ![t] = where] /\ error' = [error EXCEPT ![t] = "EOK"]
      /\ timeout' = [timeout EXCEPT ![t] = time] /\ msg' = [msg EXCEPT ![t] = m]
      /\ where = "send" => /\ suspend_sender_thread' = ListSuspend(suspend_sender_thread, t, Priority)
                           /\ suspend_thread' = suspend_thread
      /\ where = "recv" => /\ suspend_thread' = ListSuspend(suspend_thread, t, Priority)
                           /\ suspend_sender_thread' = suspend_sender_thread
  BY DEF Wait, pool, queue
<1>4. Lists(q, f, n)'
  BY <1>2, <1>3, KeepLists
<1>5. \A u \in Threads : /\ msg'[u] = IF u = t THEN m ELSE msg[u]
                         /\ pc'[u] = IF u = t THEN where ELSE pc[u]
                         /\ error'[u] = IF u = t THEN "EOK" ELSE error[u]
  BY <1>1, <1>3 DEF TypeOK
<1>6. /\ suspend_thread \in Seq(Threads) /\ IsInjective(suspend_thread)
      /\ suspend_sender_thread \in Seq(Threads) /\ IsInjective(suspend_sender_thread)
  BY <1>1 DEF TypeOK, Calls
<1>7. t \notin ToSet(suspend_thread) /\ t \notin ToSet(suspend_sender_thread)
  BY DEF Runs, Listed
<1>8. /\ suspend_thread' \in Seq(Threads) /\ IsInjective(suspend_thread')
      /\ ToSet(suspend_thread') =
            IF where = "recv" THEN ToSet(suspend_thread) \cup {t} ELSE ToSet(suspend_thread)
  <2>1. CASE where = "recv"
    <3>1. suspend_thread' = ListSuspend(suspend_thread, t, Priority)
      BY <1>3, <2>1
    <3>2. /\ suspend_thread' \in Seq(Threads) /\ IsInjective(suspend_thread')
          /\ ToSet(suspend_thread') = ToSet(suspend_thread) \cup {t}
      BY <1>6, <1>7, <3>1, PriorityAssumption, ListSuspendProperties
    <3> QED
      BY <2>1, <3>2
  <2>2. CASE where = "send"
    BY <1>3, <1>6, <2>2
  <2> QED
    BY <2>1, <2>2
<1>9. /\ suspend_sender_thread' \in Seq(Threads) /\ IsInjective(suspend_sender_thread')
      /\ ToSet(suspend_sender_thread') =
            IF where = "send" THEN ToSet(suspend_sender_thread) \cup {t}
            ELSE ToSet(suspend_sender_thread)
  <2>1. CASE where = "send"
    <3>1. suspend_sender_thread' = ListSuspend(suspend_sender_thread, t, Priority)
      BY <1>3, <2>1
    <3>2. /\ suspend_sender_thread' \in Seq(Threads) /\ IsInjective(suspend_sender_thread')
          /\ ToSet(suspend_sender_thread') = ToSet(suspend_sender_thread) \cup {t}
      BY <1>6, <1>7, <3>1, PriorityAssumption, ListSuspendProperties
    <3> QED
      BY <2>1, <3>2
  <2>2. CASE where = "recv"
    BY <1>3, <1>6, <2>2
  <2> QED
    BY <2>1, <2>2
<1>10. TypeOK'
  BY <1>1, <1>3, <1>8, <1>9 DEF TypeOK
<1>11. /\ \A u \in ToSet(suspend_thread) : u \in Threads
       /\ \A u \in ToSet(suspend_sender_thread) : u \in Threads
  BY <1>6 DEF ToSet
<1>12. Calls'
  <2>1. \A u \in ToSet(suspend_thread') : pc'[u] = "recv" /\ error'[u] = "EOK"
    BY <1>1, <1>5, <1>7, <1>8, <1>11 DEF Calls
  <2>2. \A u \in ToSet(suspend_sender_thread') : pc'[u] = "send" /\ error'[u] = "EOK"
    BY <1>1, <1>5, <1>7, <1>9, <1>11 DEF Calls
  <2>3. \A u \in Threads : block'[u] # Null <=> pc'[u] \in {"link", "link_urgent", "copy"}
    BY <1>1, <1>3, <1>5 DEF Calls
  <2>4. \A u \in Threads : pc'[u] \in {"send", "link", "link_urgent"} => msg'[u] \in Messages
    BY <1>1, <1>5 DEF Calls
  <2> QED
    BY <1>8, <1>9, <2>1, <2>2, <2>3, <2>4 DEF Calls
<1>13. CopyIntact'
  BY <1>1, <1>3, <1>5 DEF CopyIntact
<1>14. WokenReceivers'
  <2>1. CASE where = "recv"
    <3>1. entry' = 0
      BY <1>3, <2>1
    <3> QED
      BY <3>1, WokenFinite DEF WokenReceivers
  <2>2. CASE where = "send"
    <3>1. Woken("recv")' = Woken("recv")
      <4>1. \A u \in Threads : pc[u] = "recv" => u # t
        BY <2>2
      <4> QED
        BY <1>5, <1>8, <1>9, <2>2, <4>1 DEF Woken, Runs, Listed
    <3> QED
      BY <1>1, <1>3, <2>2, <3>1 DEF WokenReceivers
  <2> QED
    BY <2>1, <2>2
<1>15. WokenSenders(n)'
  <2>1. CASE where = "send"
    <3>1. n = 0
      BY <1>1, <1>2, <2>1, ListFacts
    <3> QED
      BY <3>1, WokenFinite DEF WokenSenders
  <2>2. CASE where = "recv"
    <3>1. Woken("send")' = Woken("send")
      <4>1. \A u \in Threads : pc[u] = "send" => u # t
        BY <2>2
      <4> QED
        BY <1>5, <1>8, <1>9, <2>2, <4>1 DEF Woken, Runs, Listed
    <3> QED
      BY <1>2, <1>3, <2>2, <3>1 DEF WokenSenders
  <2> QED
    BY <2>1, <2>2
<1> QED
  BY <1>4, <1>10, <1>12, <1>13, <1>14, <1>15 DEF Inv

\* A call fails after its wait.
LEMMA ReturnFailureInv ==
    ASSUME Inv, NEW t \in Threads, pc[t] \in {"send", "recv"}, Runs(t), ReturnFailure(t),
           \/ error[t] # "EOK"
           \/ pc[t] = "send" /\ msg_queue_free = Null
           \/ pc[t] = "recv" /\ entry = 0
    PROVE  Inv'
<1>1. TypeOK /\ Calls /\ CopyIntact /\ WokenReceivers
  BY DEF Inv
<1>2. PICK q, f, n : Lists(q, f, n) /\ WokenSenders(n)
  BY DEF Inv
<1>3. /\ UNCHANGED <<pool, got>> /\ Return(t)
      /\ UNCHANGED <<next, content, msg_queue_head, msg_queue_tail, entry, msg_queue_free>>
      /\ UNCHANGED <<suspend_thread, suspend_sender_thread>>
  BY DEF ReturnFailure, pool, queue, lists
<1>4. block[t] = Null
  BY <1>1 DEF Calls
<1>5. block' = block
  BY <1>1, <1>3, <1>4 DEF Return, TypeOK
<1>6. Lists(q, f, n)'
  BY <1>2, <1>3, <1>5, KeepLists
<1>7. \A u \in Threads : /\ msg'[u] = IF u = t THEN NoMessage ELSE msg[u]
                         /\ pc'[u] = IF u = t THEN "idle" ELSE pc[u]
                         /\ error'[u] = IF u = t THEN "EOK" ELSE error[u]
  BY <1>1, <1>3 DEF TypeOK, Return
<1>8. TypeOK'
  BY <1>1, <1>3, <1>5 DEF TypeOK, Return, Timeouts
<1>9. /\ \A u \in ToSet(suspend_thread) : u \in Threads /\ u # t
      /\ \A u \in ToSet(suspend_sender_thread) : u \in Threads /\ u # t
  BY <1>1 DEF TypeOK, ToSet, Runs, Listed
<1>10. Calls'
  <2>1. /\ \A u \in ToSet(suspend_thread) : pc'[u] = "recv" /\ error'[u] = "EOK"
        /\ \A u \in ToSet(suspend_sender_thread) : pc'[u] = "send" /\ error'[u] = "EOK"
    BY <1>1, <1>7, <1>9 DEF Calls
  <2>2. \A u \in Threads : block'[u] # Null <=> pc'[u] \in {"link", "link_urgent", "copy"}
    BY <1>1, <1>4, <1>5, <1>7 DEF Calls
  <2>3. \A u \in Threads : pc'[u] \in {"send", "link", "link_urgent"} => msg'[u] \in Messages
    BY <1>1, <1>7 DEF Calls
  <2> QED
    BY <1>1, <1>3, <2>1, <2>2, <2>3 DEF Calls
<1>11. CopyIntact'
  BY <1>1, <1>3, <1>5, <1>7 DEF CopyIntact
<1>12. /\ error[t] # "EOK" \/ pc[t] # "recv" => Woken("recv")' = Woken("recv")
       /\ error[t] # "EOK" \/ pc[t] # "send" => Woken("send")' = Woken("send")
  BY <1>3, <1>7 DEF Woken, Runs, Listed
<1>13. WokenReceivers'
  <2>1. CASE entry = 0
    BY <1>3, <2>1, WokenFinite DEF WokenReceivers
  <2>2. CASE entry # 0
    BY <1>1, <1>3, <1>12, <2>2 DEF WokenReceivers
  <2> QED
    BY <2>1, <2>2
<1>14. WokenSenders(n)'
  <2>1. CASE n = 0
    BY <2>1, WokenFinite DEF WokenSenders
  <2>2. CASE n # 0
    <3>1. msg_queue_free # Null
      BY <1>1, <1>2, <2>2, ListFacts
    <3> QED
      BY <1>2, <1>3, <1>12, <3>1 DEF WokenSenders
  <2> QED
    BY <2>1, <2>2
<1> QED
  BY <1>6, <1>8, <1>10, <1>11, <1>13, <1>14 DEF Inv

\* The timer of a waiting thread takes it off its list.
LEMMA TimeoutInv ==
    ASSUME Inv, NEW t \in Threads, rt_thread_timeout(t)
    PROVE  Inv'
<1>1. TypeOK /\ Calls /\ CopyIntact /\ WokenReceivers
  BY DEF Inv
<1>2. PICK q, f, n : Lists(q, f, n) /\ WokenSenders(n)
  BY DEF Inv
<1>3. /\ UNCHANGED <<pool, block>> /\ UNCHANGED <<pc, timeout, msg, got>>
      /\ UNCHANGED <<next, content, msg_queue_head, msg_queue_tail, entry, msg_queue_free>>
      /\ suspend_thread' = ListRemove(suspend_thread, t)
      /\ suspend_sender_thread' = ListRemove(suspend_sender_thread, t)
      /\ error' = [error EXCEPT ![t] = "ETIMEOUT"] /\ Listed(t)
  BY DEF rt_thread_timeout, pool, queue
<1>4. Lists(q, f, n)'
  BY <1>2, <1>3, KeepLists
<1>5. \A u \in Threads : error'[u] = IF u = t THEN "ETIMEOUT" ELSE error[u]
  BY <1>1, <1>3 DEF TypeOK
<1>6. /\ suspend_thread \in Seq(Threads) /\ IsInjective(suspend_thread)
      /\ suspend_sender_thread \in Seq(Threads) /\ IsInjective(suspend_sender_thread)
  BY <1>1 DEF TypeOK, Calls
<1>7. /\ suspend_thread' \in Seq(Threads) /\ IsInjective(suspend_thread')
      /\ ToSet(suspend_thread') = ToSet(suspend_thread) \ {t}
      /\ suspend_sender_thread' \in Seq(Threads) /\ IsInjective(suspend_sender_thread')
      /\ ToSet(suspend_sender_thread') = ToSet(suspend_sender_thread) \ {t}
  BY <1>3, <1>6, ListRemoveProperties
<1>8. TypeOK'
  BY <1>1, <1>3, <1>7 DEF TypeOK
<1>9. /\ \A u \in ToSet(suspend_thread) : u \in Threads
      /\ \A u \in ToSet(suspend_sender_thread) : u \in Threads
  BY <1>6 DEF ToSet
<1>10. Calls'
  <2>1. /\ \A u \in ToSet(suspend_thread') : pc'[u] = "recv" /\ error'[u] = "EOK"
        /\ \A u \in ToSet(suspend_sender_thread') : pc'[u] = "send" /\ error'[u] = "EOK"
    BY <1>1, <1>3, <1>5, <1>7, <1>9 DEF Calls
  <2>2. \A u \in Threads : block'[u] # Null <=> pc'[u] \in {"link", "link_urgent", "copy"}
    BY <1>1, <1>3 DEF Calls
  <2>3. \A u \in Threads : pc'[u] \in {"send", "link", "link_urgent"} => msg'[u] \in Messages
    BY <1>1, <1>3 DEF Calls
  <2> QED
    BY <1>7, <2>1, <2>2, <2>3 DEF Calls
<1>11. CopyIntact'
  BY <1>1, <1>3 DEF CopyIntact
<1>12. Woken("recv")' = Woken("recv") /\ Woken("send")' = Woken("send")
  BY <1>3, <1>5, <1>7 DEF Woken, Runs, Listed
<1>13. /\ suspend_thread' # <<>> => suspend_thread # <<>>
       /\ suspend_sender_thread' # <<>> => suspend_sender_thread # <<>>
  BY <1>3 DEF ListRemove, ToSet
<1>14. WokenReceivers' /\ WokenSenders(n)'
  BY <1>1, <1>2, <1>3, <1>12, <1>13 DEF WokenReceivers, WokenSenders
<1> QED
  BY <1>4, <1>8, <1>10, <1>11, <1>14 DEF Inv

\* A reset empties the queue and both lists of threads.
LEMMA ResetInv ==
    ASSUME Inv, rt_mq_control
    PROVE  Inv'
<1>1. TypeOK /\ Calls /\ CopyIntact /\ WokenReceivers
  BY DEF Inv
<1>2. PICK q, f, n : Lists(q, f, n) /\ WokenSenders(n)
  BY DEF Inv
<1>3. PICK q2 : q2 = [i \in 1..0 |-> Null]
  OBVIOUS
<1>4. PICK f2 : f2 = Reversed(q, entry, f, n)
  OBVIOUS
<1>5. PICK n2 : n2 = entry + n
  OBVIOUS
<1>6. Lists(q2, f2, n2)'
  BY <1>1, <1>2, <1>3, <1>4, <1>5, ResetLists
<1>7. /\ UNCHANGED <<content, pc, timeout, msg, block, got>>
      /\ msg_queue_head' = Null /\ msg_queue_tail' = Null /\ entry' = 0
      /\ suspend_thread' = <<>> /\ suspend_sender_thread' = <<>>
      /\ error' = [t \in Threads |-> IF Listed(t) THEN "ERROR" ELSE error[t]]
  BY DEF rt_mq_control
<1>8. Linked(f2, n2, msg_queue_free', next')
  BY <1>6 DEF Lists
<1>9. next' \in [Blocks -> Blocks \cup {Null}] /\ msg_queue_free' \in Blocks \cup {Null}
  <2>1. /\ entry \in Nat /\ q \in [1..entry -> Blocks]
    BY <1>1, <1>2, ListFacts
  <2>2. Queue = q
    BY <1>2, QueueIs DEF Lists
  <2>3. /\ next' = [b \in Blocks |->
              IF \E i \in 1..entry : q[i] = b
              THEN IF (CHOOSE j \in 1..entry : q[j] = b) = 1 THEN msg_queue_free
                   ELSE q[(CHOOSE j \in 1..entry : q[j] = b) - 1]
              ELSE next[b]]
        /\ msg_queue_free' = IF entry = 0 THEN msg_queue_free ELSE q[entry]
    BY <2>2 DEF rt_mq_control
  <2>4. ASSUME NEW b \in Blocks PROVE next'[b] \in Blocks \cup {Null}
    <3>1. CASE \E i \in 1..entry : q[i] = b
      <4>1. PICK k : k = CHOOSE j \in 1..entry : q[j] = b
        OBVIOUS
      <4>2. k \in 1..entry
        BY <3>1, <4>1
      <4>3. k # 1 => k - 1 \in 1..entry
        BY <2>1, <4>2
      <4>4. next'[b] = IF k = 1 THEN msg_queue_free ELSE q[k - 1]
        BY <2>3, <3>1, <4>1
      <4> QED
        BY <1>1, <2>1, <4>3, <4>4 DEF TypeOK
    <3>2. CASE ~(\E i \in 1..entry : q[i] = b)
      BY <1>1, <2>3, <3>2 DEF TypeOK
    <3> QED
      BY <3>1, <3>2
  <2>5. next' = [b \in Blocks |-> next'[b]]
    BY <2>3
  <2>6. next' \in [Blocks -> Blocks \cup {Null}]
    BY <2>4, <2>5
  <2>7. entry # 0 => entry \in 1..entry
    BY <2>1
  <2> QED
    BY <1>1, <2>1, <2>3, <2>6, <2>7 DEF TypeOK
<1>10. error' \in [Threads -> {"EOK", "ETIMEOUT", "ERROR"}]
  BY <1>1, <1>7 DEF TypeOK
<1>11. TypeOK'
  BY <1>1, <1>7, <1>9, <1>10, SizeAssumption DEF TypeOK
<1>12. ToSet(<<>>) = {} /\ IsInjective(<<>>)
  BY DEF ToSet, IsInjective
<1>13. Calls'
  BY <1>1, <1>7, <1>12 DEF Calls
<1>14. CopyIntact'
  BY <1>1, <1>7 DEF CopyIntact
<1>15. WokenReceivers' /\ WokenSenders(n2)'
  BY <1>7 DEF WokenReceivers, WokenSenders
<1> QED
  BY <1>6, <1>11, <1>13, <1>14, <1>15 DEF Inv

\* The initial state: every block is free.
LEMMA InitInv == Init => Inv
<1> SUFFICES ASSUME Init PROVE Inv
  OBVIOUS
<1> USE DEF Init
<1>1. Size \in Nat /\ Size # 0 /\ Size \in Blocks /\ Null \notin Blocks
  BY SizeAssumption DEF Blocks, Null
<1>2. TypeOK
  <2>1. next \in [Blocks -> Blocks \cup {Null}]
    BY SizeAssumption DEF Blocks, Null
  <2> QED
    BY <1>1, <2>1 DEF TypeOK, Timeouts
<1>3. ToSet(<<>>) = {} /\ IsInjective(<<>>)
  BY DEF ToSet, IsInjective
<1>4. Calls /\ CopyIntact
  BY <1>3 DEF Calls, CopyIntact
<1>5. PICK f : f = [i \in 1..Size |-> Size + 1 - i]
  OBVIOUS
<1>6. PICK q : q = [i \in 1..0 |-> Null]
  OBVIOUS
<1>7. \A i \in 1..Size : f[i] = Size + 1 - i /\ f[i] \in Blocks
  BY <1>1, <1>5 DEF Blocks
<1>8. Linked(f, Size, msg_queue_free, next)
  <2>1. f \in [1..Size -> Blocks]
    BY <1>5, <1>7
  <2>2. \A i, j \in 1..Size : f[i] = f[j] => i = j
    BY <1>1, <1>7
  <2>3. msg_queue_free = f[1]
    BY <1>1, <1>7
  <2>4. ASSUME NEW i \in 1..Size PROVE next[f[i]] = IF i = Size THEN Null ELSE f[i + 1]
    <3>1. next[f[i]] = Size - i
      <4>1. \A c \in Blocks : next[c] = c - 1
        OBVIOUS
      <4>2. f[i] \in Blocks /\ f[i] = Size + 1 - i
        BY <1>7
      <4>3. next[f[i]] = f[i] - 1
        BY <4>1, <4>2
      <4> QED
        BY <1>1, <4>2, <4>3
    <3>2. i # Size => i + 1 \in 1..Size /\ f[i + 1] = Size + 1 - (i + 1)
      BY <1>1, <1>7
    <3> QED
      BY <1>1, <3>1, <3>2 DEF Null
  <2> QED
    BY <1>1, <2>1, <2>2, <2>3, <2>4 DEF Linked
<1>9. 1..0 = {}
  OBVIOUS
<1>10. Linked(q, 0, Null, next)
  BY <1>6, <1>9 DEF Linked
<1>11. \A b \in Blocks : \E j \in 1..Size : f[j] = b
  <2> SUFFICES ASSUME NEW b \in Blocks PROVE \E j \in 1..Size : f[j] = b
    OBVIOUS
  <2>1. PICK j : j = Size + 1 - b
    OBVIOUS
  <2>2. j \in 1..Size /\ Size + 1 - j = b
    BY <1>1, <2>1 DEF Blocks
  <2> QED
    BY <1>7, <2>2
<1>12. Lists(q, f, Size)
  BY <1>1, <1>7, <1>8, <1>9, <1>10, <1>11 DEF Lists, Copying
<1>13. WokenReceivers /\ WokenSenders(Size)
  BY DEF WokenReceivers, WokenSenders
<1> QED
  BY <1>2, <1>4, <1>12, <1>13 DEF Inv

\* Every step keeps the invariant.
LEMMA NextInv == Inv /\ [Next]_vars => Inv'
<1> SUFFICES ASSUME Inv, [Next]_vars PROVE Inv'
  OBVIOUS
<1>1. TypeOK /\ Calls /\ CopyIntact /\ WokenReceivers
  BY DEF Inv
<1>2. \A t \in Threads : pc[t] = "idle" => Runs(t)
  BY <1>1 DEF Calls, Runs, Listed
<1>3. ASSUME NEW t \in Threads, NEW m \in Messages, rt_mq_urgent(t, m) PROVE Inv'
  BY <1>2, <1>3, ReserveInv DEF rt_mq_urgent
<1>4. ASSUME NEW t \in Threads, NEW m \in Messages, NEW time \in Timeouts,
             rt_mq_send_wait(t, m, time)
      PROVE  Inv'
  BY <1>2, <1>4, ReserveInv, WaitInv DEF rt_mq_send_wait
<1>5. ASSUME NEW t \in Threads, NEW time \in Timeouts, rt_mq_recv(t, time) PROVE Inv'
  BY <1>2, <1>5, UnlinkInv, WaitInv DEF rt_mq_recv
<1>6. \A t \in Threads : TimeLeft(t) \subseteq Timeouts
  BY <1>1 DEF TypeOK, TimeLeft, Timeouts
<1>7. ASSUME NEW t \in Threads, ContinueSend(t) PROVE Inv'
  <2>1. pc[t] = "send" /\ Runs(t) /\ msg[t] \in Messages
    BY <1>1, <1>7 DEF ContinueSend, Calls
  <2>2. CASE error[t] # "EOK" /\ ReturnFailure(t)
    BY <2>1, <2>2, ReturnFailureInv
  <2>3. CASE Reserve(t, msg[t], "link")
    BY <2>1, <2>3, ReserveInv
  <2>4. ASSUME msg_queue_free = Null, NEW time \in TimeLeft(t), Wait(t, "send", msg[t], time)
        PROVE  Inv'
    BY <1>6, <2>1, <2>4, WaitInv
  <2>5. CASE msg_queue_free = Null /\ ReturnFailure(t)
    BY <2>1, <2>5, ReturnFailureInv
  <2> QED
    BY <1>7, <2>2, <2>3, <2>4, <2>5 DEF ContinueSend
<1>8. ASSUME NEW t \in Threads, ContinueRecv(t) PROVE Inv'
  <2>1. pc[t] = "recv" /\ Runs(t)
    BY <1>8 DEF ContinueRecv
  <2>2. CASE error[t] # "EOK" /\ ReturnFailure(t)
    BY <2>1, <2>2, ReturnFailureInv
  <2>3. CASE Unlink(t)
    BY <2>1, <2>3, UnlinkInv
  <2>4. ASSUME entry = 0, NEW time \in TimeLeft(t), Wait(t, "recv", NoMessage, time)
        PROVE  Inv'
    BY <1>6, <2>1, <2>4, WaitInv
  <2>5. CASE entry = 0 /\ ReturnFailure(t)
    BY <2>1, <2>5, ReturnFailureInv
  <2> QED
    BY <1>8, <2>2, <2>3, <2>4, <2>5 DEF ContinueRecv
<1>9. ASSUME NEW t \in Threads, EndCopy(t) PROVE Inv'
  BY <1>9, LinkInv, FreeInv DEF EndCopy
<1>10. ASSUME NEW t \in Threads, rt_thread_timeout(t) PROVE Inv'
  BY <1>10, TimeoutInv
<1>11. CASE rt_mq_control
  BY <1>11, ResetInv
<1>12. CASE UNCHANGED vars
  <2>1. PICK q, f, n : Lists(q, f, n) /\ WokenSenders(n)
    BY DEF Inv
  <2>2. /\ UNCHANGED <<pool, block>>
        /\ UNCHANGED <<pc, error, timeout, msg, got, suspend_thread, suspend_sender_thread>>
        /\ UNCHANGED <<next, content, msg_queue_head, msg_queue_tail, entry, msg_queue_free>>
    BY <1>12 DEF vars, lists, pool, queue
  <2>3. Lists(q, f, n)'
    BY <2>1, <2>2, KeepLists
  <2>4. TypeOK' /\ Calls' /\ CopyIntact'
    BY <1>1, <2>2 DEF TypeOK, Calls, CopyIntact
  <2>5. Woken("recv")' = Woken("recv") /\ Woken("send")' = Woken("send")
    BY <2>2 DEF Woken, Runs, Listed
  <2>6. WokenReceivers' /\ WokenSenders(n)'
    BY <1>1, <2>1, <2>2, <2>5 DEF WokenReceivers, WokenSenders
  <2> QED
    BY <2>3, <2>4, <2>6 DEF Inv
<1> QED
  BY <1>3, <1>4, <1>5, <1>7, <1>8, <1>9, <1>10, <1>11, <1>12 DEF Next, Step

\* Every reachable state of the queue satisfies the inductive invariant.
THEOREM Invariance == Spec => []Inv
BY InitInv, NextInv, PTL DEF Spec

(***************************************************************************)
(* The properties                                                          *)
(***************************************************************************)

\* The blocks of the queue, of the copies and of the free list.
LEMMA Places ==
    ASSUME TypeOK, NEW q, NEW f, NEW n, Lists(q, f, n)
    PROVE  /\ Queue = q /\ InQueue = Members(q, entry) /\ InFree = Members(f, n)
           /\ InQueue \subseteq Blocks /\ Cardinality(InQueue) = entry
           /\ Cardinality(InFree) = n
           /\ InQueue \cap InFlight = {}
<1>1. /\ Linked(q, entry, msg_queue_head, next) /\ Linked(f, n, msg_queue_free, next)
      /\ \A i \in 1..entry, j \in 1..n : q[i] # f[j]
      /\ \A t \in Threads : /\ \A i \in 1..entry : q[i] # block[t]
                            /\ \A j \in 1..n : f[j] # block[t]
      /\ \A b \in Blocks : \/ \E i \in 1..entry : q[i] = b
                           \/ \E j \in 1..n : f[j] = b
                           \/ \E t \in Threads : block[t] = b
  BY DEF Lists
<1>2. Queue = q
  BY <1>1, QueueIs
<1>3. InQueue = Members(q, entry)
  BY <1>2 DEF InQueue, Members
<1>4. Null \notin Blocks /\ f \in [1..n -> Blocks]
  BY ListFacts
<1>5. InFree = Members(f, n)
  <2>1. ASSUME NEW b \in InFree PROVE b \in Members(f, n)
    <3>1. b \in Blocks /\ b \notin Members(q, entry) /\ b \notin InFlight
      BY <1>3, <2>1 DEF InFree
    <3>2. \A i \in 1..entry : q[i] # b
      BY <3>1 DEF Members
    <3>3. \A t \in Threads : block[t] # b
      BY <1>4, <3>1 DEF InFlight, Copying
    <3> QED
      BY <1>1, <3>1, <3>2, <3>3 DEF Members
  <2>2. ASSUME NEW b \in Members(f, n) PROVE b \in InFree
    <3>1. PICK j \in 1..n : f[j] = b
      BY <2>2 DEF Members
    <3>2. b \in Blocks
      BY <1>4, <3>1
    <3>3. b \notin Members(q, entry)
      BY <1>1, <3>1 DEF Members
    <3>4. b \notin InFlight
      BY <1>1, <3>1 DEF InFlight, Copying
    <3> QED
      BY <1>3, <3>2, <3>3, <3>4 DEF InFree
  <2> QED
    BY <2>1, <2>2
<1>6. InQueue \cap InFlight = {}
  BY <1>1, <1>3 DEF Members, InFlight, Copying
<1>7. /\ Cardinality(Members(q, entry)) = entry /\ Members(q, entry) \subseteq Blocks
      /\ Cardinality(Members(f, n)) = n
  BY <1>1, LinkedCount
<1> QED
  BY <1>2, <1>3, <1>5, <1>6, <1>7

\* The free list, as BlocksConserved sees it: no block is reached from two
\* others, and none leads to the first.
LEMMA FreeListFacts ==
    ASSUME NEW f, NEW n, NEW first, NEW nx, Linked(f, n, first, nx)
    PROVE  /\ Members(f, n) = {} <=> first = Null
           /\ Members(f, n) # {} => first \in Members(f, n)
           /\ \A b \in Members(f, n) : nx[b] \in Members(f, n) \cup {Null}
           /\ \A b, c \in Members(f, n) : nx[b] = nx[c] => b = c
           /\ \A b \in Members(f, n) : nx[b] # first
<1>1. /\ n \in Nat /\ f \in [1..n -> Blocks]
      /\ \A i, j \in 1..n : f[i] = f[j] => i = j
      /\ first = IF n = 0 THEN Null ELSE f[1]
      /\ \A i \in 1..n : nx[f[i]] = IF i = n THEN Null ELSE f[i + 1]
  BY DEF Linked
<1>2. Null \notin Blocks
  BY SizeAssumption DEF Null, Blocks
<1>3. n # 0 => 1 \in 1..n /\ n \in 1..n
  BY <1>1
<1>4. n = 0 => 1..n = {}
  BY <1>1
<1>5. Members(f, n) = {} <=> n = 0
  BY <1>3, <1>4 DEF Members
<1>6. /\ Members(f, n) = {} <=> first = Null
      /\ Members(f, n) # {} => first \in Members(f, n)
  BY <1>1, <1>2, <1>3, <1>5 DEF Members
<1>7. \A i \in 1..n : i # n => i + 1 \in 1..n /\ i + 1 # 1
  BY <1>1
<1>8. \A i \in 1..n : nx[f[i]] \in Members(f, n) \cup {Null}
  BY <1>1, <1>7 DEF Members
<1>9. \A i, j \in 1..n : nx[f[i]] = nx[f[j]] => i = j
  <2> SUFFICES ASSUME NEW i \in 1..n, NEW j \in 1..n, nx[f[i]] = nx[f[j]]
               PROVE  i = j
    OBVIOUS
  <2>1. CASE i = n \/ j = n
    BY <1>1, <1>2, <1>7, <2>1
  <2>2. CASE i # n /\ j # n
    <3>1. f[i + 1] = f[j + 1] /\ i + 1 \in 1..n /\ j + 1 \in 1..n
      BY <1>1, <1>7, <2>2
    <3>2. i + 1 = j + 1
      BY <1>1, <3>1
    <3> QED
      BY <1>1, <3>2
  <2> QED
    BY <2>1, <2>2
<1>10. \A i \in 1..n : nx[f[i]] # first
  <2> SUFFICES ASSUME NEW i \in 1..n PROVE nx[f[i]] # first
    OBVIOUS
  <2>1. n # 0 /\ first = f[1] /\ first # Null
    BY <1>1, <1>2, <1>3
  <2>2. CASE i = n
    BY <1>1, <2>1, <2>2
  <2>3. CASE i # n
    BY <1>1, <1>3, <1>7, <2>1, <2>3
  <2> QED
    BY <2>2, <2>3
<1>11. \A b \in Members(f, n) : \E i \in 1..n : b = f[i]
  BY DEF Members
<1> QED
  BY <1>6, <1>8, <1>9, <1>10, <1>11

\* The inductive invariant gives the properties of the model.
LEMMA InvProperties ==
    ASSUME Inv
    PROVE  BlocksConserved /\ NoLostWakeup
<1>1. TypeOK /\ Calls /\ CopyIntact /\ WokenReceivers
  BY DEF Inv
<1>2. PICK q, f, n : Lists(q, f, n) /\ WokenSenders(n)
  BY DEF Inv
<1>3. /\ Queue = q /\ InQueue = Members(q, entry) /\ InFree = Members(f, n)
      /\ InQueue \subseteq Blocks /\ Cardinality(InQueue) = entry
      /\ Cardinality(InFree) = n
      /\ InQueue \cap InFlight = {}
  BY <1>1, <1>2, Places
<1>4. NoLostWakeup
  BY <1>1, <1>2, <1>3 DEF NoLostWakeup, WokenReceivers, WokenSenders
<1>5. /\ Linked(q, entry, msg_queue_head, next) /\ Linked(f, n, msg_queue_free, next)
      /\ \A t, u \in Copying : block[t] = block[u] => t = u
  BY <1>2 DEF Lists
<1>6. /\ entry \in Nat
      /\ msg_queue_head = Null <=> entry = 0
      /\ msg_queue_tail = Null <=> entry = 0
      /\ entry # 0 => msg_queue_tail = q[entry]
  BY <1>1, <1>2, ListFacts
<1>7. entry > 0 => Queue[entry] = msg_queue_tail /\ next[msg_queue_tail] = Null
  <2>1. entry # 0 => entry \in 1..entry
    BY <1>6
  <2>2. entry # 0 => next[q[entry]] = Null
    BY <1>5, <2>1 DEF Linked
  <2> QED
    BY <1>3, <1>6, <2>2
<1>8. /\ InFree = {} <=> msg_queue_free = Null
      /\ InFree # {} => msg_queue_free \in InFree
      /\ \A b \in InFree : next[b] \in InFree \cup {Null}
      /\ \A b, c \in InFree : next[b] = next[c] => b = c
      /\ \A b \in InFree : next[b] # msg_queue_free
  BY <1>3, <1>5, FreeListFacts
<1>9. BlocksConserved
  BY <1>1, <1>3, <1>5, <1>6, <1>7, <1>8 DEF BlocksConserved
<1> QED
  BY <1>4, <1>9

\* Every block is in the queue, free or with the one thread that copies to or
\* from it, for every number of threads and blocks: rt_mq_send_wait,
\* rt_mq_urgent, rt_mq_recv and the reset of rt_mq_control lose none and hand
\* none out twice, wherever they cut in between the halves of another call.
THEOREM BlocksAlwaysConserved == Spec => []BlocksConserved
<1>1. Inv => BlocksConserved
  BY InvProperties
<1> QED
  BY <1>1, Invariance, PTL

\* A receiver copies the message it took: its block is in neither list before
\* the copy of rt_mq_recv ends, so that no sender writes into it.
THEOREM CopyAlwaysIntact == Spec => []CopyIntact
<1>1. Inv => CopyIntact
  BY DEF Inv
<1> QED
  BY <1>1, Invariance, PTL

\* Nobody sleeps beside what it waits for: while a receiver is in
\* suspend_thread every message has a woken receiver, and while a sender is in
\* suspend_sender_thread every free block has a woken sender.
THEOREM WakeupNeverLost == Spec => []NoLostWakeup
<1>1. Inv => NoLostWakeup
  BY InvProperties
<1> QED
  BY <1>1, Invariance, PTL

(***************************************************************************)
(* The bounded buffer                                                      *)
(***************************************************************************)

\* The contents of the queue, in a state and in the next, read off its list.
LEMMA ContentsIs ==
    ASSUME NEW q
    PROVE  /\ Linked(q, entry, msg_queue_head, next)
                => Contents = [i \in 1..entry |-> content[q[i]]]
           /\ Linked(q, entry', msg_queue_head', next')
                => Contents' = [i \in 1..entry' |-> content'[q[i]]]
BY QueueIs DEF Contents

\* The contents are a sequence of messages.
LEMMA ContentsType ==
    ASSUME TypeOK, NEW q, Linked(q, entry, msg_queue_head, next)
    PROVE  /\ Contents \in Seq(Messages \cup {NoMessage}) /\ Len(Contents) = entry
           /\ \A i \in 1..entry : Contents[i] = content[q[i]]
<1>1. Contents = [i \in 1..entry |-> content[q[i]]]
  BY ContentsIs
<1>2. /\ entry \in Nat /\ q \in [1..entry -> Blocks]
      /\ content \in [Blocks -> Messages \cup {NoMessage}]
  BY DEF Linked, TypeOK
<1> QED
  BY <1>1, <1>2

\* The end of a copy puts the message behind the contents.
LEMMA LinkRefines ==
    ASSUME Inv, NEW t \in Threads, pc[t] = "link", Link(t)
    PROVE  Fifo!Put(msg[t]) /\ msg[t] \in Messages
<1>1. TypeOK /\ Calls
  BY DEF Inv
<1>2. PICK q, f, n : Lists(q, f, n)
  BY DEF Inv
<1>3. block[t] # Null /\ block[t] \in Blocks /\ msg[t] \in Messages
  BY <1>1 DEF Calls, TypeOK
<1>4. PICK b, e, q2 : b = block[t] /\ e = entry /\ q2 = Appended(q, entry, block[t])
  OBVIOUS
<1>5. Lists(q2, f, n)'
  BY <1>1, <1>2, <1>3, <1>4, LinkLists
<1>6. /\ entry' = e + 1 /\ got' = got /\ content' = [content EXCEPT ![b] = msg[t]]
  BY <1>4 DEF Link
<1>7. /\ Linked(q, entry, msg_queue_head, next)
      /\ Linked(q2, entry', msg_queue_head', next')
      /\ \A i \in 1..entry : q[i] # block[t]
  BY <1>2, <1>5 DEF Lists
<1>8. /\ Contents \in Seq(Messages \cup {NoMessage}) /\ Len(Contents) = e
      /\ \A i \in 1..e : Contents[i] = content[q[i]]
  BY <1>1, <1>4, <1>7, ContentsType
<1>9. Contents' = [i \in 1..e+1 |-> content'[q2[i]]]
  BY <1>6, <1>7, ContentsIs
<1>10. e \in Nat /\ q \in [1..e -> Blocks] /\ content \in [Blocks -> Messages \cup {NoMessage}]
  BY <1>1, <1>4, <1>7 DEF Linked, TypeOK
<1>11. /\ q2[e + 1] = b /\ \A i \in 1..e : q2[i] = q[i] /\ q[i] # b /\ q[i] \in Blocks
  BY <1>4, <1>7, <1>10 DEF Appended
<1>12. \A c \in Blocks : content'[c] = IF c = b THEN msg[t] ELSE content[c]
  BY <1>6, <1>10
<1>13. Contents'[e + 1] = msg[t] /\ \A i \in 1..e : Contents'[i] = Contents[i]
  <2>1. e + 1 \in 1..e+1 /\ \A i \in 1..e : i \in 1..e+1
    BY <1>10
  <2> QED
    BY <1>3, <1>4, <1>8, <1>9, <1>11, <1>12, <2>1
<1>14. Contents' \in Seq(Messages \cup {NoMessage}) /\ Len(Contents') = e + 1
  <2>1. \A i \in 1..e+1 : i = e + 1 \/ i \in 1..e
    BY <1>10
  <2>2. \A i \in 1..e+1 : Contents'[i] \in Messages \cup {NoMessage}
    BY <1>3, <1>8, <1>13, <2>1
  <2>3. Contents' = [i \in 1..e+1 |-> Contents'[i]]
    BY <1>9
  <2> QED
    BY <1>10, <2>2, <2>3
<1>15. Contents' = Append(Contents, msg[t])
  <2>1. /\ Append(Contents, msg[t]) \in Seq(Messages \cup {NoMessage})
        /\ Len(Append(Contents, msg[t])) = e + 1
        /\ \A i \in 1..e : Append(Contents, msg[t])[i] = Contents[i]
        /\ Append(Contents, msg[t])[e + 1] = msg[t]
    BY <1>3, <1>8, <1>10
  <2>2. \A i \in 1..e+1 : i = e + 1 \/ i \in 1..e
    BY <1>10
  <2>3. \A i \in 1..e+1 : Contents'[i] = Append(Contents, msg[t])[i]
    BY <1>13, <2>1, <2>2
  <2> QED
    BY <1>14, <2>1, <2>3, SeqEqual
<1>16. Len(Contents) < Size
  BY <1>1, <1>2, <1>3, <1>4, <1>8, RoomForOne
<1> QED
  BY <1>3, <1>6, <1>15, <1>16 DEF Fifo!Put

\* The end of an urgent copy puts the message before the contents.
LEMMA LinkUrgentRefines ==
    ASSUME Inv, NEW t \in Threads, pc[t] = "link_urgent", LinkUrgent(t)
    PROVE  Fifo!PutUrgent(msg[t]) /\ msg[t] \in Messages
<1>1. TypeOK /\ Calls
  BY DEF Inv
<1>2. PICK q, f, n : Lists(q, f, n)
  BY DEF Inv
<1>3. block[t] # Null /\ block[t] \in Blocks /\ msg[t] \in Messages
  BY <1>1 DEF Calls, TypeOK
<1>4. PICK b, e, q2 : b = block[t] /\ e = entry /\ q2 = Pushed(q, entry, block[t])
  OBVIOUS
<1>5. Lists(q2, f, n)'
  BY <1>1, <1>2, <1>3, <1>4, LinkUrgentLists
<1>6. /\ entry' = e + 1 /\ got' = got /\ content' = [content EXCEPT ![b] = msg[t]]
  BY <1>4 DEF LinkUrgent
<1>7. /\ Linked(q, entry, msg_queue_head, next)
      /\ Linked(q2, entry', msg_queue_head', next')
      /\ \A i \in 1..entry : q[i] # block[t]
  BY <1>2, <1>5 DEF Lists
<1>8. /\ Contents \in Seq(Messages \cup {NoMessage}) /\ Len(Contents) = e
      /\ \A i \in 1..e : Contents[i] = content[q[i]]
  BY <1>1, <1>4, <1>7, ContentsType
<1>9. Contents' = [i \in 1..e+1 |-> content'[q2[i]]]
  BY <1>6, <1>7, ContentsIs
<1>10. e \in Nat /\ q \in [1..e -> Blocks] /\ content \in [Blocks -> Messages \cup {NoMessage}]
  BY <1>1, <1>4, <1>7 DEF Linked, TypeOK
<1>11. /\ 1 \in 1..e+1 /\ \A i \in 1..e+1 : i # 1 => i - 1 \in 1..e
  BY <1>10
<1>12. /\ q2[1] = b
       /\ \A i \in 1..e+1 : i # 1 => q2[i] = q[i - 1] /\ q[i - 1] # b /\ q[i - 1] \in Blocks
  BY <1>4, <1>7, <1>10, <1>11 DEF Pushed
<1>13. \A c \in Blocks : content'[c] = IF c = b THEN msg[t] ELSE content[c]
  BY <1>6, <1>10
<1>14. Contents'[1] = msg[t] /\ \A i \in 1..e+1 : i # 1 => Contents'[i] = Contents[i - 1]
  BY <1>3, <1>4, <1>8, <1>9, <1>11, <1>12, <1>13
<1>15. Contents' \in Seq(Messages \cup {NoMessage}) /\ Len(Contents') = e + 1
  <2>1. \A i \in 1..e+1 : Contents'[i] \in Messages \cup {NoMessage}
    BY <1>3, <1>8, <1>11, <1>14
  <2>2. Contents' = [i \in 1..e+1 |-> Contents'[i]]
    BY <1>9
  <2> QED
    BY <1>10, <2>1, <2>2
<1>16. Contents' = <<msg[t]>> \o Contents
  <2>1. /\ <<msg[t]>> \o Contents \in Seq(Messages \cup {NoMessage})
        /\ Len(<<msg[t]>> \o Contents) = e + 1
        /\ (<<msg[t]>> \o Contents)[1] = msg[t]
        /\ \A i \in 1..e+1 : i # 1 => (<<msg[t]>> \o Contents)[i] = Contents[i - 1]
    BY <1>3, <1>8, <1>10
  <2>2. \A i \in 1..e+1 : Contents'[i] = (<<msg[t]>> \o Contents)[i]
    BY <1>14, <2>1
  <2> QED
    BY <1>15, <2>1, <2>2, SeqEqual
<1>17. Len(Contents) < Size
  BY <1>1, <1>2, <1>3, <1>4, <1>8, RoomForOne
<1> QED
  BY <1>3, <1>6, <1>16, <1>17 DEF Fifo!PutUrgent

\* A receiver takes the head of the contents.
LEMMA UnlinkRefines ==
    ASSUME Inv, NEW t \in Threads, pc[t] \in {"idle", "recv"}, Unlink(t)
    PROVE  Fifo!Get
<1>1. TypeOK /\ Calls
  BY DEF Inv
<1>2. PICK q, f, n : Lists(q, f, n)
  BY DEF Inv
<1>3. block[t] = Null
  BY <1>1 DEF Calls
<1>4. PICK e, q2 : e = entry /\ q2 = Popped(q, entry)
  OBVIOUS
<1>5. Lists(q2, f, n)'
  BY <1>1, <1>2, <1>3, <1>4, UnlinkLists
<1>6. /\ e > 0 /\ entry' = e - 1 /\ got' = content[msg_queue_head] /\ content' = content
  BY <1>4 DEF Unlink
<1>7. /\ Linked(q, entry, msg_queue_head, next)
      /\ Linked(q2, entry', msg_queue_head', next')
  BY <1>2, <1>5 DEF Lists
<1>8. /\ Contents \in Seq(Messages \cup {NoMessage}) /\ Len(Contents) = e
      /\ \A i \in 1..e : Contents[i] = content[q[i]]
  BY <1>1, <1>4, <1>7, ContentsType
<1>9. Contents' = [i \in 1..e-1 |-> content[q2[i]]]
  BY <1>6, <1>7, ContentsIs
<1>10. e \in Nat /\ msg_queue_head = q[1] /\ 1 \in 1..e /\ e - 1 \in Nat
  BY <1>1, <1>4, <1>6, <1>7 DEF Linked
<1>11. \A i \in 1..e-1 : i + 1 \in 1..e /\ q2[i] = q[i + 1]
  BY <1>4, <1>10 DEF Popped
<1>12. \A i \in 1..e-1 : Contents'[i] = Contents[i + 1]
  BY <1>8, <1>9, <1>11
<1>13. Contents' \in Seq(Messages \cup {NoMessage}) /\ Len(Contents') = e - 1
  <2>1. \A i \in 1..e-1 : Contents'[i] \in Messages \cup {NoMessage}
    BY <1>8, <1>11, <1>12
  <2>2. Contents' = [i \in 1..e-1 |-> Contents'[i]]
    BY <1>9
  <2> QED
    BY <1>10, <2>1, <2>2
<1>14. Contents' = Tail(Contents)
  <2>1. /\ Tail(Contents) \in Seq(Messages \cup {NoMessage}) /\ Len(Tail(Contents)) = e - 1
        /\ \A i \in 1..e-1 : Tail(Contents)[i] = Contents[i + 1]
    BY <1>6, <1>8, <1>10
  <2> QED
    BY <1>12, <1>13, <2>1, SeqEqual
<1>15. Contents # <<>> /\ Head(Contents) = got'
  BY <1>6, <1>8, <1>10
<1> QED
  BY <1>14, <1>15 DEF Fifo!Get

\* The end of the copy of a receiver leaves the contents alone.
LEMMA FreeRefines ==
    ASSUME Inv, NEW t \in Threads, pc[t] = "copy", Free(t)
    PROVE  UNCHANGED Fifo!vars
<1>1. TypeOK /\ Calls
  BY DEF Inv
<1>2. PICK q, f, n : Lists(q, f, n)
  BY DEF Inv
<1>3. block[t] # Null
  BY <1>1 DEF Calls
<1>4. PICK f2 : f2 = Pushed(f, n, block[t])
  OBVIOUS
<1>5. Lists(q, f2, n + 1)'
  BY <1>1, <1>2, <1>3, <1>4, FreeLists
<1>6. entry' = entry /\ got' = got /\ content' = content
  BY DEF Free, queue
<1>7. /\ Linked(q, entry, msg_queue_head, next)
      /\ Linked(q, entry', msg_queue_head', next')
  BY <1>2, <1>5 DEF Lists
<1>8. Contents = [i \in 1..entry |-> content[q[i]]]
  BY <1>7, ContentsIs
<1>9. Contents' = [i \in 1..entry |-> content[q[i]]]
  BY <1>6, <1>7, ContentsIs
<1> QED
  BY <1>6, <1>8, <1>9 DEF Fifo!vars

\* A step that leaves the queue and the messages alone leaves the contents alone.
LEMMA QueueUnchangedRefines ==
    ASSUME UNCHANGED <<next, content, msg_queue_head, entry, got>>
    PROVE  UNCHANGED Fifo!vars
<1>1. Queue' = Queue
  BY DEF Queue
<1> QED
  BY <1>1 DEF Contents, Fifo!vars

\* Every step of the queue is a step of the buffer, or changes nothing of it.
LEMMA NextRefines == Inv /\ [Next]_vars => [Fifo!UrgentNext]_(Fifo!vars)
<1> SUFFICES ASSUME Inv, [Next]_vars PROVE Fifo!UrgentNext \/ UNCHANGED Fifo!vars
  OBVIOUS
<1>1. ASSUME NEW t \in Threads, EndCopy(t)
      PROVE  Fifo!UrgentNext \/ UNCHANGED Fifo!vars
  <2>1. CASE pc[t] = "link" /\ Link(t)
    BY <2>1, LinkRefines DEF Fifo!UrgentNext, Fifo!Next
  <2>2. CASE pc[t] = "link_urgent" /\ LinkUrgent(t)
    BY <2>2, LinkUrgentRefines DEF Fifo!UrgentNext
  <2>3. CASE pc[t] = "copy" /\ Free(t)
    BY <2>3, FreeRefines
  <2> QED
    BY <1>1, <2>1, <2>2, <2>3 DEF EndCopy
<1>2. ASSUME NEW t \in Threads, pc[t] \in {"idle", "recv"}, Unlink(t)
      PROVE  Fifo!UrgentNext
  BY <1>2, UnlinkRefines DEF Fifo!UrgentNext, Fifo!Next
<1>3. CASE UNCHANGED <<next, content, msg_queue_head, entry, got>>
  BY <1>3, QueueUnchangedRefines
<1>4. ASSUME NEW t, NEW m, NEW link, Reserve(t, m, link)
      PROVE  UNCHANGED <<next, content, msg_queue_head, entry, got>>
  BY <1>4 DEF Reserve, queue
<1>5. ASSUME NEW t, NEW where, NEW m, NEW time, Wait(t, where, m, time)
      PROVE  UNCHANGED <<next, content, msg_queue_head, entry, got>>
  BY <1>5 DEF Wait, pool, queue
<1>6. ASSUME NEW t, ReturnFailure(t)
      PROVE  UNCHANGED <<next, content, msg_queue_head, entry, got>>
  BY <1>6 DEF ReturnFailure, pool, queue
<1>7. ASSUME NEW t \in Threads, NEW m \in Messages, rt_mq_urgent(t, m)
      PROVE  UNCHANGED <<next, content, msg_queue_head, entry, got>>
  BY <1>4, <1>7 DEF rt_mq_urgent
<1>8. ASSUME NEW t \in Threads, NEW m \in Messages, NEW time \in Timeouts,
             rt_mq_send_wait(t, m, time)
      PROVE  UNCHANGED <<next, content, msg_queue_head, entry, got>>
  BY <1>4, <1>5, <1>8 DEF rt_mq_send_wait
<1>9. ASSUME NEW t \in Threads, NEW time \in Timeouts, rt_mq_recv(t, time)
      PROVE  Fifo!UrgentNext \/ UNCHANGED <<next, content, msg_queue_head, entry, got>>
  BY <1>2, <1>5, <1>9 DEF rt_mq_recv
<1>10. ASSUME NEW t \in Threads, ContinueSend(t)
       PROVE  UNCHANGED <<next, content, msg_queue_head, entry, got>>
  BY <1>4, <1>5, <1>6, <1>10 DEF ContinueSend
<1>11. ASSUME NEW t \in Threads, ContinueRecv(t)
       PROVE  Fifo!UrgentNext \/ UNCHANGED <<next, content, msg_queue_head, entry, got>>
  BY <1>2, <1>5, <1>6, <1>11 DEF ContinueRecv
<1>12. ASSUME NEW t \in Threads, rt_thread_timeout(t)
       PROVE  UNCHANGED <<next, content, msg_queue_head, entry, got>>
  BY <1>12 DEF rt_thread_timeout, pool, queue
<1>13. CASE rt_mq_control
  <2>1. entry' = 0 /\ got' = got
    BY <1>13 DEF rt_mq_control
  <2>2. Contents' = <<>>
    BY <2>1 DEF Contents
  <2> QED
    BY <2>1, <2>2 DEF Fifo!UrgentNext, Fifo!Next, Fifo!Clear
<1>14. CASE UNCHANGED vars
  BY <1>3, <1>14 DEF vars, pool, queue
<1> QED
  BY <1>1, <1>3, <1>7, <1>8, <1>9, <1>10, <1>11, <1>12, <1>13, <1>14 DEF Next, Step

\* The linked blocks implement the bounded buffer, for every number of blocks:
\* rt_mq_recv takes the messages in the order in which the copies of
\* rt_mq_send_wait ended, each once, and those of rt_mq_urgent first.
THEOREM Refinement == Spec => ImplementsBuffer
<1>1. Init => Fifo!Init
  BY DEF Init, Fifo!Init, Contents
<1> QED
  BY <1>1, NextRefines, Invariance, PTL DEF Spec, ImplementsBuffer, Fifo!UrgentSpec

=============================================================================
