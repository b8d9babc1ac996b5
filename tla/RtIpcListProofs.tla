-------------------------- MODULE RtIpcListProofs --------------------------
(* What the operations on a list of suspended threads preserve, and how threads
   are counted. *)
EXTENDS RtIpcList, SequenceTheorems, FiniteSetTheorems, WellFoundedInduction, TLAPS

(***************************************************************************)
(* A non-empty set of naturals has a least element, which Min chooses.     *)
(***************************************************************************)
LEMMA MinNat ==
    ASSUME NEW S \in SUBSET Nat, S # {}
    PROVE  Min(S) \in S /\ \A y \in S : Min(S) <= y
<1> DEFINE R == {ss \in Nat \X Nat : ss[1] < ss[2]}
<1>1. IsWellFoundedOn(R, Nat)
  BY NatLessThanWellFounded DEF OpToRel
<1>2. \A x, y \in S : <<y, x>> \in R <=> y < x
  OBVIOUS
<1> HIDE DEF R
<1>3. PICK x \in S : \A y \in S : ~(<<y, x>> \in R)
  BY <1>1, WFMin, Zenon
<1>4. \A y \in S : ~(y < x)
  BY <1>2, <1>3, Zenon
<1>5. \A y \in S : x <= y
  BY <1>3, <1>4
<1> QED
  BY <1>3, <1>5 DEF Min

(***************************************************************************)
(* Inserting an element shifts the ones behind it by one.                  *)
(***************************************************************************)
LEMMA InsertAtProperties ==
    ASSUME NEW S, NEW s \in Seq(S), NEW e \in S, NEW i \in 1..Len(s)+1
    PROVE  /\ InsertAt(s, i, e) \in Seq(S)
           /\ Len(InsertAt(s, i, e)) = Len(s) + 1
           /\ \A j \in 1..Len(s)+1 :
                 InsertAt(s, i, e)[j] = IF j < i THEN s[j] ELSE
                                        IF j = i THEN e ELSE s[j-1]
<1>1. PICK a : a = SubSeq(s, 1, i-1)
  OBVIOUS
<1>2. PICK b : b = a \o <<e>>
  OBVIOUS
<1>3. PICK c : c = SubSeq(s, i, Len(s))
  OBVIOUS
<1>4. a \in Seq(S) /\ Len(a) = i - 1 /\ \A j \in 1..i-1 : a[j] = s[j]
  BY <1>1
<1>5. b \in Seq(S) /\ Len(b) = i /\ b[i] = e /\ \A j \in 1..i-1 : b[j] = s[j]
  BY <1>2, <1>4
<1>6. /\ c \in Seq(S) /\ Len(c) = Len(s) - i + 1
      /\ \A j \in 1..(Len(s) - i + 1) : c[j] = s[i + j - 1]
  BY <1>3
<1>7. InsertAt(s, i, e) = b \o c
  BY <1>1, <1>2, <1>3 DEF InsertAt
<1>8. /\ b \o c \in Seq(S) /\ Len(b \o c) = Len(s) + 1
      /\ \A j \in 1..Len(s)+1 : (b \o c)[j] = IF j <= i THEN b[j] ELSE c[j - i]
  BY <1>5, <1>6
<1> QED
  BY <1>5, <1>6, <1>7, <1>8

(***************************************************************************)
(* Removing an element shifts the ones behind it by one.                   *)
(***************************************************************************)
LEMMA RemoveAtProperties ==
    ASSUME NEW S, NEW s \in Seq(S), NEW i \in 1..Len(s)
    PROVE  /\ RemoveAt(s, i) \in Seq(S)
           /\ Len(RemoveAt(s, i)) = Len(s) - 1
           /\ \A j \in 1..Len(s)-1 :
                 RemoveAt(s, i)[j] = IF j < i THEN s[j] ELSE s[j+1]
<1>1. PICK a : a = SubSeq(s, 1, i-1)
  OBVIOUS
<1>2. PICK c : c = SubSeq(s, i+1, Len(s))
  OBVIOUS
<1>3. a \in Seq(S) /\ Len(a) = i - 1 /\ \A j \in 1..i-1 : a[j] = s[j]
  BY <1>1
<1>4. /\ c \in Seq(S) /\ Len(c) = Len(s) - i
      /\ \A j \in 1..(Len(s) - i) : c[j] = s[i + j]
  BY <1>2
<1>5. RemoveAt(s, i) = a \o c
  BY <1>1, <1>2 DEF RemoveAt
<1>6. /\ a \o c \in Seq(S) /\ Len(a \o c) = Len(s) - 1
      /\ \A j \in 1..Len(s)-1 : (a \o c)[j] = IF j < i THEN a[j] ELSE c[j - i + 1]
  <2>1. /\ a \in Seq(S) /\ c \in Seq(S) /\ Len(s) \in Nat /\ i \in 1..Len(s)
        /\ Len(a) = i - 1 /\ Len(c) = Len(s) - i
    BY <1>3, <1>4
  <2>2. a \o c \in Seq(S) /\ Len(a \o c) = Len(a) + Len(c)
    BY <2>1
  <2>3. \A j \in 1..(Len(a) + Len(c)) :
           (a \o c)[j] = IF j <= Len(a) THEN a[j] ELSE c[j - Len(a)]
    BY <2>1
  <2>4. ASSUME NEW j \in 1..Len(s)-1
        PROVE  (a \o c)[j] = IF j < i THEN a[j] ELSE c[j - i + 1]
    <3>1. j \in 1..(Len(a) + Len(c)) /\ (j <= Len(a) <=> j < i) /\ j - Len(a) = j - i + 1
      BY <2>1
    <3> QED
      BY <2>3, <3>1
  <2> QED
    BY <2>1, <2>2, <2>4
<1>7. ASSUME NEW j \in 1..Len(s)-1
      PROVE  (a \o c)[j] = IF j < i THEN s[j] ELSE s[j+1]
  <2>1. CASE j < i
    BY <1>3, <1>6, <2>1
  <2>2. CASE j >= i
    <3>1. j - i + 1 \in 1..(Len(s) - i) /\ i + (j - i + 1) = j + 1
      BY <2>2
    <3>2. c[j - i + 1] = s[j + 1]
      BY <1>4, <3>1
    <3> QED
      BY <1>6, <2>2, <3>2
  <2>3. j < i \/ j >= i
    OBVIOUS
  <2> QED
    BY <2>1, <2>2, <2>3, Zenon
<1> QED
  BY <1>5, <1>6, <1>7

\* new is list with thread at position i, in front of the first thread that is
\* less urgent.
SuspendedAt(new, list, thread, priority, i) ==
    /\ new \in Seq(Threads) /\ Len(new) = Len(list) + 1
    /\ \A j \in 1..Len(list)+1 :
          new[j] = IF j < i THEN list[j] ELSE IF j = i THEN thread ELSE list[j-1]
    /\ FlagPrio => \A j \in 1..Len(list) :
          /\ j < i => ~(priority[thread] < priority[list[j]])
          /\ j = i => priority[thread] < priority[list[j]]

(***************************************************************************)
(* The loop of rt_ipc_list_suspend stops at the first thread that is less  *)
(* urgent, or at the end of the list.                                      *)
(***************************************************************************)
LEMMA ListSuspendPosition ==
    ASSUME NEW list \in Seq(Threads), NEW thread \in Threads, NEW priority
    PROVE  \E i \in 1..Len(list)+1 :
              SuspendedAt(ListSuspend(list, thread, priority), list, thread, priority, i)
<1>1. PICK P : P = InsertPositions(list, thread, priority)
  OBVIOUS
<1>2. PICK i : i = Min(P)
  OBVIOUS
<1>3. P \in SUBSET Nat /\ P # {} /\ P \subseteq 1..Len(list)+1
  BY <1>1 DEF InsertPositions
<1>4. i \in P /\ \A y \in P : i <= y
  BY <1>2, <1>3, MinNat
<1>5. i \in 1..Len(list)+1
  BY <1>3, <1>4
<1>6. ListSuspend(list, thread, priority) = InsertAt(list, i, thread)
  BY <1>1, <1>2 DEF ListSuspend
<1>7. FlagPrio => \A j \in 1..Len(list) : j \in P <=> priority[thread] < priority[list[j]]
  BY <1>1 DEF InsertPositions
<1>8. FlagPrio => \A j \in 1..Len(list) :
         /\ j < i => ~(priority[thread] < priority[list[j]])
         /\ j = i => priority[thread] < priority[list[j]]
  BY <1>4, <1>5, <1>7
<1>9. /\ InsertAt(list, i, thread) \in Seq(Threads)
      /\ Len(InsertAt(list, i, thread)) = Len(list) + 1
      /\ \A j \in 1..Len(list)+1 :
            InsertAt(list, i, thread)[j] =
                IF j < i THEN list[j] ELSE IF j = i THEN thread ELSE list[j-1]
  BY <1>5, InsertAtProperties
<1>10. SuspendedAt(InsertAt(list, i, thread), list, thread, priority, i)
  BY <1>8, <1>9 DEF SuspendedAt
<1> QED
  BY <1>5, <1>6, <1>10

(***************************************************************************)
(* rt_ipc_list_suspend puts the thread on the list and keeps a list        *)
(* without duplicates, and one in order of priority, that way.             *)
(***************************************************************************)
LEMMA ListSuspendProperties ==
    ASSUME NEW list \in Seq(Threads), NEW thread \in Threads, NEW priority
    PROVE  /\ ListSuspend(list, thread, priority) \in Seq(Threads)
           /\ ToSet(ListSuspend(list, thread, priority)) = ToSet(list) \cup {thread}
           /\ IsInjective(list) /\ thread \notin ToSet(list)
                => IsInjective(ListSuspend(list, thread, priority))
           /\ FlagPrio /\ priority \in [Threads -> Int] /\ Ordered(list, priority)
                => Ordered(ListSuspend(list, thread, priority), priority)
<1>1. PICK new : new = ListSuspend(list, thread, priority)
  OBVIOUS
<1>5. PICK i \in 1..Len(list)+1 : SuspendedAt(new, list, thread, priority, i)
  BY <1>1, ListSuspendPosition
<1>6. i \in 1..Len(list)+1 /\ (FlagPrio => \A j \in 1..Len(list) :
         /\ j < i => ~(priority[thread] < priority[list[j]])
         /\ j = i => priority[thread] < priority[list[j]])
  BY <1>5 DEF SuspendedAt
<1>7. /\ new \in Seq(Threads)
      /\ Len(new) = Len(list) + 1
      /\ \A j \in 1..Len(list)+1 : new[j] = IF j < i THEN list[j] ELSE
                                           IF j = i THEN thread ELSE list[j-1]
  BY <1>5 DEF SuspendedAt
<1>9. ToSet(new) = ToSet(list) \cup {thread}
  <2>1. ToSet(new) \subseteq ToSet(list) \cup {thread}
    BY <1>5, <1>7 DEF ToSet
  <2>2. ASSUME NEW j \in 1..Len(list)
        PROVE  list[j] \in ToSet(new)
    <3>1. j \in 1..Len(list)+1 /\ j + 1 \in 1..Len(list)+1
      OBVIOUS
    <3>2. list[j] = new[j] \/ list[j] = new[j + 1]
      BY <1>6, <1>7
    <3>3. DOMAIN new = 1..Len(list)+1
      BY <1>7
    <3> QED
      BY <3>1, <3>2, <3>3 DEF ToSet
  <2>3. thread \in ToSet(new)
    BY <1>6, <1>7 DEF ToSet
  <2>4. \A x \in ToSet(list) : \E j \in 1..Len(list) : x = list[j]
    BY DEF ToSet
  <2> QED
    BY <2>1, <2>2, <2>3, <2>4
<1>10. ASSUME IsInjective(list), thread \notin ToSet(list)
       PROVE  IsInjective(new)
  <2>1. \A x, y \in 1..Len(list) : list[x] = list[y] => x = y
    BY <1>10 DEF IsInjective
  <2>2. \A x \in 1..Len(list) : list[x] # thread
    BY <1>10 DEF ToSet
  <2>3. ASSUME NEW x \in 1..Len(new), NEW y \in 1..Len(new), new[x] = new[y]
        PROVE  x = y
    <3>1. /\ x < i => new[x] = list[x] /\ x \in 1..Len(list)
          /\ y < i => new[y] = list[y] /\ y \in 1..Len(list)
          /\ x = i => new[x] = thread
          /\ y = i => new[y] = thread
          /\ x > i => new[x] = list[x-1] /\ x - 1 \in 1..Len(list)
          /\ y > i => new[y] = list[y-1] /\ y - 1 \in 1..Len(list)
          /\ x \in Int /\ y \in Int /\ i \in Int /\ Len(list) \in Nat
      BY <1>6, <1>7
    <3>2. CASE x = i \/ y = i
      BY <2>2, <2>3, <3>1, <3>2
    <3>3. CASE x < i /\ y < i
      BY <2>1, <2>3, <3>1, <3>3
    <3>4. CASE x > i /\ y > i
      <4>1. list[x-1] = list[y-1] /\ x - 1 \in 1..Len(list) /\ y - 1 \in 1..Len(list)
        BY <2>3, <3>1, <3>4
      <4>2. x - 1 = y - 1
        BY <2>1, <4>1
      <4> QED
        BY <4>2
    <3>5. CASE x < i /\ y > i
      <4>1. list[x] = list[y-1] /\ x \in 1..Len(list) /\ y - 1 \in 1..Len(list) /\ x < y - 1
        BY <2>3, <3>1, <3>5
      <4> QED
        BY <2>1, <4>1
    <3>6. CASE x > i /\ y < i
      <4>1. list[x-1] = list[y] /\ x - 1 \in 1..Len(list) /\ y \in 1..Len(list) /\ y < x - 1
        BY <2>3, <3>1, <3>6
      <4> QED
        BY <2>1, <4>1
    <3> QED
      BY <3>1, <3>2, <3>3, <3>4, <3>5, <3>6
  <2> QED
    BY <1>7, <2>3 DEF IsInjective
<1>11. ASSUME FlagPrio, priority \in [Threads -> Int], Ordered(list, priority)
       PROVE  Ordered(new, priority)
  <2> SUFFICES ASSUME NEW j \in 1..Len(new), NEW k \in 1..Len(new), j < k
               PROVE  priority[new[j]] <= priority[new[k]]
    BY DEF Ordered
  <2>1. /\ \A x \in 1..Len(list) : priority[list[x]] \in Int
        /\ priority[thread] \in Int
    BY <1>11
  <2>2. \A x, y \in 1..Len(list) : x < y => priority[list[x]] <= priority[list[y]]
    BY <1>11 DEF Ordered
  <2>4. \A x \in 1..Len(list) : x < i => priority[list[x]] <= priority[thread]
    BY <1>6, <1>11, <2>1
  <2>5. \A x \in 1..Len(list) : x >= i => priority[thread] <= priority[list[x]]
    <3> SUFFICES ASSUME NEW x \in 1..Len(list), x >= i
                 PROVE  priority[thread] <= priority[list[x]]
      OBVIOUS
    <3>1. i \in 1..Len(list) /\ priority[thread] < priority[list[i]]
      BY <1>6, <1>11
    <3>2. i = x \/ priority[list[i]] <= priority[list[x]]
      BY <2>2, <3>1
    <3> QED
      BY <2>1, <3>1, <3>2
  <2>6. CASE j = i
    <3>1. new[j] = thread /\ new[k] = list[k-1] /\ k - 1 \in 1..Len(list) /\ k - 1 >= i
      BY <1>6, <1>7, <2>6
    <3> QED
      BY <2>5, <3>1
  <2>7. CASE k = i
    BY <1>6, <1>7, <2>4, <2>7
  <2>8. CASE j # i /\ k # i
    <3>1. PICK x \in 1..Len(list), y \in 1..Len(list) :
             new[j] = list[x] /\ new[k] = list[y] /\ x < y
      <4>1. CASE k < i
        <5>1. /\ new[j] = list[j] /\ new[k] = list[k]
              /\ j \in 1..Len(list) /\ k \in 1..Len(list)
          BY <1>6, <1>7, <4>1
        <5> QED
          BY <5>1, Zenon
      <4>2. CASE j < i /\ k > i
        <5>1. /\ new[j] = list[j] /\ new[k] = list[k-1] /\ j < k - 1
              /\ j \in 1..Len(list) /\ k - 1 \in 1..Len(list)
          BY <1>6, <1>7, <4>2
        <5> QED
          BY <5>1, Zenon
      <4>3. CASE j > i
        <5>1. /\ new[j] = list[j-1] /\ new[k] = list[k-1]
              /\ j - 1 \in 1..Len(list) /\ k - 1 \in 1..Len(list) /\ j - 1 < k - 1
          BY <1>6, <1>7, <4>3
        <5> QED
          BY <5>1, Zenon
      <4> QED
        BY <1>6, <2>8, <4>1, <4>2, <4>3
    <3> QED
      BY <2>2, <3>1
  <2> QED
    BY <2>6, <2>7, <2>8
<1> QED
  BY <1>1, <1>7, <1>9, <1>10, <1>11

(***************************************************************************)
(* Taking one thread off a list without duplicates leaves the others, in   *)
(* their order.                                                            *)
(***************************************************************************)
LEMMA RemoveOne ==
    ASSUME NEW list \in Seq(Threads), IsInjective(list), NEW i \in 1..Len(list)
    PROVE  /\ RemoveAt(list, i) \in Seq(Threads)
           /\ ToSet(RemoveAt(list, i)) = ToSet(list) \ {list[i]}
           /\ IsInjective(RemoveAt(list, i))
           /\ \A priority : Ordered(list, priority) => Ordered(RemoveAt(list, i), priority)
<1>0. PICK new : new = RemoveAt(list, i)
  OBVIOUS
<1>1. /\ new \in Seq(Threads)
      /\ Len(new) = Len(list) - 1
      /\ \A j \in 1..Len(list)-1 : new[j] = IF j < i THEN list[j] ELSE list[j+1]
  BY <1>0, RemoveAtProperties
<1>2. \A j, k \in 1..Len(list) : list[j] = list[k] => j = k
  BY DEF IsInjective
<1>3. ToSet(new) \subseteq ToSet(list) \ {list[i]}
  BY <1>1, <1>2 DEF ToSet
<1>4. ASSUME NEW j \in 1..Len(list), j # i
      PROVE  list[j] \in ToSet(new)
  <2>1. CASE j < i
    BY <1>1, <2>1 DEF ToSet
  <2>2. CASE j > i
    <3>1. j - 1 \in 1..Len(new) /\ new[j - 1] = list[j]
      BY <1>1, <2>2
    <3> QED
      BY <1>1, <3>1 DEF ToSet
  <2> QED
    BY <1>4, <2>1, <2>2
<1>5. IsInjective(new)
  BY <1>1, <1>2 DEF IsInjective
<1>6. \A priority : Ordered(list, priority) => Ordered(new, priority)
  <2> SUFFICES ASSUME NEW priority, Ordered(list, priority),
                      NEW j \in 1..Len(new), NEW k \in 1..Len(new), j < k
               PROVE  priority[new[j]] <= priority[new[k]]
    BY DEF Ordered
  <2>1. PICK j2, k2 : /\ j2 = IF j < i THEN j ELSE j + 1
                      /\ k2 = IF k < i THEN k ELSE k + 1
    OBVIOUS
  <2>2. j2 \in 1..Len(list) /\ k2 \in 1..Len(list) /\ j2 < k2
    BY <1>1, <2>1
  <2>3. new[j] = list[j2] /\ new[k] = list[k2]
    BY <1>1, <2>1
  <2> QED
    BY <2>2, <2>3 DEF Ordered
<1>7. ToSet(list) \ {list[i]} \subseteq ToSet(new)
  <2> SUFFICES ASSUME NEW x \in ToSet(list), x # list[i]
               PROVE  x \in ToSet(new)
    OBVIOUS
  <2>1. PICK j \in 1..Len(list) : x = list[j]
    BY DEF ToSet
  <2> QED
    BY <1>4, <2>1
<1> QED
  BY <1>0, <1>1, <1>3, <1>5, <1>6, <1>7

(***************************************************************************)
(* rt_list_remove on the thread's node (rt_thread_resume, the timeout)     *)
(* takes that thread off the list and keeps the order of the others.       *)
(***************************************************************************)
LEMMA ListRemoveProperties ==
    ASSUME NEW list \in Seq(Threads), IsInjective(list), NEW thread \in Threads
    PROVE  /\ ListRemove(list, thread) \in Seq(Threads)
           /\ ToSet(ListRemove(list, thread)) = ToSet(list) \ {thread}
           /\ IsInjective(ListRemove(list, thread))
           /\ \A priority : Ordered(list, priority) => Ordered(ListRemove(list, thread), priority)
<1>1. CASE thread \notin ToSet(list)
  BY <1>1 DEF ListRemove
<1>2. CASE thread \in ToSet(list)
  <2> DEFINE i == CHOOSE i \in 1..Len(list) : list[i] = thread
  <2>1. i \in 1..Len(list) /\ list[i] = thread
    BY <1>2 DEF ToSet
  <2>2. ListRemove(list, thread) = RemoveAt(list, i)
    BY <1>2 DEF ListRemove
  <2> HIDE DEF i
  <2> QED
    BY <2>1, <2>2, RemoveOne
<1> QED
  BY <1>1, <1>2

(***************************************************************************)
(* rt_ipc_list_resume takes off the first thread and keeps the others.     *)
(***************************************************************************)
LEMMA TailProperties ==
    ASSUME NEW list \in Seq(Threads), IsInjective(list), list # <<>>
    PROVE  /\ Head(list) \in ToSet(list)
           /\ Tail(list) \in Seq(Threads)
           /\ ToSet(Tail(list)) = ToSet(list) \ {Head(list)}
           /\ IsInjective(Tail(list))
           /\ \A priority : Ordered(list, priority) => Ordered(Tail(list), priority)
<1>1. RemoveAt(list, 1) = Tail(list)
  <2>1. /\ Tail(list) \in Seq(Threads) /\ Len(Tail(list)) = Len(list) - 1
        /\ \A j \in 1..Len(list)-1 : Tail(list)[j] = list[j+1]
    OBVIOUS
  <2>2. /\ RemoveAt(list, 1) \in Seq(Threads) /\ Len(RemoveAt(list, 1)) = Len(list) - 1
        /\ \A j \in 1..Len(list)-1 : RemoveAt(list, 1)[j] = list[j+1]
    BY RemoveAtProperties
  <2> QED
    BY <2>1, <2>2, SeqEqual
<1>2. 1 \in 1..Len(list) /\ Head(list) = list[1]
  OBVIOUS
<1>3. Head(list) \in ToSet(list)
  BY <1>2 DEF ToSet
<1> QED
  BY <1>1, <1>2, <1>3, RemoveOne

(***************************************************************************)
(* rt_ipc_list_resume wakes the head of a list and takes it off.           *)
(***************************************************************************)
LEMMA RestOfProperties ==
    ASSUME NEW list \in Seq(Threads), IsInjective(list)
    PROVE  /\ RestOf(list) \in Seq(Threads)
           /\ IsInjective(RestOf(list))
           /\ list = <<>> => RestOf(list) = <<>> /\ ToSet(RestOf(list)) = {}
           /\ list # <<>> => /\ Head(list) \in ToSet(list)
                             /\ ToSet(RestOf(list)) = ToSet(list) \ {Head(list)}
           /\ \A priority : Ordered(list, priority) => Ordered(RestOf(list), priority)
<1>1. CASE list = <<>>
  BY <1>1 DEF RestOf, ToSet
<1>2. CASE list # <<>>
  BY <1>2, TailProperties DEF RestOf
<1> QED
  BY <1>1, <1>2

\* A set with everything of A and one thing more counts one more than A.
LEMMA CountAdd ==
    ASSUME NEW A, NEW B, NEW x, IsFiniteSet(A), IsFiniteSet(B),
           x \notin A, A \cup {x} \subseteq B
    PROVE  Cardinality(B) >= Cardinality(A) + 1
<1>1. IsFiniteSet(A \cup {x}) /\ Cardinality(A \cup {x}) = Cardinality(A) + 1
  BY FS_AddElement
<1>2. Cardinality(A \cup {x}) <= Cardinality(B)
  BY FS_Subset
<1>3. Cardinality(A) \in Nat /\ Cardinality(B) \in Nat
  BY FS_CardinalityType
<1> QED
  BY <1>1, <1>2, <1>3

\* A set with everything of A but one thing counts at most one less than A.
LEMMA CountRemove ==
    ASSUME NEW A, NEW B, NEW x, IsFiniteSet(A), IsFiniteSet(B), A \ {x} \subseteq B
    PROVE  Cardinality(B) >= Cardinality(A) - 1
<1>1. IsFiniteSet(A \ {x}) /\ Cardinality(A \ {x}) >= Cardinality(A) - 1
  <2>1. Cardinality(A) \in Nat
    BY FS_CardinalityType
  <2>2. /\ IsFiniteSet(A \ {x})
        /\ Cardinality(A \ {x}) = IF x \in A THEN Cardinality(A) - 1 ELSE Cardinality(A)
    BY FS_RemoveElement
  <2> QED
    BY <2>1, <2>2
<1>2. Cardinality(A \ {x}) <= Cardinality(B)
  BY <1>1, FS_Subset
<1>3. Cardinality(A) \in Nat /\ Cardinality(B) \in Nat /\ Cardinality(A \ {x}) \in Nat
  BY <1>1, FS_CardinalityType
<1> QED
  BY <1>1, <1>2, <1>3
=============================================================================
