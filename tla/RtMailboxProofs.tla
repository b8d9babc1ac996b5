-------------------------- MODULE RtMailboxProofs --------------------------
(***************************************************************************)
(* The mailbox keeps its ring and its lists consistent, loses no wake-up   *)
(* and implements BoundedFifo, for every number of threads, every size and *)
(* both orders of its lists.                                               *)
(***************************************************************************)
EXTENDS RtMailbox, RtIpcListProofs

\* Every action preserves this conjunction, which implies each invariant.
Inv ==
    /\ TypeOK
    /\ WaitersConsistent
    /\ RingConsistent
    /\ NoLostMail
    /\ NoLostRoom
    /\ WaitersOrdered

(***************************************************************************)
(* The woken threads are finitely many.                                    *)
(***************************************************************************)
LEMMA WokenFinite ==
    ASSUME NEW kind
    PROVE  IsFiniteSet(Woken(kind)) /\ Cardinality(Woken(kind)) \in Nat
<1>1. Woken(kind) \subseteq Threads
  BY DEF Woken
<1> QED
  BY <1>1, ThreadsAssumption, FS_Subset, FS_CardinalityType

(***************************************************************************)
(* The initial state.                                                      *)
(***************************************************************************)
LEMMA InitInv == Init => Inv
<1> SUFFICES ASSUME Init PROVE Inv
  OBVIOUS
<1> USE SizeAssumption DEF Init
<1>1. TypeOK
  BY DEF TypeOK, Timeouts
<1>2. WaitersConsistent
  BY DEF WaitersConsistent, Waiting, ToSet, IsInjective
<1>3. RingConsistent
  BY DEF RingConsistent
<1>4. NoLostMail /\ NoLostRoom
  BY DEF NoLostMail, NoLostRoom
<1>5. WaitersOrdered
  BY DEF WaitersOrdered, Ordered
<1> QED
  BY <1>1, <1>2, <1>3, <1>4, <1>5 DEF Inv

(***************************************************************************)
(* Storing a mail, by a sender that did not wait or was woken.             *)
(***************************************************************************)
LEMMA DepositInv ==
    ASSUME Inv, NEW t \in Threads, NEW v \in Mails, Deposit(t, v),
           entry < Size, stat[t] = "ready", call[t] # "recv"
    PROVE  Inv'
<1> USE SizeAssumption
<1>1. TypeOK /\ WaitersConsistent
  BY DEF Inv
<1>2. TypeOK'
  <2>1. suspend_thread' \in Seq(Threads)
    BY <1>1, RestOfProperties DEF Deposit, TypeOK, WaitersConsistent
  <2>2. stat' \in [Threads -> {"ready", "suspend", "stopped"}]
    BY <1>1 DEF Deposit, TypeOK, ResumeFirst
  <2> QED
    BY <1>1, <2>1, <2>2 DEF Deposit, Return, Advance, TypeOK, Timeouts
<1>3. WaitersConsistent'
  <2>1. /\ suspend_thread \in Seq(Threads) /\ IsInjective(suspend_thread)
        /\ ToSet(suspend_thread) = Waiting("recv")
    BY <1>1 DEF TypeOK, WaitersConsistent
  <2>2. IsInjective(suspend_thread')
    BY <2>1, RestOfProperties DEF Deposit
  <2>3. ToSet(suspend_thread)' = Waiting("recv")'
    <3>1. CASE suspend_thread = <<>>
      BY <1>1, <2>1, <3>1, RestOfProperties DEF Deposit, Return, ResumeFirst, Waiting, TypeOK
    <3>2. CASE suspend_thread # <<>>
      BY <1>1, <2>1, <3>2, RestOfProperties DEF Deposit, Return, ResumeFirst, Waiting, TypeOK
    <3> QED
      BY <3>1, <3>2
  <2>4. ToSet(suspend_sender_thread)' = Waiting("send")'
    BY <1>1, <2>1, RestOfProperties
       DEF Deposit, Return, ResumeFirst, Waiting, TypeOK, WaitersConsistent
  <2>5. \A u \in Threads : stat'[u] = "suspend" => call'[u] # "none" /\ error'[u] = "EOK"
    BY <1>1 DEF Deposit, Return, ResumeFirst, TypeOK, WaitersConsistent
  <2>6. \A u \in Threads : call'[u] = "send" => mail'[u] \in Mails
    BY <1>1 DEF Deposit, Return, TypeOK, WaitersConsistent
  <2> QED
    BY <1>1, <2>2, <2>3, <2>4, <2>5, <2>6 DEF WaitersConsistent, Deposit
<1>4. RingConsistent'
  BY DEF Inv, TypeOK, RingConsistent, Deposit, Advance
<1>5. NoLostMail'
  <2> SUFFICES ASSUME suspend_thread' # <<>>
               PROVE  Cardinality(Woken("recv")') >= entry'
    BY DEF NoLostMail
  <2>1. /\ suspend_thread \in Seq(Threads) /\ IsInjective(suspend_thread)
        /\ ToSet(suspend_thread) = Waiting("recv") /\ suspend_thread # <<>>
    BY <1>1 DEF TypeOK, WaitersConsistent, Deposit, RestOf
  <2>2. PICK h \in Threads : h = Head(suspend_thread) /\ h \in Waiting("recv")
    BY <2>1, RestOfProperties DEF Waiting
  <2>3. h \notin Woken("recv") /\ Woken("recv") \cup {h} \subseteq Woken("recv")'
    BY <1>1, <2>1, <2>2
       DEF Waiting, Woken, Deposit, Return, ResumeFirst, TypeOK, WaitersConsistent
  <2>4. IsFiniteSet(Woken("recv")')
    BY ThreadsAssumption, FS_Subset DEF Woken
  <2>5. Cardinality(Woken("recv")') >= Cardinality(Woken("recv")) + 1
    BY <2>3, <2>4, WokenFinite, CountAdd
  <2>6. Cardinality(Woken("recv")) >= entry
    BY <2>1 DEF Inv, NoLostMail
  <2> QED
    BY <1>1, <2>4, <2>5, <2>6, WokenFinite, FS_CardinalityType DEF Deposit, TypeOK
<1>6. NoLostRoom'
  <2> SUFFICES ASSUME suspend_sender_thread # <<>>
               PROVE  Cardinality(Woken("send")') >= Size - entry'
    BY DEF NoLostRoom, Deposit
  <2>1. Woken("send") \ {t} \subseteq Woken("send")'
    BY <1>1 DEF Woken, Deposit, Return, ResumeFirst, TypeOK
  <2>2. IsFiniteSet(Woken("send")')
    BY ThreadsAssumption, FS_Subset DEF Woken
  <2>3. Cardinality(Woken("send")') >= Cardinality(Woken("send")) - 1
    BY <2>1, <2>2, WokenFinite, CountRemove
  <2>4. Cardinality(Woken("send")) >= Size - entry
    BY DEF Inv, NoLostRoom
  <2> QED
    BY <1>1, <2>2, <2>3, <2>4, WokenFinite, FS_CardinalityType DEF Deposit, TypeOK
<1>7. WaitersOrdered'
  BY <1>1, RestOfProperties DEF Inv, WaitersOrdered, WaitersConsistent, TypeOK, Deposit
<1> QED
  BY <1>2, <1>3, <1>4, <1>5, <1>6, <1>7 DEF Inv

(***************************************************************************)
(* Taking a mail, by a receiver that did not wait or was woken.            *)
(***************************************************************************)
LEMMA CollectInv ==
    ASSUME Inv, NEW t \in Threads, Collect(t),
           entry > 0, stat[t] = "ready", call[t] # "send"
    PROVE  Inv'
<1> USE SizeAssumption
<1>1. TypeOK /\ WaitersConsistent
  BY DEF Inv
<1>2. TypeOK'
  <2>1. suspend_sender_thread' \in Seq(Threads)
    BY <1>1, RestOfProperties DEF Collect, TypeOK, WaitersConsistent
  <2>2. stat' \in [Threads -> {"ready", "suspend", "stopped"}]
    BY <1>1 DEF Collect, TypeOK, ResumeFirst
  <2> QED
    BY <1>1, <2>1, <2>2 DEF Collect, Return, Advance, TypeOK, Timeouts
<1>3. WaitersConsistent'
  <2>1. /\ suspend_sender_thread \in Seq(Threads) /\ IsInjective(suspend_sender_thread)
        /\ ToSet(suspend_sender_thread) = Waiting("send")
    BY <1>1 DEF TypeOK, WaitersConsistent
  <2>2. IsInjective(suspend_sender_thread')
    BY <2>1, RestOfProperties DEF Collect
  <2>3. ToSet(suspend_sender_thread)' = Waiting("send")'
    <3>1. CASE suspend_sender_thread = <<>>
      BY <1>1, <2>1, <3>1, RestOfProperties DEF Collect, Return, ResumeFirst, Waiting, TypeOK
    <3>2. CASE suspend_sender_thread # <<>>
      BY <1>1, <2>1, <3>2, RestOfProperties DEF Collect, Return, ResumeFirst, Waiting, TypeOK
    <3> QED
      BY <3>1, <3>2
  <2>4. ToSet(suspend_thread)' = Waiting("recv")'
    BY <1>1, <2>1, RestOfProperties
       DEF Collect, Return, ResumeFirst, Waiting, TypeOK, WaitersConsistent
  <2>5. \A u \in Threads : stat'[u] = "suspend" => call'[u] # "none" /\ error'[u] = "EOK"
    BY <1>1 DEF Collect, Return, ResumeFirst, TypeOK, WaitersConsistent
  <2>6. \A u \in Threads : call'[u] = "send" => mail'[u] \in Mails
    BY <1>1 DEF Collect, Return, TypeOK, WaitersConsistent
  <2> QED
    BY <1>1, <2>2, <2>3, <2>4, <2>5, <2>6 DEF WaitersConsistent, Collect
<1>4. RingConsistent'
  BY DEF Inv, TypeOK, RingConsistent, Collect, Advance
<1>5. NoLostRoom'
  <2> SUFFICES ASSUME suspend_sender_thread' # <<>>
               PROVE  Cardinality(Woken("send")') >= Size - entry'
    BY DEF NoLostRoom
  <2>1. /\ suspend_sender_thread \in Seq(Threads) /\ IsInjective(suspend_sender_thread)
        /\ ToSet(suspend_sender_thread) = Waiting("send") /\ suspend_sender_thread # <<>>
    BY <1>1 DEF TypeOK, WaitersConsistent, Collect, RestOf
  <2>2. PICK h \in Threads : h = Head(suspend_sender_thread) /\ h \in Waiting("send")
    BY <2>1, RestOfProperties DEF Waiting
  <2>3. h \notin Woken("send") /\ Woken("send") \cup {h} \subseteq Woken("send")'
    BY <1>1, <2>1, <2>2
       DEF Waiting, Woken, Collect, Return, ResumeFirst, TypeOK, WaitersConsistent
  <2>4. IsFiniteSet(Woken("send")')
    BY ThreadsAssumption, FS_Subset DEF Woken
  <2>5. Cardinality(Woken("send")') >= Cardinality(Woken("send")) + 1
    BY <2>3, <2>4, WokenFinite, CountAdd
  <2>6. Cardinality(Woken("send")) >= Size - entry
    BY <2>1 DEF Inv, NoLostRoom
  <2> QED
    BY <1>1, <2>4, <2>5, <2>6, WokenFinite, FS_CardinalityType DEF Collect, TypeOK
<1>6. NoLostMail'
  <2> SUFFICES ASSUME suspend_thread # <<>>
               PROVE  Cardinality(Woken("recv")') >= entry'
    BY DEF NoLostMail, Collect
  <2>1. Woken("recv") \ {t} \subseteq Woken("recv")'
    BY <1>1 DEF Woken, Collect, Return, ResumeFirst, TypeOK
  <2>2. IsFiniteSet(Woken("recv")')
    BY ThreadsAssumption, FS_Subset DEF Woken
  <2>3. Cardinality(Woken("recv")') >= Cardinality(Woken("recv")) - 1
    BY <2>1, <2>2, WokenFinite, CountRemove
  <2>4. Cardinality(Woken("recv")) >= entry
    BY DEF Inv, NoLostMail
  <2> QED
    BY <1>1, <2>2, <2>3, <2>4, WokenFinite, FS_CardinalityType DEF Collect, TypeOK
<1>7. WaitersOrdered'
  BY <1>1, RestOfProperties DEF Inv, WaitersOrdered, WaitersConsistent, TypeOK, Collect
<1> QED
  BY <1>2, <1>3, <1>4, <1>5, <1>6, <1>7 DEF Inv

(***************************************************************************)
(* Waiting for room, for the first time or again.                          *)
(***************************************************************************)
LEMMA WaitForRoomInv ==
    ASSUME Inv, NEW t \in Threads, NEW v \in Mails, NEW time \in Timeouts,
           WaitForRoom(t, v, time),
           entry = Size, stat[t] = "ready", call[t] # "recv"
    PROVE  Inv'
<1>1. TypeOK /\ WaitersConsistent
  BY DEF Inv
<1>2. /\ suspend_sender_thread \in Seq(Threads) /\ IsInjective(suspend_sender_thread)
      /\ t \notin ToSet(suspend_sender_thread)
  BY <1>1 DEF TypeOK, WaitersConsistent, Waiting
<1>3. TypeOK'
  BY <1>1, <1>2, ListSuspendProperties DEF WaitForRoom, TypeOK, ring
<1>4. WaitersConsistent'
  <2>1. IsInjective(suspend_sender_thread')
    BY <1>2, ListSuspendProperties DEF WaitForRoom
  <2>2. ToSet(suspend_sender_thread)' = Waiting("send")'
    <3>1. ToSet(suspend_sender_thread') = ToSet(suspend_sender_thread) \cup {t}
      BY <1>2, ListSuspendProperties DEF WaitForRoom
    <3> QED
      BY <1>1, <3>1 DEF WaitForRoom, Waiting, TypeOK, WaitersConsistent
  <2>3. ToSet(suspend_thread)' = Waiting("recv")'
    BY <1>1 DEF WaitForRoom, Waiting, TypeOK, WaitersConsistent
  <2> QED
    BY <1>1, <2>1, <2>2, <2>3 DEF WaitForRoom, WaitersConsistent, TypeOK
<1>5. RingConsistent'
  BY DEF Inv, RingConsistent, WaitForRoom, ring
<1>6. NoLostMail'
  <2> SUFFICES ASSUME suspend_thread # <<>>
               PROVE  Cardinality(Woken("recv")') >= entry
    BY DEF NoLostMail, WaitForRoom, ring
  <2>1. Woken("recv")' = Woken("recv")
    BY <1>1 DEF Woken, WaitForRoom, TypeOK
  <2> QED
    BY <2>1 DEF Inv, NoLostMail
<1>7. NoLostRoom'
  <2>1. Size - entry' = 0
    BY SizeAssumption DEF WaitForRoom, ring
  <2>2. Cardinality(Woken("send")') \in Nat
    BY ThreadsAssumption, FS_Subset, FS_CardinalityType DEF Woken
  <2> QED
    BY <2>1, <2>2 DEF NoLostRoom
<1>8. WaitersOrdered'
  BY <1>2, PriorityAssumption, ListSuspendProperties DEF Inv, WaitersOrdered, WaitForRoom
<1> QED
  BY <1>3, <1>4, <1>5, <1>6, <1>7, <1>8 DEF Inv

(***************************************************************************)
(* Waiting for a mail, for the first time or again.                        *)
(***************************************************************************)
LEMMA WaitForMailInv ==
    ASSUME Inv, NEW t \in Threads, NEW time \in Timeouts, WaitForMail(t, time),
           entry = 0, stat[t] = "ready", call[t] # "send"
    PROVE  Inv'
<1>1. TypeOK /\ WaitersConsistent
  BY DEF Inv
<1>2. /\ suspend_thread \in Seq(Threads) /\ IsInjective(suspend_thread)
      /\ t \notin ToSet(suspend_thread)
  BY <1>1 DEF TypeOK, WaitersConsistent, Waiting
<1>3. TypeOK'
  BY <1>1, <1>2, ListSuspendProperties DEF WaitForMail, TypeOK, ring
<1>4. WaitersConsistent'
  <2>1. IsInjective(suspend_thread')
    BY <1>2, ListSuspendProperties DEF WaitForMail
  <2>2. ToSet(suspend_thread)' = Waiting("recv")'
    <3>1. ToSet(suspend_thread') = ToSet(suspend_thread) \cup {t}
      BY <1>2, ListSuspendProperties DEF WaitForMail
    <3> QED
      BY <1>1, <3>1 DEF WaitForMail, Waiting, TypeOK, WaitersConsistent
  <2>3. ToSet(suspend_sender_thread)' = Waiting("send")'
    BY <1>1 DEF WaitForMail, Waiting, TypeOK, WaitersConsistent
  <2> QED
    BY <1>1, <2>1, <2>2, <2>3 DEF WaitForMail, WaitersConsistent, TypeOK
<1>5. RingConsistent'
  BY DEF Inv, RingConsistent, WaitForMail, ring
<1>6. NoLostRoom'
  <2> SUFFICES ASSUME suspend_sender_thread # <<>>
               PROVE  Cardinality(Woken("send")') >= Size - entry
    BY DEF NoLostRoom, WaitForMail, ring
  <2>1. Woken("send")' = Woken("send")
    BY <1>1 DEF Woken, WaitForMail, TypeOK
  <2> QED
    BY <2>1 DEF Inv, NoLostRoom
<1>7. NoLostMail'
  <2>1. entry' = 0
    BY DEF WaitForMail, ring
  <2>2. Cardinality(Woken("recv")') \in Nat
    BY ThreadsAssumption, FS_Subset, FS_CardinalityType DEF Woken
  <2> QED
    BY <2>1, <2>2 DEF NoLostMail
<1>8. WaitersOrdered'
  BY <1>2, PriorityAssumption, ListSuspendProperties DEF Inv, WaitersOrdered, WaitForMail
<1> QED
  BY <1>3, <1>4, <1>5, <1>6, <1>7, <1>8 DEF Inv

(***************************************************************************)
(* A call that returns an error: its caller was woken with an error, or    *)
(* found the box still full (a sender) or still empty (a receiver).        *)
(***************************************************************************)
LEMMA ReturnFailureInv ==
    ASSUME Inv, NEW t \in Threads, ReturnFailure(t), stat[t] = "ready",
           \/ error[t] # "EOK"
           \/ call[t] = "send" /\ entry = Size
           \/ call[t] = "recv" /\ entry = 0
    PROVE  Inv'
<1>1. TypeOK /\ WaitersConsistent
  BY DEF Inv
<1>2. TypeOK'
  BY <1>1 DEF ReturnFailure, Return, TypeOK, Timeouts, ring, lists
<1>3. WaitersConsistent'
  <2>1. Waiting("recv")' = Waiting("recv") /\ Waiting("send")' = Waiting("send")
    BY <1>1 DEF ReturnFailure, Return, Waiting, TypeOK
  <2> QED
    BY <1>1, <2>1 DEF ReturnFailure, Return, WaitersConsistent, TypeOK, lists
<1>4. RingConsistent' /\ WaitersOrdered'
  BY DEF Inv, RingConsistent, WaitersOrdered, ReturnFailure, ring, lists
<1>5. Cardinality(Woken("recv")') \in Nat /\ Cardinality(Woken("send")') \in Nat
  BY ThreadsAssumption, FS_Subset, FS_CardinalityType DEF Woken
<1>6. NoLostMail'
  <2>1. CASE error[t] # "EOK" \/ call[t] # "recv"
    <3>1. Woken("recv")' = Woken("recv")
      BY <1>1, <2>1 DEF ReturnFailure, Return, Woken, TypeOK
    <3> QED
      BY <3>1 DEF Inv, NoLostMail, ReturnFailure, ring, lists
  <2>2. CASE entry = 0
    BY <1>5, <2>2 DEF NoLostMail, ReturnFailure, ring
  <2> QED
    BY <2>1, <2>2
<1>7. NoLostRoom'
  <2>1. CASE error[t] # "EOK" \/ call[t] # "send"
    <3>1. Woken("send")' = Woken("send")
      BY <1>1, <2>1 DEF ReturnFailure, Return, Woken, TypeOK
    <3> QED
      BY <3>1 DEF Inv, NoLostRoom, ReturnFailure, ring, lists
  <2>2. CASE entry = Size
    BY <1>5, <2>2, SizeAssumption DEF NoLostRoom, ReturnFailure, ring
  <2> QED
    BY <2>1, <2>2
<1> QED
  BY <1>2, <1>3, <1>4, <1>6, <1>7 DEF Inv

(***************************************************************************)
(* A thread that does not run is made ready: a timeout, or a resume from   *)
(* outside.                                                                *)
(***************************************************************************)
LEMMA WakeInv ==
    ASSUME Inv, NEW t \in Threads, stat[t] # "ready",
           NEW err \in {"EOK", "ETIMEOUT", "ERROR"}, Wake(t, err),
           stat[t] = "suspend" \/ err = error[t]
    PROVE  Inv'
<1>1. TypeOK /\ WaitersConsistent
  BY DEF Inv
<1>2. /\ suspend_thread \in Seq(Threads) /\ IsInjective(suspend_thread)
      /\ suspend_sender_thread \in Seq(Threads) /\ IsInjective(suspend_sender_thread)
  BY <1>1 DEF TypeOK, WaitersConsistent
<1>3. /\ suspend_thread' \in Seq(Threads) /\ IsInjective(suspend_thread')
      /\ ToSet(suspend_thread') = ToSet(suspend_thread) \ {t}
      /\ Ordered(suspend_thread, Priority) => Ordered(suspend_thread', Priority)
  BY <1>2, ListRemoveProperties DEF Wake
<1>4. /\ suspend_sender_thread' \in Seq(Threads) /\ IsInjective(suspend_sender_thread')
      /\ ToSet(suspend_sender_thread') = ToSet(suspend_sender_thread) \ {t}
      /\ Ordered(suspend_sender_thread, Priority) => Ordered(suspend_sender_thread', Priority)
  BY <1>2, ListRemoveProperties DEF Wake
<1>5. TypeOK'
  BY <1>1, <1>3, <1>4 DEF Wake, TypeOK, ring
<1>6. WaitersConsistent'
  <2>1. ToSet(suspend_thread)' = Waiting("recv")'
    BY <1>1, <1>3 DEF Wake, Waiting, TypeOK, WaitersConsistent
  <2>2. ToSet(suspend_sender_thread)' = Waiting("send")'
    BY <1>1, <1>4 DEF Wake, Waiting, TypeOK, WaitersConsistent
  <2> QED
    BY <1>1, <1>3, <1>4, <2>1, <2>2 DEF Wake, TypeOK, WaitersConsistent
<1>7. RingConsistent' /\ WaitersOrdered'
  BY <1>3, <1>4 DEF Inv, RingConsistent, WaitersOrdered, Wake, ring
<1>8. ASSUME NEW kind \in {"recv", "send"}
      PROVE  /\ Cardinality(Woken(kind)) <= Cardinality(Woken(kind)')
             /\ Cardinality(Woken(kind)) \in Nat /\ Cardinality(Woken(kind)') \in Nat
  <2>1. Woken(kind) \subseteq Woken(kind)'
    BY <1>1 DEF Woken, Wake, TypeOK, WaitersConsistent
  <2>2. IsFiniteSet(Woken(kind)')
    BY ThreadsAssumption, FS_Subset DEF Woken
  <2> QED
    BY <2>1, <2>2, WokenFinite, FS_Subset, FS_CardinalityType
<1>9. NoLostMail'
  <2>1. suspend_thread' # <<>> => suspend_thread # <<>>
    BY <1>2, <1>3 DEF ToSet
  <2> QED
    BY <1>1, <1>8, <2>1 DEF Inv, NoLostMail, Wake, ring, TypeOK
<1>10. NoLostRoom'
  <2>1. suspend_sender_thread' # <<>> => suspend_sender_thread # <<>>
    BY <1>2, <1>4 DEF ToSet
  <2> QED
    BY <1>1, <1>8, <2>1, SizeAssumption DEF Inv, NoLostRoom, Wake, ring, TypeOK
<1> QED
  BY <1>5, <1>6, <1>7, <1>9, <1>10 DEF Inv

(***************************************************************************)
(* A woken thread is stopped before it runs: it still counts as woken.     *)
(***************************************************************************)
LEMMA SuspendInv ==
    ASSUME Inv, NEW t \in Threads, rt_thread_suspend(t)
    PROVE  Inv'
<1>1. TypeOK /\ WaitersConsistent
  BY DEF Inv
<1>2. TypeOK'
  BY <1>1 DEF rt_thread_suspend, TypeOK, ring, lists
<1>3. /\ Waiting("recv")' = Waiting("recv") /\ Waiting("send")' = Waiting("send")
      /\ Woken("recv")' = Woken("recv") /\ Woken("send")' = Woken("send")
  BY <1>1 DEF rt_thread_suspend, Waiting, Woken, TypeOK
<1>4. WaitersConsistent'
  BY <1>1, <1>3 DEF rt_thread_suspend, WaitersConsistent, TypeOK, lists
<1>5. RingConsistent' /\ WaitersOrdered'
  BY DEF Inv, RingConsistent, WaitersOrdered, rt_thread_suspend, ring, lists
<1>6. NoLostMail' /\ NoLostRoom'
  BY <1>3 DEF Inv, NoLostMail, NoLostRoom, rt_thread_suspend, ring, lists
<1> QED
  BY <1>2, <1>4, <1>5, <1>6 DEF Inv

(***************************************************************************)
(* The reset empties the ring and both lists.                              *)
(***************************************************************************)
LEMMA ResetInv ==
    ASSUME Inv, rt_mb_control
    PROVE  Inv'
<1>1. TypeOK /\ WaitersConsistent
  BY DEF Inv
<1>2. TypeOK'
  BY <1>1, SizeAssumption DEF rt_mb_control, TypeOK
<1>3. suspend_thread' = <<>> /\ suspend_sender_thread' = <<>>
  BY DEF rt_mb_control
<1>4. WaitersConsistent'
  <2>1. \A t \in Threads : stat'[t] # "suspend"
    BY <1>1 DEF rt_mb_control, TypeOK, WaitersConsistent, Waiting
  <2>2. Waiting("recv")' = {} /\ Waiting("send")' = {}
    BY <2>1 DEF Waiting
  <2>3. ToSet(<<>>) = {} /\ IsInjective(<<>>)
    BY DEF ToSet, IsInjective
  <2>4. call' = call /\ mail' = mail
    BY DEF rt_mb_control
  <2> QED
    BY <1>1, <1>3, <2>1, <2>2, <2>3, <2>4 DEF WaitersConsistent
<1>5. RingConsistent'
  BY SizeAssumption DEF RingConsistent, rt_mb_control
<1>6. NoLostMail' /\ NoLostRoom' /\ WaitersOrdered'
  BY <1>3 DEF NoLostMail, NoLostRoom, WaitersOrdered, Ordered
<1> QED
  BY <1>2, <1>4, <1>5, <1>6 DEF Inv

(***************************************************************************)
(* The step a thread takes inside a call after it was woken.               *)
(***************************************************************************)
LEMMA ContinueInv ==
    ASSUME Inv, NEW t \in Threads, ContinueSend(t) \/ ContinueRecv(t)
    PROVE  Inv'
<1>1. TypeOK /\ WaitersConsistent
  BY DEF Inv
<1>2. TimeLeft(t) \subseteq Timeouts
  BY <1>1 DEF TypeOK, TimeLeft, Timeouts
<1>3. CASE ContinueSend(t)
  <2>1. mail[t] \in Mails /\ call[t] = "send" /\ stat[t] = "ready"
    BY <1>1, <1>3 DEF WaitersConsistent, ContinueSend
  <2>2. CASE error[t] # "EOK" /\ ReturnFailure(t)
    BY <2>1, <2>2, ReturnFailureInv
  <2>3. CASE entry < Size /\ Deposit(t, mail[t])
    BY <2>1, <2>3, DepositInv
  <2>4. CASE entry = Size /\ \E time \in TimeLeft(t) :
               \/ WaitForRoom(t, mail[t], time)
               \/ time = "zero" /\ ReturnFailure(t)
    BY <1>2, <2>1, <2>4, WaitForRoomInv, ReturnFailureInv
  <2> QED
    BY <1>3, <2>2, <2>3, <2>4 DEF ContinueSend
<1>4. CASE ContinueRecv(t)
  <2>1. call[t] = "recv" /\ stat[t] = "ready"
    BY <1>4 DEF ContinueRecv
  <2>2. CASE error[t] # "EOK" /\ ReturnFailure(t)
    BY <2>1, <2>2, ReturnFailureInv
  <2>3. CASE entry > 0 /\ Collect(t)
    BY <2>1, <2>3, CollectInv
  <2>4. CASE entry = 0 /\ \E time \in TimeLeft(t) :
               \/ WaitForMail(t, time)
               \/ time = "zero" /\ ReturnFailure(t)
    BY <1>2, <2>1, <2>4, WaitForMailInv, ReturnFailureInv
  <2> QED
    BY <1>4, <2>2, <2>3, <2>4 DEF ContinueRecv
<1> QED
  BY <1>3, <1>4

(***************************************************************************)
(* Every step keeps the invariant.                                         *)
(***************************************************************************)
LEMMA NextInv == Inv /\ [Next]_vars => Inv'
<1> SUFFICES ASSUME Inv, [Next]_vars PROVE Inv'
  OBVIOUS
<1>1. ASSUME NEW t \in Threads, NEW v \in Mails, NEW time \in Timeouts,
             rt_mb_send_wait(t, v, time)
      PROVE  Inv'
  BY <1>1, DepositInv, WaitForRoomInv DEF rt_mb_send_wait, Idle
<1>2. ASSUME NEW t \in Threads, NEW time \in Timeouts, rt_mb_recv(t, time)
      PROVE  Inv'
  BY <1>2, CollectInv, WaitForMailInv DEF rt_mb_recv, Idle
<1>3. ASSUME NEW t \in Threads, rt_thread_timeout(t)
      PROVE  Inv'
  BY <1>3, WakeInv DEF rt_thread_timeout
<1>4. ASSUME NEW t \in Threads, rt_thread_resume(t)
      PROVE  Inv'
  <2>1. error[t] \in {"EOK", "ETIMEOUT", "ERROR"}
    BY DEF Inv, TypeOK
  <2> QED
    BY <1>4, <2>1, WakeInv DEF rt_thread_resume
<1>5. CASE UNCHANGED vars
  <2>1. /\ Waiting("recv")' = Waiting("recv") /\ Waiting("send")' = Waiting("send")
        /\ Woken("recv")' = Woken("recv") /\ Woken("send")' = Woken("send")
    BY <1>5 DEF vars, Waiting, Woken
  <2> QED
    BY <1>5, <2>1 DEF vars, ring, lists, Inv, TypeOK, WaitersConsistent, RingConsistent,
                      NoLostMail, NoLostRoom, WaitersOrdered
<1> QED
  BY <1>1, <1>2, <1>3, <1>4, <1>5, ContinueInv, SuspendInv, ResetInv
     DEF Next, ThreadStep

\* The invariant holds of every behaviour of the mailbox.
THEOREM Invariance == Spec => []Inv
BY InitInv, NextInv, PTL DEF Spec

\* Types: in particular no offset ever leaves the ring and entry never exceeds
\* the size, whatever the threads do.
THEOREM TypeCorrect == Spec => []TypeOK
<1>1. Inv => TypeOK
  BY DEF Inv
<1> QED
  BY <1>1, Invariance, PTL

\* The two offsets and the counter agree for every size of the ring: rt_mb_send_wait
\* writes right behind the mails that wait, also after either offset has wrapped.
THEOREM RingCorrect == Spec => []RingConsistent
<1>1. Inv => RingConsistent
  BY DEF Inv
<1> QED
  BY <1>1, Invariance, PTL

\* No wake-up is lost: while a receiver of rt_mb_recv (a sender of
\* rt_mb_send_wait) sleeps on its list, every mail (every free slot) has a
\* thread on its way to it.
THEOREM NoLostWakeup == Spec => []NobodySleepsInVain
<1>1. Inv => NobodySleepsInVain
  BY DEF Inv, NobodySleepsInVain
<1> QED
  BY <1>1, Invariance, PTL

\* The lists of rt_ipc_list_suspend hold exactly the threads that wait, each
\* once, in order of priority where the flag says so.
THEOREM ListsCorrect == Spec => []WaitersCorrect
<1>1. Inv => WaitersCorrect
  BY DEF Inv, WaitersCorrect
<1> QED
  BY <1>1, Invariance, PTL

(***************************************************************************)
(* Storing a mail appends it to the contents.                              *)
(***************************************************************************)
LEMMA DepositRefines ==
    ASSUME Inv, NEW t \in Threads, NEW v \in Mails, Deposit(t, v), entry < Size
    PROVE  Fifo!Put(v)
<1> USE SizeAssumption
<1>1. /\ entry \in 0..Size /\ out_offset \in 0..Size-1 /\ in_offset \in 0..Size-1
      /\ msg_pool \in [0..Size-1 -> Mails \cup {NoMail}] /\ RingConsistent
  BY DEF Inv, TypeOK
<1>2. /\ entry' = entry + 1 /\ out_offset' = out_offset /\ got' = got
      /\ msg_pool' = [msg_pool EXCEPT ![in_offset] = v]
  BY DEF Deposit
<1>3. Contents \in Seq(Mails \cup {NoMail}) /\ Len(Contents) = entry
  BY <1>1 DEF Contents, Slot
<1>4. Contents' = Append(Contents, v)
  <2>1. \A k \in 1..entry : Slot(k - 1) \in 0..Size-1 /\ Slot(k - 1) # in_offset
    BY <1>1 DEF Slot, RingConsistent
  <2>2. Slot(entry) = in_offset
    BY <1>1 DEF Slot, RingConsistent
  <2>3. \A k \in 1..entry+1 : Contents'[k] = msg_pool'[Slot(k - 1)]
    BY <1>1, <1>2 DEF Contents, Slot
  <2>4. \A k \in 1..entry : Contents'[k] = Contents[k]
    BY <1>1, <1>2, <2>1, <2>3 DEF Contents
  <2>5. Contents'[entry + 1] = v
    <3>1. (entry + 1) - 1 = entry /\ entry + 1 \in 1..entry+1
      BY <1>1
    <3> QED
      BY <1>1, <1>2, <2>2, <2>3, <3>1
  <2>6. Contents' \in Seq(Mails \cup {NoMail}) /\ Len(Contents') = entry + 1
    <3>1. \A k \in 1..entry+1 : Contents'[k] \in Mails \cup {NoMail}
      BY <1>1, <1>3, <2>4, <2>5 DEF Contents
    <3>2. Contents' = [k \in 1..entry+1 |-> Contents'[k]]
      BY <1>2 DEF Contents
    <3> QED
      BY <1>1, <3>1, <3>2
  <2>7. /\ Append(Contents, v) \in Seq(Mails \cup {NoMail})
        /\ Len(Append(Contents, v)) = entry + 1
        /\ \A k \in 1..entry : Append(Contents, v)[k] = Contents[k]
        /\ Append(Contents, v)[entry + 1] = v
    BY <1>1, <1>3
  <2>8. \A k \in 1..entry+1 : Contents'[k] = Append(Contents, v)[k]
    BY <1>1, <2>4, <2>5, <2>7
  <2> QED
    BY <2>6, <2>7, <2>8, SeqEqual
<1> QED
  BY <1>1, <1>2, <1>3, <1>4 DEF Fifo!Put

(***************************************************************************)
(* Taking a mail takes the head of the contents.                           *)
(***************************************************************************)
LEMMA CollectRefines ==
    ASSUME Inv, NEW t \in Threads, Collect(t), entry > 0
    PROVE  Fifo!Get
<1> USE SizeAssumption
<1>1. /\ entry \in 0..Size /\ out_offset \in 0..Size-1
      /\ msg_pool \in [0..Size-1 -> Mails \cup {NoMail}]
  BY DEF Inv, TypeOK
<1>2. /\ entry' = entry - 1 /\ out_offset' = Advance(out_offset)
      /\ got' = msg_pool[out_offset] /\ msg_pool' = msg_pool
  BY DEF Collect
<1>3. Contents \in Seq(Mails \cup {NoMail}) /\ Len(Contents) = entry
  BY <1>1 DEF Contents, Slot
<1>4. Contents # <<>> /\ Head(Contents) = got'
  <2>1. 1 \in 1..entry /\ Slot(1 - 1) = out_offset
    BY <1>1 DEF Slot
  <2>2. Contents[1] = msg_pool[out_offset]
    BY <2>1 DEF Contents
  <2> QED
    BY <1>2, <1>3, <2>1, <2>2
<1>5. Contents' = Tail(Contents)
  <2>1. \A k \in 1..entry-1 : k + 1 \in 1..entry /\ (k + 1) - 1 = k
    BY <1>1
  <2>2. \A k \in 1..entry-1 : Slot(k - 1)' = Slot(k)
    BY <1>1, <1>2 DEF Slot, Advance
  <2>3. \A k \in 1..entry-1 : Contents'[k] = msg_pool[Slot(k)]
    BY <1>1, <1>2, <2>2 DEF Contents
  <2>4. \A k \in 1..entry-1 : Contents[k + 1] = msg_pool[Slot(k)]
    BY <1>1, <2>1 DEF Contents
  <2>5. /\ Tail(Contents) \in Seq(Mails \cup {NoMail}) /\ Len(Tail(Contents)) = entry - 1
        /\ \A k \in 1..entry-1 : Tail(Contents)[k] = Contents[k + 1]
    BY <1>3, <1>4
  <2>6. Contents' \in Seq(Mails \cup {NoMail}) /\ Len(Contents') = entry - 1
    <3>1. Contents' = [k \in 1..entry-1 |-> Contents'[k]]
      BY <1>2 DEF Contents
    <3>2. \A k \in 1..entry-1 : Contents'[k] \in Mails \cup {NoMail}
      BY <1>1, <2>3 DEF Slot
    <3> QED
      BY <1>1, <3>1, <3>2
  <2> QED
    BY <2>3, <2>4, <2>5, <2>6, SeqEqual
<1> QED
  BY <1>4, <1>5 DEF Fifo!Get

(***************************************************************************)
(* A step that leaves the ring alone leaves the contents alone.            *)
(***************************************************************************)
LEMMA RingUnchangedRefines ==
    ASSUME UNCHANGED <<ring, got>>
    PROVE  UNCHANGED Fifo!vars
BY DEF ring, Contents, Slot, Fifo!vars

(***************************************************************************)
(* Every step of the mailbox is a step of the bounded buffer, or changes   *)
(* nothing of it.                                                          *)
(***************************************************************************)
LEMMA NextRefines == Inv /\ [Next]_vars => [Fifo!Next]_(Fifo!vars)
<1> SUFFICES ASSUME Inv, [Next]_vars PROVE Fifo!Next \/ UNCHANGED Fifo!vars
  OBVIOUS
<1>1. ASSUME NEW t \in Threads, NEW v \in Mails, entry < Size, Deposit(t, v)
      PROVE  Fifo!Next
  BY <1>1, DepositRefines DEF Fifo!Next
<1>2. ASSUME NEW t \in Threads, entry > 0, Collect(t)
      PROVE  Fifo!Next
  BY <1>2, CollectRefines DEF Fifo!Next
<1>3. CASE UNCHANGED <<ring, got>>
  BY <1>3, RingUnchangedRefines
<1>4. CASE rt_mb_control
  <2>1. Contents' = <<>> /\ got' = got
    BY <1>4 DEF rt_mb_control, Contents
  <2> QED
    BY <2>1 DEF Fifo!Next, Fifo!Clear
<1>5. ASSUME NEW t \in Threads, ThreadStep(t)
      PROVE  \/ UNCHANGED <<ring, got>>
             \/ \E v \in Mails : entry < Size /\ Deposit(t, v)
             \/ entry > 0 /\ Collect(t)
  <2>1. call[t] = "send" => mail[t] \in Mails
    BY DEF Inv, WaitersConsistent
  <2>2. ASSUME NEW v \in Mails, NEW time \in Timeouts, rt_mb_send_wait(t, v, time)
        PROVE  UNCHANGED <<ring, got>> \/ (entry < Size /\ Deposit(t, v))
    BY <2>2 DEF rt_mb_send_wait, WaitForRoom
  <2>3. ASSUME NEW time \in Timeouts, rt_mb_recv(t, time)
        PROVE  UNCHANGED <<ring, got>> \/ (entry > 0 /\ Collect(t))
    BY <2>3 DEF rt_mb_recv, WaitForMail
  <2>4. CASE ContinueSend(t)
    BY <2>1, <2>4 DEF ContinueSend, WaitForRoom, ReturnFailure
  <2>5. CASE ContinueRecv(t)
    BY <2>5 DEF ContinueRecv, WaitForMail, ReturnFailure
  <2>6. CASE rt_thread_timeout(t) \/ rt_thread_resume(t) \/ rt_thread_suspend(t)
    BY <2>6 DEF rt_thread_timeout, rt_thread_resume, rt_thread_suspend, Wake
  <2> QED
    BY <1>5, <2>2, <2>3, <2>4, <2>5, <2>6 DEF ThreadStep
<1>6. CASE UNCHANGED vars
  BY <1>3, <1>6 DEF vars
<1> QED
  BY <1>1, <1>2, <1>3, <1>4, <1>5, <1>6 DEF Next

\* The ring buffer implements the bounded first-in first-out buffer, for every
\* size: the mails rt_mb_recv hands out are the mails rt_mb_send_wait accepted,
\* each once and in their order.
THEOREM Refinement == Spec => ImplementsFifo
<1>1. Init => Fifo!Init
  BY DEF Init, Fifo!Init, Contents
<1> QED
  BY <1>1, NextRefines, Invariance, PTL DEF Spec, ImplementsFifo, Fifo!Spec
=============================================================================
