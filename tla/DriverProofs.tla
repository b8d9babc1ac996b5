---------------------------- MODULE DriverProofs ----------------------------
(***************************************************************************)
(* The AT client and the events of the NB-IoT driver above it.  First the  *)
(* lock, the response object and the semaphore of the AT client, for every *)
(* number of callers, all priorities and any behaviour of the modem; then  *)
(* the event object and the thread of the power saving mode, for every     *)
(* number of users.  The two models have nothing in common but the lists:  *)
(* no proof about one uses an assumption or a definition of the other.     *)
(***************************************************************************)
EXTENDS AtClient, NbEvents, RtIpcListProofs

\* The lock, without the types: LockConsistent is TypeOK and this.
LockHeld ==
    /\ \A t \in Callers : pc[t] \in Inside <=> owner = t
    /\ IsInjective(waiters) /\ ToSet(waiters) = {t \in Callers : pc[t] = "lock"}
    /\ waiters # <<>> => owner # Nobody

\* The object the parser looks for belongs to the call that has the lock.
RespOwned == resp # Nobody => resp = owner

\* at_client_obj_wait_connect has its own object from its call to at_delete_resp.
OwnExists ==
    \A t \in Callers :
        t \in own <=> /\ kind[t] = "connect"
                      /\ pc[t] \in {"take", "lock", "attach", "write", "take_notice", "wait",
                                    "late", "woken"}

\* The counts the parser may still add: one, as long as it has a response
\* object before it or in its hands.
Pending == IF resp # Nobody \/ parser_pc \in {"copy", "notify"} THEN 1 ELSE 0

\* What NoticeBounded needs to be inductive.  A command adds at most one count,
\* which the object it attaches stands for, and takes one off before it may
\* wait; only between the two are two counts there or on their way.
PendingBounded ==
    resp_notice + Pending <=
        (IF \E t \in Callers : pc[t] \in {"write", "take_notice"} THEN 2 ELSE 1)

Inv == TypeOK /\ LockHeld /\ RespOwned /\ OwnExists /\ PendingBounded /\ NoLostNotice

(***************************************************************************)
(* The constants as the provers need them.                                 *)
(***************************************************************************)
LEMMA Constants ==
    /\ Callers \subseteq Threads /\ Nobody \notin Callers
    /\ Attempts \in Nat /\ Attempts > 0 /\ AnswersMax \in Nat /\ AnswersMax > 0
    /\ \A t \in Callers : Priority[t] \in Nat
BY ParserAssumption, AttemptsAssumption, AnswersMaxAssumption, PriorityAssumption DEF Callers

(***************************************************************************)
(* The initial state.                                                      *)
(***************************************************************************)
LEMMA InitInv == Init => Inv
<1> SUFFICES ASSUME Init PROVE Inv
  OBVIOUS
<1> USE Constants DEF Init
<1>1. TypeOK
  BY DEF TypeOK, Answers
<1>2. LockHeld
  BY DEF LockHeld, Inside, ToSet, IsInjective
<1>3. RespOwned /\ OwnExists /\ PendingBounded /\ NoLostNotice
  BY DEF RespOwned, OwnExists, PendingBounded, Pending, NoLostNotice
<1> QED
  BY <1>1, <1>2, <1>3 DEF Inv

(***************************************************************************)
(* rt_mutex_take makes the thread the owner or puts it on the list, once.  *)
(***************************************************************************)
LEMMA TakeLock ==
    ASSUME TypeOK, LockHeld, NEW t \in Callers, pc[t] = "take", rt_mutex_take(t)
    PROVE  /\ owner' \in Callers \cup {Nobody} /\ owner_priority' \in Nat
           /\ waiters' \in Seq(Callers)
           /\ pc' = [pc EXCEPT ![t] = "attach"] \/ pc' = [pc EXCEPT ![t] = "lock"]
           /\ LockHeld'
<1> USE Constants
<1>1. CASE owner = Nobody
  BY <1>1 DEF rt_mutex_take, LockHeld, TypeOK, Goto, Inside
<1>2. CASE owner # Nobody
  <2>1. /\ waiters' = ListSuspend(waiters, t, Priority) /\ UNCHANGED owner
        /\ owner_priority' = Min({owner_priority, Priority[t]})
        /\ pc' = [pc EXCEPT ![t] = "lock"]
    BY <1>2 DEF rt_mutex_take, Goto
  <2>2. waiters \in Seq(Threads) /\ t \in Threads /\ t \notin ToSet(waiters)
    BY DEF TypeOK, LockHeld
  <2>3. /\ waiters' \in Seq(Threads) /\ ToSet(waiters') = ToSet(waiters) \cup {t}
        /\ IsInjective(waiters')
    BY <2>1, <2>2, ListSuspendProperties DEF LockHeld
  <2>4. ToSet(waiters') = {u \in Callers : pc'[u] = "lock"}
    BY <2>1, <2>3 DEF LockHeld, TypeOK
  <2>5. \A i \in 1..Len(waiters') : waiters'[i] \in Callers
    BY <2>4 DEF ToSet
  <2>6. waiters' \in Seq(Callers)
    BY <2>3, <2>5
  <2>7. owner_priority' \in Nat
    <3>1. {owner_priority, Priority[t]} \in SUBSET Nat
      BY DEF TypeOK
    <3> QED
      BY <2>1, <3>1, MinNat
  <2> QED
    BY <1>2, <2>1, <2>3, <2>4, <2>6, <2>7 DEF LockHeld, TypeOK, Inside
<1> QED
  BY <1>1, <1>2

(***************************************************************************)
(* rt_mutex_release frees the lock or hands it to the first waiter, and no *)
(* caller is in the middle of a command afterwards.                        *)
(***************************************************************************)
LEMMA ReleaseLock ==
    ASSUME TypeOK, LockHeld, NEW t \in Callers, owner = t,
           NEW there \in {"idle", "parse", "failed"}, rt_mutex_release(t, there)
    PROVE  /\ owner' \in Callers \cup {Nobody} /\ owner_priority' \in Nat
           /\ waiters' \in Seq(Callers)
           /\ pc' \in [Callers -> {"idle", "take", "lock", "attach", "write", "take_notice",
                                   "wait", "late", "woken", "detach", "detach_late",
                                   "parse", "failed"}]
           /\ LockHeld'
           /\ \A u \in Callers : pc'[u] \notin {"write", "take_notice", "wait"}
           /\ \A u \in Callers : \/ u = t /\ pc'[u] = there
                                 \/ u # t /\ pc[u] = "lock" /\ pc'[u] = "attach"
                                 \/ u # t /\ pc'[u] = pc[u]
<1> USE Constants
<1>1. CASE waiters = <<>>
  <2>1. \A u \in Callers : pc'[u] = IF u = t THEN there ELSE pc[u]
    BY <1>1 DEF rt_mutex_release, Goto, TypeOK
  <2> QED
    BY <1>1, <2>1 DEF rt_mutex_release, LockHeld, TypeOK, Goto, Inside
<1>2. CASE waiters # <<>>
  <2>1. PICK h : h = Head(waiters)
    OBVIOUS
  <2>2. /\ owner' = h /\ owner_priority' = Priority[h] /\ waiters' = Tail(waiters)
        /\ pc' = [pc EXCEPT ![t] = there, ![h] = "attach"]
    BY <1>2, <2>1 DEF rt_mutex_release
  <2>3. /\ h \in ToSet(waiters) /\ ToSet(waiters') = ToSet(waiters) \ {h}
        /\ IsInjective(waiters')
    <3>1. waiters \in Seq(Threads) /\ IsInjective(waiters)
      BY DEF TypeOK, LockHeld
    <3> QED
      BY <1>2, <2>1, <2>2, <3>1, TailProperties
  <2>4. h \in Callers /\ pc[h] = "lock" /\ h # t /\ waiters' \in Seq(Callers)
    BY <1>2, <2>2, <2>3 DEF LockHeld, Inside, TypeOK
  <2>5. \A u \in Callers : pc'[u] = IF u = h THEN "attach" ELSE IF u = t THEN there ELSE pc[u]
    BY <2>2, <2>4 DEF TypeOK
  <2>6. ToSet(waiters') = {u \in Callers : pc'[u] = "lock"}
    BY <2>3, <2>4, <2>5 DEF LockHeld
  <2>7. \A u \in Callers : pc'[u] \in Inside <=> owner' = u
    BY <2>2, <2>4, <2>5 DEF LockHeld, Inside
  <2>8. \A u \in Callers : pc'[u] \notin {"write", "take_notice", "wait"}
    BY <2>5 DEF LockHeld, Inside
  <2> QED
    BY <2>2, <2>3, <2>4, <2>5, <2>6, <2>7, <2>8 DEF LockHeld, TypeOK
<1> QED
  BY <1>1, <1>2

(***************************************************************************)
(* The end of a call: the object is detached and the lock goes.            *)
(***************************************************************************)
LEMMA ExitInv ==
    ASSUME Inv, NEW t \in Callers,
           \/ pc[t] \in {"late", "woken"} /\ kind[t] = "exec"
           \/ pc[t] \in {"detach", "detach_late"},
           NEW there \in {"idle", "parse", "failed"}, Exit(t, there),
           tries' \in 0..Attempts-1, resp_status' \in {"OK", "ERROR", "TIMEOUT"},
           parser_resp' \in {"none", "nb_resp", "own", "returned", "freed"},
           UNCHANGED <<kind, own, resp_notice, nb_resp, buf, answers, parser_pc, line>>
    PROVE  Inv'
<1>1. owner = t
  BY DEF Inv, LockHeld, Inside
<1>2. /\ owner' \in Callers \cup {Nobody} /\ owner_priority' \in Nat
      /\ waiters' \in Seq(Callers)
      /\ pc' \in [Callers -> {"idle", "take", "lock", "attach", "write", "take_notice",
                              "wait", "late", "woken", "detach", "detach_late",
                              "parse", "failed"}]
      /\ LockHeld'
      /\ \A u \in Callers : pc'[u] \notin {"write", "take_notice", "wait"}
      /\ \A u \in Callers : \/ u = t /\ pc'[u] = there
                            \/ u # t /\ pc[u] = "lock" /\ pc'[u] = "attach"
                            \/ u # t /\ pc'[u] = pc[u]
  BY <1>1, ReleaseLock DEF Exit, Inv
<1>3. TypeOK'
  BY <1>2 DEF Inv, TypeOK, Exit
<1>4. RespOwned' /\ NoLostNotice'
  BY <1>2 DEF Exit, RespOwned, NoLostNotice
<1>5. OwnExists'
  BY <1>2 DEF Inv, OwnExists
<1>6. resp_notice + Pending <= 1
  <2>1. \A u \in Callers : pc[u] \notin {"write", "take_notice"}
    BY <1>1 DEF Inv, LockHeld, Inside
  <2> QED
    BY <2>1 DEF Inv, PendingBounded
<1>7. PendingBounded'
  BY <1>2, <1>6 DEF Exit, PendingBounded, Pending, Inv, TypeOK
<1> QED
  BY <1>2, <1>3, <1>4, <1>5, <1>7 DEF Inv

(***************************************************************************)
(* at_client_obj_wait_connect deletes its object and keeps the lock.       *)
(***************************************************************************)
LEMMA DeleteInv ==
    ASSUME Inv, NEW t \in Callers, pc[t] \in {"late", "woken"},
           NEW there \in {"detach", "detach_late"}, Delete(t, there),
           UNCHANGED <<kind, tries, resp_status, resp_notice, nb_resp, buf, answers, parser_pc, line>>
    PROVE  Inv'
<1> USE DEF Inv, Delete, Goto, lock
<1>1. TypeOK'
  BY DEF TypeOK
<1>2. LockHeld'
  BY DEF TypeOK, LockHeld, Inside
<1>3. RespOwned' /\ NoLostNotice'
  BY DEF TypeOK, RespOwned, NoLostNotice
<1>4. OwnExists'
  BY DEF TypeOK, OwnExists
<1>5. PendingBounded'
  BY DEF TypeOK, PendingBounded, Pending
<1> QED
  BY <1>1, <1>2, <1>3, <1>4, <1>5

(***************************************************************************)
(* The steps of a caller, from its call to the end of its command.         *)
(***************************************************************************)
LEMMA CallInv ==
    ASSUME Inv, NEW t \in Callers, NEW k \in {"exec", "connect"}, Call(t, k)
    PROVE  Inv'
<1> USE DEF Inv, Call, Goto, lock, response, parser
<1>1. TypeOK'
  BY DEF TypeOK
<1>2. LockHeld'
  BY DEF TypeOK, LockHeld, Inside
<1>3. RespOwned' /\ OwnExists' /\ NoLostNotice'
  BY DEF TypeOK, RespOwned, OwnExists, NoLostNotice
<1>4. PendingBounded'
  BY DEF TypeOK, PendingBounded, Pending
<1> QED
  BY <1>1, <1>2, <1>3, <1>4

\* The lock is free or another caller has it.
LEMMA TakeInv ==
    ASSUME Inv, NEW t \in Callers, Take(t)
    PROVE  Inv'
<1> USE DEF Inv, Take, At, response, parser
<1>1. /\ owner' \in Callers \cup {Nobody} /\ owner_priority' \in Nat
      /\ waiters' \in Seq(Callers)
      /\ pc' = [pc EXCEPT ![t] = "attach"] \/ pc' = [pc EXCEPT ![t] = "lock"]
      /\ LockHeld'
  BY TakeLock
<1>2. TypeOK'
  BY <1>1 DEF TypeOK
<1>3. RespOwned' /\ OwnExists'
  <2>1. RespOwned'
    BY Constants DEF RespOwned, rt_mutex_take, TypeOK
  <2>2. OwnExists'
    BY <1>1 DEF OwnExists, TypeOK
  <2> QED
    BY <2>1, <2>2
<1>4. NoLostNotice' /\ PendingBounded'
  BY <1>1 DEF NoLostNotice, PendingBounded, Pending, TypeOK
<1> QED
  BY <1>1, <1>2, <1>3, <1>4

\* The response object is attached: its answer is one more pending count.
LEMMA AttachInv ==
    ASSUME Inv, NEW t \in Callers, Attach(t)
    PROVE  Inv'
<1> USE DEF Inv, Attach, At, Goto, lock, parser
<1>1. owner = t /\ \A u \in Callers : pc[u] \in Inside => u = t
  BY DEF LockHeld, Inside
<1>2. TypeOK'
  BY Constants DEF TypeOK
<1>3. LockHeld'
  BY DEF TypeOK, LockHeld, Inside
<1>4. RespOwned' /\ OwnExists' /\ NoLostNotice'
  BY <1>1 DEF TypeOK, RespOwned, OwnExists, NoLostNotice, Inside
<1>5. PendingBounded'
  <2>1. resp_notice <= 1
    BY <1>1 DEF TypeOK, PendingBounded, Pending, Inside
  <2>2. pc'[t] = "write"
    BY DEF TypeOK
  <2> QED
    BY <2>1, <2>2 DEF TypeOK, PendingBounded, Pending
<1> QED
  BY <1>2, <1>3, <1>4, <1>5

\* The command is sent.
LEMMA WriteInv ==
    ASSUME Inv, NEW t \in Callers, Write(t)
    PROVE  Inv'
<1> USE DEF Inv, At, Goto, lock, response
<1>1. PICK before : before = [i \in 1..Len(answers) |-> "old"]
  OBVIOUS
<1>2. before \in Seq(Answers) /\ Len(before) = Len(answers)
  BY <1>1 DEF TypeOK, Answers
<1>3. answers' \in Seq(Answers) /\ Len(answers') <= AnswersMax
  <2>1. answers' = before \/ (Len(answers) < AnswersMax /\ answers' = Append(before, t))
    BY <1>1 DEF Write
  <2>2. t \in Answers /\ Len(answers) \in Nat
    BY DEF Answers, TypeOK
  <2>3. CASE answers' = before
    BY <1>2, <2>3 DEF TypeOK
  <2>4. CASE Len(answers) < AnswersMax /\ answers' = Append(before, t)
    <3>1. answers' \in Seq(Answers) /\ Len(answers') = Len(answers) + 1
      BY <1>2, <2>2, <2>4
    <3> QED
      BY <2>2, <2>4, <3>1, Constants
  <2> QED
    BY <2>1, <2>3, <2>4
<1>4. TypeOK'
  BY <1>3 DEF TypeOK, Write, Answers
<1>5. LockHeld'
  BY DEF TypeOK, LockHeld, Inside, Write
<1>6. RespOwned' /\ OwnExists' /\ NoLostNotice'
  BY DEF TypeOK, RespOwned, OwnExists, NoLostNotice, Write
<1>7. PendingBounded'
  <2>1. pc[t] = "write" /\ pc'[t] = "take_notice"
    BY DEF TypeOK, Write
  <2> QED
    BY <2>1 DEF TypeOK, PendingBounded, Pending, Write
<1> QED
  BY <1>4, <1>5, <1>6, <1>7

\* A count is taken off, or there is none and the caller waits.
LEMMA TakeNoticeInv ==
    ASSUME Inv, NEW t \in Callers, TakeNotice(t)
    PROVE  Inv'
<1> USE DEF Inv, TakeNotice, At, Goto, lock, parser
<1>1. owner = t /\ \A u \in Callers : pc[u] \in Inside => u = t
  BY DEF LockHeld, Inside
<1>2. TypeOK'
  BY DEF TypeOK
<1>3. LockHeld'
  BY DEF TypeOK, LockHeld, Inside
<1>4. RespOwned' /\ OwnExists' /\ NoLostNotice'
  BY <1>1 DEF TypeOK, RespOwned, OwnExists, NoLostNotice, Inside
<1>5. PendingBounded'
  <2>1. resp_notice + Pending <= 2
    BY DEF TypeOK, PendingBounded, Pending
  <2>2. CASE Pending = 0 /\ Pending' = 0
    <3>1. resp_notice' = 0 \/ resp_notice' = 1
      BY <2>1, <2>2 DEF TypeOK
    <3> QED
      BY <2>2, <3>1 DEF PendingBounded
  <2>3. CASE Pending = 1 /\ Pending' = 1
    <3>1. resp_notice' = 0
      BY <2>1, <2>3 DEF TypeOK
    <3> QED
      BY <2>3, <3>1 DEF PendingBounded
  <2>4. Pending' = Pending /\ (Pending = 0 \/ Pending = 1)
    BY DEF Pending
  <2> QED
    BY <2>2, <2>3, <2>4
<1> QED
  BY <1>2, <1>3, <1>4, <1>5

\* The timer of the waiting caller expires.
LEMMA TimeoutInv ==
    ASSUME Inv, NEW t \in Callers, Timeout(t)
    PROVE  Inv'
<1> USE DEF Inv, Timeout, Goto, lock, response, parser
<1>1. TypeOK'
  BY DEF TypeOK
<1>2. LockHeld'
  BY DEF TypeOK, LockHeld, Inside
<1>3. RespOwned' /\ OwnExists' /\ NoLostNotice'
  BY DEF TypeOK, RespOwned, OwnExists, NoLostNotice
<1>4. PendingBounded'
  BY DEF TypeOK, PendingBounded, Pending
<1> QED
  BY <1>1, <1>2, <1>3, <1>4

\* After a timeout the call ends or sends its command again.
LEMMA LateInv ==
    ASSUME Inv, NEW t \in Callers, Late(t)
    PROVE  Inv'
<1>1. CASE ExecExit(t, "idle") /\ resp_status' = "TIMEOUT" /\ UNCHANGED tries
  BY <1>1, ExitInv DEF Late, ExecExit, At, Inv, TypeOK
<1>2. CASE Delete(t, "detach_late") /\ UNCHANGED <<tries, resp_status>>
  BY <1>2, DeleteInv DEF Late, At
<1>3. CASE /\ tries > 0 /\ Goto(t, "write") /\ tries' = tries - 1
           /\ UNCHANGED <<own, lock, resp, resp_status, parser_resp>>
  <2> USE <1>3 DEF Inv, Late, At, Goto, lock
  <2>1. TypeOK'
    BY Constants DEF TypeOK
  <2>2. LockHeld'
    BY DEF TypeOK, LockHeld, Inside
  <2>3. RespOwned' /\ OwnExists' /\ NoLostNotice'
    BY DEF TypeOK, RespOwned, OwnExists, NoLostNotice
  <2>4. PendingBounded'
    <3>1. pc'[t] = "write"
      BY DEF TypeOK
    <3> QED
      BY <3>1 DEF TypeOK, PendingBounded, Pending
  <2> QED
    BY <2>1, <2>2, <2>3, <2>4
<1> QED
  BY <1>1, <1>2, <1>3 DEF Late

\* After an answer the call ends.
LEMMA WokenInv ==
    ASSUME Inv, NEW t \in Callers, Woken(t)
    PROVE  Inv'
<1>1. CASE Delete(t, "detach")
  BY <1>1, DeleteInv DEF Woken, At
<1>2. ASSUME NEW there \in {"idle", "parse"}, ExecExit(t, there) PROVE Inv'
  BY <1>2, ExitInv DEF Woken, ExecExit, At, Inv, TypeOK
<1> QED
  BY <1>1, <1>2 DEF Woken

\* at_client_obj_wait_connect ends.
LEMMA DetachInv ==
    ASSUME Inv, NEW t \in Callers, Detach(t)
    PROVE  Inv'
<1>1. PICK there \in {"idle", "failed"} : Exit(t, there)
  BY DEF Detach
<1> QED
  BY <1>1, ExitInv DEF Detach, At, Inv, TypeOK, parser

\* What a caller does after it has released the lock.
LEMMA OutsideInv ==
    ASSUME Inv, NEW t \in Callers, Parse(t) \/ DeleteResp(t)
    PROVE  Inv'
<1> USE DEF Inv, Parse, DeleteResp, At, Goto, lock, response, parser
<1>1. TypeOK'
  BY DEF TypeOK
<1>2. LockHeld'
  BY DEF TypeOK, LockHeld, Inside
<1>3. RespOwned' /\ OwnExists' /\ NoLostNotice'
  BY DEF TypeOK, RespOwned, OwnExists, NoLostNotice
<1>4. PendingBounded'
  BY DEF TypeOK, PendingBounded, Pending
<1> QED
  BY <1>1, <1>2, <1>3, <1>4

(***************************************************************************)
(* The steps of the parser: it goes on with an object only while one is    *)
(* attached, and spends the pending count when it notifies.                *)
(***************************************************************************)
LEMMA ReceiveInv ==
    ASSUME Inv, Receive
    PROVE  Inv'
<1> USE DEF Inv, Receive, caller, lock, response
<1>1. TypeOK'
  <2>1. /\ Head(answers) \in Answers /\ Tail(answers) \in Seq(Answers)
        /\ Len(Tail(answers)) <= AnswersMax
    BY Constants DEF TypeOK
  <2> QED
    BY <2>1 DEF TypeOK
<1>2. LockHeld' /\ RespOwned' /\ OwnExists' /\ NoLostNotice' /\ PendingBounded'
  BY DEF LockHeld, RespOwned, OwnExists, NoLostNotice, PendingBounded, Pending
<1> QED
  BY <1>1, <1>2

\* The parser looks for a response object.
LEMMA LineInv ==
    ASSUME Inv, Line
    PROVE  Inv'
<1> USE DEF Inv, Line, caller, lock, response
<1>1. TypeOK'
  BY DEF TypeOK
<1>2. LockHeld' /\ RespOwned' /\ OwnExists' /\ NoLostNotice'
  BY DEF LockHeld, RespOwned, OwnExists, NoLostNotice
<1>3. PendingBounded'
  BY DEF PendingBounded, Pending
<1> QED
  BY <1>1, <1>2, <1>3

\* The line is stored.
LEMMA CopyInv ==
    ASSUME Inv, Copy
    PROVE  Inv'
<1> USE DEF Inv, Copy, caller, lock
<1>1. TypeOK'
  BY DEF TypeOK
<1>2. LockHeld' /\ RespOwned' /\ OwnExists' /\ NoLostNotice'
  BY DEF LockHeld, RespOwned, OwnExists, NoLostNotice
<1>3. PendingBounded'
  BY DEF PendingBounded, Pending
<1> QED
  BY <1>1, <1>2, <1>3

\* The waiting caller is woken, or the pending count becomes a count.
LEMMA NotifyInv ==
    ASSUME Inv, Notify
    PROVE  Inv'
<1> USE DEF Inv, lock
<1>1. Pending = 1 /\ Pending' = 0
  BY DEF Notify, Pending
<1>2. CASE UNCHANGED pc /\ resp_notice' = resp_notice + 1 /\ \A t \in Callers : pc[t] # "wait"
  <2> USE <1>2 DEF Notify
  <2>1. TypeOK'
    BY DEF TypeOK
  <2>2. LockHeld' /\ RespOwned' /\ OwnExists' /\ NoLostNotice'
    BY DEF LockHeld, RespOwned, OwnExists, NoLostNotice
  <2>3. PendingBounded'
    BY <1>1 DEF PendingBounded, TypeOK
  <2> QED
    BY <2>1, <2>2, <2>3
<1>3. ASSUME NEW t \in Callers, pc[t] = "wait", Goto(t, "woken"), UNCHANGED resp_notice
      PROVE  Inv'
  <2> USE <1>3 DEF Notify, Goto
  <2>1. TypeOK'
    BY DEF TypeOK
  <2>2. LockHeld'
    BY DEF TypeOK, LockHeld, Inside
  <2>3. RespOwned' /\ OwnExists' /\ NoLostNotice'
    BY DEF TypeOK, RespOwned, OwnExists, NoLostNotice
  <2>4. PendingBounded'
    BY <1>1 DEF TypeOK, PendingBounded, NoLostNotice
  <2> QED
    BY <2>1, <2>2, <2>3, <2>4
<1> QED
  BY <1>2, <1>3 DEF Notify

(***************************************************************************)
(* Every step of the callers, of the parser and of the modem.              *)
(***************************************************************************)
LEMMA NextInv == Inv /\ [Next]_vars => Inv'
<1> SUFFICES ASSUME Inv, [Next]_vars PROVE Inv'
  OBVIOUS
<1>1. ASSUME NEW t \in Callers, Step(t) PROVE Inv'
  BY <1>1, TakeInv, AttachInv, WriteInv, TakeNoticeInv, LateInv, WokenInv,
     DetachInv, OutsideInv DEF Step
<1>2. ASSUME NEW t \in Callers, NEW k \in {"exec", "connect"}, Call(t, k) PROVE Inv'
  BY <1>2, CallInv
<1>3. ASSUME NEW t \in Callers, Timeout(t) PROVE Inv'
  BY <1>3, TimeoutInv
<1>4. CASE Receive \/ ParserStep
  BY <1>4, ReceiveInv, LineInv, CopyInv, NotifyInv DEF ParserStep
<1>5. CASE UNCHANGED vars
  BY <1>5 DEF vars, caller, lock, response, parser, Inv, TypeOK, LockHeld, RespOwned, OwnExists,
              PendingBounded, Pending, NoLostNotice, Answers
<1> QED
  BY <1>1, <1>2, <1>3, <1>4, <1>5 DEF Next

\* The invariant holds in every reachable state.
LEMMA Invariance == Spec => []Inv
BY InitInv, NextInv, PTL DEF Spec

(***************************************************************************)
(* The lock of the client has one owner, which is inside a command, and    *)
(* every caller that wants it is on its list once.                         *)
(***************************************************************************)
THEOREM LockAlwaysConsistent == Spec => []LockConsistent
<1>1. Inv => LockConsistent
  BY DEF Inv, LockHeld, LockConsistent
<1> QED
  BY <1>1, Invariance, PTL

(***************************************************************************)
(* What the parser finds in client->resp is never the object of a call     *)
(* that is over, nor a deleted one, except from the deletion in            *)
(* at_client_obj_wait_connect to the next assignment.                      *)
(***************************************************************************)
THEOREM RespAlwaysOwners == Spec => []RespIsOwners
<1>1. ASSUME Inv PROVE RespIsOwners
  <2> SUFFICES ASSUME resp # Nobody
               PROVE  /\ resp = owner
                      /\ kind[resp] = "connect" /\ pc[resp] \notin {"detach", "detach_late"}
                            => resp \in own
    BY DEF RespIsOwners
  <2>1. resp = owner /\ resp \in Callers
    BY <1>1 DEF Inv, RespOwned, TypeOK
  <2>2. pc[resp] \in Inside
    BY <1>1, <2>1 DEF Inv, LockHeld
  <2> QED
    BY <1>1, <2>1, <2>2 DEF Inv, OwnExists, Inside
<1> QED
  BY <1>1, Invariance, PTL

(***************************************************************************)
(* However many answers come late, the semaphore keeps one count between   *)
(* two commands and never has more than two.                               *)
(***************************************************************************)
THEOREM NoticeAlwaysBounded == Spec => []NoticeBounded
<1>1. ASSUME Inv PROVE NoticeBounded
  <2>1. resp_notice + Pending <= 2 /\ resp_notice \in Nat /\ Pending \in {0, 1}
    BY <1>1 DEF Inv, TypeOK, PendingBounded, Pending
  <2>2. ASSUME owner = Nobody PROVE resp_notice + Pending <= 1
    <3>1. \A t \in Callers : pc[t] \notin {"write", "take_notice"}
      BY <1>1, <2>2, Constants DEF Inv, LockHeld, Inside
    <3> QED
      BY <1>1, <3>1 DEF Inv, PendingBounded
  <2> QED
    BY <2>1, <2>2 DEF NoticeBounded
<1> QED
  BY <1>1, Invariance, PTL

(***************************************************************************)
(* Nobody waits for an answer while the semaphore has a count for it.      *)
(***************************************************************************)
THEOREM NoticeNeverLost == Spec => []NoLostNotice
<1>1. Inv => NoLostNotice
  BY DEF Inv
<1> QED
  BY <1>1, Invariance, PTL

-----------------------------------------------------------------------------
(***************************************************************************)
(* The event object and the thread of the power saving mode.               *)
(***************************************************************************)

\* What the loop of rt_event_send has made of the flags s, of event_set and of
\* the list after n turns: r is left of the flags, got and list are the new
\* values.  The threads it has passed are not satisfied with what is left, and
\* those it resumed have cleared what they took.
LoopInv(s, n, r, got, list) ==
    /\ r \subseteq s
    /\ got \in [Threads -> SUBSET Flags] /\ \A t \in Threads : got[t] \subseteq event_set[t]
    /\ list \in Seq(Threads) /\ IsInjective(list) /\ ToSet(list) \subseteq ToSet(suspend_thread)
    /\ \A i \in 1..Len(suspend_thread) : i > n => suspend_thread[i] \in ToSet(list)
    /\ \A t \in ToSet(list) : got[t] = event_set[t]
    /\ \A i \in 1..Len(suspend_thread) : i <= n /\ suspend_thread[i] \in ToSet(list) =>
          ~Satisfied(event_info[suspend_thread[i]], event_set[suspend_thread[i]], r)
    /\ \A t \in ToSet(suspend_thread) \ ToSet(list) : event_info[t].clear => got[t] \cap r = {}
    /\ \A t, u \in ToSet(suspend_thread) \ ToSet(list) :
          t # u /\ event_info[t].clear /\ event_info[u].clear => got[t] \cap got[u] = {}

\* A thread that is not satisfied is not with fewer flags either.
LEMMA SatisfiedMonotone ==
    ASSUME NEW option, NEW want, NEW s, NEW r, r \subseteq s, ~Satisfied(option, want, s)
    PROVE  ~Satisfied(option, want, r)
BY DEF Satisfied

\* A turn of the loop that resumes nobody.
LEMMA VisitPasses ==
    ASSUME EventTypeOK, IsInjective(suspend_thread),
           NEW s, NEW n \in 1..Len(suspend_thread), NEW r, NEW got, NEW list,
           LoopInv(s, n - 1, r, got, list),
           ~Satisfied(event_info[suspend_thread[n]], event_set[suspend_thread[n]], r)
    PROVE  LoopInv(s, n, r, got, list)
<1>1. Len(suspend_thread) \in Nat
  BY DEF EventTypeOK
<1>2. \A i \in 1..Len(suspend_thread) : (i > n => i > n - 1) /\ (i <= n => i <= n - 1 \/ i = n)
  BY <1>1
<1> QED
  BY <1>2 DEF LoopInv

\* A turn of the loop that resumes its thread.
LEMMA VisitResumes ==
    ASSUME EventTypeOK, IsInjective(suspend_thread),
           NEW s, NEW n \in 1..Len(suspend_thread), NEW r, NEW got, NEW list,
           LoopInv(s, n - 1, r, got, list),
           NEW t, t = suspend_thread[n],
           NEW took, took = event_set[t] \cap r,
           NEW r2, r2 = IF event_info[t].clear THEN r \ took ELSE r,
           NEW got2, got2 = [got EXCEPT ![t] = took],
           NEW list2, list2 = ListRemove(list, t)
    PROVE  LoopInv(s, n, r2, got2, list2)
<1>0. suspend_thread \in Seq(Threads) /\ Len(suspend_thread) \in Nat /\ t \in Threads
  BY DEF EventTypeOK
<1>1. \A i \in 1..Len(suspend_thread) : (i > n => i > n - 1 /\ i # n) /\ (i <= n => i <= n - 1 \/ i = n)
  BY <1>0
<1>2. list \in Seq(Threads) /\ IsInjective(list)
  BY DEF LoopInv
<1>3. list2 \in Seq(Threads) /\ IsInjective(list2) /\ ToSet(list2) = ToSet(list) \ {t}
  BY <1>0, <1>2, ListRemoveProperties
<1>4. \A i \in 1..Len(suspend_thread) : i # n => suspend_thread[i] # t
  BY DEF IsInjective
<1>5. r2 \subseteq r
  OBVIOUS
<1>6. /\ got2 \in [Threads -> SUBSET Flags]
      /\ got2[t] = took /\ \A u \in Threads : u # t => got2[u] = got[u]
  BY <1>0 DEF LoopInv, EventTypeOK
<1>7. ToSet(list) \subseteq Threads /\ ToSet(suspend_thread) \subseteq Threads
  BY <1>0, <1>2 DEF ToSet
<1>8. \A u \in Threads : got2[u] \subseteq event_set[u]
  BY <1>6 DEF LoopInv
<1>9. ToSet(list2) \subseteq ToSet(suspend_thread)
  BY <1>3 DEF LoopInv
<1>10. \A i \in 1..Len(suspend_thread) : i > n => suspend_thread[i] \in ToSet(list2)
  BY <1>1, <1>3, <1>4 DEF LoopInv
<1>11. \A u \in ToSet(list2) : got2[u] = event_set[u]
  BY <1>3, <1>6, <1>7 DEF LoopInv
<1>12. ASSUME NEW i \in 1..Len(suspend_thread), i <= n, suspend_thread[i] \in ToSet(list2)
       PROVE  ~Satisfied(event_info[suspend_thread[i]], event_set[suspend_thread[i]], r2)
  <2>1. i <= n - 1 /\ suspend_thread[i] \in ToSet(list)
    BY <1>1, <1>3, <1>12
  <2>2. ~Satisfied(event_info[suspend_thread[i]], event_set[suspend_thread[i]], r)
    BY <2>1 DEF LoopInv
  <2> QED
    BY <1>5, <2>2, SatisfiedMonotone
<1>13. ASSUME NEW u \in ToSet(suspend_thread) \ ToSet(list2), event_info[u].clear
       PROVE  got2[u] \cap r2 = {}
  <2>1. CASE u = t
    BY <1>6, <1>13, <2>1
  <2>2. CASE u # t
    <3>1. u \notin ToSet(list) /\ u \in Threads
      BY <1>3, <1>7, <2>2
    <3>2. got[u] \cap r = {}
      BY <1>13, <3>1 DEF LoopInv
    <3> QED
      BY <1>5, <1>6, <2>2, <3>1, <3>2
  <2> QED
    BY <2>1, <2>2
<1>14. ASSUME NEW u \in ToSet(suspend_thread) \ ToSet(list2), u # t, event_info[u].clear
       PROVE  got2[u] = got[u] /\ got2[u] \cap took = {}
  <2>1. u \notin ToSet(list) /\ u \in Threads
    BY <1>3, <1>7, <1>14
  <2>2. got[u] \cap r = {}
    BY <1>14, <2>1 DEF LoopInv
  <2> QED
    BY <1>6, <1>14, <2>1, <2>2
<1>15. ASSUME NEW u \in ToSet(suspend_thread) \ ToSet(list2),
              NEW v \in ToSet(suspend_thread) \ ToSet(list2),
              u # v, event_info[u].clear, event_info[v].clear
       PROVE  got2[u] \cap got2[v] = {}
  <2>1. CASE u = t
    BY <1>6, <1>14, <1>15, <2>1
  <2>2. CASE v = t
    BY <1>6, <1>14, <1>15, <2>2
  <2>3. CASE u # t /\ v # t
    <3>1. u \notin ToSet(list) /\ v \notin ToSet(list)
      BY <1>3, <2>3
    <3>2. got[u] \cap got[v] = {}
      BY <1>15, <3>1 DEF LoopInv
    <3> QED
      BY <1>14, <1>15, <2>3, <3>2
  <2> QED
    BY <2>1, <2>2, <2>3
<1>16. r2 \subseteq s
  BY <1>5 DEF LoopInv
<1>17. \A i \in 1..Len(suspend_thread) : i <= n /\ suspend_thread[i] \in ToSet(list2) =>
          ~Satisfied(event_info[suspend_thread[i]], event_set[suspend_thread[i]], r2)
  BY <1>12
<1>18. /\ \A u \in ToSet(suspend_thread) \ ToSet(list2) : event_info[u].clear => got2[u] \cap r2 = {}
       /\ \A u, v \in ToSet(suspend_thread) \ ToSet(list2) :
             u # v /\ event_info[u].clear /\ event_info[v].clear => got2[u] \cap got2[v] = {}
  BY <1>13, <1>15
<1> QED
  BY <1>3, <1>6, <1>8, <1>9, <1>10, <1>11, <1>16, <1>17, <1>18, Zenon DEF LoopInv

\* The first m turns of the loop, as a function.
Turns(f, m, s) ==
    f = [n \in 0..m |-> IF n = 0 THEN [set |-> s, got |-> event_set, list |-> suspend_thread]
                                 ELSE Visit(f[n - 1], suspend_thread[n])]

\* The loop has a result after each of its turns.
LEMMA TurnsExist ==
    ASSUME NEW s, NEW m \in Nat
    PROVE  \E f : Turns(f, m, s)
<1> SUFFICES ASSUME ~ \E f : Turns(f, m, s) PROVE FALSE
  OBVIOUS
<1>1. PICK S : S = {k \in Nat : ~ \E f : Turns(f, k, s)}
  OBVIOUS
<1>2. S \in SUBSET Nat /\ S # {}
  BY <1>1
<1>3. PICK k : k = Min(S)
  OBVIOUS
<1>4. k \in S /\ \A y \in S : k <= y
  BY <1>2, <1>3, MinNat
<1>5. k \in Nat /\ ~ \E f : Turns(f, k, s)
  BY <1>1, <1>4
<1>6. PICK a : a = [set |-> s, got |-> event_set, list |-> suspend_thread]
  OBVIOUS
<1>7. CASE k = 0
  <2>1. PICK f : f = [n \in 0..0 |-> a]
    OBVIOUS
  <2>2. f = [n \in 0..0 |-> IF n = 0 THEN a ELSE Visit(f[n - 1], suspend_thread[n])]
    BY <2>1
  <2> QED
    BY <1>5, <1>6, <1>7, <2>2 DEF Turns
<1>8. CASE k # 0
  <2>1. PICK j : j = k - 1
    OBVIOUS
  <2>2. j \in Nat /\ k = j + 1 /\ j \notin S
    BY <1>4, <1>5, <1>8, <2>1
  <2>3. PICK f : Turns(f, j, s)
    BY <1>1, <2>2
  <2>4. PICK v : v = Visit(f[j], suspend_thread[k])
    OBVIOUS
  <2>5. PICK g : g = [n \in 0..k |-> IF n = k THEN v ELSE f[n]]
    OBVIOUS
  <2>6. \A n \in 0..j : f[n] = IF n = 0 THEN a ELSE Visit(f[n - 1], suspend_thread[n])
    BY <1>6, <2>3 DEF Turns
  <2>7. ASSUME NEW n \in 0..k
        PROVE  g[n] = IF n = 0 THEN a ELSE Visit(g[n - 1], suspend_thread[n])
    <3>1. CASE n = k
      <4>1. g[n] = v /\ g[n - 1] = f[j] /\ n # 0
        BY <2>1, <2>2, <2>5, <3>1
      <4> QED
        BY <2>4, <3>1, <4>1
    <3>2. CASE n = 0
      <4>1. g[n] = f[n] /\ n \in 0..j
        BY <1>8, <2>2, <2>5, <3>2
      <4> QED
        BY <2>6, <3>2, <4>1
    <3>3. CASE n # k /\ n # 0
      <4>1. n \in 0..j /\ n - 1 \in 0..k /\ n - 1 # k
        BY <2>2, <3>3
      <4>2. g[n] = f[n] /\ g[n - 1] = f[n - 1]
        BY <2>5, <3>3, <4>1
      <4> QED
        BY <2>6, <3>3, <4>1, <4>2
    <3> QED
      BY <3>1, <3>2, <3>3
  <2>8. g = [n \in 0..k |-> IF n = 0 THEN a ELSE Visit(g[n - 1], suspend_thread[n])]
    BY <2>5, <2>7
  <2> QED
    BY <1>5, <1>6, <2>8 DEF Turns
<1> QED
  BY <1>7, <1>8

\* Visits(s) is that function, for the whole list.
LEMMA VisitsIs ==
    ASSUME EventTypeOK, NEW s
    PROVE  Turns(Visits(s), Len(suspend_thread), s)
<1>1. Len(suspend_thread) \in Nat
  BY DEF EventTypeOK
<1>2. PICK f : Turns(f, Len(suspend_thread), s)
  BY <1>1, TurnsExist
<1>3. Visits(s) = CHOOSE g : Turns(g, Len(suspend_thread), s)
  BY DEF Visits, Turns
<1> QED
  BY <1>2, <1>3, Zenon

\* The loop has the properties LoopInv after each of its turns.
LEMMA LoopKeeps ==
    ASSUME EventTypeOK, IsInjective(suspend_thread),
           NEW s \in SUBSET Flags, NEW f, Turns(f, Len(suspend_thread), s),
           NEW m \in 0..Len(suspend_thread)
    PROVE  LoopInv(s, m, f[m].set, f[m].got, f[m].list)
<1> SUFFICES ASSUME ~LoopInv(s, m, f[m].set, f[m].got, f[m].list) PROVE FALSE
  OBVIOUS
<1>0. Len(suspend_thread) \in Nat /\ suspend_thread \in Seq(Threads)
  BY DEF EventTypeOK
<1>1. PICK S : S = {k \in 0..Len(suspend_thread) : ~LoopInv(s, k, f[k].set, f[k].got, f[k].list)}
  OBVIOUS
<1>2. S \in SUBSET Nat /\ S # {}
  BY <1>0, <1>1
<1>3. PICK k : k = Min(S)
  OBVIOUS
<1>4. k \in S /\ \A y \in S : k <= y
  BY <1>2, <1>3, MinNat
<1>5. k \in 0..Len(suspend_thread) /\ ~LoopInv(s, k, f[k].set, f[k].got, f[k].list)
  BY <1>1, <1>4
<1>6. CASE k = 0
  <2>1. f[k] = [set |-> s, got |-> event_set, list |-> suspend_thread]
    BY <1>5, <1>6 DEF Turns
  <2>2. LoopInv(s, 0, s, event_set, suspend_thread)
    <3>1. \A i \in 1..Len(suspend_thread) : suspend_thread[i] \in ToSet(suspend_thread) /\ ~(i <= 0)
      BY <1>0 DEF ToSet
    <3> QED
      BY <1>0, <3>1 DEF LoopInv, EventTypeOK
  <2> QED
    BY <1>5, <1>6, <2>1, <2>2
<1>7. CASE k # 0
  <2>1. PICK j : j = k - 1
    OBVIOUS
  <2>2. j \in 0..Len(suspend_thread) /\ j < k /\ k \in 1..Len(suspend_thread)
    BY <1>0, <1>5, <1>7, <2>1
  <2>3. j \notin S
    BY <1>0, <1>4, <1>5, <2>2
  <2>4. PICK a : a = f[j]
    OBVIOUS
  <2>5. LoopInv(s, k - 1, a.set, a.got, a.list)
    BY <1>1, <2>1, <2>2, <2>3, <2>4
  <2>6. PICK t : t = suspend_thread[k]
    OBVIOUS
  <2>7. f[k] = Visit(a, t)
    BY <1>5, <1>7, <2>1, <2>4, <2>6 DEF Turns
  <2>8. CASE ~Satisfied(event_info[t], event_set[t], a.set)
    <3>1. f[k] = a
      BY <2>7, <2>8 DEF Visit
    <3>2. LoopInv(s, k, a.set, a.got, a.list)
      BY <2>2, <2>5, <2>6, <2>8, VisitPasses
    <3> QED
      BY <1>5, <3>1, <3>2
  <2>9. CASE Satisfied(event_info[t], event_set[t], a.set)
    <3>1. PICK took : took = event_set[t] \cap a.set
      OBVIOUS
    <3>2. PICK r2 : r2 = IF event_info[t].clear THEN a.set \ took ELSE a.set
      OBVIOUS
    <3>3. PICK got2 : got2 = [a.got EXCEPT ![t] = took]
      OBVIOUS
    <3>4. PICK list2 : list2 = ListRemove(a.list, t)
      OBVIOUS
    <3>5. f[k] = [set |-> r2, got |-> got2, list |-> list2]
      BY <2>7, <2>9, <3>1, <3>2, <3>3, <3>4 DEF Visit
    <3>6. LoopInv(s, k, r2, got2, list2)
      BY <2>2, <2>5, <2>6, <3>1, <3>2, <3>3, <3>4, VisitResumes
    <3> QED
      BY <1>5, <3>5, <3>6
  <2> QED
    BY <2>8, <2>9
<1> QED
  BY <1>6, <1>7

\* What rt_event_send does: no thread stays in the list although it is satisfied,
\* no flag is taken twice, and what the threads in the list wait for stays.
LEMMA SendProperties ==
    ASSUME EventTypeOK, IsInjective(suspend_thread), NEW flags \in SUBSET Flags,
           rt_event_send(flags)
    PROVE  /\ EventTypeOK' /\ IsInjective(suspend_thread') /\ NoLostEvent'
           /\ ToSet(suspend_thread') \subseteq ToSet(suspend_thread)
           /\ \A t \in Threads : event_set'[t] \subseteq event_set[t]
           /\ UNCHANGED event_info
           /\ \A t, u \in ToSet(suspend_thread) \ ToSet(suspend_thread') :
                 t # u /\ event_info[t].clear /\ event_info[u].clear
                    => event_set'[t] \cap event_set'[u] = {}
<1>1. PICK s : s = set \cup flags
  OBVIOUS
<1>2. s \in SUBSET Flags /\ Len(suspend_thread) \in Nat /\ suspend_thread \in Seq(Threads)
  BY <1>1 DEF EventTypeOK
<1>3. PICK f : f = Visits(s)
  OBVIOUS
<1>4. Turns(f, Len(suspend_thread), s)
  BY <1>3, VisitsIs
<1>5. PICK m : m = Len(suspend_thread)
  OBVIOUS
<1>6. LoopInv(s, m, f[m].set, f[m].got, f[m].list)
  BY <1>2, <1>4, <1>5, LoopKeeps
<1>7. /\ set' = f[m].set /\ event_set' = f[m].got /\ suspend_thread' = f[m].list
      /\ timed' = timed \cap ToSet(f[m].list) /\ UNCHANGED event_info
  BY <1>1, <1>3, <1>5 DEF rt_event_send
<1>8. LoopInv(s, m, set', event_set', suspend_thread')
  BY <1>6, <1>7
<1>9. /\ set' \subseteq Flags /\ event_set' \in [Threads -> SUBSET Flags]
      /\ suspend_thread' \in Seq(Threads) /\ IsInjective(suspend_thread')
      /\ ToSet(suspend_thread') \subseteq ToSet(suspend_thread)
  BY <1>2, <1>8 DEF LoopInv
<1>10. event_info' \in [Threads -> Options] /\ timed' \subseteq ToSet(suspend_thread')
  BY <1>7 DEF EventTypeOK
<1>11. ASSUME NEW t \in ToSet(suspend_thread')
       PROVE  ~Satisfied(event_info'[t], event_set'[t], set')
  <2>0. t \in ToSet(suspend_thread)
    BY <1>9, <1>11
  <2>1. PICK i \in 1..Len(suspend_thread) : t = suspend_thread[i]
    BY <1>2, <2>0 DEF ToSet
  <2>2. i <= m /\ event_set'[t] = event_set[t]
    BY <1>2, <1>5, <1>8, <1>11 DEF LoopInv
  <2>3. ~Satisfied(event_info[t], event_set[t], set')
    BY <1>8, <1>11, <2>1, <2>2 DEF LoopInv
  <2> QED
    BY <1>7, <2>2, <2>3
<1>12. NoLostEvent'
  BY <1>11 DEF NoLostEvent
<1>13. EventTypeOK'
  BY <1>9, <1>10 DEF EventTypeOK
<1>14. /\ \A t \in Threads : event_set'[t] \subseteq event_set[t]
       /\ \A t, u \in ToSet(suspend_thread) \ ToSet(suspend_thread') :
             t # u /\ event_info[t].clear /\ event_info[u].clear
                => event_set'[t] \cap event_set'[u] = {}
  BY <1>8 DEF LoopInv
<1> QED
  BY <1>7, <1>9, <1>12, <1>13, <1>14

\* The event object by itself.
EventInv == EventTypeOK /\ IsInjective(suspend_thread) /\ NoLostEvent

\* Only a thread that waits is in the list, and qsdk_psm waits for its own flags
\* only, so that status is one of them when it goes on.
WaitersInv ==
    /\ qsdk_psm \in ToSet(suspend_thread) => psm_pc = "wait"
    /\ \A u \in Users : u \in ToSet(suspend_thread) => user_pc[u] = "wait"
    /\ psm_pc = "wait" => event_set[qsdk_psm] \subseteq PsmFlags

\* What AtLockedInPsm needs to be inductive: the lock is still held when qsdk_psm
\* comes to look at its flags, and on the way back from a reboot the driver no
\* longer says that the module sleeps.
LockInv ==
    /\ psm_pc \in {"recv", "wait", "handle"} /\ nbiot_psm_status = "enter_psm" => hold > 0
    /\ psm_pc = "command" => status = {"EXIT_PSM"} \/ nbiot_psm_status = "psm_run"

\* The types of the driver, without those of the event object.
DriverTypes ==
    /\ psm_pc \in {"recv", "wait", "handle", "take", "command", "exit"}
    /\ status \subseteq PsmFlags
    /\ nbiot_psm_status \in {"enter_psm", "exit_psm", "psm_run"}
    /\ hold \in 0..HoldMax
    /\ user_pc \in [Users -> {"idle", "enter_psm", "ping", "command", "run_recv",
                              "ping_recv", "wait"}]
    /\ nb_mail \in Seq({"REBOOT_", "+NPING:", "+NPINGERR:", "+NPSMR:1"})
    /\ cpsms \in BOOLEAN /\ asleep \in BOOLEAN /\ pinging \in 0..PingMax

EventsInv == EventInv /\ DriverTypes /\ WaitersInv /\ LockInv

\* The constants of the driver as the provers need them.
LEMMA DriverConstants ==
    /\ qsdk_psm \in Threads /\ Users \subseteq Threads /\ qsdk_psm \notin Users
    /\ \A t \in Threads : t = qsdk_psm \/ t \in Users
    /\ HoldMax \in Nat /\ PingMax \in Nat /\ MailMax \in Nat
    /\ PsmFlags \subseteq Flags /\ {"ENTER_RUN"} \subseteq Flags /\ {"EXIT_PSM"} \subseteq Flags
    /\ {"PING_OK", "PING_ERROR"} \subseteq Flags
    /\ AndClear \in Options /\ OrClear \in Options
BY UsersAssumption, HoldMaxAssumption, PingMaxAssumption, MailMaxAssumption, FlagsAssumption
   DEF PsmFlags, AndClear, OrClear, Options

\* A thread that waits in rt_event_recv is put on the list once, unsatisfied.
LEMMA WaitKeeps ==
    ASSUME EventInv, NEW t \in Threads, t \notin ToSet(suspend_thread),
           NEW want \in SUBSET Flags, NEW option \in Options, NEW forever \in BOOLEAN,
           RecvWait(t, want, option, forever)
    PROVE  /\ EventInv' /\ ToSet(suspend_thread') = ToSet(suspend_thread) \cup {t}
           /\ event_set'[t] = want /\ \A u \in Threads : u # t => event_set'[u] = event_set[u]
<1>1. suspend_thread \in Seq(Threads) /\ IsInjective(suspend_thread)
  BY DEF EventInv, EventTypeOK
<1>2. suspend_thread' = ListSuspend(suspend_thread, t, current_priority)
  BY DEF RecvWait
<1>3. /\ suspend_thread' \in Seq(Threads) /\ IsInjective(suspend_thread')
      /\ ToSet(suspend_thread') = ToSet(suspend_thread) \cup {t}
  BY <1>1, <1>2, ListSuspendProperties
<1>4. event_set' = [event_set EXCEPT ![t] = want] /\ event_info' = [event_info EXCEPT ![t] = option]
  BY DEF RecvWait
<1>5. /\ event_set' \in [Threads -> SUBSET Flags] /\ event_info' \in [Threads -> Options]
      /\ event_set'[t] = want /\ event_info'[t] = option
      /\ \A u \in Threads : u # t => event_set'[u] = event_set[u] /\ event_info'[u] = event_info[u]
  BY <1>4 DEF EventInv, EventTypeOK
<1>6. set' = set /\ timed' \subseteq timed \cup {t} /\ ~Satisfied(option, want, set)
  BY DEF RecvWait
<1>7. EventTypeOK'
  BY <1>3, <1>5, <1>6 DEF EventInv, EventTypeOK
<1>8. ASSUME NEW u \in ToSet(suspend_thread')
      PROVE  ~Satisfied(event_info'[u], event_set'[u], set')
  <2>1. CASE u = t
    BY <1>5, <1>6, <2>1
  <2>2. CASE u # t
    <3>0. ToSet(suspend_thread) \subseteq Threads
      BY <1>1 DEF ToSet
    <3>1. u \in ToSet(suspend_thread) /\ u \in Threads
      BY <1>3, <1>8, <2>2, <3>0
    <3> QED
      BY <1>5, <1>6, <2>2, <3>1 DEF EventInv, NoLostEvent
  <2> QED
    BY <2>1, <2>2
<1> QED
  BY <1>3, <1>5, <1>7, <1>8 DEF EventInv, NoLostEvent

\* A thread that need not wait leaves the others as unsatisfied as they were.
LEMMA NowKeeps ==
    ASSUME EventInv, NEW t, NEW want, NEW option, RecvNow(t, want, option)
    PROVE  EventInv' /\ UNCHANGED <<suspend_thread, event_set>>
<1>1. UNCHANGED <<suspend_thread, event_set, event_info, timed>> /\ set' \subseteq set
  BY DEF RecvNow
<1>2. EventTypeOK'
  BY <1>1 DEF EventInv, EventTypeOK
<1>3. ASSUME NEW u \in ToSet(suspend_thread)
      PROVE  ~Satisfied(event_info[u], event_set[u], set')
  <2>1. ~Satisfied(event_info[u], event_set[u], set)
    BY DEF EventInv, NoLostEvent
  <2> QED
    BY <1>1, <2>1, SatisfiedMonotone
<1> QED
  BY <1>1, <1>2, <1>3 DEF EventInv, NoLostEvent

\* A timeout takes one thread off the list.
LEMMA TimeoutKeeps ==
    ASSUME EventInv, NEW t \in Threads, EventTimeout(t)
    PROVE  EventInv' /\ ToSet(suspend_thread') = ToSet(suspend_thread) \ {t} /\ UNCHANGED event_set
<1>1. suspend_thread \in Seq(Threads) /\ IsInjective(suspend_thread)
  BY DEF EventInv, EventTypeOK
<1>2. /\ suspend_thread' = ListRemove(suspend_thread, t) /\ timed' = timed \ {t}
      /\ UNCHANGED <<set, event_set, event_info>>
  BY DEF EventTimeout
<1>3. /\ suspend_thread' \in Seq(Threads) /\ IsInjective(suspend_thread')
      /\ ToSet(suspend_thread') = ToSet(suspend_thread) \ {t}
  BY <1>1, <1>2, ListRemoveProperties
<1>4. EventTypeOK'
  BY <1>2, <1>3 DEF EventInv, EventTypeOK
<1>5. NoLostEvent'
  BY <1>2, <1>3 DEF EventInv, NoLostEvent
<1> QED
  BY <1>2, <1>3, <1>4, <1>5 DEF EventInv

\* A thread that returns from its wait touches only what is its own.
LEMMA ReturnKeeps ==
    ASSUME EventInv, NEW t \in Threads, Return(t)
    PROVE  /\ EventInv' /\ UNCHANGED suspend_thread /\ t \notin ToSet(suspend_thread)
           /\ \A u \in Threads : u # t => event_set'[u] = event_set[u]
<1>1. /\ UNCHANGED <<set, suspend_thread, timed>> /\ t \notin ToSet(suspend_thread)
      /\ event_set' = [event_set EXCEPT ![t] = {}]
      /\ event_info' = [event_info EXCEPT ![t] = [and |-> FALSE, clear |-> FALSE]]
  BY DEF Return
<1>2. /\ event_set' \in [Threads -> SUBSET Flags] /\ event_info' \in [Threads -> Options]
      /\ \A u \in Threads : u # t => event_set'[u] = event_set[u] /\ event_info'[u] = event_info[u]
  BY <1>1 DEF EventInv, EventTypeOK, Options
<1>3. EventTypeOK'
  BY <1>1, <1>2 DEF EventInv, EventTypeOK
<1>4. ToSet(suspend_thread) \subseteq Threads
  BY DEF EventInv, EventTypeOK, ToSet
<1>5. NoLostEvent'
  BY <1>1, <1>2, <1>4 DEF EventInv, NoLostEvent
<1> QED
  BY <1>1, <1>2, <1>3, <1>5 DEF EventInv

\* rt_event_send, for the invariants.
LEMMA SendKeeps ==
    ASSUME EventInv, NEW flags \in SUBSET Flags, rt_event_send(flags)
    PROVE  /\ EventInv' /\ ToSet(suspend_thread') \subseteq ToSet(suspend_thread)
           /\ \A t \in Threads : event_set'[t] \subseteq event_set[t]
BY SendProperties DEF EventInv

\* A step that leaves the event object alone.
LEMMA EventUnchanged ==
    ASSUME EventInv, UNCHANGED event
    PROVE  EventInv' /\ UNCHANGED <<suspend_thread, event_set>>
BY DEF EventInv, EventTypeOK, NoLostEvent, Satisfied, event, ToSet, IsInjective

\* The initial state.
LEMMA EventsInitInv == EventsInit => EventsInv
<1> SUFFICES ASSUME EventsInit PROVE EventsInv
  OBVIOUS
<1> USE DriverConstants DEF EventsInit, EventInit
<1>1. EventInv
  BY DEF EventInv, EventTypeOK, NoLostEvent, Options, ToSet, IsInjective
<1>2. DriverTypes
  <2>1. hold \in 0..HoldMax /\ pinging \in 0..PingMax
    OBVIOUS
  <2>2. user_pc \in [Users -> {"idle", "enter_psm", "ping", "command", "run_recv",
                                "ping_recv", "wait"}]
    OBVIOUS
  <2>3. nb_mail \in Seq({"REBOOT_", "+NPING:", "+NPINGERR:", "+NPSMR:1"})
    OBVIOUS
  <2>4. cpsms \in BOOLEAN /\ asleep \in BOOLEAN
    OBVIOUS
  <2> QED
    BY <2>1, <2>2, <2>3, <2>4 DEF DriverTypes
<1>3. WaitersInv /\ LockInv
  BY DEF WaitersInv, LockInv, ToSet
<1> QED
  BY <1>1, <1>2, <1>3 DEF EventsInv

\* The steps of qsdk_psm.
LEMMA PsmStep ==
    ASSUME EventsInv, Psm
    PROVE  EventsInv'
<1> USE DriverConstants
<1>0. EventInv /\ DriverTypes /\ WaitersInv /\ LockInv
  BY DEF EventsInv
<1>1. CASE PsmRecv
  <2>1. UNCHANGED <<nbiot_psm_status, hold, user_pc, nb_mail, module>> /\ psm_pc = "recv"
    BY <1>1 DEF PsmRecv
  <2>2. CASE RecvNow(qsdk_psm, PsmFlags, OrClear) /\ psm_pc' = "handle" /\ status' = set \cap PsmFlags
    <3>1. EventInv' /\ UNCHANGED <<suspend_thread, event_set>>
      BY <1>0, <2>2, NowKeeps
    <3>2. DriverTypes'
      BY <1>0, <2>1, <2>2 DEF DriverTypes, module
    <3>3. WaitersInv' /\ LockInv'
      BY <1>0, <2>1, <2>2, <3>1 DEF WaitersInv, LockInv
    <3> QED
      BY <3>1, <3>2, <3>3 DEF EventsInv
  <2>3. CASE RecvWait(qsdk_psm, PsmFlags, OrClear, TRUE) /\ psm_pc' = "wait" /\ UNCHANGED status
    <3>0. qsdk_psm \notin ToSet(suspend_thread)
      BY <1>0, <2>1 DEF WaitersInv
    <3>1. /\ EventInv' /\ ToSet(suspend_thread') = ToSet(suspend_thread) \cup {qsdk_psm}
          /\ event_set'[qsdk_psm] = PsmFlags
      BY <1>0, <2>3, <3>0, WaitKeeps
    <3>2. DriverTypes'
      BY <1>0, <2>1, <2>3 DEF DriverTypes, module
    <3>3. WaitersInv' /\ LockInv'
      BY <1>0, <2>1, <2>3, <3>1 DEF WaitersInv, LockInv
    <3> QED
      BY <3>1, <3>2, <3>3 DEF EventsInv
  <2> QED
    BY <1>1, <2>2, <2>3 DEF PsmRecv
<1>2. CASE PsmWoken
  <2>1. /\ UNCHANGED <<nbiot_psm_status, hold, user_pc, nb_mail, module>> /\ psm_pc = "wait"
        /\ psm_pc' = "handle" /\ status' = event_set[qsdk_psm] /\ Return(qsdk_psm)
    BY <1>2 DEF PsmWoken
  <2>2. EventInv' /\ UNCHANGED suspend_thread /\ qsdk_psm \notin ToSet(suspend_thread)
    BY <1>0, <2>1, ReturnKeeps
  <2>3. DriverTypes'
    BY <1>0, <2>1 DEF DriverTypes, module, WaitersInv
  <2>4. WaitersInv' /\ LockInv'
    BY <1>0, <2>1, <2>2 DEF WaitersInv, LockInv
  <2> QED
    BY <2>2, <2>3, <2>4 DEF EventsInv
<1>3. CASE PsmHandleEnter \/ PsmTake \/ PsmHandleReboot \/ PsmHandleExit \/ PsmHandleOther \/ PsmCommand
  <2>1. UNCHANGED <<event, user_pc, nb_mail, pinging>>
    BY <1>3 DEF PsmHandleEnter, PsmTake, PsmHandleReboot, PsmHandleExit, PsmHandleOther,
                PsmCommand, module
  <2>2. EventInv' /\ UNCHANGED <<suspend_thread, event_set>>
    BY <1>0, <2>1, EventUnchanged
  <2>3. psm_pc \in {"handle", "take", "command"} /\ psm_pc' \in {"recv", "take", "command", "exit"}
    BY <1>3 DEF PsmHandleEnter, PsmTake, PsmHandleReboot, PsmHandleExit, PsmHandleOther, PsmCommand
  <2>4. WaitersInv'
    BY <1>0, <2>1, <2>2, <2>3 DEF WaitersInv
  <2>5. hold' \in 0..HoldMax
    <3>1. hold \in Nat /\ hold <= HoldMax /\ Released(hold) \in 0..HoldMax
      BY <1>0 DEF DriverTypes, Released
    <3>2. CASE PsmTake
      BY <3>1, <3>2 DEF PsmTake
    <3>3. CASE ~PsmTake
      <4>1. hold' = hold \/ hold' = Released(hold)
        BY <1>3, <3>3 DEF PsmHandleEnter, PsmHandleReboot, PsmHandleExit, PsmHandleOther, PsmCommand
      <4> QED
        BY <3>1, <4>1
    <3> QED
      BY <3>2, <3>3
  <2>6. /\ status' \subseteq PsmFlags /\ nbiot_psm_status' \in {"enter_psm", "exit_psm", "psm_run"}
        /\ cpsms' \in BOOLEAN /\ asleep' \in BOOLEAN
    BY <1>0, <1>3 DEF DriverTypes, PsmHandleEnter, PsmTake, PsmHandleReboot, PsmHandleExit,
                      PsmHandleOther, PsmCommand, module
  <2>7. DriverTypes'
    BY <1>0, <2>1, <2>3, <2>5, <2>6 DEF DriverTypes
  <2>8. LockInv'
    <3>1. CASE PsmHandleEnter
      BY <3>1 DEF LockInv, PsmHandleEnter
    <3>2. CASE PsmTake
      BY <1>0, <3>2 DEF LockInv, PsmTake, DriverTypes
    <3>3. CASE PsmHandleReboot
      BY <3>3 DEF LockInv, PsmHandleReboot
    <3>4. CASE PsmHandleExit
      BY <3>4 DEF LockInv, PsmHandleExit
    <3>5. CASE PsmHandleOther
      BY <1>0, <3>5 DEF LockInv, PsmHandleOther
    <3>6. CASE PsmCommand
      BY <1>0, <3>6 DEF LockInv, PsmCommand
    <3> QED
      BY <1>3, <3>1, <3>2, <3>3, <3>4, <3>5, <3>6
  <2> QED
    BY <2>2, <2>4, <2>7, <2>8 DEF EventsInv
<1>4. CASE PsmExit
  <2>1. UNCHANGED <<status, hold, user_pc, nb_mail, module>> /\ psm_pc = "exit" /\ psm_pc' = "recv"
    BY <1>4 DEF PsmExit
  <2>2. nbiot_psm_status' = "exit_psm"
    BY <1>4 DEF PsmExit, InPsm
  <2>3. EventInv' /\ ToSet(suspend_thread') \subseteq ToSet(suspend_thread)
    <3>1. CASE InPsm
      BY <1>0, <1>4, <3>1, SendKeeps DEF PsmExit
    <3>2. CASE ~InPsm
      BY <1>0, <1>4, <3>2, EventUnchanged DEF PsmExit
    <3> QED
      BY <3>1, <3>2
  <2>4. DriverTypes'
    BY <1>0, <2>1, <2>2 DEF DriverTypes, module
  <2>5. WaitersInv' /\ LockInv'
    BY <1>0, <2>1, <2>2, <2>3 DEF WaitersInv, LockInv
  <2> QED
    BY <2>3, <2>4, <2>5 DEF EventsInv
<1> QED
  BY <1>1, <1>2, <1>3, <1>4 DEF Psm

\* A step in which rt_event_send wakes threads, or the event object is left alone,
\* keeps the waiters; so does whatever leaves qsdk_psm alone.
LEMMA WaitersKept ==
    ASSUME EventsInv, EventInv', ToSet(suspend_thread') \subseteq ToSet(suspend_thread),
           event_set'[qsdk_psm] \subseteq event_set[qsdk_psm], UNCHANGED psm,
           \A u \in Users : user_pc[u] = "wait" /\ u \in ToSet(suspend_thread') => user_pc'[u] = "wait"
    PROVE  WaitersInv' /\ LockInv'
BY DEF EventsInv, WaitersInv, LockInv, psm

\* qsdk_thread_entry and the shell only send flags.
LEMMA SenderStep ==
    ASSUME EventsInv, qsdk_thread_entry \/ ShellExitPsm
    PROVE  EventsInv'
<1> USE DriverConstants
<1>0. EventInv /\ DriverTypes
  BY DEF EventsInv
<1>1. UNCHANGED <<psm, user_pc, module>> /\ (UNCHANGED nb_mail \/ (nb_mail' = Tail(nb_mail) /\ nb_mail # <<>>))
  <2>1. CASE ShellExitPsm
    BY <2>1 DEF ShellExitPsm
  <2>2. CASE qsdk_thread_entry
    BY <2>2 DEF qsdk_thread_entry
  <2> QED
    BY <2>1, <2>2
<1>2. CASE UNCHANGED event
  <2>1. EventInv' /\ UNCHANGED <<suspend_thread, event_set>>
    BY <1>0, <1>2, EventUnchanged
  <2>2. WaitersInv' /\ LockInv'
    BY <1>1, <2>1, WaitersKept
  <2>3. DriverTypes'
    BY <1>0, <1>1 DEF DriverTypes, psm, module
  <2> QED
    BY <2>1, <2>2, <2>3 DEF EventsInv
<1>3. ASSUME NEW flags \in SUBSET Flags, rt_event_send(flags)
      PROVE  EventsInv'
  <2>1. /\ EventInv' /\ ToSet(suspend_thread') \subseteq ToSet(suspend_thread)
        /\ event_set'[qsdk_psm] \subseteq event_set[qsdk_psm]
    BY <1>0, <1>3, SendKeeps
  <2>2. WaitersInv' /\ LockInv'
    BY <1>1, <2>1, WaitersKept
  <2>3. DriverTypes'
    BY <1>0, <1>1 DEF DriverTypes, psm, module
  <2> QED
    BY <2>1, <2>2, <2>3 DEF EventsInv
<1>4. CASE ShellExitPsm
  BY <1>3, <1>4 DEF ShellExitPsm
<1>5. CASE qsdk_thread_entry
  <2>1. Head(nb_mail) \in {"REBOOT_", "+NPING:", "+NPINGERR:", "+NPSMR:1"}
    BY <1>0, <1>5 DEF qsdk_thread_entry, DriverTypes
  <2>2. FlagOf(Head(nb_mail)) \in SUBSET Flags
    BY <2>1, FlagsAssumption DEF FlagOf
  <2> QED
    BY <1>2, <1>3, <1>5, <2>2 DEF qsdk_thread_entry
<1> QED
  BY <1>4, <1>5

\* A user calls the driver, or sends qsdk_psm a flag before it publishes.
LEMMA CallStep ==
    ASSUME EventsInv, NEW u \in Users, UserCalls(u) \/ UserExitPsm(u)
    PROVE  EventsInv'
<1> USE DriverConstants
<1>0. EventInv /\ DriverTypes
  BY DEF EventsInv
<1>1. PICK p : p \in {"enter_psm", "ping", "command"} /\ UserGoto(u, p)
  BY DEF UserCalls, UserExitPsm
<1>2. UNCHANGED <<psm, nb_mail, module>> /\ user_pc[u] = "idle"
  <2>1. CASE UserCalls(u)
    BY <2>1 DEF UserCalls
  <2>2. CASE UserExitPsm(u)
    BY <2>2 DEF UserExitPsm
  <2> QED
    BY <2>1, <2>2
<1>3. DriverTypes'
  BY <1>0, <1>1, <1>2 DEF DriverTypes, UserGoto, psm, module
<1>4. \A v \in Users : user_pc[v] = "wait" => user_pc'[v] = "wait"
  BY <1>0, <1>1, <1>2 DEF DriverTypes, UserGoto
<1>5. /\ EventInv' /\ ToSet(suspend_thread') \subseteq ToSet(suspend_thread)
      /\ event_set'[qsdk_psm] \subseteq event_set[qsdk_psm]
  <2>1. CASE UserCalls(u)
    BY <1>0, <2>1, EventUnchanged DEF UserCalls
  <2>2. CASE UserExitPsm(u)
    BY <1>0, <2>2, SendKeeps DEF UserExitPsm
  <2> QED
    BY <2>1, <2>2
<1>6. WaitersInv' /\ LockInv'
  BY <1>2, <1>4, <1>5, WaitersKept
<1> QED
  BY <1>3, <1>5, <1>6 DEF EventsInv

\* A command of a user does not touch the event object.
LEMMA CommandStep ==
    ASSUME EventsInv, NEW u \in Users, UserCommand(u)
    PROVE  EventsInv'
<1> USE DriverConstants
<1>0. EventInv /\ DriverTypes
  BY DEF EventsInv
<1>1. UNCHANGED <<event, psm, nb_mail>> /\ user_pc[u] # "wait" /\ asleep' = FALSE
  BY DEF UserCommand
<1>2. PICK p : p \in {"idle", "run_recv", "ping_recv"} /\ UserGoto(u, p)
  BY DEF UserCommand
<1>3. EventInv' /\ UNCHANGED <<suspend_thread, event_set>>
  BY <1>0, <1>1, EventUnchanged
<1>4. \A v \in Users : user_pc[v] = "wait" => user_pc'[v] = "wait"
  BY <1>0, <1>1, <1>2 DEF DriverTypes, UserGoto
<1>5. WaitersInv' /\ LockInv'
  BY <1>1, <1>3, <1>4, WaitersKept
<1>6. cpsms' \in BOOLEAN /\ pinging' \in 0..PingMax
  <2>0. cpsms' \in {cpsms, TRUE}
    BY DEF UserCommand
  <2>1. pinging' = pinging \/ (pinging < PingMax /\ pinging' = pinging + 1)
    BY DEF UserCommand
  <2>2. cpsms \in BOOLEAN /\ pinging \in 0..PingMax
    BY <1>0 DEF DriverTypes
  <2>3. cpsms' \in BOOLEAN
    BY <2>0, <2>2, Zenon
  <2> QED
    BY <2>1, <2>2, <2>3
<1>7. DriverTypes'
  BY <1>0, <1>1, <1>2, <1>6 DEF DriverTypes, UserGoto, psm
<1> QED
  BY <1>3, <1>5, <1>7 DEF EventsInv

\* A user waits for a flag, receives it or gives up.
LEMMA RecvStep ==
    ASSUME EventsInv, NEW u \in Users, UserRecv(u) \/ UserWoken(u) \/ UserTimeout(u)
    PROVE  EventsInv'
<1> USE DriverConstants
<1>0. EventInv /\ DriverTypes /\ WaitersInv
  BY DEF EventsInv
<1>1. UNCHANGED <<psm, nb_mail, module>>
  <2>1. CASE UserRecv(u)
    BY <2>1 DEF UserRecv
  <2>2. CASE UserWoken(u)
    BY <2>2 DEF UserWoken
  <2>3. CASE UserTimeout(u)
    BY <2>3 DEF UserTimeout
  <2> QED
    BY <2>1, <2>2, <2>3
<1>2. ASSUME NEW p \in {"idle", "wait"}, UserGoto(u, p)
      PROVE  /\ DriverTypes' /\ user_pc'[u] = p
             /\ \A v \in Users : v # u => user_pc'[v] = user_pc[v]
  BY <1>0, <1>1, <1>2 DEF DriverTypes, UserGoto, psm, module
<1>3. ASSUME user_pc[u] \in {"run_recv", "ping_recv"}, NEW want, NEW option,
             RecvNow(u, want, option), UserGoto(u, "idle")
      PROVE  EventsInv'
  <2>1. EventInv' /\ UNCHANGED <<suspend_thread, event_set>>
    BY <1>0, <1>3, NowKeeps
  <2>2. \A v \in Users : user_pc[v] = "wait" => user_pc'[v] = "wait"
    BY <1>2, <1>3
  <2>3. WaitersInv' /\ LockInv'
    BY <1>1, <2>1, <2>2, WaitersKept
  <2> QED
    BY <1>2, <1>3, <2>1, <2>3 DEF EventsInv
<1>4. ASSUME user_pc[u] \in {"run_recv", "ping_recv"}, NEW want \in SUBSET Flags,
             NEW option \in Options, NEW forever \in BOOLEAN,
             RecvWait(u, want, option, forever), UserGoto(u, "wait")
      PROVE  EventsInv'
  <2>1. u \notin ToSet(suspend_thread)
    BY <1>0, <1>4 DEF WaitersInv
  <2>2. /\ EventInv' /\ ToSet(suspend_thread') = ToSet(suspend_thread) \cup {u}
        /\ event_set'[qsdk_psm] = event_set[qsdk_psm]
    BY <1>0, <1>4, <2>1, WaitKeeps
  <2>3. DriverTypes' /\ user_pc'[u] = "wait" /\ \A v \in Users : v # u => user_pc'[v] = user_pc[v]
    BY <1>2, <1>4
  <2>4. WaitersInv'
    BY <1>0, <1>1, <2>2, <2>3 DEF WaitersInv, psm
  <2>5. LockInv'
    BY <1>1 DEF EventsInv, LockInv, psm
  <2> QED
    BY <2>2, <2>3, <2>4, <2>5 DEF EventsInv
<1>5. CASE UserWoken(u)
  <2>1. user_pc[u] = "wait" /\ Return(u) /\ UserGoto(u, "idle")
    BY <1>5 DEF UserWoken
  <2>2. /\ EventInv' /\ UNCHANGED suspend_thread /\ u \notin ToSet(suspend_thread)
        /\ event_set'[qsdk_psm] = event_set[qsdk_psm]
    BY <1>0, <2>1, ReturnKeeps
  <2>3. DriverTypes' /\ \A v \in Users : v # u => user_pc'[v] = user_pc[v]
    BY <1>2, <2>1
  <2>4. WaitersInv' /\ LockInv'
    BY <1>1, <2>2, <2>3, WaitersKept
  <2> QED
    BY <2>2, <2>3, <2>4 DEF EventsInv
<1>6. CASE UserTimeout(u)
  <2>1. EventTimeout(u) /\ UNCHANGED user_pc
    BY <1>6 DEF UserTimeout
  <2>2. /\ EventInv' /\ ToSet(suspend_thread') \subseteq ToSet(suspend_thread)
        /\ UNCHANGED event_set
    BY <1>0, <2>1, TimeoutKeeps
  <2>3. WaitersInv' /\ LockInv'
    BY <1>1, <2>1, <2>2, WaitersKept
  <2>4. DriverTypes'
    BY <1>0, <1>1, <2>1 DEF DriverTypes, psm, module
  <2> QED
    BY <2>2, <2>3, <2>4 DEF EventsInv
<1>7. CASE UserRecv(u)
  <2>1. CASE user_pc[u] = "run_recv" /\ RecvNow(u, {"ENTER_RUN"}, AndClear) /\ UserGoto(u, "idle")
    BY <1>3, <2>1
  <2>2. CASE user_pc[u] = "run_recv" /\ RecvWait(u, {"ENTER_RUN"}, AndClear, TRUE) /\ UserGoto(u, "wait")
    BY <1>4, <2>2
  <2>3. CASE /\ user_pc[u] = "ping_recv" /\ RecvNow(u, {"PING_OK", "PING_ERROR"}, OrClear)
             /\ UserGoto(u, "idle")
    BY <1>3, <2>3
  <2>4. CASE /\ user_pc[u] = "ping_recv" /\ RecvWait(u, {"PING_OK", "PING_ERROR"}, OrClear, FALSE)
             /\ UserGoto(u, "wait")
    BY <1>4, <2>4
  <2> QED
    BY <1>7, <2>1, <2>2, <2>3, <2>4 DEF UserRecv
<1> QED
  BY <1>5, <1>6, <1>7

\* The module only mails results and answers pings.
LEMMA ModuleStep ==
    ASSUME EventsInv, Module
    PROVE  EventsInv'
<1> USE DriverConstants
<1>0. EventInv /\ DriverTypes
  BY DEF EventsInv
<1>1. UNCHANGED <<event, psm, user_pc, cpsms>>
  BY DEF Module, ModuleSleeps, ModuleWakes, ModuleReboots, ModulePings
<1>2. EventInv' /\ UNCHANGED <<suspend_thread, event_set>>
  BY <1>0, <1>1, EventUnchanged
<1>3. WaitersInv' /\ LockInv'
  BY <1>1, <1>2, WaitersKept
<1>4. ASSUME NEW urc \in {"REBOOT_", "+NPING:", "+NPINGERR:", "+NPSMR:1"}, Report(urc)
      PROVE  nb_mail' \in Seq({"REBOOT_", "+NPING:", "+NPINGERR:", "+NPSMR:1"})
  BY <1>0, <1>4 DEF Report, DriverTypes
<1>5. nb_mail' \in Seq({"REBOOT_", "+NPING:", "+NPINGERR:", "+NPSMR:1"})
  <2>1. nb_mail \in Seq({"REBOOT_", "+NPING:", "+NPINGERR:", "+NPSMR:1"})
    BY <1>0 DEF DriverTypes
  <2>2. UNCHANGED nb_mail \/ \E urc \in {"REBOOT_", "+NPING:", "+NPINGERR:", "+NPSMR:1"} : Report(urc)
    BY DEF Module, ModuleSleeps, ModuleWakes, ModuleReboots, ModulePings
  <2> QED
    BY <1>4, <2>1, <2>2
<1>6. asleep' \in BOOLEAN /\ pinging' \in 0..PingMax
  <2>0. asleep' \in {asleep, TRUE, FALSE}
    BY DEF Module, ModuleSleeps, ModuleWakes, ModuleReboots, ModulePings
  <2>1. pinging' \in {pinging, 0} \/ (pinging > 0 /\ pinging' = pinging - 1)
    BY DEF Module, ModuleSleeps, ModuleWakes, ModuleReboots, ModulePings
  <2>2. asleep \in BOOLEAN /\ pinging \in 0..PingMax
    BY <1>0 DEF DriverTypes
  <2>3. asleep' \in BOOLEAN
    BY <2>0, <2>2, Zenon
  <2> QED
    BY <2>1, <2>2, <2>3
<1>7. DriverTypes'
  BY <1>0, <1>1, <1>5, <1>6 DEF DriverTypes, psm
<1> QED
  BY <1>2, <1>3, <1>7 DEF EventsInv

\* Every step keeps the invariant.
LEMMA EventsStep == EventsInv /\ [EventsNext]_events => EventsInv'
<1> SUFFICES ASSUME EventsInv, [EventsNext]_events PROVE EventsInv'
  OBVIOUS
<1>1. CASE UNCHANGED events
  <2>1. UNCHANGED <<event, psm, user_pc, nb_mail, module>>
    BY <1>1 DEF events
  <2>2. EventInv' /\ UNCHANGED <<suspend_thread, event_set>>
    BY <2>1, EventUnchanged DEF EventsInv
  <2>3. WaitersInv' /\ LockInv'
    BY <2>1, <2>2, WaitersKept
  <2>4. DriverTypes'
    BY <2>1 DEF EventsInv, DriverTypes, psm, module
  <2> QED
    BY <2>2, <2>3, <2>4 DEF EventsInv
<1>2. CASE EventsNext
  BY <1>2, PsmStep, SenderStep, CallStep, CommandStep, RecvStep, ModuleStep DEF EventsNext, User
<1> QED
  BY <1>1, <1>2

\* The invariant holds always.
LEMMA EventsInvariance == EventsSpec => []EventsInv
BY EventsInitInv, EventsStep, PTL DEF EventsSpec

(***************************************************************************)
(* No thread sleeps while the flags it waits for are set, for every number *)
(* of users, all priorities and any order of the results of the module.    *)
(***************************************************************************)
THEOREM EventNeverLost == EventsSpec => []NoLostEvent
<1>1. EventsInv => NoLostEvent
  BY DEF EventsInv, EventInv
<1> QED
  BY <1>1, EventsInvariance, PTL

(***************************************************************************)
(* qsdk_psm holds the AT lock whenever it waits and the driver says that   *)
(* the module has entered its sleep.                                       *)
(***************************************************************************)
THEOREM AlwaysLockedInPsm == EventsSpec => []AtLockedInPsm
<1>1. EventsInv => AtLockedInPsm
  BY DEF EventsInv, EventInv, LockInv, DriverTypes, AtLockedInPsm, EventsTypeOK
<1> QED
  BY <1>1, EventsInvariance, PTL

\* A step sends flags, takes one thread off the list, or takes off none.
LEMMA StepKinds ==
    ASSUME EventsInv, [EventsNext]_events
    PROVE  \/ \E flags \in SUBSET Flags : rt_event_send(flags)
           \/ \E t \in Threads : EventTimeout(t)
           \/ ToSet(suspend_thread) \subseteq ToSet(suspend_thread')
<1> USE DriverConstants
<1>0. EventInv /\ DriverTypes /\ WaitersInv
  BY DEF EventsInv
<1>1. ASSUME UNCHANGED suspend_thread PROVE ToSet(suspend_thread) \subseteq ToSet(suspend_thread')
  BY <1>1
<1>2. CASE UNCHANGED events
  BY <1>1, <1>2 DEF events, event
<1>3. CASE Psm
  <2>1. CASE PsmRecv
    <3>1. CASE RecvNow(qsdk_psm, PsmFlags, OrClear)
      BY <1>1, <3>1 DEF RecvNow
    <3>2. CASE RecvWait(qsdk_psm, PsmFlags, OrClear, TRUE)
      <4>1. qsdk_psm \notin ToSet(suspend_thread)
        BY <1>0, <2>1 DEF WaitersInv, PsmRecv
      <4>2. ToSet(suspend_thread') = ToSet(suspend_thread) \cup {qsdk_psm}
        BY <1>0, <3>2, <4>1, WaitKeeps
      <4> QED
        BY <4>2
    <3> QED
      BY <2>1, <3>1, <3>2 DEF PsmRecv
  <2>2. CASE PsmExit
    <3>1. CASE InPsm
      BY <2>2, <3>1 DEF PsmExit
    <3>2. CASE ~InPsm
      BY <1>1, <2>2, <3>2 DEF PsmExit, event
    <3> QED
      BY <3>1, <3>2
  <2>3. CASE ~PsmRecv /\ ~PsmExit
    BY <1>1, <1>3, <2>3 DEF Psm, PsmWoken, Return, PsmHandleEnter, PsmTake, PsmHandleReboot,
                            PsmHandleExit, PsmHandleOther, PsmCommand, event
  <2> QED
    BY <2>1, <2>2, <2>3
<1>4. CASE qsdk_thread_entry
  <2>1. Head(nb_mail) \in {"REBOOT_", "+NPING:", "+NPINGERR:", "+NPSMR:1"}
    BY <1>0, <1>4 DEF qsdk_thread_entry, DriverTypes
  <2>2. FlagOf(Head(nb_mail)) \in SUBSET Flags
    BY <2>1, FlagsAssumption DEF FlagOf
  <2>3. UNCHANGED event \/ rt_event_send(FlagOf(Head(nb_mail)))
    BY <1>4 DEF qsdk_thread_entry
  <2>4. CASE UNCHANGED event
    BY <1>1, <2>4 DEF event
  <2> QED
    BY <2>2, <2>3, <2>4
<1>5. CASE ShellExitPsm
  BY <1>5 DEF ShellExitPsm
<1>6. ASSUME NEW u \in Users, UserCalls(u) \/ UserExitPsm(u) \/ User(u) \/ UserTimeout(u)
      PROVE  \/ \E flags \in SUBSET Flags : rt_event_send(flags)
             \/ \E t \in Threads : EventTimeout(t)
             \/ ToSet(suspend_thread) \subseteq ToSet(suspend_thread')
  <2>1. CASE UserCalls(u) \/ UserCommand(u) \/ UserWoken(u)
    BY <1>1, <2>1 DEF UserCalls, UserCommand, UserWoken, Return, event
  <2>2. CASE UserExitPsm(u)
    BY <2>2 DEF UserExitPsm
  <2>3. CASE UserTimeout(u)
    BY <2>3 DEF UserTimeout
  <2>4. CASE UserRecv(u)
    <3>1. ASSUME NEW want, NEW option, RecvNow(u, want, option)
          PROVE  UNCHANGED suspend_thread
      BY <3>1 DEF RecvNow
    <3>2. u \notin ToSet(suspend_thread)
      BY <1>0, <2>4 DEF WaitersInv, UserRecv
    <3>3. ASSUME NEW want \in SUBSET Flags, NEW option \in Options, NEW forever \in BOOLEAN,
                 RecvWait(u, want, option, forever)
          PROVE  ToSet(suspend_thread) \subseteq ToSet(suspend_thread')
      BY <1>0, <3>2, <3>3, WaitKeeps
    <3>4. \/ \E want, option : RecvNow(u, want, option)
          \/ RecvWait(u, {"ENTER_RUN"}, AndClear, TRUE)
          \/ RecvWait(u, {"PING_OK", "PING_ERROR"}, OrClear, FALSE)
      BY <2>4 DEF UserRecv
    <3> QED
      BY <1>1, <3>1, <3>3, <3>4
  <2> QED
    BY <1>6, <2>1, <2>2, <2>3, <2>4 DEF User
<1>7. CASE Module
  BY <1>1, <1>7 DEF Module, ModuleSleeps, ModuleWakes, ModuleReboots, ModulePings, event
<1> QED
  BY <1>2, <1>3, <1>4, <1>5, <1>6, <1>7 DEF EventsNext

(***************************************************************************)
(* No two threads are woken by the same flag if they clear what they       *)
(* receive, whoever waits for what and in whatever order.                  *)
(***************************************************************************)
THEOREM FlagAlwaysTakenOnce == EventsSpec => FlagTakenOnce
<1> DEFINE Taken == \A t, u \in Threads :
               LET Resumed(v) == /\ v \in ToSet(suspend_thread) \ ToSet(suspend_thread')
                                 /\ event_info[v].clear
               IN  t # u /\ Resumed(t) /\ Resumed(u) => event_set'[t] \cap event_set'[u] = {}
<1>1. EventsInv /\ [EventsNext]_events => Taken
  <2> SUFFICES ASSUME EventsInv, [EventsNext]_events, NEW t \in Threads, NEW u \in Threads, t # u,
                      t \in ToSet(suspend_thread) \ ToSet(suspend_thread'), event_info[t].clear,
                      u \in ToSet(suspend_thread) \ ToSet(suspend_thread'), event_info[u].clear
               PROVE  event_set'[t] \cap event_set'[u] = {}
    OBVIOUS
  <2>1. EventInv
    BY DEF EventsInv
  <2>2. ASSUME NEW flags \in SUBSET Flags, rt_event_send(flags)
        PROVE  event_set'[t] \cap event_set'[u] = {}
    BY <2>1, <2>2, SendProperties DEF EventInv
  <2>3. ASSUME NEW v \in Threads, EventTimeout(v) PROVE FALSE
    BY <2>1, <2>3, TimeoutKeeps
  <2> QED
    BY <2>2, <2>3, StepKinds
<1> QED
  BY <1>1, EventsInvariance, PTL DEF EventsSpec, FlagTakenOnce

=============================================================================
