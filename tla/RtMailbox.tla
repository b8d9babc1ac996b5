----------------------------- MODULE RtMailbox -----------------------------
(***************************************************************************)
(* The mailbox of the RT-Thread kernel (rt-thread/src/ipc.c): a ring of    *)
(* Size mails, a list of threads waiting for a mail and a list of threads  *)
(* waiting for room.  A call that blocks is two actions: the one that puts *)
(* the caller on a list, and the one the caller takes when it runs again;  *)
(* in between any other thread may use the mailbox.  Every action is one   *)
(* stretch of the code under rt_hw_interrupt_disable.                      *)
(***************************************************************************)
EXTENDS RtIpcList, FiniteSets

CONSTANTS
    Priority,    \* current_priority of every thread
    Mails,       \* the values sent (pointers, in this firmware)
    NoMail,      \* the content of a slot never written
    Size         \* mb->size

ASSUME ThreadsAssumption == IsFiniteSet(Threads)
ASSUME PriorityAssumption == Priority \in [Threads -> Nat]
ASSUME SizeAssumption == Size \in Nat \ {0}
ASSUME MailsAssumption == NoMail \notin Mails

VARIABLES
    msg_pool, entry, in_offset, out_offset,    \* the ring
    suspend_thread, suspend_sender_thread,     \* the two lists
    call,       \* the call a thread is in: "none", "send" or "recv"
    stat,       \* "ready"; "suspend": on a list; "stopped": suspended off any list
    error,      \* thread->error
    timeout,    \* the timeout argument, recomputed after each wait
    mail,       \* the value a sender carries
    got         \* the mail that was handed out last

ring == <<msg_pool, entry, in_offset, out_offset>>
lists == <<suspend_thread, suspend_sender_thread>>
vars == <<ring, lists, call, stat, error, timeout, mail, got>>

Timeouts == {"zero", "positive", "forever"}

Init ==
    /\ msg_pool = [i \in 0..Size-1 |-> NoMail]
    /\ entry = 0 /\ in_offset = 0 /\ out_offset = 0
    /\ suspend_thread = <<>> /\ suspend_sender_thread = <<>>
    /\ call = [t \in Threads |-> "none"]
    /\ stat = [t \in Threads |-> "ready"]
    /\ error = [t \in Threads |-> "EOK"]
    /\ timeout = [t \in Threads |-> "zero"]
    /\ mail = [t \in Threads |-> NoMail]
    /\ got = NoMail

-----------------------------------------------------------------------------
(* Helpers *)

\* Mutant: the offset wraps one slot too late.
AdvanceLate(offset) == IF offset + 1 > Size THEN 0 ELSE offset + 1

\* ++ offset; if (offset >= size) offset = 0
Advance(offset) == IF offset + 1 >= Size THEN 0 ELSE offset + 1

\* rt_ipc_list_resume: the first thread of the list, if any, runs again.
ResumeFirst(list) ==
    IF list = <<>> THEN stat ELSE [stat EXCEPT ![Head(list)] = "ready"]

\* The call of t returns: its local variables are gone, and so is the use of
\* thread->error, which the next wait resets.
Return(t) ==
    /\ call' = [call EXCEPT ![t] = "none"]
    /\ error' = [error EXCEPT ![t] = "EOK"]
    /\ timeout' = [timeout EXCEPT ![t] = "zero"]
    /\ mail' = [mail EXCEPT ![t] = NoMail]

\* Mutant: a receiver is woken only when the box was empty.
DepositWakesIfEmpty(t, v) ==
    /\ msg_pool' = [msg_pool EXCEPT ![in_offset] = v]
    /\ in_offset' = Advance(in_offset)
    /\ entry' = entry + 1
    /\ stat' = ResumeFirst(IF entry = 0 THEN suspend_thread ELSE <<>>)
    /\ suspend_thread' = IF entry = 0 THEN RestOf(suspend_thread) ELSE suspend_thread
    /\ Return(t)
    /\ UNCHANGED <<out_offset, suspend_sender_thread, got>>

\* Mutant: the offset is advanced before the mail is stored.
DepositAhead(t, v) ==
    /\ msg_pool' = [msg_pool EXCEPT ![Advance(in_offset)] = v]
    /\ in_offset' = Advance(in_offset)
    /\ entry' = entry + 1
    /\ stat' = ResumeFirst(suspend_thread)
    /\ suspend_thread' = RestOf(suspend_thread)
    /\ Return(t)
    /\ UNCHANGED <<out_offset, suspend_sender_thread, got>>

\* The end of rt_mb_send_wait: store the mail, wake one receiver, return.
Deposit(t, v) ==
    /\ msg_pool' = [msg_pool EXCEPT ![in_offset] = v]
    /\ in_offset' = Advance(in_offset)
    /\ entry' = entry + 1
    /\ stat' = ResumeFirst(suspend_thread)
    /\ suspend_thread' = RestOf(suspend_thread)
    /\ Return(t)
    /\ UNCHANGED <<out_offset, suspend_sender_thread, got>>

\* The end of rt_mb_recv: take the oldest mail, wake one sender, return.
Collect(t) ==
    /\ got' = msg_pool[out_offset]
    /\ out_offset' = Advance(out_offset)
    /\ entry' = entry - 1
    /\ stat' = ResumeFirst(suspend_sender_thread)
    /\ suspend_sender_thread' = RestOf(suspend_sender_thread)
    /\ Return(t)
    /\ UNCHANGED <<msg_pool, in_offset, suspend_thread>>

\* One turn of the loop that waits for room, for a caller with time left.
WaitForRoom(t, v, time) ==
    /\ time # "zero"
    /\ suspend_sender_thread' = ListSuspend(suspend_sender_thread, t, Priority)
    /\ call' = [call EXCEPT ![t] = "send"]
    /\ stat' = [stat EXCEPT ![t] = "suspend"]
    /\ error' = [error EXCEPT ![t] = "EOK"]
    /\ timeout' = [timeout EXCEPT ![t] = time]
    /\ mail' = [mail EXCEPT ![t] = v]
    /\ UNCHANGED <<ring, suspend_thread, got>>

\* One turn of the loop that waits for a mail, for a caller with time left.
WaitForMail(t, time) ==
    /\ time # "zero"
    /\ suspend_thread' = ListSuspend(suspend_thread, t, Priority)
    /\ call' = [call EXCEPT ![t] = "recv"]
    /\ stat' = [stat EXCEPT ![t] = "suspend"]
    /\ error' = [error EXCEPT ![t] = "EOK"]
    /\ timeout' = [timeout EXCEPT ![t] = time]
    /\ UNCHANGED <<ring, suspend_sender_thread, mail, got>>

\* A call that fails returns to its caller and leaves the mailbox alone.
ReturnFailure(t) ==
    /\ Return(t)
    /\ UNCHANGED <<ring, lists, stat, got>>

\* What is left of a timeout when the caller runs again: a positive one may
\* have been used up, and is then 0.
TimeLeft(t) == IF timeout[t] = "positive" THEN {"positive", "zero"} ELSE {timeout[t]}

-----------------------------------------------------------------------------
(* Actions *)

Idle(t) == call[t] = "none" /\ stat[t] = "ready"

\* rt_mb_send_wait, from its call to its return or to its first suspension;
\* rt_mb_send is the case time = "zero".  A full box and no time is -RT_EFULL,
\* which changes nothing.
rt_mb_send_wait(t, v, time) ==
    /\ Idle(t)
    /\ \/ entry < Size /\ Deposit(t, v)
       \/ entry = Size /\ WaitForRoom(t, v, time)

rt_mb_recv(t, time) ==
    /\ Idle(t)
    /\ \/ entry > 0 /\ Collect(t)
       \/ entry = 0 /\ WaitForMail(t, time)

\* The caller runs again after rt_schedule, inside rt_mb_send_wait.
ContinueSend(t) ==
    /\ call[t] = "send" /\ stat[t] = "ready"
    /\ \/ error[t] # "EOK" /\ ReturnFailure(t)
       \/ /\ error[t] = "EOK" /\ entry < Size
          /\ Deposit(t, mail[t])
       \/ /\ error[t] = "EOK" /\ entry = Size
          /\ \E time \in TimeLeft(t) :
                \/ WaitForRoom(t, mail[t], time)
                \/ time = "zero" /\ ReturnFailure(t)

\* The caller runs again after rt_schedule, inside rt_mb_recv.
ContinueRecv(t) ==
    /\ call[t] = "recv" /\ stat[t] = "ready"
    /\ \/ error[t] # "EOK" /\ ReturnFailure(t)
       \/ /\ error[t] = "EOK" /\ entry > 0
          /\ Collect(t)
       \/ /\ error[t] = "EOK" /\ entry = 0
          /\ \E time \in TimeLeft(t) :
                \/ WaitForMail(t, time)
                \/ time = "zero" /\ ReturnFailure(t)

\* Mutant: the thread runs again but stays on the list of receivers.
WakeOnList(t, err) ==
    /\ suspend_sender_thread' = ListRemove(suspend_sender_thread, t)
    /\ stat' = [stat EXCEPT ![t] = "ready"]
    /\ error' = [error EXCEPT ![t] = err]
    /\ UNCHANGED <<ring, suspend_thread, call, timeout, mail, got>>

\* Take t off the list it waits on, ready to run with err in thread->error.
Wake(t, err) ==
    /\ suspend_thread' = ListRemove(suspend_thread, t)
    /\ suspend_sender_thread' = ListRemove(suspend_sender_thread, t)
    /\ stat' = [stat EXCEPT ![t] = "ready"]
    /\ error' = [error EXCEPT ![t] = err]
    /\ UNCHANGED <<ring, call, timeout, mail, got>>

\* The timer of a waiting thread expires.
rt_thread_timeout(t) ==
    /\ stat[t] = "suspend" /\ timeout[t] = "positive"
    /\ Wake(t, "ETIMEOUT")

\* Another thread resumes t, whatever t waits for (net_entry does this to
\* data_up, which may be inside rt_mb_recv); thread->error stays as it was.
rt_thread_resume(t) ==
    /\ stat[t] # "ready"
    /\ Wake(t, error[t])

\* Another thread suspends t, which is ready (net_entry does this to data_up);
\* of interest here when t was woken inside a call.
rt_thread_suspend(t) ==
    /\ stat[t] = "ready" /\ call[t] # "none"
    /\ stat' = [stat EXCEPT ![t] = "stopped"]
    /\ UNCHANGED <<ring, lists, call, error, timeout, mail, got>>

\* Mutant: the reset forgets the offsets.
ResetEntryOnly ==
    LET waiting == ToSet(suspend_thread) \cup ToSet(suspend_sender_thread)
    IN  /\ stat' = [t \in Threads |-> IF t \in waiting THEN "ready" ELSE stat[t]]
        /\ error' = [t \in Threads |-> IF t \in waiting THEN "ERROR" ELSE error[t]]
        /\ suspend_thread' = <<>> /\ suspend_sender_thread' = <<>>
        /\ entry' = 0
        /\ UNCHANGED <<msg_pool, in_offset, out_offset, call, timeout, mail, got>>

\* rt_mb_control with RT_IPC_CMD_RESET: every waiter returns -RT_ERROR.
rt_mb_control ==
    LET waiting == ToSet(suspend_thread) \cup ToSet(suspend_sender_thread)
    IN  /\ stat' = [t \in Threads |-> IF t \in waiting THEN "ready" ELSE stat[t]]
        /\ error' = [t \in Threads |-> IF t \in waiting THEN "ERROR" ELSE error[t]]
        /\ suspend_thread' = <<>> /\ suspend_sender_thread' = <<>>
        /\ entry' = 0 /\ in_offset' = 0 /\ out_offset' = 0
        /\ UNCHANGED <<msg_pool, call, timeout, mail, got>>

ThreadStep(t) ==
    \/ \E v \in Mails, time \in Timeouts : rt_mb_send_wait(t, v, time)
    \/ \E time \in Timeouts : rt_mb_recv(t, time)
    \/ ContinueSend(t)
    \/ ContinueRecv(t)
    \/ rt_thread_timeout(t)
    \/ rt_thread_resume(t)
    \/ rt_thread_suspend(t)

Next ==
    \/ \E t \in Threads : ThreadStep(t)
    \/ rt_mb_control

Spec == Init /\ [][Next]_vars

\* A ready thread inside a call is eventually scheduled, and whoever suspended
\* a thread from outside eventually resumes it (main.c does on every path).
\* Nobody is obliged to call, to reset the mailbox, or to time out.
ResumeStopped(t) == stat[t] = "stopped" /\ rt_thread_resume(t)

Fairness ==
    \A t \in Threads : /\ SF_vars(ContinueSend(t)) /\ SF_vars(ContinueRecv(t))
                       /\ WF_vars(ResumeStopped(t))

FairSpec == Spec /\ Fairness

-----------------------------------------------------------------------------
(* Properties *)

\* Types of the mailbox and of the threads that use it.
TypeOK ==
    /\ msg_pool \in [0..Size-1 -> Mails \cup {NoMail}]
    /\ entry \in 0..Size
    /\ in_offset \in 0..Size-1 /\ out_offset \in 0..Size-1
    /\ suspend_thread \in Seq(Threads) /\ suspend_sender_thread \in Seq(Threads)
    /\ call \in [Threads -> {"none", "send", "recv"}]
    /\ stat \in [Threads -> {"ready", "suspend", "stopped"}]
    /\ error \in [Threads -> {"EOK", "ETIMEOUT", "ERROR"}]
    /\ timeout \in [Threads -> Timeouts]
    /\ mail \in [Threads -> Mails \cup {NoMail}]
    /\ got \in Mails \cup {NoMail}

\* The slot of the k-th oldest mail, k counted from 0.
Slot(k) == IF out_offset + k < Size THEN out_offset + k ELSE out_offset + k - Size

\* The next mail is written right behind the last one waiting, also after both
\* offsets wrapped, so no mail is overwritten before it is read.
RingConsistent ==
    in_offset = IF out_offset + entry < Size THEN out_offset + entry
                                             ELSE out_offset + entry - Size

\* The threads that wait in call kind.
Waiting(kind) == {t \in Threads : call[t] = kind /\ stat[t] = "suspend"}

\* The lists hold exactly the threads that wait, each once and on the list of
\* the call it is in, whether they leave by a mail, a timeout, a reset or a
\* resume from outside; a waiting thread has no error yet, a sender its mail.
WaitersConsistent ==
    /\ IsInjective(suspend_thread) /\ IsInjective(suspend_sender_thread)
    /\ ToSet(suspend_thread) = Waiting("recv")
    /\ ToSet(suspend_sender_thread) = Waiting("send")
    /\ \A t \in Threads : stat[t] = "suspend" => call[t] # "none" /\ error[t] = "EOK"
    /\ \A t \in Threads : call[t] = "send" => mail[t] \in Mails

\* The threads that were woken to take a mail (to use a free slot) and did not
\* run yet.
Woken(kind) ==
    {t \in Threads : call[t] = kind /\ stat[t] # "suspend" /\ error[t] = "EOK"}

\* As long as a receiver waits, every mail in the box has a woken receiver on
\* its way to it: no mail lies in the box while its receivers sleep, although
\* a late caller may take the mail a woken thread was meant for.
NoLostMail ==
    suspend_thread # <<>> => Cardinality(Woken("recv")) >= entry

\* The same for senders and the free slots of a full box.
NoLostRoom ==
    suspend_sender_thread # <<>> => Cardinality(Woken("send")) >= Size - entry

\* Nobody sleeps beside what it waits for: neither a receiver beside a mail nor a
\* sender beside a free slot, whoever overtakes the thread that was woken.
NobodySleepsInVain == NoLostMail /\ NoLostRoom

\* A list ordered by priority stays so, whoever joins or leaves it.
WaitersOrdered ==
    FlagPrio => Ordered(suspend_thread, Priority) /\ Ordered(suspend_sender_thread, Priority)

\* The lists hold exactly the waiting threads, once each, in the order of their
\* flag, whatever mails, timeouts, resets and outside resumes take threads out of
\* their middle.
WaitersCorrect == WaitersConsistent /\ WaitersOrdered

\* The mails in the box, oldest first.
Contents == [k \in 1..entry |-> msg_pool[Slot(k - 1)]]

Fifo == INSTANCE BoundedFifo WITH fifo <- Contents, delivered <- got

\* The ring implements the bounded first-in first-out buffer: mails are
\* delivered once each, in the order rt_mb_send_wait accepted them.
ImplementsFifo == Fifo!Spec

\* A receiver never sleeps forever beside a mail.
MailIsTaken ==
    \A t \in Threads :
        (t \in ToSet(suspend_thread) /\ entry > 0)
            ~> (t \notin ToSet(suspend_thread) \/ entry = 0)
=============================================================================
