--------------------------- MODULE RtMessageQueue ---------------------------
(***************************************************************************)
(* The message queue of the kernel (rt-thread/src/ipc.c): a pool of        *)
(* blocks, linked into a queue of messages and a list of free blocks, and  *)
(* two lists of waiting threads.  An action is a stretch of code with      *)
(* interrupts disabled.  A message is copied between two such stretches,   *)
(* with its block in neither list, while others use the queue.             *)
(***************************************************************************)
EXTENDS RtIpcList, FiniteSets

CONSTANTS
    Priority,    \* current_priority of every thread
    Messages, NoMessage,
    Size         \* mq->max_msgs

ASSUME ThreadsAssumption == IsFiniteSet(Threads)
ASSUME PriorityAssumption == Priority \in [Threads -> Nat]
ASSUME SizeAssumption == Size \in Nat \ {0}
ASSUME MessagesAssumption == NoMessage \notin Messages

Blocks == 1..Size
Null == 0

VARIABLES
    next, content,                                     \* of every block
    msg_queue_head, msg_queue_tail, msg_queue_free, entry,
    suspend_thread, suspend_sender_thread,             \* the two lists
    pc,         \* where a thread is: "idle", "send" or "recv" (it waits, or was
                \* woken), "link", "link_urgent" or "copy" (it copies a message)
    error, timeout,
    msg,        \* the message a thread sends, or is copying out of its block
    block,      \* the block it has taken out of the lists
    got         \* the message that was taken out of the queue last

queue == <<msg_queue_head, msg_queue_tail, entry>>
lists == <<suspend_thread, suspend_sender_thread>>
pool == <<next, content, queue, msg_queue_free>>
vars == <<pool, lists, pc, error, timeout, msg, block, got>>

Timeouts == {"zero", "positive", "forever"}

\* rt_mq_init, rt_mq_create: every block is pushed onto the free list.
Init ==
    /\ next = [b \in Blocks |-> b - 1] /\ content = [b \in Blocks |-> NoMessage]
    /\ msg_queue_head = Null /\ msg_queue_tail = Null /\ entry = 0
    /\ msg_queue_free = Size
    /\ suspend_thread = <<>> /\ suspend_sender_thread = <<>>
    /\ pc = [t \in Threads |-> "idle"]
    /\ error = [t \in Threads |-> "EOK"]
    /\ timeout = [t \in Threads |-> "zero"]
    /\ msg = [t \in Threads |-> NoMessage]
    /\ block = [t \in Threads |-> Null]
    /\ got = NoMessage

-----------------------------------------------------------------------------
(* The stretches of the calls *)

Listed(t) == t \in ToSet(suspend_thread) \cup ToSet(suspend_sender_thread)

\* A thread that can take a step: idle, woken inside a call, or copying.
Runs(t) == ~Listed(t)

\* The call of t returns; its local variables are gone.
Return(t) ==
    /\ pc' = [pc EXCEPT ![t] = "idle"]
    /\ error' = [error EXCEPT ![t] = "EOK"]
    /\ timeout' = [timeout EXCEPT ![t] = "zero"]
    /\ msg' = [msg EXCEPT ![t] = NoMessage]
    /\ block' = [block EXCEPT ![t] = Null]

ReturnFailure(t) == Return(t) /\ UNCHANGED <<pool, lists, got>>

\* A free block is taken for message m; the copy begins.
Reserve(t, m, link) ==
    /\ msg_queue_free # Null
    /\ msg_queue_free' = next[msg_queue_free]
    /\ block' = [block EXCEPT ![t] = msg_queue_free]
    /\ msg' = [msg EXCEPT ![t] = m]
    /\ pc' = [pc EXCEPT ![t] = link]
    /\ UNCHANGED <<next, content, queue, lists, error, timeout, got>>

\* A wait begins, for room or for a message.
Wait(t, where, m, time) ==
    /\ time # "zero"
    /\ pc' = [pc EXCEPT ![t] = where]
    /\ suspend_sender_thread' =
          IF where = "send" THEN ListSuspend(suspend_sender_thread, t, Priority) ELSE suspend_sender_thread
    /\ suspend_thread' =
          IF where = "recv" THEN ListSuspend(suspend_thread, t, Priority) ELSE suspend_thread
    /\ error' = [error EXCEPT ![t] = "EOK"]
    /\ timeout' = [timeout EXCEPT ![t] = time]
    /\ msg' = [msg EXCEPT ![t] = m]
    /\ UNCHANGED <<pool, block, got>>

\* Mutant: a receiver is woken only if the queue was empty.
LinkWakesIfEmpty(t) ==
    LET b == block[t]
    IN  /\ content' = [content EXCEPT ![b] = msg[t]]
        /\ next' = [c \in Blocks |-> IF c = b THEN Null ELSE IF c = msg_queue_tail THEN b ELSE next[c]]
        /\ msg_queue_tail' = b
        /\ msg_queue_head' = IF msg_queue_head = Null THEN b ELSE msg_queue_head
        /\ entry' = entry + 1
        /\ suspend_thread' = IF entry = 0 THEN RestOf(suspend_thread) ELSE suspend_thread
        /\ Return(t)
        /\ UNCHANGED <<msg_queue_free, suspend_sender_thread, got>>

\* The end of rt_mq_send_wait: the block becomes the tail, one receiver runs.
Link(t) ==
    LET b == block[t]
    IN  /\ content' = [content EXCEPT ![b] = msg[t]]
        /\ next' = [c \in Blocks |-> IF c = b THEN Null ELSE IF c = msg_queue_tail THEN b ELSE next[c]]
        /\ msg_queue_tail' = b
        /\ msg_queue_head' = IF msg_queue_head = Null THEN b ELSE msg_queue_head
        /\ entry' = entry + 1
        /\ suspend_thread' = RestOf(suspend_thread)
        /\ Return(t)
        /\ UNCHANGED <<msg_queue_free, suspend_sender_thread, got>>

\* Mutant: an urgent message in an empty queue does not become its tail.
LinkUrgentNoTail(t) ==
    LET b == block[t]
    IN  /\ content' = [content EXCEPT ![b] = msg[t]]
        /\ next' = [next EXCEPT ![b] = msg_queue_head]
        /\ msg_queue_head' = b
        /\ entry' = entry + 1
        /\ suspend_thread' = RestOf(suspend_thread)
        /\ Return(t)
        /\ UNCHANGED <<msg_queue_tail, msg_queue_free, suspend_sender_thread, got>>

\* The end of rt_mq_urgent: the block becomes the head, one receiver runs.
LinkUrgent(t) ==
    LET b == block[t]
    IN  /\ content' = [content EXCEPT ![b] = msg[t]]
        /\ next' = [next EXCEPT ![b] = msg_queue_head]
        /\ msg_queue_head' = b
        /\ msg_queue_tail' = IF msg_queue_tail = Null THEN b ELSE msg_queue_tail
        /\ entry' = entry + 1
        /\ suspend_thread' = RestOf(suspend_thread)
        /\ Return(t)
        /\ UNCHANGED <<msg_queue_free, suspend_sender_thread, got>>

\* Mutant: the block is back in the free list before its message is copied.
UnlinkFrees(t) ==
    LET b == msg_queue_head
    IN  /\ entry > 0
        /\ msg_queue_head' = next[b]
        /\ msg_queue_tail' = IF msg_queue_tail = b THEN Null ELSE msg_queue_tail
        /\ entry' = entry - 1
        /\ next' = [next EXCEPT ![b] = msg_queue_free]
        /\ msg_queue_free' = b
        /\ block' = [block EXCEPT ![t] = b]
        /\ msg' = [msg EXCEPT ![t] = content[b]]
        /\ got' = content[b]
        /\ pc' = [pc EXCEPT ![t] = "copy"]
        /\ UNCHANGED <<content, lists, error, timeout>>

\* Mutant: the head stays at the block that left, unless it was the last.
UnlinkKeepsHead(t) ==
    LET b == msg_queue_head
    IN  /\ entry > 0
        /\ msg_queue_head' = IF msg_queue_tail = b THEN Null ELSE b
        /\ msg_queue_tail' = IF msg_queue_tail = b THEN Null ELSE msg_queue_tail
        /\ entry' = entry - 1
        /\ block' = [block EXCEPT ![t] = b]
        /\ msg' = [msg EXCEPT ![t] = content[b]]
        /\ got' = content[b]
        /\ pc' = [pc EXCEPT ![t] = "copy"]
        /\ UNCHANGED <<next, content, msg_queue_free, lists, error, timeout>>

\* rt_mq_recv takes the head off the queue; the copy begins.
Unlink(t) ==
    LET b == msg_queue_head
    IN  /\ entry > 0
        /\ msg_queue_head' = next[b]
        /\ msg_queue_tail' = IF msg_queue_tail = b THEN Null ELSE msg_queue_tail
        /\ entry' = entry - 1
        /\ block' = [block EXCEPT ![t] = b]
        /\ msg' = [msg EXCEPT ![t] = content[b]]
        /\ got' = content[b]
        /\ pc' = [pc EXCEPT ![t] = "copy"]
        /\ UNCHANGED <<next, content, msg_queue_free, lists, error, timeout>>

\* The end of rt_mq_recv: the block is free again, one sender runs.
Free(t) ==
    /\ next' = [next EXCEPT ![block[t]] = msg_queue_free]
    /\ msg_queue_free' = block[t]
    /\ suspend_sender_thread' = RestOf(suspend_sender_thread)
    /\ Return(t)
    /\ UNCHANGED <<content, queue, suspend_thread, got>>

\* What is left of a timeout when the caller runs again.
TimeLeft(t) == IF timeout[t] = "positive" THEN {"positive", "zero"} ELSE {timeout[t]}

-----------------------------------------------------------------------------
(* Actions *)

\* rt_mq_send_wait, up to its copy or its first wait; rt_mq_send is the case
\* time = "zero", which fails when there is no free block.
rt_mq_send_wait(t, m, time) ==
    /\ pc[t] = "idle"
    /\ \/ Reserve(t, m, "link")
       \/ msg_queue_free = Null /\ Wait(t, "send", m, time)

rt_mq_urgent(t, m) ==
    /\ pc[t] = "idle"
    /\ Reserve(t, m, "link_urgent")

rt_mq_recv(t, time) ==
    /\ pc[t] = "idle"
    /\ \/ Unlink(t)
       \/ entry = 0 /\ Wait(t, "recv", NoMessage, time)

\* A sender runs again after its wait.
ContinueSend(t) ==
    /\ pc[t] = "send" /\ Runs(t)
    /\ \/ error[t] # "EOK" /\ ReturnFailure(t)
       \/ error[t] = "EOK" /\ Reserve(t, msg[t], "link")
       \/ /\ error[t] = "EOK" /\ msg_queue_free = Null
          /\ \E time \in TimeLeft(t) :
                Wait(t, "send", msg[t], time) \/ (time = "zero" /\ ReturnFailure(t))

\* A receiver runs again after its wait.
ContinueRecv(t) ==
    /\ pc[t] = "recv" /\ Runs(t)
    /\ \/ error[t] # "EOK" /\ ReturnFailure(t)
       \/ error[t] = "EOK" /\ Unlink(t)
       \/ /\ error[t] = "EOK" /\ entry = 0
          /\ \E time \in TimeLeft(t) :
                Wait(t, "recv", NoMessage, time) \/ (time = "zero" /\ ReturnFailure(t))

\* The copy of a message ends.
EndCopy(t) ==
    \/ pc[t] = "link" /\ Link(t)
    \/ pc[t] = "link_urgent" /\ LinkUrgent(t)
    \/ pc[t] = "copy" /\ Free(t)

rt_thread_timeout(t) ==
    /\ Listed(t) /\ timeout[t] = "positive"
    /\ suspend_thread' = ListRemove(suspend_thread, t)
    /\ suspend_sender_thread' = ListRemove(suspend_sender_thread, t)
    /\ error' = [error EXCEPT ![t] = "ETIMEOUT"]
    /\ UNCHANGED <<pool, pc, timeout, msg, block, got>>

\* The blocks from head on, as many as there are entries.
Queue ==
    LET q[i \in 1..entry] == IF i = 1 THEN msg_queue_head ELSE next[q[i - 1]]
    IN  q

\* rt_mq_control with RT_IPC_CMD_RESET: every waiter fails and every message in
\* the queue, the head first, is pushed onto the free list.
rt_mq_control ==
    LET q == Queue
    IN  /\ next' = [b \in Blocks |->
              IF \E i \in 1..entry : q[i] = b
              THEN LET i == CHOOSE j \in 1..entry : q[j] = b
                   IN  IF i = 1 THEN msg_queue_free ELSE q[i - 1]
              ELSE next[b]]
        /\ msg_queue_free' = IF entry = 0 THEN msg_queue_free ELSE q[entry]
        /\ msg_queue_head' = Null /\ msg_queue_tail' = Null /\ entry' = 0
        /\ error' = [t \in Threads |-> IF Listed(t) THEN "ERROR" ELSE error[t]]
        /\ suspend_thread' = <<>> /\ suspend_sender_thread' = <<>>
        /\ UNCHANGED <<content, pc, timeout, msg, block, got>>

Step(t) == ContinueSend(t) \/ ContinueRecv(t) \/ EndCopy(t)

Next ==
    \/ \E t \in Threads :
          \/ \E m \in Messages : rt_mq_urgent(t, m)
                                 \/ \E time \in Timeouts : rt_mq_send_wait(t, m, time)
          \/ \E time \in Timeouts : rt_mq_recv(t, time)
          \/ Step(t)
          \/ rt_thread_timeout(t)
    \/ rt_mq_control

Spec == Init /\ [][Next]_vars

-----------------------------------------------------------------------------
(* Properties *)

\* Types of the variables.
TypeOK ==
    /\ next \in [Blocks -> Blocks \cup {Null}]
    /\ content \in [Blocks -> Messages \cup {NoMessage}]
    /\ {msg_queue_head, msg_queue_tail, msg_queue_free} \subseteq Blocks \cup {Null}
    /\ entry \in 0..Size
    /\ suspend_thread \in Seq(Threads) /\ suspend_sender_thread \in Seq(Threads)
    /\ pc \in [Threads -> {"idle", "send", "recv", "link", "link_urgent", "copy"}]
    /\ error \in [Threads -> {"EOK", "ETIMEOUT", "ERROR"}]
    /\ timeout \in [Threads -> Timeouts]
    /\ msg \in [Threads -> Messages \cup {NoMessage}]
    /\ block \in [Threads -> Blocks \cup {Null}]
    /\ got \in Messages \cup {NoMessage}

Copying == {t \in Threads : block[t] # Null}

\* Where the blocks are: in the queue, with a thread that copies, or free.
InQueue == {Queue[i] : i \in 1..entry}
InFlight == {block[t] : t \in Copying}
InFree == Blocks \ (InQueue \cup InFlight)

\* Every block is in the queue, in the free list or with the one thread that
\* copies to or from it, so none is lost or used twice; the queue ends at its
\* tail, and the free list holds all that is left, whatever the order in which
\* senders, receivers and a reset cut in between the halves of a call.
BlocksConserved ==
    /\ TypeOK
    /\ entry = 0 <=> msg_queue_head = Null
    /\ entry = 0 <=> msg_queue_tail = Null
    /\ entry > 0 => Queue[entry] = msg_queue_tail /\ next[msg_queue_tail] = Null
    /\ InQueue \subseteq Blocks /\ Cardinality(InQueue) = entry
    /\ InQueue \cap InFlight = {}
    /\ \A t, u \in Copying : block[t] = block[u] => t = u
    /\ InFree = {} <=> msg_queue_free = Null
    /\ InFree # {} => msg_queue_free \in InFree
    /\ \A b \in InFree : next[b] \in InFree \cup {Null}
    /\ \A b, c \in InFree : next[b] = next[c] => b = c
    /\ \A b \in InFree : next[b] # msg_queue_free

\* A receiver copies the message it took off the queue: no sender writes into
\* its block before the copy is over.
CopyIntact ==
    \A t \in Threads : pc[t] = "copy" => content[block[t]] = msg[t]

Woken(where) == {t \in Threads : pc[t] = where /\ Runs(t) /\ error[t] = "EOK"}

\* As long as a receiver waits, every message in the queue has a woken receiver
\* on its way to it, and as long as a sender waits, every free block has a woken
\* sender: nobody sleeps beside what it waits for.
NoLostWakeup ==
    /\ suspend_thread # <<>> => Cardinality(Woken("recv")) >= entry
    /\ suspend_sender_thread # <<>> => Cardinality(Woken("send")) >= Cardinality(InFree)

Contents == [i \in 1..entry |-> content[Queue[i]]]

Fifo == INSTANCE BoundedFifo WITH fifo <- Contents, delivered <- got, Mails <- Messages,
                                  NoMail <- NoMessage

\* The linked blocks implement a bounded buffer: each message is delivered once,
\* in the order the copies ended, the urgent ones before all that wait.
ImplementsBuffer == Fifo!UrgentSpec
=============================================================================
