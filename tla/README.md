# TLA+ models of the NB-IoT smart home firmware

The firmware (`src/BerPi_nbiot`) runs on an STM32L431 under RT-Thread 4.0.2. It
reads sensors, drives a lamp, a fan and a door, and talks to a server over MQTT
through an NB-IoT module (M5310A) that takes AT commands on a serial line. This
directory holds TLA+ models of its core, the TLC configurations that check them
and proofs that TLAPS checks.

Run everything from this directory:

    tlc -workers 2 -config MCRtMailbox.cfg MCRtMailbox
    tlapm RtMailboxProofs.tla

`PROJECT.json` lists every run with its configuration, what it is expected to
show, the source lines behind each definition and the hazards the properties
are aimed at.

## The system

Everything runs on one core with preemptive priorities (a smaller number is more
urgent). The threads that matter here:

| thread | prio | code | does |
|---|---|---|---|
| `key thread` | 6 | `app_key.c` | menu and thresholds |
| `qsdk_th` | 7 | `rb_nb.c`, `nb_mqtt.c`, `nb_callback.c` | handles what the module reports |
| `at_clnt0` | 9 | `at_client.c` `client_parser` | reads lines from the module |
| `net_th` | 10 | `main.c` `net_entry` | connects and repairs the link |
| `data_th` | 12 | `main.c` `data_up_entry` | publishes readings |
| `send_data_th` | 12 | `main.c` `send_data_entry` | produces readings |
| `qsdk_psm` | 12 | `rb_nb.c` | power saving mode |
| sensors, uarts | 14-15 | `app_*.c` | lamp, door, gas, display |
| `tshell` | 18 | `rb_nb.c` `qsdk_nb` | shell commands |

### Inventory

| component | state | operations | interacts by | hard part | what makes it correct |
|---|---|---|---|---|---|
| mailbox (`ipc.c`) | ring, two waiting lists | send, receive, reset | blocks and wakes threads | wake-ups, timeouts, resumes from outside | first-in first-out, nothing lost, nobody asleep beside a mail |
| waiting lists (`ipc.c`) | ordered list of threads | suspend, resume, remove | used by every IPC object | removal from the middle | order kept, each waiter once |
| message queue (`ipc.c`) | pool of blocks, queue, free list, two waiting lists | send, urgent, receive, reset | interrupt to `serial` thread | a message is copied with interrupts on | no block lost or used twice, nothing overwritten while it is copied |
| mutex (`ipc.c`) | owner, hold, original priority, waiting list | take, release | hand-over, priority inheritance | nesting, timeouts of waiters | one holder, priority inherited and given back |
| semaphore, event (`ipc.c`) | count, flags | send, receive | several waiters | lost wake-ups, stale counts, flags that are cleared | nobody asleep on a set flag, a flag taken once |
| timers (`timer.c`, `clock.c`) | two ordered lists, tick | start, stop, control, tick | interrupt and timer thread | wrap of the tick, preempted starts | lists ordered, nothing early, nothing late |
| heap (`mem.c`) | chain of blocks, `lfree` | malloc, free, realloc | every component | long sequences, move in two halves | blocks tile the heap, nothing cut into, nothing leaks |
| AT client (`at_client.c`) | lock, response object, notice | execute, wait for connection, parse | callers and parser share `client->resp` | late answers, priorities on both sides of the parser | the answer belongs to the command |
| connection (`rb_nb.c`) | `nb_device_table`, `nb_event` | quick connect, reboot, report | AT commands, events | retries, late reboot reports | returns what it reached |
| power saving, ping (`rb_nb.c`) | `nbiot_psm_status`, the AT lock, `nb_event` | enter, leave, ping | holds the AT lock | combined flags, double entry | commands locked out while the module sleeps |
| unsolicited results (`rb_nb.c`) | `nb_mail` of pointers | mail, handle | parser to `qsdk_th` | buffer reused, mailbox full | each report handled once, unchanged |
| MQTT (`nb_mqtt.c`) | `mqtt_device`, topic table | open, close, subscribe, publish | polls flags that `qsdk_th` sets | stale flags, late acknowledgements | results are true |
| supervision (`main.c`) | `recon_count`, `net_error`, suspension of `data_th` | connect, repair | events, suspend and resume | suspending a thread anywhere | repaired alone, always resumed |
| commands (`nb_callback.c`) | lamp, door, fan | one callback | runs in `qsdk_th`, sleeps 6 s | two openers of the door, two writers of the lamp | door closed in the end, reports true |
| light, gas, camera (`app_*.c`) | counters, reported states | periodic | shared variables | preempted between two writes, counters that wrap | alarm shown, reports true |
| menu (`app_key.c`) | thresholds, menu | key presses | read by sensor threads | 8-bit wraps | thresholds in range |
| display, other sensors | readings | periodic | shared variables | none | - |

## Modules

| module | models |
|---|---|
| `RtIpcList` | the waiting list of an IPC object; the priorities that order it are an argument |
| `RtMailbox` | the mailbox: one action for each stretch of code with interrupts off |
| `RtMessageQueue` | the message queue, in the same way; extends `RtIpcList` |
| `BoundedFifo` | what a mailbox and a message queue promise: the abstract specification |
| `RtMutex` | recursive mutexes with priority inheritance; extends `RtIpcList`, with the current priorities as its order |
| `RtEvent` | the event object; extends `RtIpcList` |
| `NbEvents` | `nb_event` with `qsdk_psm_entry`, `qsdk_thread_entry`, the users of the driver and the module; extends `RtEvent` |
| `RtTimer` | hard and soft timers, the clock interrupt and the timer thread |
| `RtMem` | the heap |
| `AtClient` | `at_obj_exec_cmd`, `at_client_obj_wait_connect`, `client_parser`, with the mutex and the semaphore they use; extends `RtIpcList` |
| `NetManager` | `net_entry`, `data_up_entry`, `send_data_entry`, the reports and the reconnection `qsdk_th` handles, with the driver and MQTT functions they call and the AT lock they share; extends `RtIpcList` |
| `Home` | the door with its two openers, the lamp with its two writers, the gas alarm |
| `RtIpcListProofs` | lemmas about lists: the proofs about their users extend it, those about the timers instantiate it |
| `RtMailboxProofs`, `RtMessageQueueProofs`, `RtMutexProofs`, `RtMemProofs`, `RtTimerProofs` | the theorems about the module of that name |
| `DriverProofs` | the theorems about `AtClient` and about `NbEvents` with `RtEvent` |
| `ApplicationProofs` | the theorems about `NetManager` and about `Home` |
| `MC*` | instances for TLC (`NetManager`, `RtMem` and `Home` need none: their constants are numbers) |

In the kernel modules an action is a stretch of code that interrupts cannot
split, and threads interleave freely: that covers every priority. `AtClient` has
the priorities, because its correctness depends on them. `NetManager`, `NbEvents` and
`Home` go from one blocking point, or one preemption that matters, to the next.

### RtMailbox

`msg_pool`, `entry`, `in_offset`, `out_offset` are the fields of
`struct rt_mailbox`; `suspend_thread` and `suspend_sender_thread` its two lists.
For each thread the model keeps the call it is in and the local state that call
has across a suspension. A call that does not block is one action. A call that
blocks is `rt_mb_send_wait` (or `rt_mb_recv`), which puts the caller on a list,
and `ContinueSend` (`ContinueRecv`), one turn of the `while` loop after
`rt_schedule` returns. `rt_thread_timeout`, `rt_thread_resume` and
`rt_thread_suspend` are actions of others on a thread; the firmware really does
the last two (`net_entry` on `data_th`). The remaining time of a timeout is
`"zero"`, `"positive"` or `"forever"`, the only values the code tells apart.
`got` records the mail handed out last, for the refinement only.

`ImplementsFifo` maps the ring to the sequence of its mails, oldest first; every
action of the mailbox is then `Put`, `Get`, `Clear` or no step of `BoundedFifo`.

### NetManager

`net_pc` and `du_pc` say where the two threads stand; `du_stat` is the state of
the thread as `rt_thread_suspend` and `rt_thread_resume` see it. One action of
`net_entry` reaches from one blocking point to the next; a group of AT commands
whose results do not matter is one command. `data_up_entry` is cut finer,
because `net_th` preempts it: `rt_thread_suspend` may find it before, on, or
after the AT lock, and waiting for an answer. The module is external and may
answer or report anything a state allows; `link` keeps it from reporting what it
cannot (an opening nobody asked for).

`lock` and `lock_list` are the owner and the waiting threads of `nb_client->lock`,
which three threads use: `net_entry`, `data_up_entry`, and `qsdk_th`, which calls
`qsdk_nb_quick_connect` itself when the server asks for a new connection
(`nb_callback.c:244`, `ReconnectAsked`). A command is `Take`, then `Answered` (or
`QsdkAnswered`, `DuAnswered`), which hands the lock to the first thread of the list;
while `qsdk_th` is in its commands it handles no report. Two consequences of the third
user are kept in history variables:

- `unqueued`: `rt_thread_resume` (`main.c:195` and `:245`) takes a thread off any list.
  A `data_up` that waits in `rt_mutex_take` then returns from it with `RT_EOK`, does not
  own the lock, and sends its command all the same; its `rt_mutex_release` is refused.
- `overtook`: `data_up` has the lock and the priority of a waiting `qsdk_th` (`DuAhead`).
  It runs although `net_entry` was woken, and may sleep again, waiting for the answer to
  its command, when `net_entry` comes to suspend it.

Left out: the power saving mode, which `main.c:144` switches off; a failing
`rt_malloc`; and what happens after `nb_resp` was freed (`AtClient` shows that).

### AtClient

A caller goes through `take`, `attach`, `write`, `take_notice`, `wait`, then
`woken` or `late`. The parser goes through `line`, `copy`, `notify`. Only the most
urgent ready thread moves (`Runs`), with the priority the owner of the lock
inherits, so a preemption happens exactly where the priorities allow it. An
answer carries the caller whose last command it belongs to; when a command is
written, every answer still on its way becomes `"old"`.

`at_client_obj_wait_connect` has a response object of its own: `own` are the callers
whose object exists. It is deleted (`Delete`, line 397) before it is detached (`Detach`,
399). `parser_resp` is the parser's local copy of `client->resp` (line 730): the shared
`nb_resp`, an `own` object, or one whose call has `returned` or that was `freed`.
`RespIsOwners` is about `client->resp`; the copy is not always in time, see
`ParserInTime` below.

An answer stands for all its lines: which line ends it, and a response that does
not fit the buffer, are left out. After an object was freed the model goes on as
if nobody else had got the memory. Every caller here owns the lock while it is
inside; the `data_up` that `NetManager` calls `unqueued` does not, and what it does to
`client->resp` of the owner is not modelled.

### RtMessageQueue

`next` and `content` are the blocks of the pool; `msg_queue_head`, `msg_queue_tail`,
`msg_queue_free` and `entry` the fields of `struct rt_messagequeue`. A send is
`Reserve` (a block leaves the free list), the copy, and `Link`; a receive is
`Unlink`, the copy, and `Free`. Between the two halves the block is in `block[t]`
and others use the queue. `content` is written in the second half of a send; the
receiver's copy is checked against it at its end (`CopyIntact`). `ImplementsBuffer`
maps the linked blocks to the sequence of their messages.

### RtMutex

The fields of `struct rt_mutex` for every mutex, `current_priority` of every thread,
and `timed`, the threads whose timer runs. `nest` is what the callers know of their
own mutexes. Two rules of the callers are built in: release in the reverse order
of taking, and a fixed order of taking (without it threads lock each other out,
which no mutex prevents). A timeout leaves the priority the owner inherited as it
is, as in the code. `unwound` marks threads that have released an inner mutex and
still hold an outer one: these may have lost what they inherited meanwhile.
`raised` marks threads that became more urgent while they waited: `rt_mutex_take`
raises the owner of the mutex it waits for and nobody beyond (`ipc.c:722`), so the
owner they wait for stays as it was. `Inherits` compares the current priorities and
excludes both. These are properties of the code, not of the model.

### RtEvent and NbEvents

`set`, `event_set`, `event_info` are the fields of the code, with sets for bit
masks. `Visit` is one turn of the loop of `rt_event_send`, on the flags, the
`event_set` of every thread and the list that the turns before have left; `Visits` are
all turns, as a recursive function of their number.
`NbEvents` has three kinds of waiters on one object: `qsdk_psm` (OR, for ever),
`qsdk_nb_enter_psm` (AND, for ever), `qsdk_nb_ping_ip` (OR, a minute). `hold` counts
how often `qsdk_psm` holds the recursive AT lock; a command of another thread is one
step at a moment when the lock is free. `nb_mail` has the results themselves where
the code has pointers; a full mailbox loses one.

### RtTimer

`rt_timer_start` is four stretches: removal, the computation of `timeout_tick`, the
insertion, and the resumption of the timer thread; `rt_timer_stop` is three.
`rt_tick_increase` advances the tick and sets `checking`; while it is set only the loop
of `rt_timer_check` runs, one turn (`CheckCall`) for each timer it calls, each inserted
again by its new timeout before the next turn looks at the front, until `CheckEnd`. In
the same way `rt_soft_timer_check` is `SoftEnter`, turns of `SoftCall`, and `SoftEnd`, but
ticks come between its turns. `due` is
a ghost: the ticks that are really left, unbounded and signed, against which the
comparisons modulo `RT_TICK_MAX + 1` are checked. The build has one row in its skip
list, so a list is a sequence. `Restarts` are the timers whose function starts them
again. Timers are used by threads below the timer thread, as in the firmware.
`SoftCall` is one action from the removal of a timer to its new start: interrupts may
come in between, and of what the stretches use they change only the tick.

### RtMem

A block is its offset; `next` and `prev` are the fields of `struct heap_mem`, `used` the
set of blocks in use. `asked` is a ghost: what the owner of a block asked for.
`InUse` are the units from each block in use to the block behind it: `used_mem` is
checked against their number (`StatsExact`).
`rt_malloc` and `rt_free` are one action each, because they hold `heap_sem`. A move by
`rt_realloc` is two: the allocation and the final `rt_free`, with others in between.

### Home

A command of the server is one action up to its delay, because `qsdk_th` is more
urgent than the threads of the devices; each of these is cut between any two
writes to shared variables. Time passes in seconds, and only when nobody is ready
(`Idle`): code takes no time against delays of seconds. `open_for` and `high` are
ghosts. A reading is its comparison with a threshold, for the gas sensor the
voltage cut to 8 bits. Messages of the camera are counted, in a queue that may be
full.

## Runs

| run | states | shows |
|---|---|---|
| `mailbox` | 1.3 M | ring, lists, nobody asleep beside a mail or a slot, refinement of `BoundedFifo` |
| `mq` | 126 k | blocks conserved, copies intact, no lost wake-up, refinement of `BoundedFifo` with urgent messages |
| `mutex` | 45 k | one holder, a waiter in one place, priorities given back; the owner is as urgent as its waiters, but for the two exceptions above |
| `nb_event` | 4.0 M | no lost event, no flag taken twice, the AT client locked while the driver says the module sleeps |
| `timer` | 4.2 M | lists in the order of the real timeouts, nothing early, no hard timer late, the timer thread does not oversleep |
| `heap` | 162 k | blocks tile the heap, holes joined, allocations intact, nothing leaks, statistics exact |
| `at` | 99 k | one caller inside, `client->resp` is its object or nothing, and exists until the caller is about to detach it, at most one stale count between commands, nobody sleeps on a count; a caller that waits for the lock gets it and its command ends |
| `net` | 863 k | `data_up` started once, never abandoned, stands still during the repair of a failed publication unless it `overtook`; nobody waits for a free AT lock, and only an `unqueued` `data_up` is past it without owning it; every suspension of `data_up` ends, unless it owned the AT lock |
| `home` | 151 k | the door closes in time and is reported right; the alarm is shown |

Three more runs expect a violation. Each states what a comment or a message of
the code says, and TLC's trace shows how the code departs from it:

| run | trace |
|---|---|
| `net_deadlock` | `data_up` has its answer and still owns the lock when a reboot is handled: it is suspended, and `net_entry` waits for its lock |
| `timer_suspend` | a soft timer is due at tick `RT_TICK_MAX`, which the timer thread takes for "no timer": it suspends itself without a timeout |
| `home_lamp` | the sensor thread has switched the lamp off; before it writes `ledflag` a command switches the lamp on and selects manual mode; `ledflag` then says off for good |

### Other statements the code does not keep

The modules hold more statements of comments and headers that TLC refutes. They
are in no configuration; put one in place of the properties of the named one to
see its trace.

| statement | configuration | trace |
|---|---|---|
| `NetManager!DataUpSuspendedFirst` (`main.c:204`) | `MCNetManager` | a reboot is handled while `data_up` is in a delay, in `rt_mb_recv` or waits for an answer: `rt_thread_suspend` fails and its result is ignored |
| `NetManager!AtOwned` (`at_client.c:300`) | `MCNetManager` | a reboot is handled while `data_up` sleeps, so that the suspension fails and `data_up` goes on during the repair; it waits in `rt_mutex_take` for a command of `qsdk_th` when `net_entry` resumes it (`main.c:195`): it is taken off the list and sends its command without the lock |
| `NetManager!RebootNotIgnored` (`main.c:235`) | `MCNetManager` | a publication fails and the module reboots before `net_entry` looks: both flags are cleared, neither branch is taken |
| `NetManager!OpenIsTrue` (`nb_mqtt.c:150`) | `MCNetManager` | the link is lost silently, a publication fails, `AT+MQTTOPEN` is accepted, and the old `connect_status` ends the polling |
| `NetManager!SubscribesToATopic` (`nb_mqtt.c:204`) | `MCNetManager` | one reconnection more than the table has entries |
| `AtClient!SuccessMeansAnswered` (`at_client.c:273`) | `MCAtClient` | a command times out, its answer is taken for the next command's |
| `AtClient!ParserInTime` (`at_client.c:730`) | `MCAtClient` | the parser has taken `client->resp` for a line; `qsdk_th`, more urgent, times out and returns before the copy. Or: a less urgent caller is preempted by the parser between `at_delete_resp` (397) and the detaching (399), and the parser takes the freed object |
| `AtClient!NbRespFreedOnce` (`mem.c:587`) | `MCAtClient` | two failed connection checks |
| `NbEvents!AtFreeAfterPsm` (`rb_nb.c:1003`) | `MCNbEvents` | the module reports its sleep twice without a wake-up between: the recursive lock is taken twice and given back once |
| `RtMutex!InheritsTransitively` (`ipc.c:721`) | `MCRtMutex` | `l2` owns mutex 1 and waits for mutex 2 of `l1`; `m` waits for mutex 1: `l2` is raised and `l1`, which both need, is not, so a thread between them delays `m` |
| `RtMem!LfreeIsLowest` (`mem.c:131`) | `MCRtMem` | `rt_realloc` shrinks a block below `lfree` and does not move it: the hole is not found until a lower block is freed |

### Bounds

- Three threads on a mailbox, or a queue, of two slots: a woken thread, one that
  overtakes it and one that still sleeps, with room for both offsets to wrap and
  for both blocks to be copied at once. Two mails tell order and identity apart.
  The lists of the mailbox are ordered by priority with two equal priorities,
  those of the queue first-in first-out, as `rx_mq` has them.
- Four threads of three priorities and two mutexes: an owner boosted before and
  after it takes the second mutex, three waiters in one list. `MaxHold` 2 is one
  recursion.
- `TickMax` is 8 (`0xFFFFFFFF` in the code): timers of 1 or 2 ticks and a delay of
  one tick stay below half of it, and the tick wraps in every long run. One
  hard and two soft timers besides that of the timer thread: the hard one and the
  timer thread's may be due in one interrupt, and the first is started again there.
  `MaxDelay` bounds how long a start may be preempted and how late the timer thread may run; beyond
  half of `TickMax` no comparison of ticks is right. One call in progress at a time:
  a second one would work on another timer, and the stretches of two calls do
  not share anything but the lists, which each changes in one stretch.
- A heap of 13 units with headers of one: room for four blocks, some too small
  to be cut, and requests below the smallest size.
- Two users of the driver, one mail, one ping: a late answer, a flag for two
  waiters, a mailbox that is full. `HoldMax` 2 is a double entry.
- `Polls` is 50 in the code. The loop has two cases, a turn that is not the last
  and the last one; 2 has both.
- `MailMax` of `NetManager` (4 in the code) is 1: `data_up` tells only an empty box
  from one that is not, and the mailbox has its own model. `TopicMax` (20) is 1:
  below and at the limit.
- The users of the AT lock in `NetManager` are the three of the firmware, and its list
  is first-in first-out, as `at_client.c` creates it.
- `Attempts` (7 in the code) is 2, for a retry and the last one. `AnswersMax` is 1
  answer on its way besides the one the parser holds: one is enough to be late.
  One caller is above the parser and one below; more waiters for a mutex are in
  the run `mutex`.
- Delays of 2 and 3 seconds for the door (5 and 6 in the code) overlap in every
  way; counters that wrap at 4 with an alarm at 2 (200 and 5) wrap while the
  alarm is on. 2.6 V does not fit into the 8 bits of `ppm`.

### Fairness

- NetManager, run `net`: weak fairness of what `net_entry` does between its commands (the
  scheduler, and timers that expire), of the end of a command of `qsdk_th`, and
  strong fairness of the end of a call of `net_entry` (a call sends finitely many
  commands, and other threads use the lock between them) and of registration: a module
  that is asked again and again registers at some time. Without the last the loop at
  `net_recon` need not end. Nothing is assumed of `data_up` or of the other reports.
  The run `net_deadlock` adds weak fairness of `data_up`, so that its counterexample
  is not a `data_up` that simply stops. Deadlock is not checked in these two: the firmware
  really may stop, when all three threads wait for the lock of a suspended `data_up`.
- AtClient: strong fairness of each caller and of the parser (a ready thread gets
  the processor when the more urgent ones block) and weak fairness of timers. The
  modem need not answer.
- `RtMailbox!FairSpec` (a ready thread inside a call runs some time, and who
  suspends a thread resumes it) makes `MailIsTaken` true (TLC, three threads on one
  slot, first-in first-out lists; not among the runs); that a
  mail is not slept on is the safety property `NobodySleepsInVain` of the run.

## Proofs

The theorems hold for every value of the constants that the named assumptions
allow (`SizeAssumption`, `PriorityAssumption`, ...).

- `RtIpcListProofs`: `ListSuspend` inserts one thread and keeps the order,
  `ListRemove` takes out exactly one, `RestOf` the head; one more or one less in a
  finite set counts so. These are the lemmas that the mailbox, the queue, the mutex,
  the event, the timers and the AT client rest on.
- `RtMailboxProofs`: `Inv` is the conjunction of the invariants of the run
  `mailbox`. None but the type invariant and the ring is inductive alone: that a
  wake-up is not lost (`NobodySleepsInVain`) needs that the head of the list is a
  waiting thread, once (`WaitersCorrect`), so that waking it adds one woken thread.
  From `Invariance` follow `TypeCorrect`, `RingCorrect`, `NoLostWakeup` and
  `ListsCorrect`. `Refinement` shows that the mapped initial state is that of
  `BoundedFifo` and that each action maps to one of its actions or to a stuttering
  step; it uses that the offsets and the counter agree (`RingConsistent`).
- `ApplicationProofs`, supervision: `Inv` adds to the invariants of the run `net` where
  `data_up` may stand for each place of `net_entry` and each value of
  `recon_count`: a send error that is being handled comes from a
  `data_up` that is ready and outside any wait, which is why suspending it
  works (`DataUpState`). The lock needs three more parts: `ListState` (each waiting thread
  once, never the owner, never for a free lock), `NetLock` (`net_entry` has or wants the
  lock only inside a call) and `DuLock` (`data_up` is on the list exactly when it waits in
  `rt_mutex_take`, and past it only as the owner or `unqueued`). That a `data_up` without
  the lock never runs beside a ready `net_entry`, which `DataUpState` needs, follows from
  `DuLock`. The lemmas `TakeList`, `ReleaseList` and `ResumeList` say what the calls of the
  kernel do to the set of waiting threads. From `Invariance` follow `TypeCorrect`, `StartupOnce`, `NobodyIsForgotten`,
  `RepairAlone` and `Exclusive`.
- `ApplicationProofs`, house: the door is not open for too long because whoever found it closed
  has a delay that began no later (`Opener`); a second opener does not prolong it,
  as the first one's end closes it. `Reported` adds the moment between the two
  writes of the closing camera, and `Counted` that the counter of the alarm is the
  length of the row of high readings until the alarm is on. From these follow
  `DoorIsClosed`, `DoorIsReported` and `AlarmIsShown` for all delays and thresholds.

- `RtMessageQueueProofs`: `BlocksConserved` is not inductive. It says that every free
  block is reached from at most one other and none leads back to the first, but
  not that they are all reached: a circle of free blocks beside the list would
  satisfy it. `Inv` therefore says that there are two functions `q` and `f`, the
  queue and the free list, whose blocks the links lead through to their ends
  (`Linked`, `Lists`); each stretch of a call maps them to `Popped`, `Pushed`,
  `Appended` or, for the reset, `Reversed` ones. `Calls` adds what a thread's place
  tells of its block and its message, and that the lists hold each waiter once.
  The two halves of `NoLostWakeup` are stated for the length of the free list. The
  recursive function `Queue` is `q` (`QueueIs`, by the least position where they could
  differ), which gives `BlocksAlwaysConserved`, `CopyAlwaysIntact`, `WakeupNeverLost`.
  `Refinement` maps `Link` to `Put`, `LinkUrgent` to `PutUrgent`, `Unlink` to `Get`, the
  reset to `Clear` and all else to a stuttering step. That there is room for `Put`
  is not tested by the code at that point: it follows because the block in hand is
  in neither list (`RoomForOne`).
- `RtMutexProofs`: `Inv` adds three facts. `Nested`: a thread asks for mutexes in
  increasing order, so the one handed to it is its innermost. `Restorable`: the
  priority saved in a mutex is never worse than the owner's own, and that of the
  outermost one is its own, which is why `PriorityRestored` holds when the last is
  given back. `Urgency`: a list is sorted when a thread enters, and threads on it
  only become more urgent, and are then `raised`; so the head that gets the mutex is at
  least as urgent as all behind it that are not `raised`. `Inherits` needs this at the
  hand-over, where the code does not compare the new owner with the other waiters. From these follow
  `MutexAlwaysConsistent`, `AlwaysWaitsOnce`, `PriorityAlwaysRestored`, `AlwaysInherits`.
- `RtMemProofs`: `ChainConsistent` is not inductive for `plug_holes`, which follows
  `prev` of any block: `Chain` says of `prev` what `ChainConsistent` says of `next`.
  `SplitChain`, `JoinChain` and `PlugHoles` show what cutting, joining and freeing do
  to a chain; `CountStretch` counts the units between two blocks, for the
  statistics. `NothingLost` needs that `lfree` is 0 when nothing is in use; that the
  heap is one block then follows from `HolesJoined`. From `Invariance` follow
  `ChainAlwaysConsistent`, `HolesAlwaysJoined`, `AllocationsAlwaysIntact`,
  `StatsAlwaysExact` and `NothingEverLost`.
- `DriverProofs`, AT client: `NoticeBounded` needs the counts that may still come:
  `PendingBounded` adds one for a response object the parser may yet complete, and
  allows two only while a command stands between attaching its object and taking
  off the old count. `LockHeld` relates the owner and the list to the place of each
  caller, and `OwnExists` the response object of a connection check to its. From these
  follow `LockAlwaysConsistent`, `RespAlwaysOwners`,
  `NoticeAlwaysBounded` and `NoticeNeverLost`, for all priorities.

- `DriverProofs`, events: what `rt_event_send` does to a list of any length follows from
  what holds after each turn of its loop (`LoopInv`): the threads it has passed are not
  satisfied by the flags that are left, those it has resumed have taken disjoint sets
  if they clear, and none of these flags is left. `TurnsExist` shows that the recursive
  function `Visits` has a value at every turn and `LoopKeeps` that `LoopInv` holds there,
  both by the least turn at which they could fail; `SendProperties` is the result.
  `EventsInv` adds that only waiting threads are in the list, so that nobody enters it
  twice, and `LockInv`: `AtLockedInPsm` is not inductive, because it says nothing of the
  places of `qsdk_psm` between two waits. The lock is still held when it looks at its
  flags, and after a reboot it no longer says that the module sleeps. From
  `EventsInvariance` follow `EventNeverLost`, `AlwaysLockedInPsm` and the action property
  `FlagAlwaysTakenOnce`.
- `RtTimerProofs`: the lists are compared with `due`, which is unbounded, so the proof
  has to relate it to the tick modulo `TickMax + 1`. `TimerInv` says that every listed
  timer is due no further than half of the range ahead and no more than `MaxDelay`
  behind (`ListsInv`, `StartInv`, `SettingsInv`): then a comparison of ticks is one of
  `due`, and `Insert` keeps the order. `FlagInv` follows the flag through the stretches of
  a start and a stop. `ThreadInv` relates `next_timeout` and the timer of the timer
  thread to the front of the soft list at each place of that thread, and `StaleInv`
  the tick that `rt_soft_timer_check` has read to the real one: it may be behind, never
  ahead, so that a stale tick makes nothing early. From these follow
  `TimersStayOrdered`, `ThreadSleepsNotTooLong`, `FlagIsListed` and the action property
  `TimersAreCalledOnTime`, for every number of timers, every width of the tick and all
  periods that with `MaxDelay` stay below half of it, as the comment at `timer.c:512`
  supposes.

Assumptions on constants are those of the modules: finite sets of threads where a
proof counts them, sizes above 0, priorities that are natural numbers (below 255 for
mutexes), values such as `NoMessage` outside the sets they are added to, periods below
half of the range of the tick. Where a module of proofs is about two models, no proof
about one uses an assumption of the other.

Every invariant and every action property of the passing runs is proved, and both
refinements. Only model-checked is liveness (`RecoveryEnds`, `CommandEnds`), which needs
fairness and `ENABLED`.

## Not modelled

The repository has about 950 000 lines of C, of which the firmware's own code and the
kernel are some 16 000. The rest is CMSIS and the STM32 HAL (register access,
register definitions), the drivers, file systems (with code page tables), socket
layers and shells of RT-Thread, most of which the build leaves out, and
third-party packages. They have no protocol between threads that the firmware
uses, or are data; a model of them would say nothing about this program. For this
reason the models cover a small share of all lines and most of the stateful part
of the kernel and the application.

Of the modelled parts these operations are left out: `detach` and `delete` of the
IPC objects and timers (the firmware never calls them; threads that wait are
resumed with an error, as by a reset), `rt_event_control`, the ready table of the
scheduler, the retry loops inside `qsdk_nb_quick_connect`, and the parsing of reports
and JSON.

## Plan

1. Done: the modules above, with proofs of all their safety properties.
2. `NbUrc`: the parser, `nb_mail` and `qsdk_th`, with the line buffer that is
   reused; `Readings`: one buffer for all readings and at-least-once delivery.
3. `Menu`: the keys and the 8-bit thresholds.
4. `QuickConnect`: the retry loops and the clock conversion as functions, checked
   against reference definitions.
