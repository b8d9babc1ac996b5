----------------------------- MODULE NetManager -----------------------------
(***************************************************************************)
(* How the firmware keeps its MQTT link alive (applications/main.c with    *)
(* nb_devise/rb_nb.c and nb_mqtt.c).  net_entry connects, starts           *)
(* data_up_entry, then waits for an error event; it suspends data_up,      *)
(* repairs the link and resumes data_up.  The events come from data_up (a  *)
(* publication failed) and from qsdk_th (the module rebooted).  All three  *)
(* send AT commands under nb_client->lock: qsdk_th when the server asks    *)
(* for a new connection (nb_devise/nb_callback.c).                         *)
(*                                                                         *)
(* One core with preemptive priorities: qsdk_th (7) over net_th (10) over  *)
(* data_th (12).  An action of net_th runs from one blocking point to the  *)
(* next, and data_up moves only while net_th is blocked, or with the lock  *)
(* and the priority of a waiting qsdk_th; the actions of data_up are cut   *)
(* where net_th can preempt it with another outcome.  The module is        *)
(* external: every answer it may give is a choice.  The power saving mode  *)
(* stays off, as set_psm_mode(0) leaves it.                                *)
(***************************************************************************)
EXTENDS RtIpcList

CONSTANTS
    Polls,       \* turns of a polling loop: count = 50 in the code
    MailMax,     \* slots of Send_data_mailbox: 4
    TopicMax     \* MQTT_TOPIC_MAX: 20

\* The users of nb_client->lock.
Users == {"net", "data_up", "qsdk"}

ASSUME UsersAssumption == Threads = Users
ASSUME PollsAssumption == Polls \in Nat \ {0}
ASSUME MailMaxAssumption == MailMax \in Nat \ {0}
ASSUME TopicMaxAssumption == TopicMax \in Nat \ {0}

VARIABLES
    net_pc,          \* where net_entry stands
    recon_count,
    event_status,    \* the flags it was woken with, until it has branched on them
    nb_test,         \* its topic, until it has subscribed: FALSE stands for RT_NULL
    net_count,       \* count of the polling loop it is in
    du_pc, du_stat,  \* where data_up_entry stands, and its thread->stat
    du_count,        \* count of the polling loop it is in
    at_ok,           \* how its command ends: resp_status is AT_RESP_OK
    lock, lock_list, \* nb_client->lock: its owner and the threads that wait for it
    qsdk_pc,         \* where qsdk_th stands: "mail" (it waits for nb_mail) or "quick"
    unqueued,        \* history: a resume took data_up out of rt_mutex_take
    overtook,        \* history: data_up wrote its command while net_entry was ready
    net_error,       \* pending flags of the event net_error
    nb_event,        \* EVENT_REBOOT is pending in nb_event
    net_connect_ok, reboot_open,             \* of nb_device_table
    connect_status, puback_status,           \* of mqtt_device
    topics,          \* used entries of mqtt_stream_table
    mails,           \* entries of Send_data_mailbox
    link             \* the link as the module has it: "closed", "asked" or "open"

net == <<net_pc, recon_count, event_status, nb_test, net_count>>
data_up == <<du_pc, du_stat, du_count, at_ok>>
at_lock == <<lock, lock_list>>
history == <<unqueued, overtook>>
nb_device_table == <<net_connect_ok, reboot_open>>
mqtt_device == <<connect_status, puback_status>>
others == <<qsdk_pc, net_error, nb_event, topics, mails, link>>
vars == <<net, data_up, at_lock, history, nb_device_table, mqtt_device, others>>

Flags == {"SEND_ERROR", "NB_REBOOT"}

\* Where net_entry is inside a call that sends AT commands.
AtCalls == {"quick", "time", "config", "open", "sub", "wait_connect", "quick2", "time2",
            "stat", "open2", "close", "reboot_connect"}

\* Where net_entry sleeps: a delay, a polling loop or an event.
Sleeps == {"mqtt_recon", "open_poll", "open2_poll", "close_poll", "reboot_delay",
           "reboot_wait", "start", "event"}

\* Where net_entry is ready to run, and so keeps data_up from running.
Ready == {"loop", "woken", "resume"}

\* net_connect_ok after AT+CEREG?: 1 stands for every value that is not 0, be the
\* module registered (1 and 5) or not.
Registration == {0, 1}

Init ==
    /\ net_pc = "quick" /\ recon_count = 0 /\ event_status = {}
    /\ nb_test = FALSE /\ net_count = 0
    /\ du_pc = "loop" /\ du_stat = "init" /\ du_count = 0 /\ at_ok = TRUE
    /\ lock = "free" /\ lock_list = <<>> /\ qsdk_pc = "mail"
    /\ unqueued = FALSE /\ overtook = FALSE /\ net_error = {} /\ nb_event = FALSE
    /\ net_connect_ok = 0 /\ reboot_open = FALSE
    /\ connect_status = 0 /\ puback_status = 0
    /\ topics = 0 /\ mails = 0 /\ link = "closed"

-----------------------------------------------------------------------------
(* The kernel calls net_entry and data_up_entry make *)

\* rt_thread_suspend(data_up): fails unless the thread is ready.
Suspended(stat) == IF stat = "ready" THEN "stopped" ELSE stat

\* rt_thread_resume(data_up): takes the thread off whatever it waits for, also
\* off the list of the lock.
ResumeThread ==
    /\ du_stat' = IF du_stat \in {"blocked", "stopped"} THEN "ready" ELSE du_stat
    /\ lock_list' = ListRemove(lock_list, "data_up")
    /\ unqueued' = (unqueued \/ "data_up" \in ToSet(lock_list))
    /\ UNCHANGED <<du_pc, du_count, at_ok, lock>>

\* rt_event_send(net_error, flag): net_entry, if it waits, gets the flags.
EventSend(flag) ==
    IF net_pc = "event"
    THEN /\ net_pc' = "woken"
         /\ event_status' = net_error \cup {flag}
         /\ net_error' = {}
         /\ UNCHANGED <<recon_count, nb_test, net_count>>
    ELSE /\ net_error' = net_error \cup {flag}
         /\ UNCHANGED net

\* init_priority of the users of the lock.
Priority == [net |-> 10, data_up |-> 12, qsdk |-> 7]

\* rt_mutex_take by a thread that does not own the lock, which is then its own
\* or, in the order of asking (RT_IPC_FLAG_FIFO), will be.
Take(thread) ==
    \/ /\ lock = "free" /\ lock' = thread /\ UNCHANGED lock_list
    \/ /\ lock # "free" /\ UNCHANGED lock
       /\ lock_list' = ListSuspend(lock_list, thread, Priority)

\* Mutant: the lock is freed under the eyes of the thread that waits for it.
ReleaseToNobody ==
    /\ lock' = "free"
    /\ UNCHANGED lock_list

\* rt_mutex_release by its owner: the first waiting thread becomes the owner.
Release ==
    /\ lock' = IF lock_list = <<>> THEN "free" ELSE Head(lock_list)
    /\ lock_list' = RestOf(lock_list)

\* The same by another thread than data_up, which is resumed if it is the one.
ReleaseByOther ==
    /\ Release
    /\ du_stat' = IF lock' = "data_up" THEN "ready" ELSE du_stat
    /\ UNCHANGED <<du_pc, du_count, at_ok>>

\* data_up has inherited the priority of qsdk_th, and is ready.
DuAhead == lock = "data_up" /\ "qsdk" \in ToSet(lock_list) /\ du_stat = "ready"

-----------------------------------------------------------------------------
(* net_entry *)

\* A call of net_entry takes the lock to send a command, or waits for it.
NetTake ==
    /\ net_pc \in AtCalls /\ lock # "net" /\ "net" \notin ToSet(lock_list) /\ ~DuAhead
    /\ Take("net")
    /\ UNCHANGED <<net, data_up, history, nb_device_table, mqtt_device, others>>

\* A command of the call at pc is answered, or times out.
Answered(pc) ==
    /\ net_pc = pc /\ lock = "net"
    /\ ReleaseByOther
    /\ UNCHANGED <<history, mqtt_device, qsdk_pc, net_error, nb_event, topics, mails>>

\* The call goes on with another command.
NetNext ==
    /\ \E pc \in {"quick", "quick2", "time", "config", "sub"} : Answered(pc)
    /\ UNCHANGED <<net, nb_device_table, link>>

Goto(pc) == net_pc' = pc

Locals == <<recon_count, event_status, nb_test, net_count>>

\* qsdk_nb_reboot, up to its wait for EVENT_REBOOT.
StartReboot ==
    /\ Goto("reboot_delay")
    /\ net_connect_ok' = 0 /\ reboot_open' = TRUE

\* qsdk_nb_quick_connect returns an error; it may have read CEREG before.
QuickFails ==
    /\ Answered("quick")
    /\ net_connect_ok' \in Registration
    /\ Goto("quick")
    /\ UNCHANGED <<Locals, reboot_open, link>>

\* qsdk_nb_quick_connect is registered; it then waits and asks for the time.
QuickRegisters ==
    /\ \/ Answered("quick") /\ Goto("time")
       \/ Answered("quick2") /\ Goto("time2")
    /\ net_connect_ok' = 1
    /\ UNCHANGED <<Locals, reboot_open, link>>

\* qsdk_nb_quick_connect returns at net_recon, and set_psm_mode(0) as well.
QuickReturns ==
    /\ Answered("time") /\ Goto("mqtt_recon")
    /\ UNCHANGED <<Locals, nb_device_table, link>>

\* net_entry runs at pc: nothing above it is ready.
NetRunsAt(pc) == net_pc = pc /\ ~DuAhead

\* Mutant: qsdk_mqtt_topic_init looks one entry too far.
MqttReconTooFar ==
    /\ NetRunsAt("mqtt_recon") /\ Goto("config")
    /\ nb_test' = (topics <= TopicMax)
    /\ topics' = IF topics <= TopicMax THEN topics + 1 ELSE topics
    /\ connect_status' = 0 /\ puback_status' = 0
    /\ UNCHANGED <<recon_count, event_status, net_count, data_up, at_lock, history,
                   nb_device_table, qsdk_pc, net_error, nb_event, mails, link>>

\* mqtt_recon: qsdk_mqtt_topic_init takes an entry of the table and
\* qsdk_mqtt_config forgets what it knew of the link.
MqttRecon ==
    /\ NetRunsAt("mqtt_recon") /\ Goto("config")
    /\ nb_test' = (topics < TopicMax)
    /\ topics' = IF topics < TopicMax THEN topics + 1 ELSE topics
    /\ connect_status' = 0 /\ puback_status' = 0
    /\ UNCHANGED <<recon_count, event_status, net_count, data_up, at_lock, history,
                   nb_device_table, qsdk_pc, net_error, nb_event, mails, link>>

\* AT+MQTTCFG, AT+MQTTPING and AT+MQTTTO: failures are only logged.
ConfigReturns ==
    /\ Answered("config") /\ Goto("open")
    /\ UNCHANGED <<Locals, nb_device_table, link>>

\* AT+MQTTOPEN is accepted: qsdk_mqtt_open polls connect_status.
OpenAccepted ==
    /\ \/ Answered("open") /\ Goto("open_poll")
       \/ Answered("open2") /\ Goto("open2_poll")
    /\ net_count' = Polls - 1
    /\ link' = "asked"
    /\ UNCHANGED <<recon_count, event_status, nb_test, nb_device_table>>

\* AT+MQTTOPEN is refused: logged at mqtt_recon, a new start in the recovery.
OpenRefused ==
    /\ \/ Answered("open") /\ Goto("sub")
       \/ Answered("open2") /\ Goto("close")
    /\ UNCHANGED <<Locals, nb_device_table, link>>

\* qsdk_mqtt_open looks at connect_status after a delay.
OpenPoll ==
    /\ NetRunsAt("open_poll") \/ NetRunsAt("open2_poll")
    /\ \/ /\ net_count > 0 /\ connect_status = 0
          /\ net_count' = net_count - 1 /\ UNCHANGED net_pc
       \/ /\ \/ net_pc = "open_poll" /\ (net_count = 0 \/ connect_status # 0) /\ Goto("sub")
             \/ net_pc = "open2_poll" /\ net_count > 0 /\ connect_status # 0 /\ Goto("resume")
             \/ net_pc = "open2_poll" /\ net_count = 0 /\ Goto("close")
          /\ net_count' = 0
    /\ UNCHANGED <<recon_count, event_status, nb_test, data_up, at_lock, history,
                   nb_device_table, mqtt_device, others>>

\* qsdk_mqtt_unsub and qsdk_mqtt_sub return.
SubReturns ==
    /\ Answered("sub") /\ Goto("start") /\ nb_test' = FALSE
    /\ UNCHANGED <<recon_count, event_status, net_count, nb_device_table, link>>

\* The first connection starts data_up, a later one resumes it.
StartDataUp ==
    /\ NetRunsAt("start") /\ Goto("loop")
    /\ IF recon_count = 0
       THEN /\ du_stat' = "ready"
            /\ UNCHANGED <<recon_count, du_pc, du_count, at_ok, at_lock, unqueued>>
       ELSE ResumeThread /\ recon_count' = 0
    /\ overtook' = FALSE
    /\ UNCHANGED <<event_status, nb_test, net_count, nb_device_table, mqtt_device, others>>

\* rt_event_recv(net_error), with FLAG_OR and FLAG_CLEAR, waiting for ever.
EventRecv ==
    /\ NetRunsAt("loop")
    /\ \/ /\ net_error = {} /\ Goto("event")
          /\ UNCHANGED <<event_status, net_error>>
       \/ /\ net_error # {} /\ Goto("woken")
          /\ event_status' = net_error /\ net_error' = {}
    /\ UNCHANGED <<recon_count, nb_test, net_count, data_up, at_lock, history, nb_device_table,
                   mqtt_device, qsdk_pc, nb_event, topics, mails, link>>

\* Mutant: data_up is not suspended before the repair.
HandleSendErrorRuns ==
    /\ NetRunsAt("woken") /\ event_status = {"SEND_ERROR"}
    /\ Goto("wait_connect") /\ event_status' = {}
    /\ UNCHANGED <<recon_count, nb_test, net_count, data_up, at_lock, history, nb_device_table, mqtt_device, others>>

\* A publication failed: suspend data_up and check the module.
HandleSendError ==
    /\ NetRunsAt("woken") /\ event_status = {"SEND_ERROR"}
    /\ Goto("wait_connect") /\ event_status' = {}
    /\ du_stat' = Suspended(du_stat)
    /\ UNCHANGED <<recon_count, nb_test, net_count, du_pc, du_count, at_ok, at_lock, history, nb_device_table,
                   mqtt_device, others>>

\* Mutant: recon_count is not set before the jump to net_recon.
HandleRebootForgets ==
    /\ NetRunsAt("woken") /\ event_status = {"NB_REBOOT"} /\ net_connect_ok = 0
    /\ Goto("quick") /\ event_status' = {}
    /\ du_stat' = Suspended(du_stat)
    /\ UNCHANGED <<recon_count, nb_test, net_count, du_pc, du_count, at_ok, at_lock, history, nb_device_table,
                   mqtt_device, others>>

\* The module rebooted and the table was cleared: start again at net_recon.
HandleReboot ==
    /\ NetRunsAt("woken") /\ event_status = {"NB_REBOOT"} /\ net_connect_ok = 0
    /\ Goto("quick") /\ event_status' = {}
    /\ recon_count' = 1
    /\ du_stat' = Suspended(du_stat)
    /\ UNCHANGED <<nb_test, net_count, du_pc, du_count, at_ok,
                   at_lock, history, nb_device_table, mqtt_device, others>>

\* Any other value of event_status, and a reboot after which the table says
\* the module is registered: nothing to do.
HandleNothing ==
    /\ NetRunsAt("woken") /\ event_status # {"SEND_ERROR"}
    /\ event_status = {"NB_REBOOT"} => net_connect_ok # 0
    /\ Goto("resume") /\ event_status' = {}
    /\ du_stat' = Suspended(du_stat)
    /\ UNCHANGED <<recon_count, nb_test, net_count, du_pc, du_count, at_ok, at_lock, history, nb_device_table,
                   mqtt_device, others>>

\* Mutant: data_up is not resumed at the end of the loop.
ResumeForgotten ==
    /\ NetRunsAt("resume") /\ Goto("loop")
    /\ UNCHANGED <<Locals, data_up, at_lock, history, nb_device_table, mqtt_device, others>>

\* The end of the loop of net_entry.
ResumeDataUp ==
    /\ NetRunsAt("resume") /\ Goto("loop")
    /\ ResumeThread /\ overtook' = FALSE
    /\ UNCHANGED <<Locals, nb_device_table, mqtt_device, others>>

\* Recovery from a failed publication: qsdk_nb_wait_connect.
WaitConnectReturns ==
    /\ Answered("wait_connect")
    /\ \/ Goto("quick2") /\ UNCHANGED <<recon_count, nb_device_table>>
       \/ recon_count' = 1 /\ StartReboot
    /\ UNCHANGED <<event_status, nb_test, net_count, link>>

\* Recovery: qsdk_nb_quick_connect fails.
QuickFailsAgain ==
    /\ Answered("quick2")
    /\ recon_count' = 1 /\ StartReboot
    /\ UNCHANGED <<event_status, nb_test, net_count, link>>

\* Recovery: qsdk_nb_quick_connect returns.
QuickReturnsAgain ==
    /\ Answered("time2") /\ Goto("stat")
    /\ UNCHANGED <<Locals, nb_device_table, link>>

\* Recovery: qsdk_mqtt_get_connect_status returns 0, or something else.
StatReturns ==
    /\ Answered("stat")
    /\ Goto("resume") \/ Goto("open2")
    /\ UNCHANGED <<Locals, nb_device_table, link>>

\* Recovery: AT+MQTTDISC is accepted, and qsdk_mqtt_close polls, or refused.
CloseAnswered ==
    /\ Answered("close")
    /\ \/ Goto("close_poll") /\ net_count' = Polls - 1 /\ UNCHANGED recon_count
       \/ Goto("mqtt_recon") /\ recon_count' = 1 /\ UNCHANGED net_count
    /\ UNCHANGED <<event_status, nb_test, nb_device_table, link>>

\* qsdk_mqtt_close looks at connect_status after a delay; its result does not
\* matter.
ClosePoll ==
    /\ NetRunsAt("close_poll")
    /\ \/ /\ net_count > 0 /\ connect_status = 1
          /\ net_count' = net_count - 1
          /\ UNCHANGED <<net_pc, recon_count>>
       \/ /\ net_count = 0 \/ connect_status # 1
          /\ Goto("mqtt_recon") /\ recon_count' = 1 /\ net_count' = 0
    /\ UNCHANGED <<event_status, nb_test, data_up, at_lock, history, nb_device_table,
                   mqtt_device, others>>

\* qsdk_nb_reboot releases the reset pin and waits for EVENT_REBOOT.
RebootPulse ==
    /\ NetRunsAt("reboot_delay") /\ Goto("reboot_wait")
    /\ UNCHANGED <<Locals, data_up, at_lock, history, nb_device_table, mqtt_device, others>>

\* EVENT_REBOOT arrives: qsdk_nb_reboot checks the connection.
RebootSeen ==
    /\ NetRunsAt("reboot_wait") /\ nb_event
    /\ Goto("reboot_connect")
    /\ nb_event' = FALSE /\ reboot_open' = FALSE
    /\ UNCHANGED <<Locals, data_up, at_lock, history, net_connect_ok, mqtt_device, qsdk_pc,
                   net_error, topics, mails, link>>

\* No EVENT_REBOOT within 20 s: back to net_recon, the result is ignored.
RebootTimeout ==
    /\ NetRunsAt("reboot_wait") /\ ~nb_event
    /\ Goto("quick")
    /\ UNCHANGED <<Locals, data_up, at_lock, history, nb_device_table, mqtt_device, others>>

\* qsdk_nb_reboot returns, and its result is ignored.
RebootReturns ==
    /\ Answered("reboot_connect") /\ Goto("quick")
    /\ UNCHANGED <<Locals, nb_device_table, link>>

NetReturns ==
    \/ QuickFails \/ QuickRegisters \/ QuickReturns \/ ConfigReturns
    \/ OpenAccepted \/ OpenRefused \/ SubReturns
    \/ WaitConnectReturns \/ QuickFailsAgain \/ QuickReturnsAgain
    \/ StatReturns \/ CloseAnswered \/ RebootReturns

\* What net_entry does between its calls, when nothing above it is ready.
NetRuns ==
    \/ MqttRecon \/ OpenPoll \/ ClosePoll
    \/ RebootPulse \/ RebootSeen \/ RebootTimeout
    \/ StartDataUp \/ EventRecv \/ ResumeDataUp
    \/ HandleSendError \/ HandleReboot \/ HandleNothing

-----------------------------------------------------------------------------
(* data_up_entry and send_data_entry *)

\* data_up runs: it is ready and nothing above it is.
DuRuns(pc) == du_pc = pc /\ du_stat = "ready" /\ (net_pc \notin Ready \/ DuAhead)

DuGoto(pc, stat) == du_pc' = pc /\ du_stat' = stat

\* The rest of the firmware, for an action of data_up that only moves it.
DuOnly == UNCHANGED <<net, at_lock, history, nb_device_table, mqtt_device, others>>

\* qsdk_mqtt_get_connect: without a link, sleep; else ask for a mail.
DuLoop ==
    /\ DuRuns("loop")
    /\ \/ connect_status = 0 /\ DuGoto("loop", "blocked")
       \/ connect_status # 0 /\ DuGoto("mb", "ready")
    /\ UNCHANGED <<du_count, at_ok>> /\ DuOnly

\* rt_mb_recv on Send_data_mailbox.
DuMail ==
    /\ DuRuns("mb")
    /\ \/ mails = 0 /\ DuGoto("mb", "blocked") /\ UNCHANGED mails
       \/ mails > 0 /\ DuGoto("pub", "ready") /\ mails' = mails - 1
    /\ UNCHANGED <<du_count, at_ok, net, at_lock, history, nb_device_table, mqtt_device,
                   qsdk_pc, net_error, nb_event, topics, link>>

\* qsdk_mqtt_pub_stream, up to the lock of at_obj_exec_cmd.
DuPublish ==
    /\ DuRuns("pub")
    /\ puback_status' = 0
    /\ Take("data_up")
    /\ IF lock = "free" THEN DuGoto("write", "ready") ELSE DuGoto("lock", "blocked")
    /\ UNCHANGED <<du_count, at_ok, net, history, nb_device_table, connect_status, others>>

\* rt_mutex_take returns to the thread that waited in it.
DuLocked ==
    /\ DuRuns("lock") /\ DuGoto("write", "ready")
    /\ UNCHANGED <<du_count, at_ok>> /\ DuOnly

\* at_obj_exec_cmd sends AT+MQTTPUB and waits for the response.
DuWrite ==
    /\ DuRuns("write") /\ DuGoto("at", "blocked")
    /\ at_ok' = TRUE
    /\ overtook' = (overtook \/ net_pc \in Ready)
    /\ UNCHANGED <<du_count, net, at_lock, unqueued, nb_device_table, mqtt_device, others>>

\* The response to AT+MQTTPUB arrives, or the wait for it times out.
DuResponse ==
    /\ du_pc = "at" /\ du_stat = "blocked"
    /\ du_stat' = "ready" /\ at_ok' \in BOOLEAN
    /\ UNCHANGED <<du_pc, du_count>> /\ DuOnly

\* at_obj_exec_cmd returns; rt_mutex_release refuses a thread that is not the
\* owner.
DuAnswered ==
    /\ DuRuns("at")
    /\ IF lock = "data_up" THEN Release ELSE UNCHANGED at_lock
    /\ DuGoto("returned", "ready") /\ unqueued' = FALSE
    /\ UNCHANGED <<du_count, at_ok, net, overtook, nb_device_table, mqtt_device, others>>

\* After a success qsdk_mqtt_pub_stream polls.
DuReturned ==
    /\ DuRuns("returned")
    /\ \/ at_ok /\ DuGoto("poll", "blocked") /\ du_count' = Polls - 1
       \/ ~at_ok /\ DuGoto("failed", "ready") /\ UNCHANGED du_count
    /\ at_ok' = TRUE /\ DuOnly

\* qsdk_mqtt_pub_stream looks at puback_status after a delay.
DuPoll ==
    /\ DuRuns("poll")
    /\ \/ /\ du_count > 0 /\ puback_status = 0
          /\ DuGoto("poll", "blocked") /\ du_count' = du_count - 1
       \/ /\ du_count > 0 /\ puback_status # 0
          /\ DuGoto("loop", "blocked") /\ du_count' = 0
       \/ /\ du_count = 0
          /\ DuGoto("failed", "ready") /\ UNCHANGED du_count
    /\ UNCHANGED at_ok /\ DuOnly

\* The publication failed: tell net_entry, then try again.
DuFailed ==
    /\ DuRuns("failed") /\ DuGoto("pub", "ready")
    /\ EventSend("SEND_ERROR")
    /\ UNCHANGED <<du_count, at_ok, at_lock, history, nb_device_table, mqtt_device,
                   qsdk_pc, nb_event, topics, mails, link>>

\* A delay of data_up is over.
DuWakes ==
    /\ du_pc \in {"loop", "poll"} /\ du_stat = "blocked"
    /\ du_stat' = "ready"
    /\ UNCHANGED <<du_pc, du_count, at_ok>> /\ DuOnly

DataUp ==
    \/ DuLoop \/ DuMail \/ DuPublish \/ DuLocked \/ DuWrite
    \/ DuResponse \/ DuAnswered \/ DuReturned \/ DuPoll \/ DuFailed \/ DuWakes

\* send_data_entry puts its buffer in the mailbox; a full one refuses it.
SendData ==
    /\ mails < MailMax /\ net_pc \notin Ready /\ ~DuAhead
    /\ mails' = mails + 1
    /\ du_stat' = IF du_pc = "mb" /\ du_stat = "blocked" THEN "ready" ELSE du_stat
    /\ UNCHANGED <<net, du_pc, du_count, at_ok, at_lock, history, nb_device_table, mqtt_device,
                   qsdk_pc, net_error, nb_event, topics, link>>

-----------------------------------------------------------------------------
(* qsdk_th: what the module reports, handled while it waits for nb_mail *)

\* nb_reboot_func, for a reset by the pin that qsdk_nb_reboot asked for and
\* for any other reboot; it ends with qsdk_nb_clear_environment.
RebootReported ==
    /\ qsdk_pc = "mail"
    /\ \/ reboot_open /\ nb_event' = TRUE /\ UNCHANGED <<net, net_error>>
       \/ EventSend("NB_REBOOT") /\ UNCHANGED nb_event
    /\ net_connect_ok' = 0 /\ reboot_open' = FALSE
    /\ link' = "closed"
    /\ UNCHANGED <<data_up, at_lock, history, mqtt_device, qsdk_pc, topics, mails>>

\* mqtt_event_func, +MQTTOPEN: the server accepts the link or does not.
OpenReported ==
    /\ qsdk_pc = "mail" /\ link = "asked"
    /\ \/ link' = "open" /\ connect_status' = 1
       \/ link' = "closed" /\ connect_status' = 0
    /\ UNCHANGED <<net, data_up, at_lock, history, nb_device_table, puback_status,
                   qsdk_pc, net_error, nb_event, topics, mails>>

\* mqtt_event_func, +MQTTPUBACK, in time, late or repeated.
PubackReported ==
    /\ qsdk_pc = "mail" /\ link = "open"
    /\ puback_status' = 1
    /\ UNCHANGED <<net, data_up, at_lock, history, nb_device_table, connect_status, others>>

\* mqtt_event_func, +MQTTPINGRESP: the link is there.
PingReported ==
    /\ qsdk_pc = "mail" /\ link = "open"
    /\ connect_status' = 1
    /\ UNCHANGED <<net, data_up, at_lock, history, nb_device_table, puback_status, others>>

\* The link goes away: silently, or with +MQTTDISC:OK or +MQTTTO:5, for which
\* mqtt_event_func clears connect_status.
LinkLost ==
    /\ link = "open" /\ link' = "closed"
    /\ \/ UNCHANGED connect_status
       \/ qsdk_pc = "mail" /\ connect_status' = 0
    /\ UNCHANGED <<net, data_up, at_lock, history, nb_device_table, puback_status,
                   qsdk_pc, net_error, nb_event, topics, mails>>

\* qsdk_mqtt_data_callback with NET_STA: the server asks for a new connection and
\* qsdk_th itself calls qsdk_nb_quick_connect.
ReconnectAsked ==
    /\ qsdk_pc = "mail" /\ link = "open" /\ qsdk_pc' = "quick"
    /\ UNCHANGED <<net, data_up, at_lock, history, nb_device_table, mqtt_device,
                   net_error, nb_event, topics, mails, link>>

\* qsdk_th takes the lock to send a command, or waits for it.
QsdkTake ==
    /\ qsdk_pc = "quick" /\ lock # "qsdk" /\ "qsdk" \notin ToSet(lock_list)
    /\ Take("qsdk")
    /\ UNCHANGED <<net, data_up, history, nb_device_table, mqtt_device, others>>

\* Its command is answered or times out; it may have read CEREG.  Another one
\* follows, or qsdk_nb_quick_connect returns, and its result is only printed.
QsdkAnswered ==
    /\ lock = "qsdk" /\ ReleaseByOther
    /\ net_connect_ok' \in Registration
    /\ qsdk_pc' \in {"quick", "mail"}
    /\ UNCHANGED <<net, history, reboot_open, mqtt_device, net_error, nb_event, topics, mails,
                   link>>

Qsdk ==
    \/ RebootReported \/ OpenReported \/ PubackReported \/ PingReported \/ LinkLost
    \/ ReconnectAsked \/ QsdkTake \/ QsdkAnswered

Next == NetTake \/ NetNext \/ NetReturns \/ NetRuns \/ DataUp \/ SendData \/ Qsdk

Spec == Init /\ [][Next]_vars

\* net_entry runs when it is ready and nothing above it is, every AT command ends
\* (its response or its timeout comes), a call of net_entry sends finitely many,
\* and every delay is over some time.  Of the module one thing is assumed: asked
\* again and again, it registers with the network some time.
NetFairness ==
    /\ WF_vars(NetTake \/ NetRuns) /\ SF_vars(NetReturns)
    /\ WF_vars(QsdkAnswered)
    /\ SF_vars(QuickRegisters)

NetFairSpec == Spec /\ NetFairness

\* data_up is as sure to go on.
FairSpec == NetFairSpec /\ WF_vars(DataUp)

-----------------------------------------------------------------------------
(* Properties *)

\* Types of the variables.
TypeOK ==
    /\ net_pc \in AtCalls \cup Sleeps \cup Ready
    /\ recon_count \in {0, 1} /\ event_status \subseteq Flags
    /\ nb_test \in BOOLEAN /\ net_count \in 0..Polls-1
    /\ du_pc \in {"loop", "mb", "pub", "lock", "write", "at", "returned", "poll", "failed"}
    /\ du_stat \in {"init", "ready", "blocked", "stopped"}
    /\ du_count \in 0..Polls-1 /\ at_ok \in BOOLEAN
    /\ lock \in Users \cup {"free"} /\ lock_list \in Seq(Users)
    /\ qsdk_pc \in {"mail", "quick"} /\ unqueued \in BOOLEAN /\ overtook \in BOOLEAN
    /\ net_error \subseteq Flags /\ nb_event \in BOOLEAN
    /\ net_connect_ok \in Registration /\ reboot_open \in BOOLEAN
    /\ connect_status \in {0, 1} /\ puback_status \in {0, 1}
    /\ topics \in 0..TopicMax /\ mails \in 0..MailMax
    /\ link \in {"closed", "asked", "open"}

\* rt_thread_startup is called for data_up exactly once, before it ever ran:
\* a second call would stop the firmware in RT_ASSERT.
StartedOnce ==
    net_pc = "start" => (recon_count = 0 <=> du_stat = "init")

\* Whenever net_entry waits for events again, data_up runs or waits for
\* something that will wake it: no path leaves it suspended.
DataUpNotAbandoned ==
    net_pc = "event" => du_stat \in {"ready", "blocked"}

\* net_entry never sleeps on an event that is already pending.
NoLostEvent ==
    net_pc = "event" => net_error = {}

\* When net_entry goes to sleep, neither data_up nor an event is left behind.
NobodyForgotten == DataUpNotAbandoned /\ NoLostEvent

\* Only the owner of nb_client->lock is inside at_obj_exec_cmd, and nobody waits
\* for a free lock, with the exception that rt_thread_resume (main.c:195 and :245)
\* makes: a data_up that waits in rt_mutex_take, for a lock qsdk_th has, is taken
\* off the list, and its command goes on without the lock (unqueued).
AtExclusive ==
    /\ lock_list # <<>> => lock # "free"
    /\ du_pc \in {"write", "at"} \/ (du_pc = "lock" /\ du_stat # "blocked")
          => lock = "data_up" \/ unqueued

\* Without the exception: at_obj_exec_cmd goes on only with client->lock
\* (at_client.c:300).
AtOwned ==
    du_pc \in {"write", "at"} => lock = "data_up"

\* Where net_entry repairs the link after a failed publication.
Recovering == {"wait_connect", "quick2", "time2", "stat", "open2", "open2_poll", "close",
               "close_poll", "reboot_delay", "reboot_wait", "reboot_connect"}

\* A failed publication is repaired while data_up stands still: although
\* rt_thread_suspend does nothing to a thread that waits, data_up is ready
\* whenever net_entry handles EVENT_SEND_ERROR.  The exception is a data_up that
\* had the lock and the priority of qsdk_th, and went to sleep for the answer to
\* its command before net_entry came to suspend it (overtook).
DataUpSuspended ==
    net_pc \in Recovering => du_stat = "stopped" \/ overtook

\* The same for every repair, also after a reboot of the module (the comment at
\* main.c:204 says that data_up is suspended first).
DataUpSuspendedFirst ==
    recon_count = 1 => du_stat = "stopped"

\* A reboot of the module, seen by net_entry while the table is cleared, leads
\* to net_recon.
RebootNotIgnored ==
    [][net_pc = "woken" /\ net_pc' # "woken" /\ "NB_REBOOT" \in event_status
         /\ net_connect_ok = 0 => net_pc' = "quick"]_vars

\* net_entry does not wait for a lock whose owner it has suspended itself.
AtDeadlock == lock = "data_up" /\ du_stat = "stopped" /\ net_pc \in AtCalls

NoAtDeadlock == ~AtDeadlock

\* Every suspension of data_up ends, as long as net_entry does not wait for a
\* lock data_up holds.
RecoveryEnds ==
    []NoAtDeadlock => (du_stat = "stopped" ~> du_stat # "stopped")

\* A module that rebooted is initialised again: net_entry at net_recon reaches
\* the MQTT part (main.c:240).
RebootGoesToInit ==
    net_pc = "quick" ~> net_pc # "quick"

\* qsdk_mqtt_open does not return 0 before the server has answered.
OpenIsTrue ==
    [][net_pc = "open2_poll" /\ net_pc' = "resume" => link # "asked"]_vars

\* qsdk_mqtt_unsub and qsdk_mqtt_sub are called with a topic.
SubscribesToATopic ==
    net_pc = "sub" => nb_test
=============================================================================
