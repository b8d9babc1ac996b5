------------------------------ MODULE NbEvents ------------------------------
(***************************************************************************)
(* The event object nb_event of the NB-IoT driver and the threads around   *)
(* it (nb_devise/rb_nb.c): qsdk_th turns unsolicited results into flags,   *)
(* qsdk_psm locks the AT client while the module sleeps, and the users of  *)
(* the driver send it to sleep, wake it and ping a server.                 *)
(*                                                                         *)
(* An action runs from one blocking point of a thread to the next.  The AT *)
(* lock is recursive and only qsdk_psm keeps it: hold counts how often it  *)
(* took it, and a command of another thread is one step at a moment when   *)
(* the lock is free.  The module is external.                              *)
(***************************************************************************)
EXTENDS RtEvent

CONSTANTS
    qsdk_psm,    \* the thread of qsdk_psm_entry
    Users,       \* threads that call the driver
    MailMax,     \* slots of nb_mail
    PingMax,     \* pings the module has not answered: a bound of the model
    HoldMax      \* how often qsdk_psm takes the lock: a bound of the model

ASSUME UsersAssumption == Threads = Users \cup {qsdk_psm} /\ qsdk_psm \notin Users
ASSUME MailMaxAssumption == MailMax \in Nat \ {0}
ASSUME PingMaxAssumption == PingMax \in Nat
ASSUME HoldMaxAssumption == HoldMax \in Nat \ {0}
ASSUME FlagsAssumption ==
    Flags = {"ENTER_PSM", "EXIT_PSM", "EXIT_PSM_REBOOT", "ENTER_RUN", "PING_OK", "PING_ERROR"}

VARIABLES
    psm_pc, status,      \* qsdk_psm_entry and its local variable, {} when it is dead
    nbiot_psm_status,
    hold,                \* how often qsdk_psm holds nb_client->lock
    user_pc,
    nb_mail,             \* unsolicited results on their way to qsdk_th
    cpsms,               \* the power saving mode of the module is on
    asleep, pinging      \* the module sleeps; pings it has not answered

psm == <<psm_pc, status, nbiot_psm_status, hold>>
module == <<cpsms, asleep, pinging>>
events == <<event, psm, user_pc, nb_mail, module>>

EventsInit ==
    /\ EventInit
    /\ psm_pc = "recv" /\ status = {} /\ nbiot_psm_status = "exit_psm" /\ hold = 0
    /\ user_pc = [u \in Users |-> "idle"]
    /\ nb_mail = <<>>
    /\ cpsms = FALSE /\ asleep = FALSE /\ pinging = 0

\* qsdk_nb_get_psm_status() == RT_EOK.
InPsm == nbiot_psm_status # "exit_psm"

AndClear == [and |-> TRUE, clear |-> TRUE]
OrClear == [and |-> FALSE, clear |-> TRUE]

-----------------------------------------------------------------------------
(* qsdk_psm_entry *)

PsmFlags == {"ENTER_PSM", "EXIT_PSM", "EXIT_PSM_REBOOT"}

\* Waiting for one of its flags, for ever.
PsmRecv ==
    /\ psm_pc = "recv"
    /\ \/ /\ RecvNow(qsdk_psm, PsmFlags, OrClear)
          /\ psm_pc' = "handle" /\ status' = set \cap PsmFlags
       \/ /\ RecvWait(qsdk_psm, PsmFlags, OrClear, TRUE)
          /\ psm_pc' = "wait" /\ UNCHANGED status
    /\ UNCHANGED <<nbiot_psm_status, hold, user_pc, nb_mail, module>>

PsmWoken ==
    /\ psm_pc = "wait" /\ Return(qsdk_psm)
    /\ psm_pc' = "handle" /\ status' = event_set[qsdk_psm]
    /\ UNCHANGED <<nbiot_psm_status, hold, user_pc, nb_mail, module>>

\* rt_mutex_release: an error if the lock is not held.
Released(n) == IF n = 0 THEN 0 ELSE n - 1

\* The module sleeps: lock the AT client.
PsmHandleEnter ==
    /\ psm_pc = "handle" /\ status = {"ENTER_PSM"}
    /\ nbiot_psm_status' = "enter_psm"
    /\ psm_pc' = "take"
    /\ UNCHANGED <<event, status, hold, user_pc, nb_mail, module>>

\* rt_mutex_take(nb_client->lock), as soon as no command is under way.
PsmTake ==
    /\ psm_pc = "take" /\ hold < HoldMax
    /\ hold' = hold + 1
    /\ psm_pc' = "recv" /\ status' = {}
    /\ UNCHANGED <<event, nbiot_psm_status, user_pc, nb_mail, module>>

\* Mutant: the lock is given back, but nbiot_psm_status is left to the end of a
\* sleep that qsdk_psm was told of.
PsmHandleRebootQuiet ==
    /\ psm_pc = "handle" /\ status = {"EXIT_PSM_REBOOT"}
    /\ hold' = Released(hold)
    /\ psm_pc' = "command"
    /\ UNCHANGED <<event, status, nbiot_psm_status, user_pc, nb_mail, module>>

\* The module rebooted in its sleep.
PsmHandleReboot ==
    /\ psm_pc = "handle" /\ status = {"EXIT_PSM_REBOOT"}
    /\ nbiot_psm_status' = "psm_run"
    /\ hold' = Released(hold)
    /\ psm_pc' = "command"
    /\ UNCHANGED <<event, status, user_pc, nb_mail, module>>

\* A user wants the module awake: unlock the AT client, if it was locked.
PsmHandleExit ==
    /\ psm_pc = "handle" /\ status = {"EXIT_PSM"}
    /\ IF nbiot_psm_status = "enter_psm"
       THEN hold' = Released(hold) /\ psm_pc' = "command" /\ UNCHANGED status
       ELSE psm_pc' = "exit" /\ status' = {} /\ UNCHANGED hold
    /\ UNCHANGED <<event, nbiot_psm_status, user_pc, nb_mail, module>>

\* Several flags at once: none of the comparisons with status holds.
PsmHandleOther ==
    /\ psm_pc = "handle"
    /\ status \notin {{"ENTER_PSM"}, {"EXIT_PSM"}, {"EXIT_PSM_REBOOT"}}
    /\ psm_pc' = "recv" /\ status' = {}
    /\ UNCHANGED <<event, nbiot_psm_status, hold, user_pc, nb_mail, module>>

\* qsdk_nb_wait_connect and AT+CPSMS=0, which wake the module; the results are
\* not looked at.
PsmCommand ==
    /\ psm_pc = "command"
    /\ asleep' = FALSE /\ cpsms' \in {cpsms, FALSE}
    /\ psm_pc' = IF status = {"EXIT_PSM"} THEN "exit" ELSE "recv"
    /\ status' = {}
    /\ UNCHANGED <<event, nbiot_psm_status, hold, user_pc, nb_mail, pinging>>

\* The end of the sleep is announced.
PsmExit ==
    /\ psm_pc = "exit"
    /\ psm_pc' = "recv"
    /\ IF InPsm THEN nbiot_psm_status' = "exit_psm" /\ rt_event_send({"ENTER_RUN"})
                ELSE UNCHANGED <<event, nbiot_psm_status>>
    /\ UNCHANGED <<status, hold, user_pc, nb_mail, module>>

Psm ==
    \/ PsmRecv \/ PsmWoken \/ PsmHandleEnter \/ PsmTake \/ PsmHandleReboot
    \/ PsmHandleExit \/ PsmHandleOther \/ PsmCommand \/ PsmExit

-----------------------------------------------------------------------------
(* qsdk_thread_entry *)

\* The flag for an unsolicited result, or none: nb_reboot_func tells qsdk_psm
\* of a reboot only in the power saving mode.
FlagOf(urc) ==
    CASE urc = "REBOOT_" -> IF InPsm THEN {"EXIT_PSM_REBOOT"} ELSE {}
      [] urc = "+NPING:" -> {"PING_OK"}
      [] urc = "+NPINGERR:" -> {"PING_ERROR"}
      [] urc = "+NPSMR:1" -> {"ENTER_PSM"}

qsdk_thread_entry ==
    /\ nb_mail # <<>>
    /\ nb_mail' = Tail(nb_mail)
    /\ IF FlagOf(Head(nb_mail)) = {} THEN UNCHANGED event
                                     ELSE rt_event_send(FlagOf(Head(nb_mail)))
    /\ UNCHANGED <<psm, user_pc, module>>

-----------------------------------------------------------------------------
(* The users of the driver *)

UserGoto(u, pc) == user_pc' = [user_pc EXCEPT ![u] = pc]

\* qsdk_nb_enter_psm, qsdk_nb_ping_ip, or a command with nothing behind it.
UserCalls(u) ==
    /\ user_pc[u] = "idle"
    /\ \E pc \in {"enter_psm", "ping", "command"} : UserGoto(u, pc)
    /\ UNCHANGED <<event, psm, nb_mail, module>>

\* data_up_entry before it publishes: qsdk_nb_exit_psm, if the module sleeps.
UserExitPsm(u) ==
    /\ user_pc[u] = "idle" /\ InPsm
    /\ rt_event_send({"EXIT_PSM"})
    /\ UserGoto(u, "command")
    /\ UNCHANGED <<psm, nb_mail, module>>

\* The shell command qsdk_nb exit_psm, at any time.
ShellExitPsm ==
    /\ rt_event_send({"EXIT_PSM"})
    /\ UNCHANGED <<psm, user_pc, nb_mail, module>>

\* A command, when the lock is free: the module wakes and answers, or does not.
UserCommand(u) ==
    /\ user_pc[u] \in {"enter_psm", "ping", "command"} /\ hold = 0
    /\ asleep' = FALSE
    /\ \/ user_pc[u] = "enter_psm" /\ cpsms' \in {cpsms, TRUE}
          /\ UserGoto(u, "run_recv") /\ UNCHANGED pinging
       \/ user_pc[u] = "ping" /\ pinging < PingMax /\ pinging' = pinging + 1
          /\ UserGoto(u, "ping_recv") /\ UNCHANGED cpsms
       \/ user_pc[u] # "enter_psm" /\ UserGoto(u, "idle") /\ UNCHANGED <<cpsms, pinging>>
    /\ UNCHANGED <<event, psm, nb_mail>>

\* rt_event_recv: for ENTER_RUN for ever, for the answer to a ping for a minute.
UserRecv(u) ==
    /\ \/ user_pc[u] = "run_recv" /\ RecvNow(u, {"ENTER_RUN"}, AndClear) /\ UserGoto(u, "idle")
       \/ user_pc[u] = "run_recv" /\ RecvWait(u, {"ENTER_RUN"}, AndClear, TRUE) /\ UserGoto(u, "wait")
       \/ user_pc[u] = "ping_recv" /\ RecvNow(u, {"PING_OK", "PING_ERROR"}, OrClear)
          /\ UserGoto(u, "idle")
       \/ user_pc[u] = "ping_recv" /\ RecvWait(u, {"PING_OK", "PING_ERROR"}, OrClear, FALSE)
          /\ UserGoto(u, "wait")
    /\ UNCHANGED <<psm, nb_mail, module>>

UserWoken(u) ==
    /\ user_pc[u] = "wait" /\ Return(u)
    /\ UserGoto(u, "idle")
    /\ UNCHANGED <<psm, nb_mail, module>>

UserTimeout(u) ==
    /\ EventTimeout(u)
    /\ UNCHANGED <<psm, user_pc, nb_mail, module>>

User(u) == UserCommand(u) \/ UserRecv(u) \/ UserWoken(u)

-----------------------------------------------------------------------------
(* The module *)

\* nb_event_func: the parser mails a result to qsdk_th; a full mailbox loses it.
Report(urc) == nb_mail' = IF Len(nb_mail) < MailMax THEN Append(nb_mail, urc) ELSE nb_mail

ModuleSleeps ==
    /\ cpsms /\ ~asleep /\ asleep' = TRUE
    /\ Report("+NPSMR:1")
    /\ UNCHANGED <<event, psm, user_pc, cpsms, pinging>>

\* It wakes on its own to report to the network.
ModuleWakes ==
    /\ asleep /\ asleep' = FALSE
    /\ UNCHANGED <<event, psm, user_pc, nb_mail, cpsms, pinging>>

ModuleReboots ==
    /\ asleep' = FALSE /\ pinging' = 0
    /\ Report("REBOOT_")
    /\ UNCHANGED <<event, psm, user_pc, cpsms>>

ModulePings ==
    /\ pinging > 0 /\ pinging' = pinging - 1
    /\ \E urc \in {"+NPING:", "+NPINGERR:"} : Report(urc)
    /\ UNCHANGED <<event, psm, user_pc, cpsms, asleep>>

Module == ModuleSleeps \/ ModuleWakes \/ ModuleReboots \/ ModulePings

EventsNext ==
    \/ Psm
    \/ qsdk_thread_entry
    \/ ShellExitPsm
    \/ \E u \in Users : UserCalls(u) \/ UserExitPsm(u) \/ User(u) \/ UserTimeout(u)
    \/ Module

EventsSpec == EventsInit /\ [][EventsNext]_events

-----------------------------------------------------------------------------
(* Properties *)

\* Types of the variables.
EventsTypeOK ==
    /\ EventTypeOK
    /\ psm_pc \in {"recv", "wait", "handle", "take", "command", "exit"}
    /\ status \subseteq PsmFlags
    /\ nbiot_psm_status \in {"enter_psm", "exit_psm", "psm_run"}
    /\ hold \in 0..HoldMax
    /\ user_pc \in [Users -> {"idle", "enter_psm", "ping", "command", "run_recv",
                              "ping_recv", "wait"}]
    /\ nb_mail \in Seq({"REBOOT_", "+NPING:", "+NPINGERR:", "+NPSMR:1"})
    /\ cpsms \in BOOLEAN /\ asleep \in BOOLEAN /\ pinging \in 0..PingMax

\* Between two events qsdk_psm holds the AT lock whenever the driver says that
\* the module has entered its sleep, in whatever order the flags came: no thread
\* sends a command to the sleeping module by mistake ("lock AT, stop the program
\* from sending AT commands", rb_nb.c:982).
AtLockedInPsm ==
    /\ EventsTypeOK
    /\ psm_pc \in {"recv", "wait"} /\ nbiot_psm_status = "enter_psm" => hold > 0

\* It holds the lock only then ("release AT, the program can send AT commands
\* after that", rb_nb.c:990 and 1003).
AtFreeAfterPsm ==
    psm_pc \in {"recv", "wait"} /\ nbiot_psm_status # "enter_psm" => hold = 0
=============================================================================
