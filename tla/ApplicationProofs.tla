-------------------------- MODULE ApplicationProofs --------------------------
(***************************************************************************)
(* The application.  First the safety of the recovery protocol, for every  *)
(* length of the polling loops, every size of the mailbox and of the topic *)
(* table and both orders of the lock's list; then the house.               *)
(***************************************************************************)
EXTENDS NetManager, Home, RtIpcListProofs

\* Where net_entry connects, at boot or again after a jump to a label.
Connecting == {"quick", "time", "mqtt_recon", "config", "open", "open_poll", "sub", "start"}

Rebooting == {"reboot_delay", "reboot_wait", "reboot_connect"}

\* recon_count tells a later connection from the first one.
ReconCount ==
    /\ net_pc \in Connecting => (recon_count = 0 <=> du_stat = "init")
    /\ net_pc \in Rebooting => recon_count = 1
    /\ net_pc \notin Connecting => du_stat # "init"
    /\ du_stat = "init" => du_pc = "loop"

\* When net_entry is about to wait data_up is ready, and when it was woken by a
\* failed publication too, because data_up itself has just sent the event or
\* was resumed; unless data_up went on with the priority of qsdk_th.
DataUpState ==
    /\ net_pc = "loop" => du_stat = "ready" \/ overtook
    /\ net_pc = "woken" /\ "SEND_ERROR" \in event_status => du_stat = "ready" \/ overtook
    /\ net_pc \in {"loop", "event", "woken"} => du_stat # "stopped"
    /\ net_pc \in Recovering => du_stat = "stopped" \/ overtook

\* The threads that wait for the lock.
Waiting == ToSet(lock_list)

\* The list of the lock: each thread once, never the owner, never for a free lock.
ListState ==
    /\ IsInjective(lock_list)
    /\ lock \notin Waiting
    /\ Waiting # {} => lock # "free"

\* net_entry has or wants the lock only inside a call that sends commands.
NetLock == lock = "net" \/ "net" \in Waiting => net_pc \in AtCalls

\* data_up has the lock only inside at_obj_exec_cmd, is on its list exactly when
\* it waits in rt_mutex_take, and is past it only as the owner or resumed.
DuLock ==
    /\ lock = "data_up" => du_pc \in {"lock", "write", "at"}
    /\ "data_up" \in Waiting <=> du_pc = "lock" /\ du_stat = "blocked"
    /\ du_pc \in {"write", "at"} \/ (du_pc = "lock" /\ du_stat # "blocked")
          => lock = "data_up" \/ unqueued

Inv == TypeOK /\ ReconCount /\ DataUpState /\ ListState /\ NetLock /\ DuLock /\ NoLostEvent

(***************************************************************************)
(* The bounds as the provers need them.                                    *)
(***************************************************************************)
LEMMA Bounds ==
    /\ Polls \in Nat /\ Polls > 0 /\ Polls - 1 \in 0..Polls-1
    /\ 0 \in 0..Polls-1 /\ 0 \in 0..MailMax /\ 0 \in 0..TopicMax
    /\ MailMax \in Nat /\ TopicMax \in Nat
BY PollsAssumption, MailMaxAssumption, TopicMaxAssumption

(***************************************************************************)
(* The initial state.                                                      *)
(***************************************************************************)
LEMMA InitInv == Init => Inv
<1> SUFFICES ASSUME Init PROVE Inv
  OBVIOUS
<1>1. TypeOK
  <2>1. /\ nb_test \in BOOLEAN /\ at_ok \in BOOLEAN /\ unqueued \in BOOLEAN
        /\ overtook \in BOOLEAN /\ nb_event \in BOOLEAN /\ reboot_open \in BOOLEAN
    BY Zenon DEF Init
  <2>2. lock_list \in Seq(Users) /\ lock \in Users \cup {"free"}
    BY DEF Init
  <2> QED
    BY <2>1, <2>2, Bounds DEF Init, TypeOK, AtCalls, Flags, Registration
<1>2. Waiting = {} /\ IsInjective(lock_list)
  BY DEF Init, Waiting, ToSet, IsInjective
<1>3. ListState /\ NetLock /\ DuLock
  BY <1>2 DEF Init, ListState, NetLock, DuLock
<1>4. ReconCount /\ DataUpState /\ NoLostEvent
  BY DEF Init, ReconCount, DataUpState, NoLostEvent, Connecting, Rebooting, Recovering
<1> QED
  BY <1>1, <1>3, <1>4 DEF Inv

\* The list is empty exactly when nobody waits.
LEMMA EmptyList == TypeOK => (lock_list = <<>> <=> Waiting = {})
BY DEF TypeOK, Waiting, ToSet

(***************************************************************************)
(* rt_mutex_take by a thread that neither owns the lock nor waits for it   *)
(* makes it the owner of a free lock, or one more waiting thread.          *)
(***************************************************************************)
LEMMA TakeList ==
    ASSUME TypeOK, ListState, NEW thread \in Users, thread \notin Waiting, Take(thread)
    PROVE  /\ lock' \in Users \cup {"free"} /\ lock_list' \in Seq(Users)
           /\ IsInjective(lock_list')
           /\ \/ lock = "free" /\ lock' = thread /\ Waiting' = Waiting
              \/ lock # "free" /\ lock' = lock /\ Waiting' = Waiting \cup {thread}
<1>1. CASE lock = "free"
  BY <1>1 DEF Take, TypeOK, ListState, Waiting
<1>2. CASE lock # "free"
  <2>1. lock' = lock /\ lock_list' = ListSuspend(lock_list, thread, Priority)
    BY <1>2 DEF Take
  <2>2. lock_list \in Seq(Threads) /\ thread \in Threads
    BY UsersAssumption DEF TypeOK
  <2>3. /\ lock_list' \in Seq(Users) /\ IsInjective(lock_list')
        /\ Waiting' = Waiting \cup {thread}
    BY <2>1, <2>2, ListSuspendProperties, UsersAssumption DEF ListState, Waiting
  <2> QED
    BY <1>2, <2>1, <2>3 DEF TypeOK
<1> QED
  BY <1>1, <1>2

(***************************************************************************)
(* rt_mutex_release frees a lock nobody waits for, or makes one of the     *)
(* waiting threads the owner.                                              *)
(***************************************************************************)
LEMMA ReleaseList ==
    ASSUME TypeOK, ListState, Release
    PROVE  /\ lock' \in Users \cup {"free"} /\ lock_list' \in Seq(Users)
           /\ IsInjective(lock_list')
           /\ \/ Waiting = {} /\ lock' = "free" /\ Waiting' = {}
              \/ lock' \in Waiting /\ Waiting' = Waiting \ {lock'}
<1>1. lock_list \in Seq(Threads) /\ IsInjective(lock_list)
  BY UsersAssumption DEF TypeOK, ListState
<1>2. /\ RestOf(lock_list) \in Seq(Threads) /\ IsInjective(RestOf(lock_list))
      /\ lock_list = <<>> => ToSet(RestOf(lock_list)) = {}
      /\ lock_list # <<>> => /\ Head(lock_list) \in ToSet(lock_list)
                             /\ ToSet(RestOf(lock_list)) = ToSet(lock_list) \ {Head(lock_list)}
  BY <1>1, RestOfProperties
<1>3. lock_list' = RestOf(lock_list)
  BY DEF Release
<1>4. CASE lock_list = <<>>
  BY <1>2, <1>3, <1>4, EmptyList, UsersAssumption DEF Release, Waiting
<1>5. CASE lock_list # <<>>
  <2>1. lock' = Head(lock_list) /\ lock' \in Waiting /\ Waiting' = Waiting \ {lock'}
    BY <1>2, <1>3, <1>5 DEF Release, Waiting
  <2>2. lock' \in Users
    BY <1>5, <2>1 DEF TypeOK
  <2> QED
    BY <1>2, <1>3, <2>1, <2>2, UsersAssumption
<1> QED
  BY <1>4, <1>5

(***************************************************************************)
(* rt_thread_resume takes data_up off the list of the lock.                *)
(***************************************************************************)
LEMMA ResumeList ==
    ASSUME TypeOK, ListState, lock_list' = ListRemove(lock_list, "data_up")
    PROVE  /\ lock_list' \in Seq(Users) /\ IsInjective(lock_list')
           /\ Waiting' = Waiting \ {"data_up"}
<1>1. lock_list \in Seq(Threads) /\ IsInjective(lock_list) /\ "data_up" \in Threads
  BY UsersAssumption DEF TypeOK, ListState, Users
<1> QED
  BY <1>1, ListRemoveProperties, UsersAssumption DEF Waiting

(***************************************************************************)
(* A release by another thread than data_up hands the lock over, and       *)
(* changes data_up only from waiting to ready.                             *)
(***************************************************************************)
LEMMA ReleaseOther ==
    ASSUME TypeOK, ListState, DuLock, ReleaseByOther, unqueued' = unqueued,
           lock \in {"net", "qsdk"}
    PROVE  /\ lock' \in Users \cup {"free"} /\ lock_list' \in Seq(Users)
           /\ ListState' /\ DuLock'
           /\ lock' # lock /\ (lock' = "net" \/ "net" \in Waiting' => "net" \in Waiting)
           /\ du_stat' = du_stat \/ (du_stat = "blocked" /\ du_stat' = "ready")
           /\ du_stat' \in {"init", "ready", "blocked", "stopped"}
           /\ UNCHANGED <<du_pc, du_count, at_ok>>
<1>1. Release /\ UNCHANGED <<du_pc, du_count, at_ok>>
  BY DEF ReleaseByOther
<1>2. /\ lock' \in Users \cup {"free"} /\ lock_list' \in Seq(Users)
      /\ IsInjective(lock_list')
      /\ \/ Waiting = {} /\ lock' = "free" /\ Waiting' = {}
         \/ lock' \in Waiting /\ Waiting' = Waiting \ {lock'}
  BY <1>1, ReleaseList
<1>3. lock' \in Waiting => lock' \in Users
  <2>1. "free" \notin Waiting
    BY DEF TypeOK, Waiting, ToSet, Users
  <2> QED
    BY <1>2, <2>1
<1>4. ListState'
  BY <1>2, <1>3 DEF ListState, Users
<1>5. /\ lock' # lock /\ (lock' = "net" \/ "net" \in Waiting' => "net" \in Waiting)
      /\ lock' = "data_up" => "data_up" \in Waiting
      /\ "data_up" \in Waiting' <=> "data_up" \in Waiting /\ lock' # "data_up"
  BY <1>2 DEF ListState
<1>6. du_stat' = IF lock' = "data_up" THEN "ready" ELSE du_stat
  BY DEF ReleaseByOther
<1>7. du_stat' = du_stat \/ (du_stat = "blocked" /\ du_stat' = "ready")
  BY <1>5, <1>6 DEF DuLock
<1>8. DuLock'
  BY <1>1, <1>5, <1>6 DEF DuLock
<1> QED
  BY <1>1, <1>2, <1>4, <1>5, <1>7, <1>8 DEF TypeOK

(***************************************************************************)
(* What the end of a command of net_entry does to the lock and to data_up. *)
(***************************************************************************)
LEMMA AnsweredLock ==
    ASSUME Inv, NEW pc, Answered(pc)
    PROVE  /\ lock' \in Users \cup {"free"} /\ lock_list' \in Seq(Users)
           /\ ListState' /\ DuLock' /\ NetLock'
           /\ du_stat' = du_stat \/ (du_stat = "blocked" /\ du_stat' = "ready")
           /\ du_stat' \in {"init", "ready", "blocked", "stopped"}
           /\ UNCHANGED <<du_pc, du_count, at_ok, unqueued, overtook, connect_status,
                          puback_status, qsdk_pc, net_error, nb_event, topics, mails>>
<1>1. /\ ReleaseByOther /\ lock = "net"
      /\ UNCHANGED <<unqueued, overtook, connect_status, puback_status, qsdk_pc, net_error,
                     nb_event, topics, mails>>
  BY DEF Answered, history, mqtt_device
<1>2. /\ lock' \in Users \cup {"free"} /\ lock_list' \in Seq(Users)
      /\ ListState' /\ DuLock'
      /\ lock' # lock /\ (lock' = "net" \/ "net" \in Waiting' => "net" \in Waiting)
      /\ du_stat' = du_stat \/ (du_stat = "blocked" /\ du_stat' = "ready")
      /\ du_stat' \in {"init", "ready", "blocked", "stopped"}
      /\ UNCHANGED <<du_pc, du_count, at_ok>>
  BY <1>1, ReleaseOther DEF Inv
<1>3. NetLock'
  BY <1>1, <1>2 DEF Inv, ListState, NetLock
<1> QED
  BY <1>1, <1>2, <1>3

(***************************************************************************)
(* Events: what a send does to net_entry.                                  *)
(***************************************************************************)
LEMMA EventSendType ==
    ASSUME TypeOK, NEW flag \in Flags, EventSend(flag)
    PROVE  /\ net_pc' \in AtCalls \cup Sleeps \cup Ready
           /\ event_status' \subseteq Flags /\ net_error' \subseteq Flags
           /\ UNCHANGED <<recon_count, nb_test, net_count>>
BY DEF TypeOK, EventSend, net, Ready

\* What a step of net_entry that ends a command leaves to check.
NetPart ==
    /\ net_pc' \in AtCalls \cup Sleeps \cup Ready
    /\ recon_count' \in {0, 1} /\ net_count' \in 0..Polls-1
    /\ nb_test' \in BOOLEAN /\ UNCHANGED event_status
    /\ net_connect_ok' \in Registration /\ reboot_open' \in BOOLEAN
    /\ link' \in {"closed", "asked", "open"}

(***************************************************************************)
(* A command of net_entry ends: the invariant, given the part of the step  *)
(* that is about net_entry's own variables.                                *)
(***************************************************************************)
LEMMA AnsweredInv ==
    ASSUME Inv, NEW pc, Answered(pc), NetPart, ReconCount', DataUpState', net_pc' # "event"
    PROVE  Inv'
<1>1. TypeOK'
  <2>1. /\ lock' \in Users \cup {"free"} /\ lock_list' \in Seq(Users)
        /\ du_stat' \in {"init", "ready", "blocked", "stopped"}
        /\ UNCHANGED <<du_pc, du_count, at_ok, unqueued, overtook, connect_status,
                       puback_status, qsdk_pc, net_error, nb_event, topics, mails>>
    BY AnsweredLock
  <2>2. TypeOK
    BY DEF Inv
  <2>3. /\ nb_test' \in BOOLEAN /\ reboot_open' \in BOOLEAN /\ at_ok' \in BOOLEAN
        /\ unqueued' \in BOOLEAN /\ overtook' \in BOOLEAN /\ nb_event' \in BOOLEAN
    BY <2>1, <2>2, Zenon DEF TypeOK, NetPart
  <2> QED
    BY <2>1, <2>2, <2>3 DEF TypeOK, NetPart
<1>2. ListState' /\ DuLock' /\ NetLock'
  BY AnsweredLock
<1>3. NoLostEvent'
  BY DEF NoLostEvent
<1> QED
  BY <1>1, <1>2, <1>3 DEF Inv

(***************************************************************************)
(* Calls of net_entry that return, and commands inside a call.             *)
(***************************************************************************)
LEMMA NetReturnsInv == Inv /\ (NetReturns \/ NetNext) => Inv'
<1> SUFFICES ASSUME Inv, NetReturns \/ NetNext PROVE Inv'
  OBVIOUS
<1> DEFINE Kept == /\ du_stat' = du_stat \/ (du_stat = "blocked" /\ du_stat' = "ready")
                   /\ UNCHANGED <<du_pc, overtook>>
<1>0. \A pc : Answered(pc) => Kept /\ net_pc = pc
  BY AnsweredLock DEF Answered
<1> USE Bounds
<1>1. CASE QuickFails
  <2>1. Answered("quick")
    BY <1>1 DEF QuickFails
  <2>2. NetPart
    BY <1>1 DEF QuickFails, Inv, TypeOK, NetPart, Goto, Locals, AtCalls, Sleeps, Ready,
                Registration
  <2>3. ReconCount' /\ DataUpState' /\ net_pc' # "event"
    BY <1>1, <1>0, <2>1 DEF QuickFails, Inv, ReconCount, DataUpState, Goto, Locals,
                Connecting, Rebooting, Recovering
  <2> QED
    BY <2>1, <2>2, <2>3, AnsweredInv
<1>2. CASE QuickRegisters
  <2>1. PICK pc \in {"quick", "quick2"} : Answered(pc)
    BY <1>2 DEF QuickRegisters
  <2>2. NetPart
    BY <1>2 DEF QuickRegisters, Inv, TypeOK, NetPart, Goto, Locals, AtCalls, Sleeps, Ready,
                Registration
  <2>3. ReconCount' /\ DataUpState' /\ net_pc' # "event"
    BY <1>2, <1>0, <2>1 DEF QuickRegisters, Inv, ReconCount, DataUpState, Goto, Locals,
                Connecting, Rebooting, Recovering
  <2> QED
    BY <2>1, <2>2, <2>3, AnsweredInv
<1>3. CASE QuickReturns
  <2>1. Answered("time")
    BY <1>3 DEF QuickReturns
  <2>2. NetPart
    BY <1>3 DEF QuickReturns, Inv, TypeOK, NetPart, Goto, Locals, nb_device_table, AtCalls, Sleeps, Ready,
                Registration
  <2>3. ReconCount' /\ DataUpState' /\ net_pc' # "event"
    BY <1>3, <1>0, <2>1 DEF QuickReturns, Inv, ReconCount, DataUpState, Goto, Locals,
                Connecting, Rebooting, Recovering
  <2> QED
    BY <2>1, <2>2, <2>3, AnsweredInv
<1>4. CASE ConfigReturns
  <2>1. Answered("config")
    BY <1>4 DEF ConfigReturns
  <2>2. NetPart
    BY <1>4 DEF ConfigReturns, Inv, TypeOK, NetPart, Goto, Locals, nb_device_table, AtCalls, Sleeps, Ready,
                Registration
  <2>3. ReconCount' /\ DataUpState' /\ net_pc' # "event"
    BY <1>4, <1>0, <2>1 DEF ConfigReturns, Inv, ReconCount, DataUpState, Goto, Locals,
                Connecting, Rebooting, Recovering
  <2> QED
    BY <2>1, <2>2, <2>3, AnsweredInv
<1>5. CASE OpenAccepted
  <2>1. PICK pc \in {"open", "open2"} : Answered(pc)
    BY <1>5 DEF OpenAccepted
  <2>2. NetPart
    BY <1>5 DEF OpenAccepted, Inv, TypeOK, NetPart, Goto, nb_device_table, AtCalls, Sleeps, Ready,
                Registration
  <2>3. ReconCount' /\ DataUpState' /\ net_pc' # "event"
    BY <1>5, <1>0, <2>1 DEF OpenAccepted, Inv, ReconCount, DataUpState, Goto,
                Connecting, Rebooting, Recovering
  <2> QED
    BY <2>1, <2>2, <2>3, AnsweredInv
<1>6. CASE OpenRefused
  <2>1. PICK pc \in {"open", "open2"} : Answered(pc)
    BY <1>6 DEF OpenRefused
  <2>2. NetPart
    BY <1>6 DEF OpenRefused, Inv, TypeOK, NetPart, Goto, Locals, nb_device_table, AtCalls, Sleeps, Ready,
                Registration
  <2>3. ReconCount' /\ DataUpState' /\ net_pc' # "event"
    BY <1>6, <1>0, <2>1 DEF OpenRefused, Inv, ReconCount, DataUpState, Goto, Locals,
                Connecting, Rebooting, Recovering
  <2> QED
    BY <2>1, <2>2, <2>3, AnsweredInv
<1>7. CASE SubReturns
  <2>1. Answered("sub")
    BY <1>7 DEF SubReturns
  <2>2. NetPart
    BY <1>7 DEF SubReturns, Inv, TypeOK, NetPart, Goto, nb_device_table, AtCalls, Sleeps, Ready,
                Registration
  <2>3. ReconCount' /\ DataUpState' /\ net_pc' # "event"
    BY <1>7, <1>0, <2>1 DEF SubReturns, Inv, ReconCount, DataUpState, Goto,
                Connecting, Rebooting, Recovering
  <2> QED
    BY <2>1, <2>2, <2>3, AnsweredInv
<1>8. CASE WaitConnectReturns
  <2>1. Answered("wait_connect")
    BY <1>8 DEF WaitConnectReturns
  <2>2. NetPart
    BY <1>8 DEF WaitConnectReturns, Inv, TypeOK, NetPart, Goto, StartReboot, nb_device_table, AtCalls, Sleeps, Ready,
                Registration
  <2>3. ReconCount' /\ DataUpState' /\ net_pc' # "event"
    BY <1>8, <1>0, <2>1 DEF WaitConnectReturns, Inv, ReconCount, DataUpState, Goto, StartReboot,
                Connecting, Rebooting, Recovering
  <2> QED
    BY <2>1, <2>2, <2>3, AnsweredInv
<1>9. CASE QuickFailsAgain
  <2>1. Answered("quick2")
    BY <1>9 DEF QuickFailsAgain
  <2>2. NetPart
    BY <1>9 DEF QuickFailsAgain, Inv, TypeOK, NetPart, Goto, StartReboot, AtCalls, Sleeps, Ready,
                Registration
  <2>3. ReconCount' /\ DataUpState' /\ net_pc' # "event"
    BY <1>9, <1>0, <2>1 DEF QuickFailsAgain, Inv, ReconCount, DataUpState, Goto, StartReboot,
                Connecting, Rebooting, Recovering
  <2> QED
    BY <2>1, <2>2, <2>3, AnsweredInv
<1>10. CASE QuickReturnsAgain
  <2>1. Answered("time2")
    BY <1>10 DEF QuickReturnsAgain
  <2>2. NetPart
    BY <1>10 DEF QuickReturnsAgain, Inv, TypeOK, NetPart, Goto, Locals, nb_device_table, AtCalls, Sleeps, Ready,
                Registration
  <2>3. ReconCount' /\ DataUpState' /\ net_pc' # "event"
    BY <1>10, <1>0, <2>1 DEF QuickReturnsAgain, Inv, ReconCount, DataUpState, Goto, Locals,
                Connecting, Rebooting, Recovering
  <2> QED
    BY <2>1, <2>2, <2>3, AnsweredInv
<1>11. CASE StatReturns
  <2>1. Answered("stat")
    BY <1>11 DEF StatReturns
  <2>2. NetPart
    BY <1>11 DEF StatReturns, Inv, TypeOK, NetPart, Goto, Locals, nb_device_table, AtCalls, Sleeps, Ready,
                Registration
  <2>3. ReconCount' /\ DataUpState' /\ net_pc' # "event"
    BY <1>11, <1>0, <2>1 DEF StatReturns, Inv, ReconCount, DataUpState, Goto, Locals,
                Connecting, Rebooting, Recovering
  <2> QED
    BY <2>1, <2>2, <2>3, AnsweredInv
<1>12. CASE CloseAnswered
  <2>1. Answered("close")
    BY <1>12 DEF CloseAnswered
  <2>2. NetPart
    BY <1>12 DEF CloseAnswered, Inv, TypeOK, NetPart, Goto, nb_device_table, AtCalls, Sleeps, Ready,
                Registration
  <2>3. ReconCount' /\ DataUpState' /\ net_pc' # "event"
    BY <1>12, <1>0, <2>1 DEF CloseAnswered, Inv, ReconCount, DataUpState, Goto,
                Connecting, Rebooting, Recovering
  <2> QED
    BY <2>1, <2>2, <2>3, AnsweredInv
<1>13. CASE RebootReturns
  <2>1. Answered("reboot_connect")
    BY <1>13 DEF RebootReturns
  <2>2. NetPart
    BY <1>13 DEF RebootReturns, Inv, TypeOK, NetPart, Goto, Locals, nb_device_table, AtCalls, Sleeps, Ready,
                Registration
  <2>3. ReconCount' /\ DataUpState' /\ net_pc' # "event"
    BY <1>13, <1>0, <2>1 DEF RebootReturns, Inv, ReconCount, DataUpState, Goto, Locals,
                Connecting, Rebooting, Recovering
  <2> QED
    BY <2>1, <2>2, <2>3, AnsweredInv
<1>14. CASE NetNext
  <2>1. PICK pc \in {"quick", "quick2", "time", "config", "sub"} : Answered(pc)
    BY <1>14 DEF NetNext
  <2>2. UNCHANGED <<net, nb_device_table, link>>
    BY <1>14 DEF NetNext
  <2>3. NetPart
    BY <2>2, Zenon DEF net, nb_device_table, Inv, TypeOK, NetPart
  <2>4. ReconCount' /\ DataUpState' /\ net_pc' # "event"
    BY <1>0, <2>1, <2>2 DEF net, Inv, ReconCount, DataUpState, Connecting, Rebooting, Recovering
  <2> QED
    BY <2>1, <2>3, <2>4, AnsweredInv
<1> QED
  BY <1>1, <1>2, <1>3, <1>4, <1>5, <1>6, <1>7, <1>8, <1>9, <1>10, <1>11, <1>12, <1>13, <1>14
     DEF NetReturns

\* A step that leaves the lock alone, and data_up where it is, keeps what is known
\* of the lock if data_up neither begins nor ends a wait for it.
LEMMA LockKept ==
    ASSUME ListState, NetLock, DuLock, UNCHANGED <<lock, lock_list, unqueued, du_pc>>,
           net_pc \notin AtCalls \/ net_pc' = net_pc,
           \/ du_stat' = du_stat \/ du_pc # "lock"
           \/ du_stat = "ready" /\ du_stat' = "stopped"
    PROVE  ListState' /\ NetLock' /\ DuLock'
<1>1. Waiting' = Waiting
  BY DEF Waiting
<1>2. ListState'
  BY <1>1 DEF ListState
<1>3. NetLock'
  BY <1>1 DEF NetLock
<1>4. DuLock'
  BY <1>1 DEF DuLock
<1> QED
  BY <1>2, <1>3, <1>4

(***************************************************************************)
(* Steps of net_entry between its calls: types.                            *)
(***************************************************************************)
LEMMA NetRunsType == TypeOK /\ ListState /\ NetRuns => TypeOK'
<1> SUFFICES ASSUME TypeOK, ListState, NetRuns PROVE TypeOK'
  OBVIOUS
<1> USE Bounds DEF TypeOK, AtCalls, Sleeps, Ready, Flags, Registration
<1>1. CASE MqttRecon
  BY <1>1 DEF MqttRecon, NetRunsAt, Goto, Locals, data_up, at_lock, history,
              nb_device_table, mqtt_device, others
<1>2. CASE OpenPoll
  <2>1. net_pc' \in AtCalls \cup Sleeps \cup Ready /\ net_count' \in 0..Polls-1
    BY <1>2 DEF OpenPoll, NetRunsAt, Goto
  <2>2. UNCHANGED <<recon_count, event_status, nb_test, data_up, at_lock, history,
                    nb_device_table, mqtt_device, others>>
    BY <1>2 DEF OpenPoll
  <2> QED
    BY <2>1, <2>2 DEF data_up, at_lock, history, nb_device_table, mqtt_device, others
<1>3. CASE ClosePoll
  BY <1>3 DEF ClosePoll, NetRunsAt, Goto, Locals, data_up, at_lock, history,
              nb_device_table, mqtt_device, others
<1>4. CASE RebootPulse
  BY <1>4 DEF RebootPulse, NetRunsAt, Goto, Locals, data_up, at_lock, history,
              nb_device_table, mqtt_device, others
<1>5. CASE RebootSeen
  <2>1. nb_event' \in BOOLEAN /\ reboot_open' \in BOOLEAN
    BY <1>5 DEF RebootSeen
  <2>2. nb_test' \in BOOLEAN /\ at_ok' \in BOOLEAN /\ UNCHANGED history
    BY <1>5 DEF RebootSeen, data_up, Locals
  <2> QED
    BY <1>5, <2>1, <2>2 DEF RebootSeen, NetRunsAt, Goto, Locals, data_up, at_lock, history,
                mqtt_device
<1>6. CASE RebootTimeout
  BY <1>6 DEF RebootTimeout, NetRunsAt, Goto, Locals, data_up, at_lock, history,
              nb_device_table, mqtt_device, others
<1>7. CASE EventRecv
  <2>1. /\ net_pc' \in AtCalls \cup Sleeps \cup Ready
        /\ event_status' \subseteq Flags /\ net_error' \subseteq Flags
    BY <1>7 DEF EventRecv, Goto
  <2>2. UNCHANGED <<recon_count, nb_test, net_count, data_up, at_lock, history,
                    nb_device_table, mqtt_device, qsdk_pc, nb_event, topics, mails, link>>
    BY <1>7 DEF EventRecv
  <2> QED
    BY <2>1, <2>2 DEF data_up, at_lock, history, nb_device_table, mqtt_device
<1>8. CASE HandleSendError
  BY <1>8 DEF HandleSendError, NetRunsAt, Goto, Locals, Suspended, data_up, at_lock, history,
              nb_device_table, mqtt_device, others
<1>9. CASE HandleReboot
  BY <1>9 DEF HandleReboot, NetRunsAt, Goto, Locals, Suspended, data_up, at_lock, history,
              nb_device_table, mqtt_device, others
<1>10. CASE HandleNothing
  BY <1>10 DEF HandleNothing, NetRunsAt, Goto, Locals, Suspended, data_up, at_lock, history,
              nb_device_table, mqtt_device, others
<1>11. ASSUME StartDataUp \/ ResumeDataUp
       PROVE  TypeOK'
  <2>1. /\ lock_list' \in Seq(Users) /\ lock' = lock
        /\ du_stat' \in {"init", "ready", "blocked", "stopped"}
        /\ UNCHANGED <<du_pc, du_count, at_ok>>
    BY <1>11, ResumeList DEF StartDataUp, ResumeDataUp, ResumeThread, at_lock
  <2>2. unqueued' \in BOOLEAN /\ overtook' \in BOOLEAN
    BY <1>11, Zenon DEF StartDataUp, ResumeDataUp, ResumeThread
  <2>3. /\ net_pc' = "loop" /\ recon_count' \in {0, 1}
        /\ UNCHANGED <<event_status, nb_test, net_count, nb_device_table, mqtt_device, others>>
    BY <1>11 DEF StartDataUp, ResumeDataUp, Goto, Locals
  <2> QED
    BY <2>1, <2>2, <2>3 DEF nb_device_table, mqtt_device, others
<1> QED
  BY <1>1, <1>2, <1>3, <1>4, <1>5, <1>6, <1>7, <1>8, <1>9, <1>10, <1>11 DEF NetRuns

(***************************************************************************)
(* Steps of net_entry between its calls: the invariant.                    *)
(***************************************************************************)
LEMMA NetRunsInv == Inv /\ NetRuns => Inv'
<1> SUFFICES ASSUME Inv, NetRuns PROVE Inv'
  OBVIOUS
<1>0. TypeOK /\ TypeOK'
  BY NetRunsType DEF Inv
<1>1. CASE MqttRecon
  <2>1. ListState' /\ NetLock' /\ DuLock'
    BY <1>1, LockKept DEF MqttRecon, NetRunsAt, Inv, AtCalls, data_up, at_lock, history
  <2>2. ReconCount' /\ DataUpState' /\ NoLostEvent'
    BY <1>1, <1>0 DEF MqttRecon, NetRunsAt, Goto, Locals, Inv, TypeOK, ReconCount, DataUpState,
                NoLostEvent, Connecting, Rebooting, Recovering, data_up, history, others
  <2> QED
    BY <1>0, <2>1, <2>2 DEF Inv
<1>2. CASE OpenPoll
  <2>1. ListState' /\ NetLock' /\ DuLock'
    BY <1>2, LockKept DEF OpenPoll, NetRunsAt, Inv, AtCalls, data_up, at_lock, history
  <2>2. ReconCount' /\ DataUpState' /\ NoLostEvent'
    BY <1>2, <1>0 DEF OpenPoll, NetRunsAt, Goto, Locals, Inv, TypeOK, ReconCount, DataUpState,
                NoLostEvent, Connecting, Rebooting, Recovering, data_up, history, others
  <2> QED
    BY <1>0, <2>1, <2>2 DEF Inv
<1>3. CASE ClosePoll
  <2>1. ListState' /\ NetLock' /\ DuLock'
    BY <1>3, LockKept DEF ClosePoll, NetRunsAt, Inv, AtCalls, data_up, at_lock, history
  <2>2. ReconCount' /\ DataUpState' /\ NoLostEvent'
    BY <1>3, <1>0 DEF ClosePoll, NetRunsAt, Goto, Locals, Inv, TypeOK, ReconCount, DataUpState,
                NoLostEvent, Connecting, Rebooting, Recovering, data_up, history, others
  <2> QED
    BY <1>0, <2>1, <2>2 DEF Inv
<1>4. CASE RebootPulse
  <2>1. ListState' /\ NetLock' /\ DuLock'
    BY <1>4, LockKept DEF RebootPulse, NetRunsAt, Inv, AtCalls, data_up, at_lock, history
  <2>2. ReconCount' /\ DataUpState' /\ NoLostEvent'
    BY <1>4, <1>0 DEF RebootPulse, NetRunsAt, Goto, Locals, Inv, TypeOK, ReconCount, DataUpState,
                NoLostEvent, Connecting, Rebooting, Recovering, data_up, history, others
  <2> QED
    BY <1>0, <2>1, <2>2 DEF Inv
<1>5. CASE RebootSeen
  <2>1. ListState' /\ NetLock' /\ DuLock'
    BY <1>5, LockKept DEF RebootSeen, NetRunsAt, Inv, AtCalls, data_up, at_lock, history
  <2>2. ReconCount' /\ DataUpState' /\ NoLostEvent'
    BY <1>5, <1>0 DEF RebootSeen, NetRunsAt, Goto, Locals, Inv, TypeOK, ReconCount, DataUpState,
                NoLostEvent, Connecting, Rebooting, Recovering, data_up, history, others
  <2> QED
    BY <1>0, <2>1, <2>2 DEF Inv
<1>6. CASE RebootTimeout
  <2>1. ListState' /\ NetLock' /\ DuLock'
    BY <1>6, LockKept DEF RebootTimeout, NetRunsAt, Inv, AtCalls, data_up, at_lock, history
  <2>2. ReconCount' /\ DataUpState' /\ NoLostEvent'
    BY <1>6, <1>0 DEF RebootTimeout, NetRunsAt, Goto, Locals, Inv, TypeOK, ReconCount, DataUpState,
                NoLostEvent, Connecting, Rebooting, Recovering, data_up, history, others
  <2> QED
    BY <1>0, <2>1, <2>2 DEF Inv
<1>7. CASE EventRecv
  <2>1. ListState' /\ NetLock' /\ DuLock'
    BY <1>7, LockKept DEF EventRecv, NetRunsAt, Inv, AtCalls, data_up, at_lock, history
  <2>2. ReconCount' /\ DataUpState' /\ NoLostEvent'
    BY <1>7, <1>0 DEF EventRecv, NetRunsAt, Goto, Locals, Inv, TypeOK, ReconCount, DataUpState,
                NoLostEvent, Connecting, Rebooting, Recovering, data_up, history, others
  <2> QED
    BY <1>0, <2>1, <2>2 DEF Inv
<1>8. CASE HandleSendError
  <2>1. ListState' /\ NetLock' /\ DuLock'
    BY <1>8, LockKept DEF HandleSendError, NetRunsAt, Suspended, Inv, AtCalls, data_up, at_lock, history
  <2>2. ReconCount' /\ DataUpState' /\ NoLostEvent'
    BY <1>8, <1>0 DEF HandleSendError, NetRunsAt, Suspended, Goto, Locals, Inv, TypeOK, ReconCount, DataUpState,
                NoLostEvent, Connecting, Rebooting, Recovering, data_up, history, others
  <2> QED
    BY <1>0, <2>1, <2>2 DEF Inv
<1>9. CASE HandleReboot
  <2>1. ListState' /\ NetLock' /\ DuLock'
    BY <1>9, LockKept DEF HandleReboot, NetRunsAt, Suspended, Inv, AtCalls, data_up, at_lock, history
  <2>2. ReconCount' /\ DataUpState' /\ NoLostEvent'
    BY <1>9, <1>0 DEF HandleReboot, NetRunsAt, Suspended, Goto, Locals, Inv, TypeOK, ReconCount, DataUpState,
                NoLostEvent, Connecting, Rebooting, Recovering, data_up, history, others
  <2> QED
    BY <1>0, <2>1, <2>2 DEF Inv
<1>10. CASE HandleNothing
  <2>1. ListState' /\ NetLock' /\ DuLock'
    BY <1>10, LockKept DEF HandleNothing, NetRunsAt, Suspended, Inv, AtCalls, data_up, at_lock, history
  <2>2. ReconCount' /\ DataUpState' /\ NoLostEvent'
    BY <1>10, <1>0 DEF HandleNothing, NetRunsAt, Suspended, Goto, Locals, Inv, TypeOK, ReconCount, DataUpState,
                NoLostEvent, Connecting, Rebooting, Recovering, data_up, history, others
  <2> QED
    BY <1>0, <2>1, <2>2 DEF Inv
<1>11. ASSUME StartDataUp \/ ResumeDataUp
       PROVE  Inv'
  <2>1. /\ net_pc' = "loop" /\ net_pc \notin AtCalls /\ net_pc \notin Rebooting
        /\ lock' = lock /\ du_pc' = du_pc /\ UNCHANGED net_error
    BY <1>11 DEF StartDataUp, ResumeDataUp, ResumeThread, NetRunsAt, Goto, AtCalls, Rebooting,
                 others, at_lock
  <2>2. \/ /\ du_stat = "init" /\ du_pc = "loop"
           /\ UNCHANGED <<lock_list, unqueued>>
        \/ /\ du_stat # "init"
           /\ ResumeThread
    BY <1>11 DEF StartDataUp, ResumeDataUp, NetRunsAt, Inv, ReconCount, Connecting, at_lock
  <2>3. du_stat' = "ready"
    BY <1>0, <1>11, <2>2 DEF StartDataUp, ResumeDataUp, NetRunsAt, ResumeThread, TypeOK, Inv,
                             ReconCount, Connecting
  <2>4. /\ IsInjective(lock_list') /\ Waiting' = Waiting \ {"data_up"}
        /\ "data_up" \in Waiting \/ unqueued => unqueued'
    <3>1. CASE ResumeThread
      BY <1>0, <3>1, ResumeList DEF ResumeThread, Inv, Waiting
    <3>2. CASE du_pc = "loop" /\ UNCHANGED <<lock_list, unqueued>>
      BY <3>2 DEF Inv, ListState, DuLock, Waiting
    <3> QED
      BY <2>2, <3>1, <3>2
  <2>5. ListState' /\ NetLock'
    BY <2>1, <2>4 DEF Inv, ListState, NetLock
  <2>6. DuLock'
    BY <2>1, <2>3, <2>4 DEF Inv, DuLock
  <2>7. ReconCount' /\ DataUpState' /\ NoLostEvent'
    BY <2>1, <2>3 DEF ReconCount, DataUpState, NoLostEvent, Connecting, Rebooting, Recovering
  <2> QED
    BY <1>0, <2>5, <2>6, <2>7 DEF Inv
<1> QED
  BY <1>1, <1>2, <1>3, <1>4, <1>5, <1>6, <1>7, <1>8, <1>9, <1>10, <1>11 DEF NetRuns

(***************************************************************************)
(* Steps of data_up_entry: types.                                          *)
(***************************************************************************)
LEMMA DataUpType == TypeOK /\ ListState /\ DuLock /\ DataUp => TypeOK'
<1> SUFFICES ASSUME TypeOK, ListState, DuLock, DataUp PROVE TypeOK'
  OBVIOUS
<1> USE Bounds DEF TypeOK, AtCalls, Sleeps, Ready, Flags, Registration
<1>1. CASE DuLoop
  BY <1>1 DEF DuLoop, DuRuns, DuGoto, DuOnly, net, at_lock, history, nb_device_table, mqtt_device, others
<1>2. CASE DuMail
  BY <1>2 DEF DuMail, DuRuns, DuGoto, DuOnly, net, at_lock, history, nb_device_table, mqtt_device, others
<1>3. CASE DuLocked
  BY <1>3 DEF DuLocked, DuRuns, DuGoto, DuOnly, net, at_lock, history, nb_device_table, mqtt_device, others
<1>4. CASE DuResponse
  BY <1>4 DEF DuResponse, DuRuns, DuGoto, DuOnly, net, at_lock, history, nb_device_table, mqtt_device, others
<1>5. CASE DuReturned
  BY <1>5 DEF DuReturned, DuRuns, DuGoto, DuOnly, net, at_lock, history, nb_device_table, mqtt_device, others
<1>6. CASE DuPoll
  BY <1>6 DEF DuPoll, DuRuns, DuGoto, DuOnly, net, at_lock, history, nb_device_table, mqtt_device, others
<1>7. CASE DuWakes
  BY <1>7 DEF DuWakes, DuRuns, DuGoto, DuOnly, net, at_lock, history, nb_device_table, mqtt_device, others
<1>8. CASE DuPublish
  <2>1. lock' \in Users \cup {"free"} /\ lock_list' \in Seq(Users)
    BY <1>8, TakeList DEF DuPublish, DuRuns, DuLock, Users
  <2> QED
    BY <1>8, <2>1 DEF DuPublish, DuGoto, net, history, nb_device_table, others
<1>9. CASE DuWrite
  <2>1. at_ok' \in BOOLEAN /\ overtook' \in BOOLEAN
    BY <1>9, Zenon DEF DuWrite
  <2> QED
    BY <1>9, <2>1 DEF DuWrite, DuGoto, net, at_lock, nb_device_table, mqtt_device, others
<1>10. CASE DuAnswered
  <2>1. lock' \in Users \cup {"free"} /\ lock_list' \in Seq(Users)
    BY <1>10, ReleaseList DEF DuAnswered, at_lock
  <2>2. unqueued' \in BOOLEAN
    BY <1>10, Zenon DEF DuAnswered
  <2> QED
    BY <1>10, <2>1, <2>2 DEF DuAnswered, DuGoto, net, nb_device_table, mqtt_device, others
<1>11. CASE DuFailed
  <2>1. /\ net_pc' \in AtCalls \cup Sleeps \cup Ready
        /\ event_status' \subseteq Flags /\ net_error' \subseteq Flags
        /\ UNCHANGED <<recon_count, nb_test, net_count>>
    BY <1>11, EventSendType DEF DuFailed
  <2> QED
    BY <1>11, <2>1 DEF DuFailed, DuGoto, at_lock, history, nb_device_table, mqtt_device
<1> QED
  BY <1>1, <1>2, <1>3, <1>4, <1>5, <1>6, <1>7, <1>8, <1>9, <1>10, <1>11 DEF DataUp

(***************************************************************************)
(* Steps of data_up_entry: the invariant.  A data_up without the lock does *)
(* not run while net_entry is ready.                                       *)
(***************************************************************************)
LEMMA DataUpInv == Inv /\ DataUp => Inv'
<1> SUFFICES ASSUME Inv, DataUp PROVE Inv'
  OBVIOUS
<1>0. TypeOK /\ TypeOK'
  BY DataUpType DEF Inv
<1>a. \A pc : DuRuns(pc) => /\ du_pc = pc /\ du_stat = "ready"
                            /\ net_pc \notin Ready \/ du_pc \in {"lock", "write", "at"}
  BY DEF DuRuns, DuAhead, Inv, DuLock
<1> DEFINE Rest == ReconCount' /\ DataUpState' /\ NoLostEvent'
<1>b. ASSUME UNCHANGED <<net, at_lock, unqueued>>,
             du_pc \notin {"lock", "write", "at"}, du_pc' \notin {"lock", "write", "at"}
      PROVE  ListState' /\ NetLock' /\ DuLock'
  <2>1. UNCHANGED <<lock, net_pc>> /\ Waiting' = Waiting
    BY <1>b DEF net, at_lock, Waiting
  <2>2. ListState' /\ NetLock'
    BY <1>b, <2>1 DEF at_lock, Inv, ListState, NetLock
  <2>3. DuLock'
    BY <1>b, <2>1 DEF Inv, DuLock
  <2> QED
    BY <2>2, <2>3
<1>1. CASE DuLoop
  <2>1. ListState' /\ NetLock' /\ DuLock'
    BY <1>1, <1>a, <1>b DEF DuLoop, DuGoto, DuOnly, history
  <2>2. Rest
    BY <1>1, <1>a DEF DuLoop, DuGoto, DuOnly, Inv, ReconCount, DataUpState, NoLostEvent, Ready,
                Connecting, Rebooting, Recovering, net, history, others
  <2> QED
    BY <1>0, <2>1, <2>2 DEF Inv
<1>2. CASE DuMail
  <2>1. ListState' /\ NetLock' /\ DuLock'
    BY <1>2, <1>a, <1>b DEF DuMail, DuGoto, DuOnly, history
  <2>2. Rest
    BY <1>2, <1>a DEF DuMail, DuGoto, DuOnly, Inv, ReconCount, DataUpState, NoLostEvent, Ready,
                Connecting, Rebooting, Recovering, net, history, others
  <2> QED
    BY <1>0, <2>1, <2>2 DEF Inv
<1>3. CASE DuReturned
  <2>1. ListState' /\ NetLock' /\ DuLock'
    BY <1>3, <1>a, <1>b DEF DuReturned, DuGoto, DuOnly, history
  <2>2. Rest
    BY <1>3, <1>a DEF DuReturned, DuGoto, DuOnly, Inv, ReconCount, DataUpState, NoLostEvent, Ready,
                Connecting, Rebooting, Recovering, net, history, others
  <2> QED
    BY <1>0, <2>1, <2>2 DEF Inv
<1>4. CASE DuPoll
  <2>1. ListState' /\ NetLock' /\ DuLock'
    BY <1>4, <1>a, <1>b DEF DuPoll, DuGoto, DuOnly, history
  <2>2. Rest
    BY <1>4, <1>a DEF DuPoll, DuGoto, DuOnly, Inv, ReconCount, DataUpState, NoLostEvent, Ready,
                Connecting, Rebooting, Recovering, net, history, others
  <2> QED
    BY <1>0, <2>1, <2>2 DEF Inv
<1>5. CASE DuWakes
  <2>1. ListState' /\ NetLock' /\ DuLock'
    BY <1>5, <1>a, <1>b DEF DuWakes, DuGoto, DuOnly, history
  <2>2. Rest
    BY <1>5, <1>a DEF DuWakes, DuGoto, DuOnly, Inv, ReconCount, DataUpState, NoLostEvent, Ready,
                Connecting, Rebooting, Recovering, net, history, others
  <2> QED
    BY <1>0, <2>1, <2>2 DEF Inv
<1>6. CASE DuLocked
  <2>1. Waiting' = Waiting /\ UNCHANGED <<lock, lock_list, unqueued, net_pc>>
    BY <1>6 DEF DuLocked, DuOnly, net, at_lock, history, Waiting
  <2>2. ListState' /\ NetLock'
    BY <2>1 DEF Inv, ListState, NetLock
  <2>3. DuLock'
    BY <1>6, <1>a, <2>1 DEF DuLocked, DuGoto, Inv, DuLock
  <2>4. Rest
    BY <1>6, <1>a DEF DuLocked, DuGoto, DuOnly, Inv, ReconCount, DataUpState, NoLostEvent, Ready,
                Connecting, Rebooting, Recovering, net, history, others
  <2> QED
    BY <1>0, <2>2, <2>3, <2>4 DEF Inv
<1>7. CASE DuResponse
  <2>1. Waiting' = Waiting /\ UNCHANGED <<lock, lock_list, unqueued, net_pc>>
    BY <1>7 DEF DuResponse, DuOnly, net, at_lock, history, Waiting
  <2>2. ListState' /\ NetLock'
    BY <2>1 DEF Inv, ListState, NetLock
  <2>3. DuLock'
    BY <1>7, <1>a, <2>1 DEF DuResponse, DuGoto, Inv, DuLock
  <2>4. Rest
    BY <1>7, <1>a DEF DuResponse, DuGoto, DuOnly, Inv, ReconCount, DataUpState, NoLostEvent, Ready,
                Connecting, Rebooting, Recovering, net, history, others
  <2> QED
    BY <1>0, <2>2, <2>3, <2>4 DEF Inv
<1>8. CASE DuPublish
  <2>1. /\ IsInjective(lock_list')
        /\ \/ lock = "free" /\ lock' = "data_up" /\ Waiting' = Waiting
           \/ lock # "free" /\ lock' = lock /\ Waiting' = Waiting \cup {"data_up"}
    BY <1>8, <1>a, TakeList DEF DuPublish, Inv, DuLock, Users
  <2>2. /\ du_pc = "pub" /\ UNCHANGED <<net_pc, unqueued>>
        /\ IF lock = "free" THEN du_pc' = "write" /\ du_stat' = "ready"
                            ELSE du_pc' = "lock" /\ du_stat' = "blocked"
    BY <1>8, <1>a DEF DuPublish, DuGoto, net, history
  <2>3. ListState'
    <3>1. "data_up" \notin Waiting /\ lock # "data_up"
      BY <2>2 DEF Inv, DuLock
    <3> QED
      BY <2>1, <3>1 DEF Inv, ListState
  <2>4. NetLock'
    BY <2>1, <2>2 DEF Inv, NetLock
  <2>5. DuLock'
    BY <2>1, <2>2 DEF Inv, DuLock
  <2>6. Rest
    BY <1>8, <1>a, <2>2 DEF DuPublish, Inv, ReconCount, DataUpState, NoLostEvent, Ready,
                Connecting, Rebooting, Recovering, net, history, others
  <2> QED
    BY <1>0, <2>3, <2>4, <2>5, <2>6 DEF Inv
<1>9. CASE DuWrite
  <2>1. Waiting' = Waiting /\ UNCHANGED <<lock, lock_list, unqueued, net_pc>>
    BY <1>9 DEF DuWrite, net, at_lock, Waiting
  <2>2. ListState' /\ NetLock'
    BY <2>1 DEF Inv, ListState, NetLock
  <2>3. DuLock'
    BY <1>9, <1>a, <2>1 DEF DuWrite, DuGoto, Inv, DuLock
  <2>4. net_pc \in Ready \/ overtook => overtook'
    BY <1>9, Zenon DEF DuWrite
  <2>5. Rest
    BY <1>9, <1>a, <2>4 DEF DuWrite, DuGoto, Inv, ReconCount, DataUpState, NoLostEvent, Ready,
                Connecting, Rebooting, Recovering, net, others
  <2> QED
    BY <1>0, <2>2, <2>3, <2>5 DEF Inv
<1>10. CASE DuAnswered
  <2>1. /\ du_pc = "at" /\ du_stat = "ready" /\ du_pc' = "returned" /\ du_stat' = "ready"
        /\ UNCHANGED <<net, overtook, net_error>>
    BY <1>10, <1>a DEF DuAnswered, DuGoto, others
  <2>2. \/ lock = "data_up" /\ Release
        \/ lock # "data_up" /\ UNCHANGED <<lock, lock_list>>
    BY <1>10 DEF DuAnswered, at_lock
  <2>3. ASSUME lock = "data_up", Release
        PROVE  ListState' /\ NetLock' /\ DuLock'
    <3>1. /\ IsInjective(lock_list')
          /\ \/ Waiting = {} /\ lock' = "free" /\ Waiting' = {}
             \/ lock' \in Waiting /\ Waiting' = Waiting \ {lock'}
      BY <2>3, ReleaseList DEF Inv
    <3>2. "free" \notin Waiting /\ "data_up" \notin Waiting
      BY <2>1 DEF Inv, DuLock, TypeOK, Waiting, ToSet, Users
    <3>3. ListState' /\ NetLock'
      BY <2>1, <3>1, <3>2 DEF Inv, ListState, NetLock, net
    <3>4. DuLock'
      BY <2>1, <3>1, <3>2 DEF DuLock
    <3> QED
      BY <3>3, <3>4
  <2>4. ASSUME lock # "data_up", UNCHANGED <<lock, lock_list>>
        PROVE  ListState' /\ NetLock' /\ DuLock'
    <3>1. Waiting' = Waiting
      BY <2>4 DEF Waiting
    <3>2. ListState' /\ NetLock'
      BY <2>1, <2>4, <3>1 DEF Inv, ListState, NetLock, net
    <3>3. DuLock'
      BY <2>1, <2>4, <3>1 DEF Inv, DuLock
    <3> QED
      BY <3>2, <3>3
  <2>5. Rest
    BY <2>1 DEF Inv, ReconCount, DataUpState, NoLostEvent, net
  <2> QED
    BY <1>0, <2>2, <2>3, <2>4, <2>5 DEF Inv
<1>11. CASE DuFailed
  <2>1. /\ du_pc = "failed" /\ du_stat = "ready" /\ du_pc' = "pub" /\ du_stat' = "ready"
        /\ UNCHANGED <<at_lock, unqueued, overtook>>
    BY <1>11, <1>a DEF DuFailed, DuGoto, history
  <2>2. EventSend("SEND_ERROR")
    BY <1>11 DEF DuFailed
  <2>3. Waiting' = Waiting /\ UNCHANGED <<lock, lock_list>>
    BY <2>1 DEF at_lock, Waiting
  <2>4. ListState' /\ NetLock'
    BY <2>2, <2>3 DEF EventSend, net, Inv, ListState, NetLock, AtCalls
  <2>5. DuLock'
    BY <2>1, <2>3 DEF Inv, DuLock
  <2>6. Rest
    BY <2>1, <2>2 DEF EventSend, Inv, ReconCount, DataUpState, NoLostEvent, Connecting,
                Rebooting, Recovering, net
  <2> QED
    BY <1>0, <2>4, <2>5, <2>6 DEF Inv
<1> QED
  BY <1>1, <1>2, <1>3, <1>4, <1>5, <1>6, <1>7, <1>8, <1>9, <1>10, <1>11 DEF DataUp

(***************************************************************************)
(* What qsdk_th does: types.                                               *)
(***************************************************************************)
LEMMA QsdkType == TypeOK /\ ListState /\ DuLock /\ Qsdk => TypeOK'
<1> SUFFICES ASSUME TypeOK, ListState, DuLock, Qsdk PROVE TypeOK'
  OBVIOUS
<1> USE Bounds DEF TypeOK, AtCalls, Sleeps, Ready, Flags, Registration
<1>1. CASE RebootReported
  <2>1. /\ net_pc' \in AtCalls \cup Sleeps \cup Ready
        /\ event_status' \subseteq Flags /\ net_error' \subseteq Flags
        /\ UNCHANGED <<recon_count, nb_test, net_count>>
    BY <1>1, EventSendType DEF RebootReported, net
  <2>2. nb_event' \in BOOLEAN /\ reboot_open' \in BOOLEAN
    BY <1>1 DEF RebootReported
  <2> QED
    BY <1>1, <2>1, <2>2 DEF RebootReported, data_up, at_lock, history, mqtt_device
<1>2. CASE OpenReported
  BY <1>2 DEF OpenReported, net, data_up, at_lock, history, nb_device_table, mqtt_device, others
<1>3. CASE PubackReported
  BY <1>3 DEF PubackReported, net, data_up, at_lock, history, nb_device_table, mqtt_device, others
<1>4. CASE PingReported
  BY <1>4 DEF PingReported, net, data_up, at_lock, history, nb_device_table, mqtt_device, others
<1>5. CASE LinkLost
  BY <1>5 DEF LinkLost, net, data_up, at_lock, history, nb_device_table, mqtt_device, others
<1>6. CASE ReconnectAsked
  BY <1>6 DEF ReconnectAsked, net, data_up, at_lock, history, nb_device_table, mqtt_device, others
<1>7. CASE QsdkTake
  <2>1. lock' \in Users \cup {"free"} /\ lock_list' \in Seq(Users)
    BY <1>7, TakeList DEF QsdkTake, Users, Waiting
  <2> QED
    BY <1>7, <2>1 DEF QsdkTake, net, data_up, history, nb_device_table, mqtt_device, others
<1>8. CASE QsdkAnswered
  <2>1. /\ lock' \in Users \cup {"free"} /\ lock_list' \in Seq(Users)
        /\ du_stat' \in {"init", "ready", "blocked", "stopped"}
        /\ UNCHANGED <<du_pc, du_count, at_ok>>
    BY <1>8, ReleaseOther DEF QsdkAnswered, history
  <2> QED
    BY <1>8, <2>1 DEF QsdkAnswered, net, history, mqtt_device
<1> QED
  BY <1>1, <1>2, <1>3, <1>4, <1>5, <1>6, <1>7, <1>8 DEF Qsdk

(***************************************************************************)
(* What qsdk_th does: the invariant.                                       *)
(***************************************************************************)
LEMMA QsdkInv == Inv /\ Qsdk => Inv'
<1> SUFFICES ASSUME Inv, Qsdk PROVE Inv'
  OBVIOUS
<1>0. TypeOK /\ TypeOK'
  BY QsdkType DEF Inv
<1>1. CASE RebootReported
  <2>1. UNCHANGED <<data_up, at_lock, history>>
        /\ (EventSend("NB_REBOOT") \/ UNCHANGED <<net, net_error>>)
    BY <1>1 DEF RebootReported
  <2>2. ListState' /\ NetLock' /\ DuLock'
    BY <2>1, LockKept DEF EventSend, net, data_up, at_lock, history, Inv, AtCalls
  <2>3. ReconCount' /\ DataUpState' /\ NoLostEvent'
    BY <2>1 DEF EventSend, net, data_up, history, Inv, ReconCount, DataUpState, NoLostEvent,
                Connecting, Rebooting, Recovering
  <2> QED
    BY <1>0, <2>2, <2>3 DEF Inv
<1>2. CASE OpenReported \/ PubackReported \/ PingReported \/ LinkLost \/ ReconnectAsked
  <2>1. UNCHANGED <<net, data_up, at_lock, history, net_error>>
    BY <1>2 DEF OpenReported, PubackReported, PingReported, LinkLost, ReconnectAsked, others
  <2>2. ListState' /\ NetLock' /\ DuLock'
    BY <2>1, LockKept DEF net, data_up, at_lock, history, Inv
  <2>3. ReconCount' /\ DataUpState' /\ NoLostEvent'
    BY <2>1 DEF net, data_up, history, Inv, ReconCount, DataUpState, NoLostEvent
  <2> QED
    BY <1>0, <2>2, <2>3 DEF Inv
<1>3. CASE QsdkTake
  <2>1. UNCHANGED <<net, data_up, history, net_error>>
    BY <1>3 DEF QsdkTake, others
  <2>2. /\ IsInjective(lock_list') /\ lock # "qsdk"
        /\ \/ lock = "free" /\ lock' = "qsdk" /\ Waiting' = Waiting
           \/ lock # "free" /\ lock' = lock /\ Waiting' = Waiting \cup {"qsdk"}
    BY <1>3, TakeList DEF QsdkTake, Users, Waiting, Inv
  <2>3. "qsdk" \notin Waiting
    BY <1>3 DEF QsdkTake, Waiting
  <2>4. ListState' /\ NetLock'
    BY <2>1, <2>2, <2>3 DEF net, Inv, ListState, NetLock
  <2>5. DuLock'
    BY <2>1, <2>2 DEF data_up, history, Inv, DuLock
  <2>6. ReconCount' /\ DataUpState' /\ NoLostEvent'
    BY <2>1 DEF net, data_up, history, Inv, ReconCount, DataUpState, NoLostEvent
  <2> QED
    BY <1>0, <2>4, <2>5, <2>6 DEF Inv
<1>4. CASE QsdkAnswered
  <2>1. lock = "qsdk" /\ ReleaseByOther /\ UNCHANGED <<net, history, net_error>>
    BY <1>4 DEF QsdkAnswered
  <2>2. /\ ListState' /\ DuLock'
        /\ lock' = "net" \/ "net" \in Waiting' => "net" \in Waiting
        /\ du_stat' = du_stat \/ (du_stat = "blocked" /\ du_stat' = "ready")
        /\ UNCHANGED du_pc
    BY <2>1, ReleaseOther DEF Inv, history
  <2>3. NetLock'
    BY <2>1, <2>2 DEF net, Inv, NetLock
  <2>4. ReconCount' /\ DataUpState' /\ NoLostEvent'
    BY <2>1, <2>2 DEF net, history, Inv, ReconCount, DataUpState, NoLostEvent
  <2> QED
    BY <1>0, <2>2, <2>3, <2>4 DEF Inv
<1> QED
  BY <1>1, <1>2, <1>3, <1>4 DEF Qsdk

(***************************************************************************)
(* Every step of the firmware keeps the invariant.                         *)
(***************************************************************************)
LEMMA NextInv == Inv /\ [Next]_vars => Inv'
<1> SUFFICES ASSUME Inv, [Next]_vars PROVE Inv'
  OBVIOUS
<1>1. CASE NetTake
  <2>1. UNCHANGED <<net, data_up, history, nb_device_table, mqtt_device, others>>
    BY <1>1 DEF NetTake
  <2>2. /\ lock' \in Users \cup {"free"} /\ lock_list' \in Seq(Users)
        /\ IsInjective(lock_list') /\ lock # "net"
        /\ \/ lock = "free" /\ lock' = "net" /\ Waiting' = Waiting
           \/ lock # "free" /\ lock' = lock /\ Waiting' = Waiting \cup {"net"}
    BY <1>1, TakeList DEF NetTake, Users, Waiting, Inv
  <2>3. "net" \notin Waiting /\ net_pc \in AtCalls
    BY <1>1 DEF NetTake, Waiting
  <2>4. TypeOK'
    BY <2>1, <2>2 DEF net, data_up, history, nb_device_table, mqtt_device, others, Inv, TypeOK
  <2>5. ListState' /\ NetLock'
    BY <2>1, <2>2, <2>3 DEF net, Inv, ListState, NetLock
  <2>6. DuLock'
    BY <2>1, <2>2 DEF data_up, history, Inv, DuLock
  <2>7. ReconCount' /\ DataUpState' /\ NoLostEvent'
    BY <2>1 DEF net, data_up, history, others, Inv, ReconCount, DataUpState, NoLostEvent
  <2> QED
    BY <2>4, <2>5, <2>6, <2>7 DEF Inv
<1>2. CASE SendData
  <2>1. TypeOK'
    BY <1>2, Bounds DEF SendData, Inv, TypeOK, net, at_lock, history, nb_device_table,
                mqtt_device
  <2>2. ListState' /\ NetLock' /\ DuLock'
    BY <1>2, LockKept DEF SendData, net, at_lock, history, Inv
  <2>3. ReconCount' /\ DataUpState' /\ NoLostEvent'
    BY <1>2 DEF SendData, net, history, Inv, TypeOK, ReconCount, DataUpState, NoLostEvent
  <2> QED
    BY <2>1, <2>2, <2>3 DEF Inv
<1>3. CASE UNCHANGED vars
  <2>1. TypeOK'
    BY <1>3 DEF Inv, TypeOK, vars, net, data_up, at_lock, history, nb_device_table,
                mqtt_device, others
  <2>2. ListState' /\ NetLock' /\ DuLock'
    BY <1>3, LockKept DEF vars, net, data_up, at_lock, history, Inv
  <2>3. ReconCount' /\ DataUpState' /\ NoLostEvent'
    BY <1>3 DEF vars, net, data_up, history, others, Inv, ReconCount, DataUpState, NoLostEvent
  <2> QED
    BY <2>1, <2>2, <2>3 DEF Inv
<1> QED
  BY <1>1, <1>2, <1>3, NetReturnsInv, NetRunsInv, DataUpInv, QsdkInv DEF Next

\* The invariant holds of every behaviour.
THEOREM Invariance == Spec => []Inv
BY InitInv, NextInv, PTL DEF Spec

\* Every variable keeps its type: the polling counters, the topic table and the
\* mailbox stay within their bounds, and the status flags are 0 or 1.
THEOREM TypeCorrect == Spec => []TypeOK
<1>1. Inv => TypeOK
  BY DEF Inv
<1> QED
  BY <1>1, Invariance, PTL

\* rt_thread_startup(data_up) is called once, on a thread that never ran.
THEOREM StartupOnce == Spec => []StartedOnce
<1>1. Inv => StartedOnce
  BY DEF Inv, ReconCount, StartedOnce, Connecting
<1> QED
  BY <1>1, Invariance, PTL

\* net_entry never waits for events while data_up is left suspended, nor while
\* an event is pending.
THEOREM NobodyIsForgotten == Spec => []NobodyForgotten
<1>1. Inv => NobodyForgotten
  BY DEF Inv, TypeOK, ReconCount, DataUpState, NobodyForgotten, DataUpNotAbandoned, Connecting
<1> QED
  BY <1>1, Invariance, PTL

\* A failed publication is repaired while data_up stands still, unless data_up
\* wrote its next command with the priority of a waiting qsdk_th before
\* net_entry came to suspend it.
THEOREM RepairAlone == Spec => []DataUpSuspended
<1>1. Inv => DataUpSuspended
  BY DEF Inv, DataUpState, DataUpSuspended
<1> QED
  BY <1>1, Invariance, PTL

\* With three users of nb_client->lock: nobody waits for a free lock, and data_up
\* is past rt_mutex_take in at_obj_exec_cmd only as the owner, or because
\* rt_thread_resume took it off the lock's list during this very command.
THEOREM Exclusive == Spec => []AtExclusive
<1>1. Inv => AtExclusive
  BY EmptyList DEF Inv, ListState, DuLock, AtExclusive
<1> QED
  BY <1>1, Invariance, PTL

-----------------------------------------------------------------------------
(* The door and the gas alarm, for all delays, thresholds and voltages.      *)

USE DEF door, command, lamp, gas

\* Whoever found the door closed and opened it closes it in time: as long as the
\* door is open, the camera or the server has a delay that began no later.
Opener ==
    /\ ~SUO => open_for = 0
    /\ SUO => \/ serial = "opened" /\ open_for = 0
              \/ serial = "delay" /\ open_for + camera_left <= CameraOpen
              \/ qsdk = "delay" /\ open_for + server_left <= ServerOpen

\* Between the two writes of the closing camera only a command opens the door.
Reported ==
    /\ serial = "closed" /\ qsdk = "idle" => ~SUO
    /\ serial = "recv" /\ qsdk = "idle" => door_sta = SUO

\* Below WarnOn the counter of the alarm is the length of the row.
Counted ==
    /\ high < WarnOn => ppm_warn = high /\ shown # "Warn"
    /\ high = WarnOn => shown = "Warn"

\* The variables that only take the values TRUE and FALSE.
Switches ==
    /\ SUO \in BOOLEAN /\ door_sta \in BOOLEAN /\ Fengshan \in BOOLEAN
    /\ LED3 \in BOOLEAN /\ ledflag \in BOOLEAN /\ auto_flag \in BOOLEAN

\* The initial values have the types.
LEMMA HomeTypeInit == HomeInit => HomeTypeOK
  <1>1. HomeInit => Switches
    BY Zenon DEF HomeInit, Switches
  <1>. QED
    BY <1>1, DelayAssumption, RxAssumption, WarnAssumption DEF HomeInit, HomeTypeOK, Switches

\* Every action keeps the types of the switches.
LEMMA SwitchesStep == Switches /\ [HomeNext]_home => Switches'
  <1> SUFFICES ASSUME Switches, [HomeNext]_home PROVE Switches'
    OBVIOUS
  <1> USE DEF Switches
  <1>1. CASE uart_input \/ SerialRecv \/ SerialReportOpen \/ SerialClose \/ SerialReportClosed
    BY <1>1, Zenon DEF uart_input, SerialRecv, SerialReportOpen, SerialClose, SerialReportClosed
  <1>2. ASSUME NEW is_auto \in BOOLEAN, NEW light_sw \in BOOLEAN, NEW sm_light \in 0..2,
               NEW dool \in 0..2, NEW k210 \in {0, 1, 22}, NEW f \in 0..1,
               qsdk_mqtt_data_callback(is_auto, light_sw, sm_light, dool, k210, f)
        PROVE  Switches'
    <2>1. auto_flag' \in BOOLEAN /\ LED3' \in BOOLEAN /\ ledflag' \in BOOLEAN
      BY <1>2, Zenon DEF qsdk_mqtt_data_callback, CommandLamp
    <2>2. SUO' \in BOOLEAN /\ door_sta' \in BOOLEAN
      BY <1>2, Zenon DEF qsdk_mqtt_data_callback, CloseDoor
    <2>3. Fengshan' \in BOOLEAN
      BY <1>2, Zenon DEF qsdk_mqtt_data_callback, CommandFan
    <2>. QED  BY <2>1, <2>2, <2>3, Zenon
  <1>3. CASE CommandEnds
    BY <1>3, Zenon DEF CommandEnds, CloseDoor, CommandFan
  <1>4. ASSUME NEW dark \in BOOLEAN, LuxSample(dark) PROVE Switches'
    BY <1>4, Zenon DEF LuxSample
  <1>5. ASSUME NEW volt \in Volts, GasSample(volt) PROVE Switches'
    BY <1>5, Zenon DEF GasSample
  <1>6. CASE LuxSwitch \/ LuxReport \/ Second \/ UNCHANGED home
    BY <1>6, Zenon DEF LuxSwitch, LuxReport, Second, home
  <1>. QED  BY <1>1, <1>2, <1>3, <1>4, <1>5, <1>6 DEF HomeNext

\* Every action keeps the types.
LEMMA HomeTypeStep == HomeTypeOK /\ [HomeNext]_home => HomeTypeOK'
  <1> SUFFICES ASSUME HomeTypeOK, [HomeNext]_home PROVE HomeTypeOK'
    OBVIOUS
  <1> USE DelayAssumption, RxAssumption, WarnAssumption, GasAssumption DEF HomeTypeOK
  <1>0. SUO' \in BOOLEAN /\ door_sta' \in BOOLEAN /\ Fengshan' \in BOOLEAN
        /\ LED3' \in BOOLEAN /\ ledflag' \in BOOLEAN /\ auto_flag' \in BOOLEAN
    BY SwitchesStep DEF Switches
  <1>1. CASE uart_input
    BY <1>0, <1>1 DEF uart_input
  <1>2. CASE SerialRecv
    BY <1>0, <1>2 DEF SerialRecv
  <1>3. CASE SerialReportOpen \/ SerialClose \/ SerialReportClosed
    BY <1>0, <1>3 DEF SerialReportOpen, SerialClose, SerialReportClosed
  <1>4. ASSUME NEW is_auto \in BOOLEAN, NEW light_sw \in BOOLEAN, NEW sm_light \in 0..2,
               NEW dool \in 0..2, NEW k210 \in {0, 1, 22}, NEW f \in 0..1,
               qsdk_mqtt_data_callback(is_auto, light_sw, sm_light, dool, k210, f)
        PROVE  HomeTypeOK'
    <2>1. open_for' \in Nat
      BY <1>4 DEF qsdk_mqtt_data_callback, CloseDoor
    <2>. QED  BY <1>0, <1>4, <2>1 DEF qsdk_mqtt_data_callback
  <1>5. CASE CommandEnds
    BY <1>0, <1>5 DEF CommandEnds, CloseDoor
  <1>6. ASSUME NEW dark \in BOOLEAN, LuxSample(dark) PROVE HomeTypeOK'
    BY <1>0, <1>6 DEF LuxSample, CountUp
  <1>7. CASE LuxSwitch \/ LuxReport
    BY <1>0, <1>7 DEF LuxSwitch, LuxReport
  <1>8. ASSUME NEW volt \in Volts, GasSample(volt) PROVE HomeTypeOK'
    BY <1>0, <1>8 DEF GasSample
  <1>9. CASE Second
    BY <1>0, <1>9 DEF Second, Idle
  <1>10. CASE UNCHANGED home
    BY <1>10 DEF home
  <1>. QED  BY <1>1, <1>2, <1>3, <1>4, <1>5, <1>6, <1>7, <1>8, <1>9, <1>10 DEF HomeNext

\* The door: only the camera, a command and the clock touch it.
LEMMA OpenerStep == HomeTypeOK /\ Opener /\ [HomeNext]_home => Opener'
  <1> SUFFICES ASSUME HomeTypeOK, Opener, [HomeNext]_home PROVE Opener'
    OBVIOUS
  <1> USE DelayAssumption DEF HomeTypeOK, Opener
  <1>1. CASE uart_input \/ SerialRecv
    BY <1>1 DEF uart_input, SerialRecv
  <1>2. CASE SerialReportOpen \/ SerialClose \/ SerialReportClosed
    BY <1>2 DEF SerialReportOpen, SerialClose, SerialReportClosed
  <1>3. ASSUME NEW is_auto \in BOOLEAN, NEW light_sw \in BOOLEAN, NEW sm_light \in 0..2,
               NEW dool \in 0..2, NEW k210 \in {0, 1, 22}, NEW f \in 0..1,
               qsdk_mqtt_data_callback(is_auto, light_sw, sm_light, dool, k210, f)
        PROVE  Opener'
    BY <1>3 DEF qsdk_mqtt_data_callback, CloseDoor
  <1>4. CASE CommandEnds
    BY <1>4 DEF CommandEnds, CloseDoor
  <1>5. CASE Second
    BY <1>5 DEF Second, Idle
  <1>6. ASSUME NEW dark \in BOOLEAN, LuxSample(dark) PROVE Opener'
    BY <1>6 DEF LuxSample
  <1>7. ASSUME NEW volt \in Volts, GasSample(volt) PROVE Opener'
    BY <1>7 DEF GasSample
  <1>8. CASE LuxSwitch \/ LuxReport \/ UNCHANGED home
    BY <1>8 DEF LuxSwitch, LuxReport, home
  <1>. QED  BY <1>1, <1>2, <1>3, <1>4, <1>5, <1>6, <1>7, <1>8 DEF HomeNext

\* Lock and report: each opener that ends leaves both closed.
LEMMA ReportedStep == HomeTypeOK /\ Reported /\ [HomeNext]_home => Reported'
  <1> SUFFICES ASSUME HomeTypeOK, Reported, [HomeNext]_home PROVE Reported'
    OBVIOUS
  <1> USE DEF HomeTypeOK, Reported
  <1>1. CASE uart_input \/ SerialRecv
    BY <1>1 DEF uart_input, SerialRecv
  <1>2. CASE SerialReportOpen \/ SerialClose \/ SerialReportClosed
    BY <1>2 DEF SerialReportOpen, SerialClose, SerialReportClosed
  <1>3. ASSUME NEW is_auto \in BOOLEAN, NEW light_sw \in BOOLEAN, NEW sm_light \in 0..2,
               NEW dool \in 0..2, NEW k210 \in {0, 1, 22}, NEW f \in 0..1,
               qsdk_mqtt_data_callback(is_auto, light_sw, sm_light, dool, k210, f)
        PROVE  Reported'
    BY <1>3 DEF qsdk_mqtt_data_callback, CloseDoor
  <1>4. CASE CommandEnds
    BY <1>4, Zenon DEF CommandEnds, CloseDoor
  <1>5. CASE Second
    BY <1>5 DEF Second
  <1>6. ASSUME NEW dark \in BOOLEAN, LuxSample(dark) PROVE Reported'
    BY <1>6 DEF LuxSample
  <1>7. ASSUME NEW volt \in Volts, GasSample(volt) PROVE Reported'
    BY <1>7 DEF GasSample
  <1>8. CASE LuxSwitch \/ LuxReport \/ UNCHANGED home
    BY <1>8 DEF LuxSwitch, LuxReport, home
  <1>. QED  BY <1>1, <1>2, <1>3, <1>4, <1>5, <1>6, <1>7, <1>8 DEF HomeNext

\* The alarm: only a sample of the gas sensor touches it.
LEMMA CountedStep == HomeTypeOK /\ Counted /\ [HomeNext]_home => Counted'
  <1> SUFFICES ASSUME HomeTypeOK, Counted, [HomeNext]_home PROVE Counted'
    OBVIOUS
  <1> USE WarnAssumption, GasAssumption DEF HomeTypeOK, Counted
  <1>1. ASSUME NEW volt \in Volts, GasSample(volt) PROVE Counted'
    BY <1>1 DEF GasSample
  <1>2. CASE UNCHANGED gas
    BY <1>2
  <1>3. (\E volt \in Volts : GasSample(volt)) \/ UNCHANGED gas
    BY DEF HomeNext, uart_input, SerialRecv, SerialReportOpen, SerialClose, SerialReportClosed,
           qsdk_mqtt_data_callback, CommandEnds, LuxSample, LuxSwitch, LuxReport, Second, home
  <1>. QED  BY <1>1, <1>2, <1>3

HomeInv == HomeTypeOK /\ Opener /\ Reported /\ Counted

\* All of it holds in every reachable state.
LEMMA HomeInvariance == HomeSpec => []HomeInv
  <1>1. HomeInit => HomeInv
    <2>1. HomeInit => Reported
      BY Zenon DEF HomeInit, Reported
    <2>. QED  BY <2>1, HomeTypeInit, WarnAssumption DEF HomeInit, HomeInv, Opener, Counted
  <1>2. HomeInv /\ [HomeNext]_home => HomeInv'
    BY HomeTypeStep, OpenerStep, ReportedStep, CountedStep DEF HomeInv
  <1>. QED  BY <1>1, <1>2, PTL DEF HomeSpec

\* Whatever the delays of the camera (app_k210.c) and of the server
\* (nb_callback.c) and however they overlap, the door is never open without a
\* break for longer than the longer one, nor open with nobody to close it.
THEOREM DoorIsClosed == HomeSpec => []DoorCloses
  <1>1. HomeInv => DoorCloses
    BY DelayAssumption DEF HomeInv, HomeTypeOK, Opener, DoorCloses, Longest
  <1>. QED  BY <1>1, HomeInvariance, PTL

\* Once camera and server are done, door_sta tells the state of the lock.
THEOREM DoorIsReported == HomeSpec => []DoorReported
  <1>1. HomeInv => DoorReported
    BY DEF HomeInv, Reported, DoorReported
  <1>. QED  BY <1>1, HomeInvariance, PTL

\* The alarm of app_adc_thread_entry is shown from the WarnOn-th high reading in
\* a row on, for every threshold and in spite of the wrap of the counter.
THEOREM AlarmIsShown == HomeSpec => []WarnShown
  <1>1. HomeInv => WarnShown
    BY WarnAssumption DEF HomeInv, HomeTypeOK, Counted, WarnShown
  <1>. QED  BY <1>1, HomeInvariance, PTL
=============================================================================
