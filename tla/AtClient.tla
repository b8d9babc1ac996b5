------------------------------ MODULE AtClient ------------------------------
(***************************************************************************)
(* The AT client (rt-thread/components/net/at/src/at_client.c) as the      *)
(* NB-IoT driver uses it: the threads of the firmware send commands, one   *)
(* at a time under client->lock, and wait on the semaphore resp_notice for *)
(* the parser thread to store the answer in the response object client->   *)
(* resp.  All of them share one response object, nb_resp, except that      *)
(* at_client_obj_wait_connect creates its own and deletes it at its end.   *)
(*                                                                         *)
(* One core with preemptive priorities: a thread moves only while no more  *)
(* urgent one is ready, so an action ends where a preemption or a timer    *)
(* interrupt can make a difference.  The modem is external: it may answer  *)
(* a command late or never.  An answer stands for its lines up to the      *)
(* final one; a line that a urc handler takes is no answer.                *)
(***************************************************************************)
EXTENDS RtIpcList

CONSTANTS
    Priority,    \* init_priority of every thread
    Parser,      \* the thread of client_parser; the other threads send commands
    Nobody,      \* RT_NULL
    Attempts,    \* commands at_client_obj_wait_connect sends: 2000 ms / 300 ms
    AnswersMax   \* answers on their way from the modem: a bound of the model

Callers == Threads \ {Parser}

ASSUME PriorityAssumption == Priority \in [Threads -> Nat]
ASSUME ParserAssumption == Parser \in Threads /\ Nobody \notin Threads
ASSUME AttemptsAssumption == Attempts \in Nat \ {0}
ASSUME AnswersMaxAssumption == AnswersMax \in Nat \ {0}

VARIABLES
    pc,                 \* where a caller stands
    kind,               \* its call: "exec" or "connect"
    tries,              \* attempts left to the owner, in at_client_obj_wait_connect
    owner, owner_priority, waiters,       \* client->lock
    resp,               \* client->resp: the caller whose response object it is
    resp_status,
    resp_notice,        \* value of the semaphore
    own,                \* the callers whose own response object exists
    nb_resp,            \* "used", or "freed" by at_delete_resp
    buf,                \* the answer in nb_resp
    answers,            \* the answers on their way
    parser_pc, line,    \* client_parser and the line it has read
    parser_resp         \* its local resp: "nb_resp" or "own"; "returned" or "freed"
                        \* once the call whose object it is has returned or freed it

caller == <<pc, kind, tries, own>>
lock == <<owner, owner_priority, waiters>>
response == <<resp, resp_status, resp_notice>>
parser == <<parser_pc, parser_resp, line>>
vars == <<caller, lock, response, nb_resp, buf, answers, parser>>

\* An answer is the caller whose last command it belongs to, or "old".
Answers == Callers \cup {"old"}

Init ==
    /\ pc = [t \in Callers |-> "idle"] /\ kind = [t \in Callers |-> "exec"] /\ tries = 0
    /\ own = {}
    /\ owner = Nobody /\ owner_priority = 0 /\ waiters = <<>>
    /\ resp = Nobody /\ resp_status = "OK" /\ resp_notice = 0
    /\ nb_resp = "used" /\ buf = "empty" /\ answers = <<>>
    /\ parser_pc = "getchar" /\ parser_resp = "none" /\ line = "old"

-----------------------------------------------------------------------------
(* The scheduler *)

Ready ==
    {t \in Callers : pc[t] \notin {"idle", "lock", "wait"}}
        \cup (IF parser_pc = "getchar" THEN {} ELSE {Parser})

\* current_priority: the owner of the lock inherits that of its waiters.
CurrentPriority(t) == IF t = owner THEN owner_priority ELSE Priority[t]

\* t has the processor.
Runs(t) == t \in Ready /\ \A u \in Ready : CurrentPriority(t) <= CurrentPriority(u)

At(t, here) == t \in Callers /\ pc[t] = here /\ Runs(t)

Goto(t, there) == pc' = [pc EXCEPT ![t] = there]

-----------------------------------------------------------------------------
(* client->lock *)

\* rt_mutex_take, waiting for ever; a waiter lends the owner its priority.
rt_mutex_take(t) ==
    \/ /\ owner = Nobody
       /\ owner' = t /\ owner_priority' = Priority[t]
       /\ Goto(t, "attach") /\ UNCHANGED waiters
    \/ /\ owner # Nobody
       /\ waiters' = ListSuspend(waiters, t, Priority)
       /\ owner_priority' = Min({owner_priority, Priority[t]})
       /\ Goto(t, "lock") /\ UNCHANGED owner

\* Mutant: the lock is freed although a thread waits for it.
ReleaseAndForget(t, there) ==
    /\ owner' = Nobody /\ owner_priority' = 0
    /\ Goto(t, there) /\ UNCHANGED waiters

\* rt_mutex_release by t, which goes on there: the first waiter is the owner.
rt_mutex_release(t, there) ==
    \/ /\ waiters = <<>>
       /\ owner' = Nobody /\ owner_priority' = 0
       /\ Goto(t, there) /\ UNCHANGED waiters
    \/ /\ waiters # <<>>
       /\ owner' = Head(waiters) /\ owner_priority' = Priority[Head(waiters)]
       /\ waiters' = Tail(waiters)
       /\ pc' = [pc EXCEPT ![t] = there, ![Head(waiters)] = "attach"]

-----------------------------------------------------------------------------
(* at_obj_exec_cmd and at_client_obj_wait_connect *)

\* A thread has a command to send; at_client_obj_wait_connect creates its object.
Call(t, k) ==
    /\ pc[t] = "idle"
    /\ Goto(t, "take") /\ kind' = [kind EXCEPT ![t] = k]
    /\ own' = IF k = "connect" THEN own \cup {t} ELSE own
    /\ UNCHANGED <<tries, lock, response, nb_resp, buf, answers, parser>>

Take(t) ==
    /\ At(t, "take") /\ rt_mutex_take(t)
    /\ UNCHANGED <<kind, tries, own, response, nb_resp, buf, answers, parser>>

\* client->resp = resp; at_obj_exec_cmd also resets resp_status.
Attach(t) ==
    /\ At(t, "attach") /\ Goto(t, "write")
    /\ resp' = t
    /\ resp_status' = IF kind[t] = "exec" THEN "OK" ELSE resp_status
    /\ tries' = Attempts - 1
    /\ UNCHANGED <<kind, own, lock, resp_notice, nb_resp, buf, answers, parser>>

\* Empty the response object and send the command.  What the modem answered
\* until now belongs to an earlier command; this one may never be answered.
Write(t) ==
    /\ At(t, "write") /\ Goto(t, "take_notice")
    /\ buf' = IF kind[t] = "exec" THEN "empty" ELSE buf
    /\ LET before == [i \in 1..Len(answers) |-> "old"]
       IN  \/ answers' = before
           \/ Len(answers) < AnswersMax /\ answers' = Append(before, t)
    /\ line' = "old"
    /\ UNCHANGED <<kind, tries, own, lock, response, nb_resp, parser_pc, parser_resp>>

\* rt_sem_take(client->resp_notice, resp->timeout).
TakeNotice(t) ==
    /\ At(t, "take_notice")
    /\ \/ resp_notice > 0 /\ resp_notice' = resp_notice - 1 /\ Goto(t, "woken")
       \/ resp_notice = 0 /\ UNCHANGED resp_notice /\ Goto(t, "wait")
    /\ UNCHANGED <<kind, tries, own, lock, resp, resp_status, nb_resp, buf, answers, parser>>

\* The timer of the waiting thread expires, in an interrupt.
Timeout(t) ==
    /\ pc[t] = "wait" /\ Goto(t, "late")
    /\ UNCHANGED <<kind, tries, own, lock, response, nb_resp, buf, answers, parser>>

\* Mutant: the response object stays attached after the call.
ExitAttached(t, there) ==
    /\ UNCHANGED resp
    /\ rt_mutex_release(t, there)

\* The end of both functions: client->resp = RT_NULL and the lock is released.
Exit(t, there) ==
    /\ resp' = Nobody
    /\ rt_mutex_release(t, there)

\* at_obj_exec_cmd returns; a line the parser has in its hands goes to nb_resp
\* all the same.
ExecExit(t, there) ==
    /\ kind[t] = "exec" /\ Exit(t, there)
    /\ parser_resp' = IF parser_resp = "nb_resp" THEN "returned" ELSE parser_resp
    /\ UNCHANGED own

\* at_client_obj_wait_connect deletes its object, which is still attached and
\* may be in the hands of the parser.
Delete(t, there) ==
    /\ kind[t] = "connect" /\ Goto(t, there)
    /\ own' = own \ {t}
    /\ parser_resp' = IF parser_resp = "own" THEN "freed" ELSE parser_resp
    /\ UNCHANGED <<resp, lock>>

\* rt_sem_take failed: at_obj_exec_cmd gives up, at_client_obj_wait_connect
\* tries again until its time is up.
Late(t) ==
    /\ At(t, "late")
    /\ \/ ExecExit(t, "idle") /\ resp_status' = "TIMEOUT" /\ UNCHANGED tries
       \/ /\ kind[t] = "connect" /\ tries > 0 /\ Goto(t, "write") /\ tries' = tries - 1
          /\ UNCHANGED <<own, lock, resp, resp_status, parser_resp>>
       \/ tries = 0 /\ Delete(t, "detach_late") /\ UNCHANGED <<tries, resp_status>>
    /\ UNCHANGED <<kind, resp_notice, nb_resp, buf, answers, parser_pc, line>>

\* rt_sem_take succeeded; a successful command is parsed after the release.
Woken(t) ==
    /\ At(t, "woken")
    /\ \/ ExecExit(t, IF resp_status = "OK" THEN "parse" ELSE "idle")
       \/ Delete(t, "detach")
    /\ UNCHANGED <<kind, tries, resp_status, resp_notice, nb_resp, buf, answers, parser_pc, line>>

\* The end of at_client_obj_wait_connect.
Detach(t) ==
    /\ \/ At(t, "detach") /\ Exit(t, "idle")
       \/ At(t, "detach_late") /\ Exit(t, "failed")
    /\ UNCHANGED <<kind, tries, own, resp_status, resp_notice, nb_resp, buf, answers, parser>>

\* The caller reads its result from nb_resp (at_resp_parse_line_args).
Parse(t) ==
    /\ At(t, "parse") /\ Goto(t, "idle")
    /\ UNCHANGED <<kind, tries, own, lock, response, nb_resp, buf, answers, parser>>

\* qsdk_nb_wait_connect, when the module does not answer.
DeleteResp(t) ==
    /\ At(t, "failed") /\ Goto(t, "idle")
    /\ nb_resp' = "freed"
    /\ UNCHANGED <<kind, tries, own, lock, response, buf, answers, parser>>

-----------------------------------------------------------------------------
(* client_parser *)

\* The uart interrupt gives the parser the next answer.
Receive ==
    /\ parser_pc = "getchar" /\ answers # <<>>
    /\ parser_pc' = "line" /\ line' = Head(answers) /\ answers' = Tail(answers)
    /\ UNCHANGED <<caller, lock, response, nb_resp, buf, parser_resp>>

\* Nobody waits for the line, or the response object of resp will take it.
Line ==
    /\ parser_pc = "line" /\ Runs(Parser)
    /\ \/ resp = Nobody /\ parser_pc' = "getchar" /\ UNCHANGED parser_resp
       \/ /\ resp # Nobody /\ parser_pc' = "copy"
          /\ parser_resp' = IF kind[resp] = "exec" THEN "nb_resp"
                            ELSE IF resp \in own THEN "own" ELSE "freed"
    /\ UNCHANGED <<caller, lock, response, nb_resp, buf, answers, line>>

\* The line is copied, and its end gives the status.
Copy ==
    /\ parser_pc = "copy" /\ Runs(Parser)
    /\ buf' = IF parser_resp \in {"nb_resp", "returned"} THEN line ELSE buf
    /\ resp_status' \in {"OK", "ERROR"}
    /\ parser_pc' = "notify"
    /\ UNCHANGED <<caller, lock, resp, resp_notice, nb_resp, answers, parser_resp, line>>

\* Mutant: the response object stays attached after its answer.
NotifyAttached ==
    /\ parser_pc = "notify" /\ Runs(Parser)
    /\ \/ /\ \E t \in Callers : pc[t] = "wait" /\ Goto(t, "woken")
          /\ UNCHANGED resp_notice
       \/ /\ \A t \in Callers : pc[t] # "wait"
          /\ resp_notice' = resp_notice + 1
          /\ UNCHANGED pc
    /\ parser_pc' = "getchar" /\ parser_resp' = "none"
    /\ UNCHANGED <<kind, tries, own, lock, resp, resp_status, nb_resp, buf, answers, line>>

\* Mutant: the semaphore only counts the answer and wakes nobody.
NotifyCounts ==
    /\ parser_pc = "notify" /\ Runs(Parser)
    /\ resp' = Nobody
    /\ resp_notice' = resp_notice + 1
    /\ parser_pc' = "getchar" /\ parser_resp' = "none"
    /\ UNCHANGED <<caller, lock, resp_status, nb_resp, buf, answers, line>>

\* client->resp = RT_NULL and rt_sem_release(client->resp_notice).
Notify ==
    /\ parser_pc = "notify" /\ Runs(Parser)
    /\ resp' = Nobody
    /\ \/ /\ \E t \in Callers : pc[t] = "wait" /\ Goto(t, "woken")
          /\ UNCHANGED resp_notice
       \/ /\ \A t \in Callers : pc[t] # "wait"
          /\ resp_notice' = resp_notice + 1
          /\ UNCHANGED pc
    /\ parser_pc' = "getchar" /\ parser_resp' = "none"
    /\ UNCHANGED <<kind, tries, own, lock, resp_status, nb_resp, buf, answers, line>>

-----------------------------------------------------------------------------
Step(t) ==
    \/ Take(t) \/ Attach(t) \/ Write(t) \/ TakeNotice(t)
    \/ Late(t) \/ Woken(t) \/ Detach(t) \/ Parse(t) \/ DeleteResp(t)

ParserStep == Line \/ Copy \/ Notify

Next ==
    \/ \E t \in Callers :
          \/ \E k \in {"exec", "connect"} : Call(t, k)
          \/ Step(t)
          \/ Timeout(t)
    \/ Receive
    \/ ParserStep

Spec == Init /\ [][Next]_vars

\* The scheduler gives a ready thread the processor once the more urgent ones
\* block, and a timer that was started expires.
Fairness ==
    /\ \A t \in Callers : SF_vars(Step(t)) /\ WF_vars(Timeout(t))
    /\ SF_vars(ParserStep)

FairSpec == Spec /\ Fairness

-----------------------------------------------------------------------------
(* Properties *)

\* Types of the variables.
TypeOK ==
    /\ pc \in [Callers -> {"idle", "take", "lock", "attach", "write", "take_notice",
                           "wait", "late", "woken", "detach", "detach_late", "parse",
                           "failed"}]
    /\ kind \in [Callers -> {"exec", "connect"}] /\ tries \in 0..Attempts-1
    /\ own \subseteq Callers
    /\ owner \in Callers \cup {Nobody} /\ owner_priority \in Nat /\ waiters \in Seq(Callers)
    /\ resp \in Callers \cup {Nobody} /\ resp_status \in {"OK", "ERROR", "TIMEOUT"}
    /\ resp_notice \in Nat
    /\ nb_resp \in {"used", "freed"} /\ buf \in Answers \cup {"empty"}
    /\ answers \in Seq(Answers) /\ Len(answers) <= AnswersMax
    /\ parser_pc \in {"getchar", "line", "copy", "notify"}
    /\ parser_resp \in {"none", "nb_resp", "own", "returned", "freed"} /\ line \in Answers

\* Where a caller holds the lock.
Inside == {"attach", "write", "take_notice", "wait", "late", "woken", "detach", "detach_late"}

\* The lock has one owner, which is inside, and every other caller that wants
\* it is on the list once: nobody is inside without it and nobody is forgotten.
LockConsistent ==
    /\ TypeOK
    /\ \A t \in Callers : pc[t] \in Inside <=> owner = t
    /\ IsInjective(waiters) /\ ToSet(waiters) = {t \in Callers : pc[t] = "lock"}
    /\ waiters # <<>> => owner # Nobody

\* client->resp, where the parser looks for the object of its next line, is
\* RT_NULL or the object of the call that holds the lock, through late answers,
\* retries and hand-overs, and that object exists until the call is about to
\* detach it.  A line the parser has already taken may still go to the object of
\* a call that is over (ParserInTime).
RespIsOwners ==
    resp # Nobody =>
        /\ resp = owner
        /\ kind[resp] = "connect" /\ pc[resp] \notin {"detach", "detach_late"} => resp \in own

\* The parser stores a line in the object of a call that is still in progress
\* ("at_response_t resp = client->resp" at at_client.c:730, used until :762).
ParserInTime ==
    parser_pc = "copy" => parser_resp \in {"nb_resp", "own"}

\* Answers that came too late leave at most one count in resp_notice between
\* two commands, and it never goes beyond two.
NoticeBounded ==
    resp_notice <= (IF owner = Nobody THEN 1 ELSE 2)

\* A caller that waits for an answer sleeps on an empty semaphore.
NoLostNotice ==
    (\E t \in Callers : pc[t] = "wait") => resp_notice = 0

\* A caller that waits for the lock gets it, and its command ends.
CommandEnds ==
    \A t \in Callers : pc[t] = "lock" ~> pc[t] \in {"idle", "parse", "failed"}

\* at_obj_exec_cmd returns 0 only when the response object holds the answer to
\* its command (at_client.c:267 and :273).
SuccessMeansAnswered ==
    [][\A t \in Callers : pc[t] = "woken" /\ pc'[t] = "parse" => buf = t]_vars

\* nb_resp is freed only once (rt_free asserts mem->used, mem.c:587).
NbRespFreedOnce ==
    [][\A t \in Callers : pc[t] = "failed" /\ pc'[t] # "failed" => nb_resp = "used"]_vars
=============================================================================
