---------------------------- MODULE BoundedFifo ----------------------------
(***************************************************************************)
(* What a mailbox, and a message queue, promise their users: a first-in    *)
(* first-out buffer that never holds more than Size mails.  Nothing is     *)
(* said of threads, waiting, or of how the buffer is stored.               *)
(***************************************************************************)
EXTENDS Integers, Sequences

CONSTANTS Mails, NoMail, Size

VARIABLES
    fifo,        \* the mails accepted and not yet delivered, oldest first
    delivered    \* the mail delivered last

vars == <<fifo, delivered>>

Init ==
    /\ fifo = <<>>
    /\ delivered = NoMail

Put(v) ==
    /\ Len(fifo) < Size
    /\ fifo' = Append(fifo, v)
    /\ UNCHANGED delivered

Get ==
    /\ fifo # <<>>
    /\ fifo' = Tail(fifo)
    /\ delivered' = Head(fifo)

Clear ==
    /\ fifo' = <<>>
    /\ UNCHANGED delivered

Next ==
    \/ \E v \in Mails : Put(v)
    \/ Get
    \/ Clear

Spec == Init /\ [][Next]_vars

\* A buffer that also takes an urgent entry, which goes before all others.
PutUrgent(v) ==
    /\ Len(fifo) < Size
    /\ fifo' = <<v>> \o fifo
    /\ UNCHANGED delivered

UrgentNext == Next \/ \E v \in Mails : PutUrgent(v)

UrgentSpec == Init /\ [][UrgentNext]_vars
=============================================================================
