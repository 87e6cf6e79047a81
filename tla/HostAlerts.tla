----------------------------- MODULE HostAlerts -----------------------------
(***************************************************************************)
(* The alerts of one ingest worker about the host's connectivity           *)
(* (IngestWorker._deliver).  They travel over the network whose failure    *)
(* they report, so one that cannot be sent is held, and what is held is    *)
(* sent ahead of anything newer.  Alerts are numbered as they are raised:  *)
(* an odd one opens an outage, the next one says it is over.               *)
(***************************************************************************)
EXTENDS Integers, Sequences, SequencesExt

CONSTANTS
    Room,           \* _PENDING_ALERTS
    MaxAlerts,      \* bound: alerts raised
    MaxDeliveries   \* bound: messages that reach the operator

ASSUME HostAlertsAssumption ==
    Room \in Nat \ {0} /\ MaxAlerts \in Nat /\ MaxDeliveries \in Nat

VARIABLES
    raised,     \* alerts raised so far
    pending,    \* _pending_alerts
    queued,     \* the messages the running _deliver has still to send
    inbox,      \* what the operator has read, in order
    forgotten   \* history: alerts that no queue holds any more, undelivered

alertVars == <<raised, pending, queued, inbox, forgotten>>

Queue(new) == Append(pending, new)

\* An event is reported; _deliver takes everything held with it.
Deliver ==
    /\ queued = <<>> /\ raised < MaxAlerts
    /\ raised' = raised + 1
    /\ queued' = Queue(raised + 1)
    /\ pending' = <<>>
    /\ UNCHANGED <<inbox, forgotten>>

\* A send goes through, and the operator has read it.
Sent ==
    /\ queued # <<>> /\ Len(inbox) < MaxDeliveries
    /\ inbox' = Append(inbox, Head(queued))
    /\ queued' = Tail(queued)
    /\ UNCHANGED <<raised, pending, forgotten>>

\* Faulty variant of Kept: the message that failed is not held.
KeptAfter(messages) == Tail(messages)

\* Everything from the failed message on stays queued, in order.
Kept(messages) == messages

\* How many the deque drops of them: it is bounded, and its oldest go.
Over(kept) == IF Len(kept) > Room THEN Len(kept) - Room ELSE 0

\* A send raises, whether or not the message got there.
SendFails ==
    /\ queued # <<>>
    /\ \/ UNCHANGED inbox
       \/ Len(inbox) < MaxDeliveries /\ inbox' = Append(inbox, Head(queued))
    /\ LET kept == Kept(queued)
           over == Over(kept)
       IN  /\ pending' = SubSeq(kept, over + 1, Len(kept))
           /\ forgotten' = forgotten \union {kept[i] : i \in 1 .. over}
    /\ queued' = <<>>
    /\ UNCHANGED raised

\* A restart drops what is held.
Restarts ==
    /\ pending # <<>> \/ queued # <<>>
    /\ pending' = <<>> /\ queued' = <<>>
    /\ forgotten' = forgotten \union ToSet(pending) \union ToSet(queued)
    /\ UNCHANGED <<raised, inbox>>

AlertsInit ==
    /\ raised = 0 /\ pending = <<>> /\ queued = <<>> /\ inbox = <<>> /\ forgotten = {}

AlertsNext == Deliver \/ Sent \/ SendFails \/ Restarts

AlertsSpec == AlertsInit /\ [][AlertsNext]_alertVars

(***************************************************************************)
(* Properties.                                                             *)
(***************************************************************************)

\* Every variable has its type.
AlertsTypeOK ==
    /\ raised \in 0 .. MaxAlerts
    /\ pending \in BoundedSeq(1 .. MaxAlerts, Room)
    /\ queued \in BoundedSeq(1 .. MaxAlerts, Room + 1)
    /\ inbox \in BoundedSeq(1 .. MaxAlerts, MaxDeliveries)
    /\ forgotten \subseteq 1 .. MaxAlerts

\* The incident is read in the order it happened, through failed sends and
\* messages that arrive twice (ingest_worker.py _deliver).
ReadInOrder ==
    \A i \in DOMAIN inbox : i > 1 => inbox[i - 1] <= inbox[i]

\* No all-clear without its alarm: an alert that is read follows every earlier
\* one, but for those a restart or the bound of the queue has dropped.
NoLoneRecovery ==
    \A i \in DOMAIN inbox : 1 .. inbox[i] - 1 \subseteq ToSet(inbox) \union forgotten

\* An operator reads of an outage in order, and never of an end alone.
AlertsTellTheStory == ReadInOrder /\ NoLoneRecovery
=============================================================================
