---------------------------- MODULE ReplayCases ----------------------------
(***************************************************************************)
(* StreamReplay against what a replay is for, over every journal of up to  *)
(* MaxSeq envelopes, every cursor, every snapshot size and every window.   *)
(* The journal may have grown by one envelope since the head was read.     *)
(***************************************************************************)
EXTENDS StreamReplay, FiniteSets

CONSTANT MaxSeq           \* bound: the length of the journals

VARIABLES series, head, request, window

replayVars == <<series, head, request, window>>

SeqsOf(rows) == {rows[i].seq : i \in DOMAIN rows}
Current(len) == [i \in 1..len |-> 1]

ReplayInit ==
    /\ series = <<>> /\ head = [seq |-> 0, epoch |-> 1]
    /\ request = [kind |-> "history", n |-> 1, epoch |-> 0] /\ window = NoFloor

\* Another journal, with or without an envelope younger than the head.
Publishes ==
    /\ \E n \in 0..MaxSeq, later \in 0..1 :
          /\ head' = [head EXCEPT !.seq = n]
          /\ series' = Current(n + later)
    /\ window' \in 0..Len(series')
    /\ UNCHANGED request

Asks ==
    /\ request' \in [kind : {"history", "since"}, n : 0..(MaxSeq + 1), epoch : {NoEpoch, 1, 2}]
    /\ UNCHANGED <<series, head, window>>

ReplayNext == Publishes \/ Asks

ReplaySpec == ReplayInit /\ [][ReplayNext]_replayVars

Resumes == request.kind = "since" /\ ~Terminal(head, request)
Replayed == SeqsOf(PlanRows(series, head, request, window))
Owed == {s \in 1..head.seq : s > request.n}

\* A resumed consumer gets every committed envelope after its cursor, or is told
\* that the replay was cut: no silent partial fill, and the cut is where the
\* marker's oldest_available_seq says.
ReplayIsCompleteOrTruncated == Resumes =>
    IF Truncated(head, request, window)
    THEN Owed \cap Replayed = {s \in Owed : s >= Floor(head, window)}
    ELSE Owed \subseteq Replayed

\* A replay never repeats what the cursor already covers, arrives in seq order
\* without a hole, and is bounded by max_replay_frames however old the cursor.
ReplayIsOrderedAndBounded ==
    LET rows == PlanRows(series, head, request, window)
    IN  /\ Len(rows) <= MaxReplayFrames
        /\ \A i \in DOMAIN rows : rows[i].seq = rows[1].seq + i - 1
        /\ Resumes => \A s \in Replayed : s > request.n

\* What the connect contract promises of one replay.
ReplayKeepsItsWord == ReplayIsCompleteOrTruncated /\ ReplayIsOrderedAndBounded

\* A snapshot ends at the head it was read at, whatever the window holds, and no
\* further back than asked.
SnapshotEndsAtHead ==
    request.kind = "history" /\ request.n > 0 /\ head.seq > 0 /\ window <= head.seq
        => /\ head.seq \in Replayed
           /\ \A s \in Replayed : s <= head.seq /\ s > head.seq - request.n

\* A replay is complete or says that it is not, and a snapshot ends at the head
\* (stream_replay.py, stream_router.py latest).
StreamIsReplayed == ReplayKeepsItsWord /\ SnapshotEndsAtHead
=============================================================================
