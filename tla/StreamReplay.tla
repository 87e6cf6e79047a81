---------------------------- MODULE StreamReplay ----------------------------
(***************************************************************************)
(* What one connect resolves to (StreamReplay.plan): a pure function of    *)
(* the head, the request, the oldest seq inside the replay window and the  *)
(* rows of the journal.  A frame is [seq, epoch].                          *)
(***************************************************************************)
EXTENDS Integers, Sequences

CONSTANT MaxReplayFrames        \* stream.max_replay_frames, the volume bound

ASSUME ReplayAssumption == MaxReplayFrames \in Nat \ {0}

Larger(a, b) == IF a < b THEN b ELSE a
Smaller(a, b) == IF a < b THEN a ELSE b

\* The replay window holds nothing: oldest_seq_since answers None.
NoFloor == 0

\* envelopes_by_seq: at most limit frames of the series with seq > after, ascending.
Rows(series, after, limit) ==
    [i \in 1..Larger(0, Smaller(limit, Len(series) - after))
        |-> [seq |-> after + i, epoch |-> series[after + i]]]

\* A request is [kind |-> "history", n |-> N] (0 is live only) or
\* [kind |-> "since", n |-> seq, epoch |-> epoch], the epoch being optional.
NoEpoch == 0

\* Faulty variant of EpochMismatch: an earlier epoch counts as known history.
EpochUnknown(head, request) == request.epoch > head.epoch

EpochMismatch(head, request) ==
    request.epoch # NoEpoch /\ head.epoch # 0 /\ request.epoch # head.epoch

CursorAhead(head, request) == request.n > head.seq

\* The cursor is unusable: one control frame and the connection closes.
Terminal(head, request) ==
    /\ request.kind = "since"
    /\ EpochMismatch(head, request) \/ CursorAhead(head, request)

\* The oldest position a cursor may resume from, by age and by volume.
Floor(head, window) ==
    LET volume == Larger(1, head.seq - MaxReplayFrames + 1)
    IN  IF window = NoFloor THEN volume ELSE Larger(window, volume)

\* Faulty variant of Truncated: off by one, the first lost envelope is not told.
TruncatedLate(head, request, window) ==
    request.kind = "since" /\ request.n + 1 < Floor(head, window) - 1

Truncated(head, request, window) ==
    request.kind = "since" /\ request.n < Floor(head, window) - 1

\* _from_cursor: everything after the cursor, or after the floor if that is later.
SinceAfter(head, request, window) ==
    Larger(request.n, Floor(head, window) - 1)

SinceRows(series, head, request, window) ==
    LET after == SinceAfter(head, request, window)
    IN  Rows(series, after, Larger(1, head.seq - after))

\* _recent: the last n envelopes inside the window, the newest one always.
RecentRows(series, head, request, window) ==
    LET oldest == IF window = NoFloor THEN head.seq ELSE window
        after == Larger(Larger(head.seq - request.n, oldest - 1),
                        head.seq - MaxReplayFrames)
    IN  IF head.seq = 0 THEN <<>> ELSE Rows(series, after, head.seq - after)

\* The frames sent before the connection goes live.
PlanRows(series, head, request, window) ==
    IF request.kind = "since" THEN SinceRows(series, head, request, window)
    ELSE IF request.n = 0 THEN <<>>
    ELSE RecentRows(series, head, request, window)
=============================================================================
