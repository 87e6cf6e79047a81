------------------------- MODULE SignalStreamProofs -------------------------
(***************************************************************************)
(* Proofs about SignalStream: the fan-out knows exactly the open           *)
(* connections, a consumer that resumes does so in the history it was      *)
(* reading, and, where first subscribers attach one at a time and nobody   *)
(* restores the database under the dispatcher, no frame is skipped.        *)
(***************************************************************************)
EXTENDS SignalStream, TLAPS, SequenceTheorems

\* The head is the end of the series, and its epoch the greatest of the series.
HeadFits ==
    /\ head.seq = Len(series) /\ head.epoch <= restores + 1
    /\ head.epoch = 0 => series = <<>>
    /\ \A n \in 1..Len(series) : series[n] \in 1..head.epoch

\* The loop holds a batch exactly while it is about to fan it out, and reads from
\* a cursor only when there is one.
TailFits ==
    /\ tail = "fan" <=> batch # <<>>
    /\ cursor = Unseeded => subs = {} /\ tail \notin {"loop", "fan"}

StreamInv == StreamTypeOK /\ HeadFits /\ TailFits /\ RegisteredIffOpen

(***************************************************************************)
(* Frames and what is read of them.                                        *)
(***************************************************************************)

LEMMA FrameType ==
    /\ Cold \in Frame /\ Cold.seq = 0 /\ Cold.epoch = 0
    /\ Unseeded \notin Frame /\ Unseeded.seq = -1
    /\ Epoch \subseteq Nat /\ 0 \in Epoch /\ 1 \in Epoch
    /\ [seq : Nat, epoch : Epoch] \subseteq Frame
<1>1. Epoch \subseteq Nat /\ MaxRestores \in Nat /\ 0..(MaxRestores + 1) \subseteq Epoch
  BY EpochAssumption, StreamAssumption DEF EpochAssumption, StreamAssumption
<1>2. 0 \in Epoch /\ 1 \in Epoch
  BY <1>1
<1>3. Cold \in Frame /\ Cold.seq = 0 /\ Cold.epoch = 0
  BY DEF Cold, Frame
<1>4. Unseeded \notin Frame /\ Unseeded.seq = -1
  BY DEF Unseeded, Frame
<1>5. [seq : Nat, epoch : Epoch] \subseteq Frame
  BY <1>1 DEF Frame
<1> QED BY <1>1, <1>2, <1>3, <1>4, <1>5

\* A read of the rows answers consecutive frames of the series.
LEMMA RowsAreConsecutive ==
    ASSUME NEW s \in Seq(Epoch), NEW after \in Nat, NEW limit \in Int
    PROVE  /\ Rows(s, after, limit) \in Seq(Frame)
           /\ Len(Rows(s, after, limit)) = Larger(0, Smaller(limit, Len(s) - after))
           /\ \A i \in 1..Len(Rows(s, after, limit)) :
                /\ after + i \in 1..Len(s)
                /\ Rows(s, after, limit)[i] = [seq |-> after + i, epoch |-> s[after + i]]
<1> DEFINE n == Larger(0, Smaller(limit, Len(s) - after))
           rows == [i \in 1..n |-> [seq |-> after + i, epoch |-> s[after + i]]]
<1>1. Len(s) \in Nat /\ n \in Nat /\ (n > 0 => after + n <= Len(s))
  BY LenProperties DEF Larger, Smaller
<1>2. \A i \in 1..n : after + i \in 1..Len(s) /\ rows[i] \in Frame
  <2> TAKE i \in 1..n
  <2>1. after + i \in 1..Len(s)
    BY <1>1
  <2>2. s[after + i] \in Nat
    BY <2>1, ElementOfSeq, FrameType
  <2> QED BY <2>1, <2>2, <1>1 DEF Frame
<1>3. Rows(s, after, limit) = rows
  BY DEF Rows
<1>4. rows \in Seq(Frame) /\ Len(rows) = n
  <2>1. rows \in [1..n -> Frame]
    BY <1>2
  <2> HIDE DEF n, rows
  <2> QED BY <1>1, <2>1
<1> HIDE DEF n
<1> QED BY <1>1, <1>2, <1>3, <1>4 DEF n

\* The frame is what series s holds at its seq.
Holds(s, f) == f.seq \in 1..Len(s) /\ s[f.seq] = f.epoch

RequestType == [kind : {"history", "since"}, n : Nat, epoch : Nat]

\* What one connect replays is a stretch of the series.
LEMMA PlanRowsOfSeries ==
    ASSUME NEW s \in Seq(Epoch), NEW h \in Frame, NEW r \in RequestType, NEW window \in Nat
    PROVE  /\ PlanRows(s, h, r, window) \in Seq(Frame)
           /\ \A i \in 1..Len(PlanRows(s, h, r, window)) :
                LET f == PlanRows(s, h, r, window)[i]
                IN  f.seq \in 1..Len(s) /\ f.epoch = s[f.seq]
<1> DEFINE Stretch(rows) ==
        /\ rows \in Seq(Frame)
        /\ \A i \in 1..Len(rows) : rows[i].seq \in 1..Len(s) /\ rows[i].epoch = s[rows[i].seq]
<1>1. ASSUME NEW after \in Nat, NEW limit \in Int PROVE Stretch(Rows(s, after, limit))
  <2> DEFINE rows == Rows(s, after, limit)
  <2>1. rows \in Seq(Frame) /\ \A i \in 1..Len(rows) :
          after + i \in 1..Len(s) /\ rows[i] = [seq |-> after + i, epoch |-> s[after + i]]
    BY RowsAreConsecutive
  <2> HIDE DEF rows
  <2>2. \A i \in 1..Len(rows) : rows[i].seq \in 1..Len(s) /\ rows[i].epoch = s[rows[i].seq]
    <3> TAKE i \in 1..Len(rows)
    <3>1. after + i \in 1..Len(s) /\ rows[i] = [seq |-> after + i, epoch |-> s[after + i]]
      BY <2>1
    <3> QED BY <3>1
  <2>3. Stretch(rows)
    BY <2>1, <2>2
  <2> HIDE DEF Stretch
  <2> QED BY <2>3 DEF rows
<1>2. Stretch(<<>>)
  BY EmptySeq
<1>3. h.seq \in Nat /\ r.n \in Nat /\ MaxReplayFrames \in Nat \ {0}
  BY ReplayAssumption DEF Frame, RequestType, ReplayAssumption
<1>4. Stretch(SinceRows(s, h, r, window))
  <2> DEFINE after == SinceAfter(h, r, window)
  <2>1. after \in Nat
    BY <1>3 DEF SinceAfter, Floor, Larger
  <2> HIDE DEF after
  <2>2. Larger(1, h.seq - after) \in Int
    BY <1>3, <2>1 DEF Larger
  <2>3. Stretch(Rows(s, after, Larger(1, h.seq - after)))
    BY <1>1, <2>1, <2>2
  <2> QED BY <2>3 DEF SinceRows, after
<1>5. Stretch(RecentRows(s, h, r, window))
  <2>1. CASE h.seq = 0
    BY <2>1, <1>2 DEF RecentRows
  <2>2. CASE h.seq # 0
    <3> DEFINE oldest == IF window = NoFloor THEN h.seq ELSE window
               after == Larger(Larger(h.seq - r.n, oldest - 1), h.seq - MaxReplayFrames)
    <3>1. after \in Nat
      <4>1. oldest - 1 \in Nat
        BY <1>3, <2>2 DEF NoFloor
      <4>2. h.seq - r.n \in Int /\ h.seq - MaxReplayFrames \in Int
        BY <1>3
      <4> HIDE DEF oldest
      <4>3. \A a, b \in Int, m \in Nat : Larger(Larger(a, m), b) \in Nat
        BY DEF Larger
      <4> QED BY <4>1, <4>2, <4>3
    <3> HIDE DEF after
    <3>2. h.seq - after \in Int
      BY <1>3, <3>1
    <3> HIDE DEF Stretch
    <3>3. Stretch(Rows(s, after, h.seq - after))
      BY <1>1, <3>1, <3>2
    <3> QED BY <3>3, <2>2 DEF RecentRows, after
  <2> QED BY <2>1, <2>2
<1>6. Stretch(PlanRows(s, h, r, window))
  <2> HIDE DEF Stretch
  <2> QED BY <1>2, <1>4, <1>5 DEF PlanRows
<1> QED BY <1>6

(***************************************************************************)
(* Types, and where the dispatcher and the connections stand.              *)
(***************************************************************************)

LEMMA RequestsTyped == StreamTypeOK => Requests \subseteq RequestType /\ NoRequest \in RequestType
  /\ \A c \in Client : [kind |-> "since", n |-> mark[c].seq, epoch |-> mark[c].epoch] \in RequestType
<1>1. Histories \subseteq Nat
  BY StreamAssumption DEF StreamAssumption
<1>2. Requests \subseteq RequestType
  <2>1. \A n \in Histories : n \in Nat
    BY <1>1
  <2> SUFFICES ASSUME NEW r \in Requests PROVE r \in RequestType
    OBVIOUS
  <2>2. r \in [kind : {"history"}, n : Nat, epoch : {0}]
    BY <2>1 DEF Requests
  <2> QED BY <2>2 DEF RequestType
<1>4. NoRequest \in RequestType
  BY DEF NoRequest, RequestType
<1>3. ASSUME StreamTypeOK, NEW c \in Client
      PROVE  [kind |-> "since", n |-> mark[c].seq, epoch |-> mark[c].epoch] \in RequestType
  <2>1. mark[c] \in Frame
    BY <1>3 DEF StreamTypeOK
  <2>2. mark[c].seq \in Nat /\ mark[c].epoch \in Nat
    BY <2>1 DEF Frame
  <2> QED BY <2>2 DEF RequestType
<1> QED BY <1>2, <1>3, <1>4

SessionsTyped ==
    /\ subs \subseteq Client
    /\ queue \in [Client -> Seq(Frame)] /\ \A c \in Client : Len(queue[c]) <= QueueSize
    /\ dropped \in [Client -> BOOLEAN]
    /\ conn \in [Client -> ConnPhase]
    /\ request \in [Client -> RequestType]
    /\ seen \in [Client -> Frame] /\ mark \in [Client -> Frame] /\ last \in [Client -> Frame]
    /\ sent \in [Client -> Nat] /\ epochOf \in [Client -> Nat]

TailTyped ==
    /\ series \in Seq(Epoch) /\ head \in [seq : Nat, epoch : Epoch]
    /\ tail \in TailPhase /\ cursor \in Frame \cup {Unseeded}
    /\ batch \in Seq(Frame) /\ notified \in BOOLEAN
    /\ failures \in 0..MaxFailures /\ restores \in 0..MaxRestores

LEMMA TypeParts == StreamTypeOK <=> SessionsTyped /\ TailTyped
BY DEF StreamTypeOK, SessionsTyped, TailTyped, RequestType

\* What a connection leaves when it ends is typed.
LEMMA CloseTyped ==
    ASSUME SessionsTyped, NEW c \in Client, Close(c), mark' \in [Client -> Frame],
           last' \in [Client -> Frame]
    PROVE  SessionsTyped'
<1>1. QueueSize \in Nat /\ NoRequest \in RequestType /\ <<>> \in Seq(Frame) /\ Len(<<>>) = 0
  BY StreamAssumption, EmptySeq DEF StreamAssumption, NoRequest, RequestType
<1>2. subs' \subseteq Client /\ queue' \in [Client -> Seq(Frame)] /\ dropped' \in [Client -> BOOLEAN]
  BY <1>1 DEF SessionsTyped, Close
<1>3. \A d \in Client : Len(queue'[d]) <= QueueSize
  BY <1>1 DEF SessionsTyped, Close
<1>4. conn' \in [Client -> ConnPhase] /\ request' \in [Client -> RequestType]
  BY <1>1 DEF SessionsTyped, Close, ConnPhase
<1>5. seen' \in [Client -> Frame] /\ sent' \in [Client -> Nat] /\ epochOf' \in [Client -> Nat]
  BY FrameType DEF SessionsTyped, Close
<1> QED BY <1>2, <1>3, <1>4, <1>5 DEF SessionsTyped

LEMMA AttachTyped ==
    ASSUME SessionsTyped, NEW c \in Client, Attach(c), request' \in [Client -> RequestType],
           UNCHANGED <<seen, sent, epochOf, consumerVars>>
    PROVE  SessionsTyped'
<1>1. QueueSize \in Nat /\ <<>> \in Seq(Frame) /\ Len(<<>>) = 0
  BY StreamAssumption, EmptySeq DEF StreamAssumption
<1>2. subs' \subseteq Client /\ queue' \in [Client -> Seq(Frame)] /\ dropped' \in [Client -> BOOLEAN]
  BY <1>1 DEF SessionsTyped, Attach
<1>3. \A d \in Client : Len(queue'[d]) <= QueueSize
  BY <1>1 DEF SessionsTyped, Attach
<1>4. conn' \in [Client -> ConnPhase]
  BY DEF SessionsTyped, Attach, ConnPhase
<1> QED BY <1>2, <1>3, <1>4 DEF SessionsTyped, consumerVars

\* What a subscriber's queue takes of a batch fits into it.
LEMMA FittingTyped ==
    ASSUME SessionsTyped, TailTyped, NEW c \in Client
    PROVE  /\ Fitting(c) \in Seq(Frame) /\ queue[c] \o Fitting(c) \in Seq(Frame)
           /\ Len(Fitting(c)) = Smaller(Room(c), Len(batch))
           /\ \A i \in 1..Len(Fitting(c)) : Fitting(c)[i] = batch[i]
           /\ Len(queue[c] \o Fitting(c)) = Len(queue[c]) + Len(Fitting(c))
           /\ Len(queue[c] \o Fitting(c)) <= QueueSize
<1> DEFINE n == Smaller(Room(c), Len(batch))
<1>1. /\ QueueSize \in Nat /\ batch \in Seq(Frame) /\ Len(batch) \in Nat
      /\ queue[c] \in Seq(Frame) /\ Len(queue[c]) \in Nat /\ Len(queue[c]) <= QueueSize
  <2>1. QueueSize \in Nat
    BY StreamAssumption DEF StreamAssumption
  <2>2. batch \in Seq(Frame) /\ queue[c] \in Seq(Frame) /\ Len(queue[c]) <= QueueSize
    BY DEF SessionsTyped, TailTyped
  <2> QED BY <2>1, <2>2, LenProperties
<1>2. n \in 0..Len(batch) /\ Len(queue[c]) + n <= QueueSize
  <2>1. Room(c) \in Nat /\ Len(queue[c]) + Room(c) = QueueSize
    BY <1>1 DEF Room
  <2> QED BY <1>1, <2>1 DEF Smaller
<1> HIDE DEF n
<1>3. \A i \in 1..n : batch[i] \in Frame
  BY <1>1, <1>2, ElementOfSeq
<1>4. /\ SubSeq(batch, 1, n) \in Seq(Frame) /\ Len(SubSeq(batch, 1, n)) = n
      /\ \A i \in 1..n : SubSeq(batch, 1, n)[i] = batch[i]
  BY <1>1, <1>2, <1>3, SubSeqProperties
<1>5. Fitting(c) = SubSeq(batch, 1, n)
  BY DEF Fitting, n
<1>6. /\ queue[c] \o Fitting(c) \in Seq(Frame)
      /\ Len(queue[c] \o Fitting(c)) = Len(queue[c]) + n
  BY <1>1, <1>4, <1>5, ConcatProperties
<1> QED BY <1>2, <1>4, <1>5, <1>6 DEF n

\* The last frame of the replay, if there is one, is of the series, and the consumer's
\* mark is that frame or the head it was planned from.
LEMMA GoLiveReplays ==
    ASSUME SessionsTyped, TailTyped, NEW c \in Client, GoLive(c)
    PROVE  \E final \in Frame :
             /\ final = Cold \/ Holds(series, final)
             /\ seen[c].seq = 0 /\ request[c].kind # "since" => final = Cold
             /\ sent' = [sent EXCEPT ![c] = final.seq]
             /\ mark' = [mark EXCEPT ![c] =
                            [seq |-> Larger(final.seq, seen[c].seq), epoch |-> seen[c].epoch]]
             /\ \/ last' = [last EXCEPT ![c] = final]
                \/ request[c].kind = "since" /\ last' = last
<1>1. PICK window \in Windows(seen[c]) :
        LET rows == PlanRows(series, seen[c], request[c], window)
            final == IF rows = <<>> THEN Cold ELSE rows[Len(rows)]
        IN  /\ sent' = [sent EXCEPT ![c] = final.seq]
            /\ mark' = [mark EXCEPT ![c] =
                           [seq |-> Larger(final.seq, seen[c].seq), epoch |-> seen[c].epoch]]
            /\ last' = [last EXCEPT ![c] = 
                           IF request[c].kind = "since" /\ rows = <<>> THEN @ ELSE final]
  BY DEF GoLive
<1> DEFINE rows == PlanRows(series, seen[c], request[c], window)
           final == IF rows = <<>> THEN Cold ELSE rows[Len(rows)]
<1>2. series \in Seq(Epoch) /\ seen[c] \in Frame /\ request[c] \in RequestType /\ window \in Nat
  BY <1>1 DEF SessionsTyped, TailTyped, Windows, Frame
<1>3. /\ rows \in Seq(Frame)
      /\ \A i \in 1..Len(rows) : rows[i].seq \in 1..Len(series) /\ rows[i].epoch = series[rows[i].seq]
  BY <1>2, PlanRowsOfSeries
<1>4. /\ sent' = [sent EXCEPT ![c] = final.seq]
      /\ mark' = [mark EXCEPT ![c] =
                       [seq |-> Larger(final.seq, seen[c].seq), epoch |-> seen[c].epoch]]
      /\ last' = [last EXCEPT ![c] = 
                     IF request[c].kind = "since" /\ rows = <<>> THEN @ ELSE final]
  BY <1>1
<1>7. seen[c].seq = 0 /\ request[c].kind # "since" => rows = <<>>
  BY DEF PlanRows, RecentRows
<1> HIDE DEF rows
<1>8. seen[c].seq = 0 /\ request[c].kind # "since" => final = Cold
  BY <1>7
<1>5. final \in Frame /\ (final = Cold \/ Holds(series, final))
  <2>1. CASE rows = <<>>
    BY <2>1, FrameType
  <2>2. CASE rows # <<>>
    <3>1. Len(rows) \in 1..Len(rows)
      BY <1>3, <2>2, EmptySeq, LenProperties
    <3>2. rows[Len(rows)] \in Frame
      BY <1>3, <3>1, ElementOfSeq
    <3> QED BY <1>3, <2>2, <3>1, <3>2 DEF Holds
  <2> QED BY <2>1, <2>2
<1> HIDE DEF final
<1>6. last' = [last EXCEPT ![c] = final] \/ (request[c].kind = "since" /\ last' = last)
  <2>1. last \in [Client -> Frame]
    BY DEF SessionsTyped
  <2> QED BY <1>4, <2>1
<1> QED BY <1>4, <1>5, <1>6, <1>8

LEMMA GoLiveTyped ==
    ASSUME SessionsTyped, TailTyped, NEW c \in Client, GoLive(c)
    PROVE  SessionsTyped'
<1>1. PICK final \in Frame :
        /\ sent' = [sent EXCEPT ![c] = final.seq]
        /\ mark' = [mark EXCEPT ![c] =
                       [seq |-> Larger(final.seq, seen[c].seq), epoch |-> seen[c].epoch]]
        /\ \/ last' = [last EXCEPT ![c] = final]
           \/ request[c].kind = "since" /\ last' = last
  BY GoLiveReplays
<1>2. seen[c] \in Frame
  BY DEF SessionsTyped
<1>3. final.seq \in Nat /\ seen[c].seq \in Nat /\ seen[c].epoch \in Nat
  BY <1>2 DEF Frame
<1>4. [seq |-> Larger(final.seq, seen[c].seq), epoch |-> seen[c].epoch] \in Frame
  BY <1>3 DEF Frame, Larger
<1>5. sent' \in [Client -> Nat] /\ mark' \in [Client -> Frame] /\ last' \in [Client -> Frame]
  BY <1>1, <1>3, <1>4 DEF SessionsTyped
<1>6. /\ epochOf' \in [Client -> Nat] /\ seen' \in [Client -> Frame] /\ conn' \in [Client -> ConnPhase]
      /\ UNCHANGED <<subVars, request>>
  BY <1>3, FrameType DEF GoLive, SessionsTyped, ConnPhase
<1> QED BY <1>5, <1>6 DEF SessionsTyped, subVars

LEMMA DeliverTyped ==
    ASSUME SessionsTyped, NEW c \in Client, Deliver(c)
    PROVE  SessionsTyped'
<1> DEFINE f == Head(queue[c])
<1>1. queue[c] \in Seq(Frame) /\ queue[c] # <<>> /\ Len(queue[c]) <= QueueSize
  BY DEF Deliver, SessionsTyped
<1>2. /\ f \in Frame /\ Tail(queue[c]) \in Seq(Frame) /\ Len(Tail(queue[c])) <= QueueSize
  BY <1>1, HeadTailProperties, StreamAssumption, LenProperties DEF StreamAssumption
<1>3. CASE OtherEpoch(c, f) /\ ~Stale(c, f)
  <2>1. Close(c) /\ StartOver(c)
    BY <1>3 DEF Deliver
  <2>2. mark' \in [Client -> Frame] /\ last' \in [Client -> Frame]
    BY <2>1, FrameType DEF StartOver, SessionsTyped
  <2> QED BY <2>1, <2>2, CloseTyped
<1>4. CASE ~(OtherEpoch(c, f) /\ ~Stale(c, f))
  <2>1. /\ queue' = [queue EXCEPT ![c] = Tail(@)]
        /\ conn' = [conn EXCEPT ![c] = "live"]
        /\ IF Stale(c, f) THEN UNCHANGED <<sent, epochOf, consumerVars>> ELSE Send(c, f)
        /\ UNCHANGED <<subs, dropped, request, seen>>
    BY <1>4 DEF Deliver
  <2>2. /\ queue' \in [Client -> Seq(Frame)] /\ \A d \in Client : Len(queue'[d]) <= QueueSize
        /\ conn' \in [Client -> ConnPhase]
    BY <1>2, <2>1 DEF SessionsTyped, ConnPhase
  <2>3. CASE Stale(c, f)
    BY <2>1, <2>2, <2>3 DEF SessionsTyped, consumerVars
  <2>4. CASE ~Stale(c, f)
    <3>1. Send(c, f)
      BY <2>1, <2>4
    <3>2. f.seq \in Nat /\ f.epoch \in Nat /\ mark[c].seq \in Nat
      BY <1>2 DEF Frame, SessionsTyped
    <3>3. [seq |-> Larger(mark[c].seq, f.seq), epoch |-> f.epoch] \in Frame
      BY <3>2 DEF Frame, Larger
    <3> HIDE DEF f
    <3>4. /\ sent' \in [Client -> Nat] /\ epochOf' \in [Client -> Nat]
          /\ mark' \in [Client -> Frame] /\ last' \in [Client -> Frame]
      BY <1>2, <3>1, <3>2, <3>3 DEF Send, SessionsTyped
    <3> QED BY <2>1, <2>2, <3>4 DEF SessionsTyped
  <2> QED BY <2>3, <2>4
<1> QED BY <1>3, <1>4

LEMMA SessionStepTyped ==
    ASSUME StreamTypeOK, TailFits, NEW c \in Client,
           \/ Connect(c) \/ ReadSeed(c) \/ SeedCursor(c) \/ ReadPlanHead(c)
           \/ GoLive(c) \/ NextFrame(c) \/ Deliver(c) \/ Disconnect(c)
    PROVE  StreamTypeOK'
<1> SUFFICES SessionsTyped' /\ TailTyped'
  BY DEF StreamTypeOK, SessionsTyped, TailTyped, RequestType
<1> SessionsTyped /\ TailTyped
  BY TypeParts
<1>1. CASE Connect(c)
  <2>1. request' \in [Client -> RequestType]
    BY <1>1, RequestsTyped DEF Connect, SessionsTyped
  <2>2. SessionsTyped'
    <3>1. CASE cursor # Unseeded
      BY <1>1, <2>1, <3>1, AttachTyped DEF Connect
    <3>2. CASE cursor = Unseeded
      BY <1>1, <2>1, <3>2 DEF Connect, SessionsTyped, ConnPhase, subVars, consumerVars
    <3> QED BY <3>1, <3>2
  <2> QED BY <1>1, <2>2 DEF Connect, TailTyped, seriesVars, tailVars
<1>2. CASE ReadSeed(c)
  <2>1. head \in Frame
    BY FrameType DEF TailTyped
  <2> QED BY <1>2, <2>1 DEF ReadSeed, SessionsTyped, TailTyped, ConnPhase, seriesVars, tailVars,
                             subVars, consumerVars
<1>3. CASE SeedCursor(c)
  <2>1. SessionsTyped'
    BY <1>3, AttachTyped DEF SeedCursor, SessionsTyped
  <2> QED BY <1>3, <2>1 DEF SeedCursor, SessionsTyped, TailTyped, seriesVars
<1>4. CASE ReadPlanHead(c)
  <2>1. TailTyped'
    BY <1>4 DEF ReadPlanHead, TailTyped, seriesVars, tailVars
  <2>2. CASE StartOver(c) /\ Close(c)
    <3>1. mark' \in [Client -> Frame] /\ last' \in [Client -> Frame]
      BY <2>2, FrameType DEF StartOver, SessionsTyped
    <3> QED BY <2>1, <2>2, <3>1, CloseTyped
  <2>3. CASE /\ seen' = [seen EXCEPT ![c] = head]
             /\ conn' = [conn EXCEPT ![c] = "planning"]
             /\ UNCHANGED <<subVars, request, sent, epochOf, consumerVars>>
    <3>1. head \in Frame
      BY FrameType DEF TailTyped
    <3> QED BY <2>1, <2>3, <3>1 DEF SessionsTyped, ConnPhase, subVars, consumerVars
  <2> QED BY <1>4, <2>2, <2>3 DEF ReadPlanHead
<1>5. CASE GoLive(c)
  <2>1. TailTyped'
    BY <1>5 DEF GoLive, TailTyped, seriesVars, tailVars
  <2> QED BY <1>5, <2>1, GoLiveTyped
<1>6. CASE NextFrame(c)
  <2>1. TailTyped'
    BY <1>6 DEF NextFrame, TailTyped, seriesVars, tailVars
  <2>2. CASE dropped[c]
    BY <1>6, <2>1, <2>2, CloseTyped DEF NextFrame, SessionsTyped, consumerVars
  <2>3. CASE ~dropped[c]
    BY <1>6, <2>1, <2>3 DEF NextFrame, SessionsTyped, ConnPhase, subVars, consumerVars
  <2> QED BY <2>2, <2>3
<1>7. CASE Deliver(c)
  <2>1. TailTyped'
    BY <1>7 DEF Deliver, TailTyped, seriesVars, tailVars
  <2> QED BY <1>7, <2>1, DeliverTyped
<1>8. CASE Disconnect(c)
  <2>1. TailTyped'
    BY <1>8 DEF Disconnect, TailTyped, seriesVars, tailVars
  <2> QED BY <1>8, <2>1, CloseTyped DEF Disconnect, SessionsTyped, consumerVars
<1> QED BY <1>1, <1>2, <1>3, <1>4, <1>5, <1>6, <1>7, <1>8

LEMMA FanOutTyped ==
    ASSUME SessionsTyped, TailTyped, TailFits, FanOut
    PROVE  SessionsTyped' /\ TailTyped'
<1>1. Len(batch) \in 1..Len(batch)
  BY EmptySeq, LenProperties DEF FanOut, TailFits, TailTyped
<1>2. cursor' \in Frame
  BY <1>1, ElementOfSeq DEF FanOut, TailTyped
<1>3. batch' \in Seq(Frame) /\ tail' \in TailPhase
  BY EmptySeq DEF FanOut, TailPhase
<1>4. TailTyped'
  BY <1>2, <1>3 DEF FanOut, TailTyped, seriesVars
<1>5. ASSUME NEW c \in Client
      PROVE  queue'[c] \in Seq(Frame) /\ Len(queue'[c]) <= QueueSize
  <2>1. CASE c \in subs
    BY <2>1, FittingTyped DEF FanOut
  <2>2. CASE c \notin subs
    BY <2>2 DEF FanOut, SessionsTyped
  <2> QED BY <2>1, <2>2
<1>6. queue' \in [Client -> Seq(Frame)]
  BY <1>5 DEF FanOut
<1>7. dropped' \in [Client -> BOOLEAN] /\ subs' \subseteq Client
  BY DEF FanOut, SessionsTyped, Kept, Overflows
<1>8. UNCHANGED <<conn, request, seen, mark, last, sent, epochOf>>
  BY DEF FanOut, sessionVars, consumerVars
<1> QED BY <1>4, <1>5, <1>6, <1>7, <1>8 DEF SessionsTyped

LEMMA TailStepTyped ==
    ASSUME StreamTypeOK, TailFits,
           Open \/ Wake \/ Sweep \/ Unwatched \/ ReadBatch \/ FanOut \/ ListenerFails
    PROVE  StreamTypeOK'
<1> SUFFICES SessionsTyped' /\ TailTyped'
  BY DEF StreamTypeOK, SessionsTyped, TailTyped, RequestType
<1> SessionsTyped /\ TailTyped
  BY TypeParts
<1>1. CASE ~FanOut
  <2>1. SessionsTyped'
    <3>1. UNCHANGED <<subVars, sessionVars, consumerVars>>
      BY <1>1 DEF Open, Wake, Sweep, Unwatched, ReadBatch, ListenerFails, subVars, sessionVars,
                  consumerVars
    <3> QED BY <3>1 DEF SessionsTyped, subVars, sessionVars, consumerVars
  <2>2. CASE Open \/ Wake \/ Sweep \/ Unwatched
    BY <2>1, <2>2 DEF Open, Wake, Sweep, Unwatched, TailTyped, TailPhase, seriesVars
  <2>3. CASE ReadBatch
    <3>1. cursor \in Frame
      BY <2>3 DEF ReadBatch, TailFits, TailTyped
    <3>2. cursor.seq \in Nat /\ BatchSize \in Int
      BY <3>1, StreamAssumption DEF Frame, StreamAssumption
    <3>3. batch' \in Seq(Frame)
      BY <2>3, <3>2, RowsAreConsecutive DEF ReadBatch, TailTyped
    <3> QED BY <2>1, <2>3, <3>3 DEF ReadBatch, TailTyped, TailPhase, seriesVars
  <2>4. CASE ListenerFails
    <3>1. MaxFailures \in Nat
      BY StreamAssumption DEF StreamAssumption
    <3>2. failures' \in 0..MaxFailures
      BY <2>4, <3>1 DEF ListenerFails, TailTyped
    <3> QED BY <2>1, <2>4, <3>2 DEF ListenerFails, TailTyped, TailPhase, seriesVars
  <2> QED BY <1>1, <2>2, <2>3, <2>4
<1>2. CASE FanOut
  BY <1>2, FanOutTyped
<1> QED BY <1>1, <1>2

LEMMA JournalStepTyped ==
    ASSUME StreamTypeOK, HeadFits, PassCommits \/ EngineBoots \/ Restored \/ ServerRestarts
    PROVE  StreamTypeOK'
<1> SUFFICES SessionsTyped' /\ TailTyped'
  BY DEF StreamTypeOK, SessionsTyped, TailTyped, RequestType
<1> SessionsTyped /\ TailTyped
  BY TypeParts
<1>1. CASE PassCommits
  <2>1. SessionsTyped'
    BY <1>1 DEF PassCommits, SessionsTyped, subVars, sessionVars, consumerVars
  <2> DEFINE epoch == IF head = Cold THEN 1 ELSE head.epoch
  <2>2. epoch \in Epoch
    BY FrameType DEF TailTyped
  <2>3. series' = Append(series, epoch) /\ head' = [seq |-> Len(series) + 1, epoch |-> epoch]
    BY <1>1 DEF PassCommits, Publish
  <2> HIDE DEF epoch
  <2>4. series' \in Seq(Epoch) /\ head' \in [seq : Nat, epoch : Epoch]
    BY <2>2, <2>3, AppendProperties, LenProperties DEF TailTyped
  <2> QED BY <1>1, <2>1, <2>4 DEF PassCommits, TailTyped
<1>2. CASE EngineBoots
  BY <1>2, FrameType DEF EngineBoots, Seed, SessionsTyped, TailTyped, tailVars, subVars,
                         sessionVars, consumerVars
<1>3. CASE Restored
  <2>1. SessionsTyped'
    BY <1>3 DEF Restored, SessionsTyped, subVars, sessionVars, consumerVars
  <2>2. PICK n \in 0..(Len(series) - 1) : series' = SubSeq(series, 1, n)
    BY <1>3 DEF Restored
  <2>3. series' \in Seq(Epoch)
    <3>1. \A i \in 1..n : series[i] \in Epoch
      BY <2>2, ElementOfSeq, LenProperties DEF TailTyped
    <3> QED BY <2>2, <3>1, SubSeqProperties
  <2>4. restores' \in 0..MaxRestores /\ head.epoch + 1 \in Epoch
    <3>0. MaxRestores \in Nat /\ 0..(MaxRestores + 1) \subseteq Epoch
      BY StreamAssumption DEF StreamAssumption
    <3>1. head.epoch \in Nat /\ head.epoch <= restores + 1 /\ restores \in Nat
      <4>1. head \in Frame
        BY FrameType DEF TailTyped
      <4>2. head.epoch \in Nat
        BY <4>1 DEF Frame
      <4> QED BY <3>0, <4>2 DEF HeadFits, TailTyped
    <3>2. restores' = restores + 1 /\ restores < MaxRestores
      BY <1>3 DEF Restored
    <3>3. head.epoch + 1 \in 0..(MaxRestores + 1)
      BY <3>0, <3>1, <3>2
    <3> QED BY <3>0, <3>1, <3>2, <3>3
  <2>5. head' \in [seq : Nat, epoch : Epoch]
    BY <1>3, <2>3, <2>4, LenProperties DEF Restored
  <2> QED BY <1>3, <2>1, <2>3, <2>4, <2>5 DEF Restored, TailTyped, tailVars
<1>4. CASE ServerRestarts
  <2>1. /\ MaxFailures \in Nat /\ QueueSize \in Nat /\ NoRequest \in RequestType
        /\ <<>> \in Seq(Frame) /\ Len(<<>>) = 0 /\ Cold \in Frame
    BY StreamAssumption, EmptySeq, FrameType DEF StreamAssumption, NoRequest, RequestType
  <2>2. SessionsTyped'
    <3>1. /\ subs' \subseteq Client /\ queue' \in [Client -> Seq(Frame)]
          /\ \A c \in Client : Len(queue'[c]) <= QueueSize
          /\ dropped' \in [Client -> BOOLEAN]
      BY <1>4, <2>1 DEF ServerRestarts
    <3>2. /\ conn' \in [Client -> ConnPhase] /\ request' \in [Client -> RequestType]
          /\ seen' \in [Client -> Frame] /\ sent' \in [Client -> Nat] /\ epochOf' \in [Client -> Nat]
      BY <1>4, <2>1 DEF ServerRestarts, ConnPhase
    <3> QED BY <1>4, <3>1, <3>2 DEF ServerRestarts, SessionsTyped, consumerVars
  <2>3. TailTyped'
    <3>1. failures' \in 0..MaxFailures
      BY <1>4, <2>1 DEF ServerRestarts, TailTyped
    <3> QED BY <1>4, <2>1, <3>1 DEF ServerRestarts, TailTyped, TailPhase, seriesVars
  <2> QED BY <2>2, <2>3
<1> QED BY <1>1, <1>2, <1>3, <1>4

\* A step of the series or of what stands outside it.
LEMMA HeadStep ==
    ASSUME StreamInv, [StreamNext]_streamVars
    PROVE  HeadFits'
<1>1. /\ series \in Seq(Epoch) /\ Len(series) \in Nat
      /\ head = [seq |-> head.seq, epoch |-> head.epoch]
      /\ head.seq \in Nat /\ head.epoch \in Nat /\ restores \in Nat
  <2>1. head \in Frame /\ series \in Seq(Epoch) /\ MaxRestores \in Nat
    BY FrameType, StreamAssumption DEF StreamInv, StreamTypeOK, StreamAssumption
  <2>2. head.seq \in Nat /\ head.epoch \in Nat /\ head = [seq |-> head.seq, epoch |-> head.epoch]
    BY <2>1 DEF Frame
  <2>3. restores \in 0..MaxRestores
    BY DEF StreamInv, StreamTypeOK
  <2> QED BY <2>1, <2>2, <2>3, LenProperties
<1>2. \A n \in 1..Len(series) : series[n] \in Nat
  BY <1>1, ElementOfSeq, FrameType
<1>3. CASE PassCommits
  <2> DEFINE epoch == IF head = Cold THEN 1 ELSE head.epoch
  <2>1. /\ series' = Append(series, epoch)
        /\ head' = [seq |-> Len(series) + 1, epoch |-> epoch] /\ restores' = restores
    BY <1>3 DEF PassCommits, Publish
  <2>2. head # Cold => head.epoch # 0
    BY <1>1, EmptySeq DEF StreamInv, HeadFits, Cold
  <2>3. /\ epoch \in Nat /\ epoch # 0 /\ epoch <= restores + 1
        /\ \A n \in 1..Len(series) : series[n] \in 1..epoch
    BY <1>1, <2>2 DEF StreamInv, HeadFits, Cold
  <2> HIDE DEF epoch
  <2>4. epoch \in Epoch
    BY <1>1, FrameType DEF StreamInv, StreamTypeOK, epoch
  <2>5. /\ Len(series') = Len(series) + 1
        /\ \A n \in 1..Len(series') : series'[n] = IF n <= Len(series) THEN series[n] ELSE epoch
    BY <1>1, <2>1, <2>4, AppendProperties
  <2>6. \A n \in 1..Len(series') : series'[n] \in 1..epoch
    BY <1>1, <2>3, <2>5
  <2> QED BY <2>1, <2>3, <2>5, <2>6 DEF HeadFits
<1>4. CASE EngineBoots
  <2>1. head = Cold /\ head' = [seq |-> 0, epoch |-> 1] /\ series' = series /\ restores' = restores
    BY <1>4 DEF EngineBoots, Seed
  <2>2. Len(series) = 0
    BY <2>1 DEF StreamInv, HeadFits, Cold
  <2> QED BY <1>1, <2>1, <2>2 DEF HeadFits
<1>5. CASE Restored
  <2>1. PICK n \in 0..(Len(series) - 1) : series' = SubSeq(series, 1, n)
    BY <1>5 DEF Restored
  <2>2. /\ Len(series') = n /\ \A i \in 1..n : series'[i] = series[i]
    <3>1. \A i \in 1..n : series[i] \in Epoch
      BY <1>1, <2>1, ElementOfSeq
    <3> QED BY <2>1, <3>1, SubSeqProperties
  <2>3. head' = [seq |-> Len(series'), epoch |-> head.epoch + 1] /\ restores' = restores + 1
    BY <1>5 DEF Restored
  <2>4. head.epoch + 1 <= restores + 1 + 1 /\ head.epoch + 1 # 0
    BY <1>1 DEF StreamInv, HeadFits
  <2>5. \A i \in 1..n : series[i] \in 1..(head.epoch + 1)
    BY <1>1, <2>1 DEF StreamInv, HeadFits
  <2> QED BY <2>2, <2>3, <2>4, <2>5 DEF HeadFits
<1>6. CASE ~(PassCommits \/ EngineBoots \/ Restored)
  <2>1. UNCHANGED <<seriesVars, restores>>
    BY <1>6 DEF StreamNext, streamVars, Connect, ReadSeed, SeedCursor, ReadPlanHead, GoLive, NextFrame,
         Deliver, Disconnect, Open, Wake, Sweep, Unwatched, ReadBatch, FanOut, ListenerFails,
         ServerRestarts
  <2> QED BY <2>1 DEF StreamInv, HeadFits, seriesVars
<1> QED BY <1>3, <1>4, <1>5, <1>6

LEMMA TailStepFits ==
    ASSUME StreamInv, [StreamNext]_streamVars
    PROVE  TailFits'
<1>1. Cold # Unseeded /\ \A f \in Frame : f # Unseeded
  BY FrameType
<1>2. ASSUME NEW c \in Client,
             \/ Connect(c) \/ ReadSeed(c) \/ SeedCursor(c) \/ ReadPlanHead(c)
             \/ GoLive(c) \/ NextFrame(c) \/ Deliver(c) \/ Disconnect(c)
      PROVE  TailFits'
  <2>1. CASE SeedCursor(c)
    <3>1. seen[c] \in Frame
      BY DEF StreamInv, StreamTypeOK
    <3> QED BY <1>1, <2>1, <3>1 DEF SeedCursor, StreamInv, TailFits
  <2>2. CASE Connect(c)
    BY <2>2 DEF Connect, Attach, StreamInv, TailFits, tailVars, subVars
  <2>3. CASE ~SeedCursor(c) /\ ~Connect(c)
    <3>1. subs' \subseteq subs /\ UNCHANGED tailVars
      BY <1>2, <2>3 DEF ReadSeed, ReadPlanHead, GoLive, NextFrame, Deliver, Disconnect, Close, subVars
    <3> QED BY <3>1 DEF StreamInv, TailFits, tailVars
  <2> QED BY <2>1, <2>2, <2>3
<1>3. CASE Open \/ Wake \/ Sweep \/ Unwatched \/ ListenerFails
  BY <1>3 DEF Open, Wake, Sweep, Unwatched, ListenerFails, StreamInv, TailFits, subVars
<1>4. CASE ReadBatch
  BY <1>4 DEF ReadBatch, StreamInv, TailFits, subVars
<1>5. CASE FanOut
  <2>1. cursor' \in Frame
    BY <1>5, FanOutTyped, TypeParts, <1>1, EmptySeq, LenProperties, ElementOfSeq
       DEF FanOut, StreamInv, StreamTypeOK, TailFits
  <2> QED BY <1>1, <1>5, <2>1 DEF FanOut, StreamInv, TailFits
<1>6. CASE PassCommits \/ EngineBoots \/ Restored
  BY <1>6 DEF PassCommits, EngineBoots, Restored, StreamInv, TailFits, tailVars, subVars
<1>7. CASE ServerRestarts
  BY <1>7 DEF ServerRestarts, TailFits
<1>8. CASE UNCHANGED streamVars
  BY <1>8 DEF streamVars, StreamInv, TailFits, tailVars, subVars
<1> QED BY <1>2, <1>3, <1>4, <1>5, <1>6, <1>7, <1>8 DEF StreamNext

LEMMA RegistrationStep ==
    ASSUME StreamInv, [StreamNext]_streamVars
    PROVE  RegisteredIffOpen'
<1> USE DEF StreamInv
<1>1. /\ subs \subseteq Client /\ conn \in [Client -> ConnPhase]
      /\ dropped \in [Client -> BOOLEAN] /\ queue \in [Client -> Seq(Frame)]
  BY DEF StreamTypeOK
<1>2. ASSUME NEW c \in Client, Attach(c) PROVE RegisteredIffOpen'
  BY <1>1, <1>2 DEF Attach, RegisteredIffOpen, Connected
<1>3. ASSUME NEW c \in Client, Close(c) PROVE RegisteredIffOpen'
  BY <1>1, <1>3 DEF Close, RegisteredIffOpen, Connected
<1>4. ASSUME NEW c \in Client, NEW phase, conn' = [conn EXCEPT ![c] = phase],
             conn[c] \in Connected <=> phase \in Connected, UNCHANGED <<subs, dropped>>
      PROVE  RegisteredIffOpen'
  BY <1>1, <1>4 DEF RegisteredIffOpen
<1>5. ASSUME NEW c \in Client, Connect(c) PROVE RegisteredIffOpen'
  <2>1. CASE cursor # Unseeded
    BY <1>2, <1>5, <2>1 DEF Connect
  <2>2. CASE cursor = Unseeded
    BY <1>4, <1>5, <2>2 DEF Connect, Connected, subVars
  <2> QED BY <2>1, <2>2
<1>6. ASSUME NEW c \in Client, ReadSeed(c) PROVE RegisteredIffOpen'
  BY <1>4, <1>6 DEF ReadSeed, Connected, subVars
<1>7. ASSUME NEW c \in Client, SeedCursor(c) PROVE RegisteredIffOpen'
  BY <1>2, <1>7 DEF SeedCursor
<1>8. ASSUME NEW c \in Client, ReadPlanHead(c) PROVE RegisteredIffOpen'
  BY <1>3, <1>4, <1>8 DEF ReadPlanHead, Connected, subVars
<1>9. ASSUME NEW c \in Client, GoLive(c) PROVE RegisteredIffOpen'
  BY <1>4, <1>9 DEF GoLive, Connected, subVars
<1>10. ASSUME NEW c \in Client, NextFrame(c) PROVE RegisteredIffOpen'
  BY <1>3, <1>4, <1>10 DEF NextFrame, Connected, subVars
<1>11. ASSUME NEW c \in Client, Deliver(c) PROVE RegisteredIffOpen'
  BY <1>3, <1>4, <1>11 DEF Deliver, Connected
<1>12. ASSUME NEW c \in Client, Disconnect(c) PROVE RegisteredIffOpen'
  BY <1>3, <1>12 DEF Disconnect
<1>13. CASE FanOut
  <2>1. /\ subs' = Kept /\ dropped' = [c \in Client |-> dropped[c] \/ Overflows(c)] /\ conn' = conn
    BY <1>13 DEF FanOut, sessionVars
  <2> SUFFICES ASSUME NEW c \in Client
               PROVE  (c \in subs <=> conn[c] \in Connected /\ ~dropped[c])' 
    BY DEF RegisteredIffOpen
  <2>2. dropped'[c] <=> dropped[c] \/ Overflows(c)
    BY <2>1
  <2>3. c \in subs' <=> c \in subs /\ ~Overflows(c)
    BY <2>1 DEF Kept
  <2>4. c \in subs <=> conn[c] \in Connected /\ ~dropped[c]
    BY DEF RegisteredIffOpen
  <2> QED BY <2>1, <2>2, <2>3, <2>4
<1>14. CASE \/ Open \/ Wake \/ Sweep \/ Unwatched \/ ReadBatch \/ ListenerFails
            \/ PassCommits \/ EngineBoots \/ Restored
  <2>1. UNCHANGED <<subVars, conn>>
    BY <1>14 DEF Open, Wake, Sweep, Unwatched, ReadBatch, ListenerFails, PassCommits, EngineBoots,
                 Restored, sessionVars, subVars
  <2> QED BY <2>1 DEF RegisteredIffOpen, subVars
<1>15. CASE ServerRestarts
  BY <1>15 DEF ServerRestarts, RegisteredIffOpen, Connected
<1>16. CASE UNCHANGED streamVars
  BY <1>16 DEF streamVars, RegisteredIffOpen, subVars, sessionVars
<1> QED BY <1>5, <1>6, <1>7, <1>8, <1>9, <1>10, <1>11, <1>12, <1>13, <1>14, <1>15, <1>16
        DEF StreamNext

LEMMA StreamInvariance == StreamSpec => []StreamInv
<1>1. StreamInit => StreamInv
  <2> SUFFICES ASSUME StreamInit PROVE StreamInv
    OBVIOUS
  <2>1. HeadFits /\ TailFits /\ RegisteredIffOpen
    BY EmptySeq DEF StreamInit, SeriesInit, HeadFits, TailFits, RegisteredIffOpen, Connected, Cold
  <2>2. /\ MaxFailures \in Nat /\ MaxRestores \in Nat /\ QueueSize \in Nat
        /\ NoRequest \in RequestType /\ <<>> \in Seq(Frame) /\ <<>> \in Seq(Epoch) /\ Len(<<>>) = 0
    BY StreamAssumption, EmptySeq DEF StreamAssumption, NoRequest, RequestType
  <2>3. TailTyped
    <3>1. head \in [seq : Nat, epoch : Epoch]
      BY FrameType DEF StreamInit, SeriesInit, Cold
    <3>2. series \in Seq(Epoch) /\ batch \in Seq(Frame) /\ tail \in TailPhase
          /\ cursor \in Frame \cup {Unseeded} /\ notified \in BOOLEAN
      BY <2>2 DEF StreamInit, SeriesInit, TailPhase
    <3>3. failures \in 0..MaxFailures /\ restores \in 0..MaxRestores
      BY <2>2 DEF StreamInit
    <3> QED BY <3>1, <3>2, <3>3 DEF TailTyped
  <2>4. SessionsTyped
    BY <2>2, FrameType DEF StreamInit, SessionsTyped, ConnPhase
  <2> QED BY <2>1, <2>3, <2>4, TypeParts DEF StreamInv
<1>2. StreamInv /\ [StreamNext]_streamVars => StreamInv'
  <2> SUFFICES ASSUME StreamInv, [StreamNext]_streamVars PROVE StreamInv'
    OBVIOUS
  <2>1. StreamTypeOK'
    <3>1. CASE UNCHANGED streamVars
      BY <3>1 DEF StreamInv, StreamTypeOK, streamVars, seriesVars, tailVars, subVars, sessionVars,
                  consumerVars
    <3> QED BY <3>1, SessionStepTyped, TailStepTyped, JournalStepTyped DEF StreamNext, StreamInv
  <2> QED BY <2>1, HeadStep, TailStepFits, RegistrationStep DEF StreamInv
<1> QED BY <1>1, <1>2, PTL DEF StreamSpec

\* The types of the stream: among them that no queue grows beyond its bound.
THEOREM StreamTypeCorrect == StreamSpec => []StreamTypeOK
BY StreamInvariance, PTL DEF StreamInv

\* The fan-out knows exactly the connections that are open and not dropped.
THEOREM RegistrationIsExact == StreamSpec => []RegisteredIffOpen
BY StreamInvariance, PTL DEF StreamInv

(***************************************************************************)
(* A consumer that resumes.  Frames outlive the rows they were read from:  *)
(* one whose epoch is the head's is still what the series holds, because a *)
(* restore always begins a later epoch.                                    *)
(***************************************************************************)

Recorded(f, s, epoch) == f.epoch <= epoch /\ (f.epoch = epoch => Holds(s, f))

\* What the consumer was given last belongs to the history its mark names.
Remembers(c) ==
    /\ mark[c].epoch <= head.epoch
    /\ last[c] # Cold /\ mark[c].epoch = head.epoch => Holds(series, last[c])

\* A resuming connection asks for the consumer's mark until it is served.
AsksForItsMark(c) ==
    conn[c] \in {"seeding", "seeded", "attached", "planning"} /\ request[c].kind = "since" =>
        /\ request[c].epoch = mark[c].epoch /\ request[c].epoch # 0
        /\ conn[c] = "planning" => seen[c].epoch = request[c].epoch

\* The series either begins a later epoch or keeps all it holds.
LEMMA SeriesKeeps ==
    ASSUME StreamInv, [StreamNext]_streamVars
    PROVE  /\ head.epoch \in Nat /\ head'.epoch \in Nat
           /\ \/ head'.epoch > head.epoch
              \/ /\ head'.epoch = head.epoch
                 /\ \A f \in Frame : Holds(series, f) => Holds(series', f)
<1>1. /\ series \in Seq(Epoch) /\ Len(series) \in Nat /\ head.epoch \in Nat
      /\ head = [seq |-> head.seq, epoch |-> head.epoch]
  <2>1. head \in Frame
    BY FrameType DEF StreamInv, StreamTypeOK
  <2> QED BY <2>1, LenProperties DEF Frame, StreamInv, StreamTypeOK
<1>2. CASE PassCommits
  <2> DEFINE epoch == IF head = Cold THEN 1 ELSE head.epoch
  <2>1. series' = Append(series, epoch) /\ head' = [seq |-> Len(series) + 1, epoch |-> epoch]
    BY <1>2 DEF PassCommits, Publish
  <2>2. epoch \in Epoch /\ (head = Cold => head.epoch = 0)
    BY FrameType DEF StreamInv, StreamTypeOK
  <2>3. epoch > head.epoch \/ epoch = head.epoch
    BY <1>1, <2>2
  <2>4. epoch \in Nat
    BY <2>2, FrameType
  <2> HIDE DEF epoch
  <2>5. /\ Len(series') = Len(series) + 1
        /\ \A n \in 1..Len(series) : series'[n] = series[n]
    BY <1>1, <2>1, <2>2, AppendProperties
  <2>6. \A f \in Frame : Holds(series, f) => Holds(series', f)
    BY <1>1, <2>5 DEF Holds
  <2> QED BY <1>1, <2>1, <2>3, <2>4, <2>6
<1>3. CASE EngineBoots
  BY <1>1, <1>3, FrameType DEF EngineBoots, Seed
<1>4. CASE Restored
  BY <1>1, <1>4 DEF Restored
<1>5. CASE ~(PassCommits \/ EngineBoots \/ Restored)
  <2>1. UNCHANGED seriesVars
    BY <1>5 DEF StreamNext, streamVars, Connect, ReadSeed, SeedCursor, ReadPlanHead, GoLive, NextFrame,
         Deliver, Disconnect, Open, Wake, Sweep, Unwatched, ReadBatch, FanOut, ListenerFails,
         ServerRestarts
  <2> QED BY <1>1, <2>1 DEF seriesVars
<1> QED BY <1>2, <1>3, <1>4, <1>5

LEMMA RecordedKept ==
    ASSUME StreamInv, [StreamNext]_streamVars
    PROVE  \A f \in Frame : Recorded(f, series, head.epoch) => Recorded(f, series', head'.epoch)
<1> SUFFICES ASSUME NEW f \in Frame, Recorded(f, series, head.epoch)
             PROVE  Recorded(f, series', head'.epoch)
  OBVIOUS
<1>1. f.epoch \in Nat
  BY DEF Frame
<1> QED BY <1>1, SeriesKeeps DEF Recorded

\* What the reads of one step answer is recorded in the series it leaves.
LEMMA RowsAreRecorded ==
    ASSUME StreamInv, NEW f \in Frame, Holds(series, f)
    PROVE  Recorded(f, series, head.epoch)
<1>1. head.epoch \in Nat
  <2>1. head \in Frame
    BY FrameType DEF StreamInv, StreamTypeOK
  <2> QED BY <2>1 DEF Frame
<1>2. series[f.seq] \in 1..head.epoch
  BY DEF StreamInv, HeadFits, Holds
<1> QED BY <1>1, <1>2 DEF Recorded, Holds

RecordedBatch == \A i \in 1..Len(batch) : Recorded(batch[i], series, head.epoch)
RecordedQueue(c) == \A i \in 1..Len(queue[c]) : Recorded(queue[c][i], series, head.epoch)

LEMMA BatchStep ==
    ASSUME StreamInv, [StreamNext]_streamVars, RecordedBatch
    PROVE  RecordedBatch'
<1>1. CASE batch' = batch
  <2>1. \A i \in 1..Len(batch) : batch[i] \in Frame
    BY ElementOfSeq DEF StreamInv, StreamTypeOK
  <2> QED BY <1>1, <2>1, RecordedKept DEF RecordedBatch
<1>2. CASE batch' = <<>>
  BY <1>2, EmptySeq DEF RecordedBatch
<1>3. CASE ReadBatch
  <2>1. cursor \in Frame
    BY <1>3 DEF ReadBatch, StreamInv, StreamTypeOK, TailFits
  <2>2. cursor.seq \in Nat /\ BatchSize \in Int /\ series \in Seq(Epoch)
    BY <2>1, StreamAssumption DEF Frame, StreamAssumption, StreamInv, StreamTypeOK
  <2>3. batch' = Rows(series, cursor.seq, BatchSize) /\ UNCHANGED seriesVars
    BY <1>3 DEF ReadBatch
  <2>4. batch' \in Seq(Frame) /\ \A i \in 1..Len(batch') :
           cursor.seq + i \in 1..Len(series)
           /\ batch'[i] = [seq |-> cursor.seq + i, epoch |-> series[cursor.seq + i]]
    BY <2>2, <2>3, RowsAreConsecutive
  <2>5. ASSUME NEW i \in 1..Len(batch') PROVE batch'[i] \in Frame /\ Holds(series, batch'[i])
    <3>1. batch'[i] \in Frame
      BY <2>4, ElementOfSeq
    <3>2. cursor.seq + i \in 1..Len(series)
          /\ batch'[i] = [seq |-> cursor.seq + i, epoch |-> series[cursor.seq + i]]
      BY <2>4
    <3> QED BY <3>1, <3>2 DEF Holds
  <2>6. \A i \in 1..Len(batch') : Recorded(batch'[i], series, head.epoch)
    BY <2>5, RowsAreRecorded
  <2> QED BY <2>3, <2>6 DEF RecordedBatch, seriesVars
<1>4. batch' = batch \/ batch' = <<>> \/ ReadBatch
  BY DEF StreamNext, streamVars, tailVars, Connect, ReadSeed, SeedCursor, ReadPlanHead, GoLive,
         NextFrame, Deliver, Disconnect, Open, Wake, Sweep, Unwatched, FanOut, ListenerFails,
         PassCommits, EngineBoots, Restored, ServerRestarts
<1> QED BY <1>1, <1>2, <1>3, <1>4

\* How a queue changes.
LEMMA QueueChanges ==
    ASSUME StreamInv, [StreamNext]_streamVars, NEW c \in Client
    PROVE  \/ queue'[c] = queue[c] \/ queue'[c] = <<>>
           \/ queue[c] # <<>> /\ queue'[c] = Tail(queue[c])
           \/ FanOut /\ c \in subs /\ queue'[c] = queue[c] \o Fitting(c)
<1>1. queue \in [Client -> Seq(Frame)]
  BY DEF StreamInv, StreamTypeOK
<1>2. ASSUME NEW d \in Client, Attach(d) \/ Close(d) PROVE queue'[c] = queue[c] \/ queue'[c] = <<>>
  BY <1>1, <1>2 DEF Attach, Close
<1>3. ASSUME NEW d \in Client, Connect(d) \/ ReadSeed(d) \/ SeedCursor(d) \/ ReadPlanHead(d)
                               \/ GoLive(d) \/ NextFrame(d) \/ Disconnect(d)
      PROVE  queue'[c] = queue[c] \/ queue'[c] = <<>>
  BY <1>2, <1>3 DEF Connect, ReadSeed, SeedCursor, ReadPlanHead, GoLive, NextFrame, Disconnect, subVars
<1>4. ASSUME NEW d \in Client, Deliver(d)
      PROVE  \/ queue'[c] = queue[c] \/ queue'[c] = <<>>
             \/ queue[c] # <<>> /\ queue'[c] = Tail(queue[c])
  BY <1>1, <1>2, <1>4 DEF Deliver
<1>5. CASE FanOut
  BY <1>1, <1>5 DEF FanOut
<1>6. CASE ServerRestarts
  BY <1>6 DEF ServerRestarts
<1>7. CASE \/ Open \/ Wake \/ Sweep \/ Unwatched \/ ReadBatch \/ ListenerFails
           \/ PassCommits \/ EngineBoots \/ Restored \/ UNCHANGED streamVars
  BY <1>7 DEF Open, Wake, Sweep, Unwatched, ReadBatch, ListenerFails, PassCommits, EngineBoots,
              Restored, subVars, streamVars
<1> QED BY <1>3, <1>4, <1>5, <1>6, <1>7 DEF StreamNext

LEMMA QueueStep ==
    ASSUME StreamInv, [StreamNext]_streamVars, RecordedBatch, NEW c \in Client, RecordedQueue(c)
    PROVE  RecordedQueue(c)'
<1>1. queue[c] \in Seq(Frame) /\ batch \in Seq(Frame)
  BY DEF StreamInv, StreamTypeOK
<1>2. \A i \in 1..Len(queue[c]) : Recorded(queue[c][i], series', head'.epoch)
  BY <1>1, RecordedKept, ElementOfSeq DEF RecordedQueue
<1>3. CASE queue'[c] = queue[c]
  BY <1>2, <1>3 DEF RecordedQueue
<1>4. CASE queue'[c] = <<>>
  BY <1>4, EmptySeq DEF RecordedQueue
<1>5. CASE queue[c] # <<>> /\ queue'[c] = Tail(queue[c])
  <2>1. Len(queue'[c]) = Len(queue[c]) - 1
        /\ \A i \in 1..Len(queue'[c]) : queue'[c][i] = queue[c][i + 1]
    BY <1>1, <1>5, HeadTailProperties
  <2> QED BY <1>1, <1>2, <2>1, LenProperties DEF RecordedQueue
<1>6. CASE FanOut /\ queue'[c] = queue[c] \o Fitting(c)
  <2>1. /\ Fitting(c) \in Seq(Frame) /\ Len(Fitting(c)) <= Len(batch)
        /\ \A i \in 1..Len(Fitting(c)) : Fitting(c)[i] = batch[i]
    <3>1. /\ Fitting(c) \in Seq(Frame) /\ Len(Fitting(c)) = Smaller(Room(c), Len(batch))
          /\ \A i \in 1..Len(Fitting(c)) : Fitting(c)[i] = batch[i]
      BY FittingTyped, TypeParts DEF StreamInv
    <3>2. Room(c) \in Int /\ Len(batch) \in Nat
      BY <1>1, LenProperties, StreamAssumption DEF Room, StreamAssumption
    <3> QED BY <3>1, <3>2 DEF Smaller
  <2>2. \A i \in 1..Len(batch) : Recorded(batch[i], series', head'.epoch)
    BY <1>1, RecordedKept, ElementOfSeq DEF RecordedBatch
  <2>3. /\ Len(queue'[c]) = Len(queue[c]) + Len(Fitting(c))
        /\ \A i \in 1..Len(queue'[c]) : queue'[c][i] =
                IF i <= Len(queue[c]) THEN queue[c][i] ELSE Fitting(c)[i - Len(queue[c])]
    BY <1>1, <1>6, <2>1, ConcatProperties
  <2>4. ASSUME NEW i \in 1..Len(queue'[c]) PROVE Recorded(queue'[c][i], series', head'.epoch)
    <3>1. Len(queue[c]) \in Nat /\ Len(Fitting(c)) \in Nat /\ Len(batch) \in Nat
      BY <1>1, <2>1, LenProperties
    <3>2. CASE i <= Len(queue[c])
      BY <1>2, <2>3, <3>1, <3>2
    <3>3. CASE ~(i <= Len(queue[c]))
      <4>1. i - Len(queue[c]) \in 1..Len(Fitting(c)) /\ i - Len(queue[c]) \in 1..Len(batch)
        BY <2>1, <2>3, <3>1, <3>3
      <4> QED BY <2>1, <2>2, <2>3, <3>3, <4>1
    <3> QED BY <3>2, <3>3
  <2> QED BY <2>4 DEF RecordedQueue
<1> QED BY <1>3, <1>4, <1>5, <1>6, QueueChanges

\* What one connection knows of the history.
Knows(c) == seen[c].epoch <= head.epoch /\ Remembers(c) /\ AsksForItsMark(c)

LEMMA EpochsTyped ==
    ASSUME StreamInv, NEW c \in Client
    PROVE  /\ head.epoch \in Nat /\ head \in Frame /\ seen[c] \in Frame /\ mark[c] \in Frame
           /\ last[c] \in Frame /\ seen[c].epoch \in Nat /\ mark[c].epoch \in Nat
           /\ request[c].epoch \in Nat /\ request[c] \in RequestType
           /\ head.epoch = 0 => head = Cold
<1>1. head \in Frame /\ seen[c] \in Frame /\ mark[c] \in Frame /\ last[c] \in Frame
  BY FrameType DEF StreamInv, StreamTypeOK
<1>2. request[c] \in RequestType
  BY DEF StreamInv, StreamTypeOK, RequestType
<1>3. request[c].epoch \in Nat
  BY <1>2 DEF RequestType
<1>4. head.epoch = 0 => head.seq = 0
  BY EmptySeq DEF StreamInv, HeadFits
<1> QED BY <1>1, <1>2, <1>3, <1>4 DEF Frame, Cold

\* A connection that a step does not serve knows no less for it.
LEMMA KnowsStill ==
    ASSUME StreamInv, [StreamNext]_streamVars, NEW c \in Client, Knows(c),
           mark'[c] = mark[c], last'[c] = last[c], seen'[c] = seen[c] \/ seen'[c] = Cold
    PROVE  (seen[c].epoch <= head.epoch /\ Remembers(c))'
<1>1. last[c] \in Frame /\ seen[c].epoch \in Nat /\ mark[c].epoch \in Nat /\ Cold.epoch = 0
  BY EpochsTyped, FrameType
<1> QED BY <1>1, SeriesKeeps DEF Knows, Remembers

LEMMA AsksStill ==
    ASSUME NEW c \in Client, Knows(c),
           \/ /\ mark'[c] = mark[c] /\ seen'[c] = seen[c] /\ request'[c] = request[c]
              /\ conn'[c] = conn[c]
           \/ conn'[c] \notin {"seeding", "seeded", "attached", "planning"}
    PROVE  AsksForItsMark(c)'
BY DEF Knows, AsksForItsMark

\* A connection that ends, its consumer starting over or not.
LEMMA ClosedKnows ==
    ASSUME StreamInv, [StreamNext]_streamVars, NEW c \in Client, NEW d \in Client, Knows(d), Close(c),
           UNCHANGED consumerVars \/ StartOver(c)
    PROVE  Knows(d)'
<1>1. /\ conn \in [Client -> ConnPhase] /\ seen \in [Client -> Frame] /\ mark \in [Client -> Frame]
      /\ last \in [Client -> Frame] /\ request \in [Client -> RequestType]
  BY DEF StreamInv, StreamTypeOK, RequestType
<1>2. CASE c # d
  <2>1. /\ mark'[d] = mark[d] /\ last'[d] = last[d] /\ seen'[d] = seen[d]
        /\ request'[d] = request[d] /\ conn'[d] = conn[d]
    BY <1>1, <1>2 DEF Close, StartOver, consumerVars
  <2> QED BY <2>1, KnowsStill, AsksStill DEF Knows
<1>3. CASE c = d
  <2>1. seen'[d] = Cold /\ conn'[d] = "closed"
    BY <1>1, <1>3 DEF Close
  <2>2. AsksForItsMark(d)'
    BY <2>1, AsksStill
  <2>3. CASE UNCHANGED consumerVars
    BY <2>1, <2>2, <2>3, KnowsStill DEF Knows, consumerVars
  <2>4. CASE StartOver(c)
    <3>1. mark'[d] = Cold /\ last'[d] = Cold
      BY <1>1, <1>3, <2>4 DEF StartOver
    <3> QED BY <2>1, <2>2, <3>1, SeriesKeeps, FrameType DEF Knows, Remembers
  <2> QED BY <2>3, <2>4
<1> QED BY <1>2, <1>3

LEMMA ConnectingKnows ==
    ASSUME StreamInv, [StreamNext]_streamVars, NEW c \in Client, NEW d \in Client, Knows(d),
           Connect(c) \/ ReadSeed(c) \/ SeedCursor(c) \/ ReadPlanHead(c)
    PROVE  Knows(d)'
<1>1. /\ conn \in [Client -> ConnPhase] /\ seen \in [Client -> Frame] /\ mark \in [Client -> Frame]
      /\ last \in [Client -> Frame] /\ request \in [Client -> RequestType]
  BY DEF StreamInv, StreamTypeOK, RequestType
<1>2. head.epoch \in Nat /\ mark[d].epoch \in Nat /\ request[d].epoch \in Nat /\ head'.epoch \in Nat
  BY EpochsTyped, SeriesKeeps
<1>3. CASE Connect(c)
  <2>1. mark' = mark /\ last' = last /\ seen' = seen
    BY <1>3 DEF Connect, consumerVars
  <2>2. CASE c # d
    <3>1. request'[d] = request[d] /\ conn'[d] = conn[d]
      BY <1>1, <1>3, <2>2 DEF Connect, Attach
    <3> QED BY <2>1, <3>1, KnowsStill, AsksStill DEF Knows
  <2>3. CASE c = d
    <3>1. conn'[d] = "attached" \/ conn'[d] = "seeding"
      BY <1>1, <1>3, <2>3 DEF Connect, Attach
    <3>2. request'[d].kind = "since" => request'[d].epoch = mark[d].epoch /\ mark[d].epoch # 0
      <4>1. PICK r \in Requests \cup {[kind |-> "since", n |-> mark[d].seq, epoch |-> mark[d].epoch]} :
              /\ r.kind = "since" => mark[d].epoch # 0
              /\ request' = [request EXCEPT ![d] = r]
        BY <1>3, <2>3 DEF Connect
      <4>2. request'[d] = r
        BY <1>1, <4>1
      <4>3. CASE r \in Requests
        BY <4>2, <4>3 DEF Requests
      <4>4. CASE r = [kind |-> "since", n |-> mark[d].seq, epoch |-> mark[d].epoch]
        BY <4>1, <4>2, <4>4
      <4> QED BY <4>1, <4>3, <4>4
    <3>3. AsksForItsMark(d)'
      BY <2>1, <3>1, <3>2 DEF AsksForItsMark
    <3> QED BY <2>1, <3>3, KnowsStill DEF Knows
  <2> QED BY <2>2, <2>3
<1>4. CASE ReadSeed(c)
  <2>1. /\ mark' = mark /\ last' = last /\ request' = request /\ head' = head /\ series' = series
        /\ seen' = [seen EXCEPT ![c] = head] /\ conn' = [conn EXCEPT ![c] = "seeded"]
        /\ conn[c] = "seeding"
    BY <1>4 DEF ReadSeed, consumerVars, seriesVars
  <2>2. CASE c # d
    BY <1>1, <2>1, <2>2 DEF Knows, Remembers, AsksForItsMark
  <2>3. CASE c = d
    BY <1>1, <1>2, <2>1, <2>3 DEF Knows, Remembers, AsksForItsMark
  <2> QED BY <2>2, <2>3
<1>5. CASE SeedCursor(c)
  <2>1. /\ mark' = mark /\ last' = last /\ request' = request /\ head' = head /\ series' = series
        /\ seen' = seen /\ conn' = [conn EXCEPT ![c] = "attached"] /\ conn[c] = "seeded"
    BY <1>5 DEF SeedCursor, Attach, consumerVars, seriesVars
  <2> QED BY <1>1, <2>1 DEF Knows, Remembers, AsksForItsMark
<1>6. CASE ReadPlanHead(c)
  <2>1. CASE StartOver(c) /\ Close(c)
    BY <2>1, ClosedKnows
  <2>2. CASE /\ ~Terminal(head, request[c])
             /\ seen' = [seen EXCEPT ![c] = head] /\ conn' = [conn EXCEPT ![c] = "planning"]
             /\ UNCHANGED <<subVars, request, sent, epochOf, consumerVars>>
    <3>1. mark' = mark /\ last' = last /\ request' = request /\ head' = head /\ series' = series
          /\ conn[c] = "attached"
      BY <1>6, <2>2 DEF ReadPlanHead, consumerVars, seriesVars
    <3>2. CASE c # d
      BY <1>1, <2>2, <3>1, <3>2 DEF Knows, Remembers, AsksForItsMark
    <3>3. CASE c = d
      <4>1. seen'[d] = head /\ conn'[d] = "planning"
        BY <1>1, <2>2, <3>3
      <4>2. request[d].kind = "since" =>
              request[d].epoch = mark[d].epoch /\ request[d].epoch # 0 /\ mark[d].epoch <= head.epoch
        BY <3>1, <3>3 DEF Knows, Remembers, AsksForItsMark
      <4>3. request[d].kind = "since" => head.epoch = request[d].epoch
        BY <1>2, <2>2, <3>3, <4>2 DEF Terminal, EpochMismatch, NoEpoch
      <4> QED BY <1>2, <3>1, <4>1, <4>2, <4>3 DEF Knows, Remembers, AsksForItsMark
    <3> QED BY <3>2, <3>3
  <2> QED BY <1>6, <2>1, <2>2 DEF ReadPlanHead
<1> QED BY <1>3, <1>4, <1>5, <1>6

LEMMA GoLiveKnows ==
    ASSUME StreamInv, [StreamNext]_streamVars, NEW c \in Client, NEW d \in Client, Knows(d), GoLive(c)
    PROVE  Knows(d)'
<1>1. /\ conn \in [Client -> ConnPhase] /\ seen \in [Client -> Frame] /\ mark \in [Client -> Frame]
      /\ last \in [Client -> Frame]
  BY DEF StreamInv, StreamTypeOK
<1>2. /\ seen' = [seen EXCEPT ![c] = Cold] /\ conn' = [conn EXCEPT ![c] = "live"]
      /\ request' = request /\ series' = series /\ head' = head /\ conn[c] = "planning"
  BY DEF GoLive, seriesVars
<1>3. PICK final \in Frame :
        /\ final = Cold \/ Holds(series, final)
        /\ mark' = [mark EXCEPT ![c] =
                       [seq |-> Larger(final.seq, seen[c].seq), epoch |-> seen[c].epoch]]
        /\ \/ last' = [last EXCEPT ![c] = final]
           \/ request[c].kind = "since" /\ last' = last
  BY GoLiveReplays, TypeParts DEF StreamInv
<1>4. CASE c # d
  <2>1. mark'[d] = mark[d] /\ last'[d] = last[d] /\ seen'[d] = seen[d] /\ conn'[d] = conn[d]
    BY <1>1, <1>2, <1>3, <1>4
  <2> QED BY <1>2, <2>1, KnowsStill, AsksStill DEF Knows
<1>5. CASE c = d
  <2>1. mark'[d].epoch = seen[d].epoch /\ seen'[d] = Cold /\ conn'[d] = "live"
    BY <1>1, <1>2, <1>3, <1>5
  <2>2. head.epoch \in Nat /\ Cold.epoch = 0
    BY EpochsTyped, FrameType
  <2>3. last'[d] # Cold /\ mark'[d].epoch = head.epoch => Holds(series, last'[d])
    <3>1. CASE last' = [last EXCEPT ![c] = final]
      BY <1>1, <1>3, <1>5, <3>1
    <3>2. CASE request[c].kind = "since" /\ last' = last
      <4>1. mark[d].epoch = seen[d].epoch
        BY <1>2, <1>5, <3>2 DEF Knows, AsksForItsMark
      <4> QED BY <2>1, <3>2, <4>1 DEF Knows, Remembers
    <3> QED BY <1>3, <3>1, <3>2
  <2> QED BY <1>2, <2>1, <2>2, <2>3 DEF Knows, Remembers, AsksForItsMark
<1> QED BY <1>4, <1>5

LEMMA DeliverKnows ==
    ASSUME StreamInv, [StreamNext]_streamVars, NEW c \in Client, NEW d \in Client, Knows(d),
           RecordedQueue(c), Deliver(c)
    PROVE  Knows(d)'
<1> DEFINE f == Head(queue[c])
<1>1. /\ conn \in [Client -> ConnPhase] /\ mark \in [Client -> Frame] /\ last \in [Client -> Frame]
      /\ queue[c] \in Seq(Frame) /\ queue[c] # <<>> /\ series' = series /\ head' = head
  BY DEF StreamInv, StreamTypeOK, Deliver, seriesVars
<1>2. f \in Frame /\ Recorded(f, series, head.epoch)
  <2>1. 1 \in 1..Len(queue[c]) /\ f = queue[c][1] /\ f \in Frame
    BY <1>1, HeadTailProperties, EmptySeq, LenProperties
  <2> QED BY <2>1 DEF RecordedQueue
<1>3. CASE OtherEpoch(c, f) /\ ~Stale(c, f)
  <2>1. Close(c) /\ StartOver(c)
    BY <1>3 DEF Deliver
  <2> QED BY <2>1, ClosedKnows
<1>4. CASE ~(OtherEpoch(c, f) /\ ~Stale(c, f))
  <2>1. /\ conn' = [conn EXCEPT ![c] = "live"]
        /\ IF Stale(c, f) THEN UNCHANGED <<sent, epochOf, consumerVars>> ELSE Send(c, f)
        /\ UNCHANGED <<request, seen>>
    BY <1>4 DEF Deliver
  <2>2. AsksForItsMark(d)'
    <3>1. CASE c = d
      BY <1>1, <2>1, <3>1, AsksStill
    <3>2. CASE c # d
      <4>1. mark'[d] = mark[d] /\ conn'[d] = conn[d]
        BY <1>1, <2>1, <3>2 DEF Send, consumerVars
      <4> QED BY <2>1, <4>1, AsksStill
    <3> QED BY <3>1, <3>2
  <2>3. CASE Stale(c, f) \/ c # d
    <3>1. mark'[d] = mark[d] /\ last'[d] = last[d]
      BY <1>1, <2>1, <2>3 DEF Send, consumerVars
    <3> QED BY <2>1, <2>2, <3>1, KnowsStill DEF Knows
  <2>4. CASE ~Stale(c, f) /\ c = d
    <3> HIDE DEF f
    <3>1. mark'[d].epoch = f.epoch /\ last'[d] = f
      BY <1>1, <2>1, <2>4 DEF Send
    <3> QED BY <1>1, <1>2, <2>1, <2>2, <3>1 DEF Knows, Remembers, Recorded
  <2> QED BY <2>3, <2>4
<1> QED BY <1>3, <1>4

LEMMA KnowsStep ==
    ASSUME StreamInv, [StreamNext]_streamVars, \A c \in Client : RecordedQueue(c),
           NEW d \in Client, Knows(d)
    PROVE  Knows(d)'
<1>1. conn \in [Client -> ConnPhase]
  BY DEF StreamInv, StreamTypeOK
<1>2. ASSUME NEW c \in Client, NextFrame(c) PROVE Knows(d)'
  <2>1. CASE Close(c)
    BY <1>2, <2>1, ClosedKnows DEF NextFrame
  <2>2. CASE conn' = [conn EXCEPT ![c] = "await"] /\ UNCHANGED <<subVars, request, seen, sent, epochOf>>
    <3>1. mark' = mark /\ last' = last /\ seen' = seen /\ request' = request
          /\ (conn'[d] = conn[d] \/ conn'[d] = "await")
      BY <1>1, <1>2, <2>2 DEF NextFrame, consumerVars
    <3> QED BY <3>1, KnowsStill, AsksStill DEF Knows
  <2> QED BY <1>2, <2>1, <2>2 DEF NextFrame
<1>3. ASSUME NEW c \in Client, Disconnect(c) PROVE Knows(d)'
  BY <1>3, ClosedKnows DEF Disconnect
<1>4. CASE \/ Open \/ Wake \/ Sweep \/ Unwatched \/ ReadBatch \/ FanOut \/ ListenerFails
           \/ PassCommits \/ EngineBoots \/ Restored \/ UNCHANGED streamVars
  <2>1. UNCHANGED <<sessionVars, consumerVars>>
    BY <1>4 DEF Open, Wake, Sweep, Unwatched, ReadBatch, FanOut, ListenerFails, PassCommits,
                EngineBoots, Restored, streamVars
  <2> QED BY <2>1, KnowsStill, AsksStill DEF Knows, sessionVars, consumerVars
<1>5. CASE ServerRestarts
  <2>1. conn'[d] = "closed" /\ seen'[d] = Cold /\ mark' = mark /\ last' = last
    BY <1>5 DEF ServerRestarts, consumerVars
  <2> QED BY <2>1, KnowsStill, AsksStill DEF Knows
<1> QED BY <1>2, <1>3, <1>4, <1>5, ConnectingKnows, GoLiveKnows, DeliverKnows DEF StreamNext

HistoryInv == RecordedBatch /\ \A c \in Client : RecordedQueue(c) /\ Knows(c)

LEMMA HistoryInvariance == StreamSpec => []HistoryInv
<1>1. StreamInit => HistoryInv
  <2> SUFFICES ASSUME StreamInit PROVE HistoryInv
    OBVIOUS
  <2>1. RecordedBatch /\ \A c \in Client : RecordedQueue(c)
    BY EmptySeq DEF StreamInit, RecordedBatch, RecordedQueue
  <2>2. \A c \in Client : Knows(c)
    BY DEF StreamInit, SeriesInit, Knows, Remembers, AsksForItsMark, Cold
  <2> QED BY <2>1, <2>2 DEF HistoryInv
<1>2. StreamInv /\ HistoryInv /\ [StreamNext]_streamVars => HistoryInv'
  BY BatchStep, QueueStep, KnowsStep DEF HistoryInv
<1> QED BY <1>1, <1>2, StreamInvariance, PTL DEF StreamSpec

\* A consumer that resumes, and is not told to start over, resumes in the history it was
\* reading (stream_replay.py plan: the epoch of the cursor), however often the database
\* was taken back and whatever the dispatcher and the other consumers do.
THEOREM ConsumersResumeInTheirHistory == StreamSpec => ResumesInItsHistory
<1> DEFINE Resumes(c) ==
        conn[c] = "attached" /\ conn'[c] = "planning" /\ request[c].kind = "since" /\ last[c] # Cold
            => last[c].seq <= Len(series) /\ series[last[c].seq] = last[c].epoch
<1>1. StreamInv /\ HistoryInv /\ [StreamNext]_streamVars => \A c \in Client : Resumes(c)
  <2> SUFFICES ASSUME StreamInv, HistoryInv, [StreamNext]_streamVars, NEW c \in Client,
                      conn[c] = "attached", conn'[c] = "planning", request[c].kind = "since",
                      last[c] # Cold
               PROVE  last[c].seq <= Len(series) /\ series[last[c].seq] = last[c].epoch
    OBVIOUS
  <2>1. Knows(c)
    BY DEF HistoryInv
  <2>2. ~Terminal(head, request[c])
    <3>1. conn \in [Client -> ConnPhase]
      BY DEF StreamInv, StreamTypeOK
    <3>2. ASSUME NEW d \in Client, Attach(d) \/ Close(d) PROVE FALSE
      BY <3>1, <3>2 DEF Attach, Close
    <3>3. ASSUME NEW d \in Client, Connect(d) PROVE FALSE
      BY <3>1, <3>2, <3>3 DEF Connect
    <3>4. ASSUME NEW d \in Client, \/ ReadSeed(d) \/ SeedCursor(d) \/ GoLive(d) \/ NextFrame(d)
                                   \/ Deliver(d) \/ Disconnect(d)
          PROVE  FALSE
      BY <3>1, <3>2, <3>4 DEF ReadSeed, SeedCursor, GoLive, NextFrame, Deliver, Disconnect
    <3>5. ASSUME NEW d \in Client, ReadPlanHead(d) PROVE ~Terminal(head, request[c])
      BY <3>1, <3>2, <3>5 DEF ReadPlanHead
    <3>6. CASE \/ Open \/ Wake \/ Sweep \/ Unwatched \/ ReadBatch \/ FanOut \/ ListenerFails
               \/ PassCommits \/ EngineBoots \/ Restored \/ ServerRestarts \/ UNCHANGED streamVars
      BY <3>6 DEF Open, Wake, Sweep, Unwatched, ReadBatch, FanOut, ListenerFails, PassCommits,
                  EngineBoots, Restored, ServerRestarts, sessionVars, streamVars
    <3> QED BY <3>3, <3>4, <3>5, <3>6 DEF StreamNext
  <2>3. request[c].epoch = mark[c].epoch /\ request[c].epoch # 0 /\ mark[c].epoch <= head.epoch
    BY <2>1 DEF Knows, Remembers, AsksForItsMark
  <2>4. mark[c].epoch = head.epoch
    <3>1. head.epoch \in Nat /\ request[c].epoch \in Nat
      BY EpochsTyped
    <3> QED BY <2>2, <2>3, <3>1 DEF Terminal, EpochMismatch, NoEpoch
  <2>5. Holds(series, last[c])
    BY <2>1, <2>4 DEF Knows, Remembers
  <2> QED BY <2>5 DEF Holds
<1>2. StreamSpec => [][\A c \in Client : Resumes(c)]_streamVars
  BY <1>1, StreamInvariance, HistoryInvariance, PTL DEF StreamSpec
<1> QED BY <1>2 DEF ResumesInItsHistory

(***************************************************************************)
(* No silent gap, where first subscribers attach one at a time and nobody  *)
(* takes the database back under the dispatcher: the batch continues the   *)
(* cursor, a queue runs without a hole up to it, and where a connection    *)
(* goes live its queue begins no later than what it has been given.        *)
(***************************************************************************)

Attaching(c) == conn[c] \in {"seeding", "seeded"}

CursorFits ==
    /\ cursor.seq + Len(batch) <= Len(series)
    /\ \A i \in 1..Len(batch) : Holds(series, batch[i]) /\ batch[i].seq = cursor.seq + i
    /\ \A c \in Client : Attaching(c) => cursor = Unseeded /\ \A d \in Client : Attaching(d) => d = c
    /\ \A c \in Client : seen[c].seq <= Len(series) /\ (seen[c].epoch = 0 => seen[c].seq = 0)

QueueFits(c) ==
    /\ \A i \in 1..Len(queue[c]) :
        Holds(series, queue[c][i]) /\ queue[c][i].seq = queue[c][1].seq + i - 1
    /\ c \in subs /\ queue[c] # <<>> => queue[c][Len(queue[c])].seq = cursor.seq

\* What will be handed to the connection next is at most one past the bound.
NextWithin(c, bound) ==
    IF queue[c] # <<>> THEN queue[c][1].seq <= bound + 1 ELSE ~dropped[c] => cursor.seq <= bound

ReachedFits(c) ==
    /\ conn[c] = "planning" => NextWithin(c, seen[c].seq)
    /\ conn[c] \in Serving => NextWithin(c, mark[c].seq) /\ sent[c] <= mark[c].seq
    /\ mark[c].epoch = 0 => mark[c].seq = 0

GapInv == CursorFits /\ \A c \in Client : QueueFits(c) /\ ReachedFits(c)

LEMMA SeriesGrows ==
    ASSUME MaxRestores = 0, StreamInv, [StreamNext]_streamVars
    PROVE  /\ Len(series) \in Nat /\ Len(series') \in Nat /\ Len(series) <= Len(series')
           /\ head.seq = Len(series) /\ head.epoch <= 1 /\ head.epoch \in Nat
           /\ \A f \in Frame : Holds(series, f) => Holds(series', f)
<1>1. /\ series \in Seq(Epoch) /\ Len(series) \in Nat /\ restores = 0 /\ head.epoch \in Nat
      /\ head.seq = Len(series) /\ head.epoch <= 1
  <2>1. restores \in 0..MaxRestores /\ series \in Seq(Epoch) /\ head \in Frame
    BY FrameType DEF StreamInv, StreamTypeOK
  <2> QED BY <2>1, LenProperties DEF Frame, StreamInv, HeadFits
<1>2. CASE PassCommits
  <2> DEFINE epoch == IF head = Cold THEN 1 ELSE head.epoch
  <2>1. series' = Append(series, epoch)
    BY <1>2 DEF PassCommits, Publish
  <2>2. epoch \in Epoch
    BY FrameType DEF StreamInv, StreamTypeOK
  <2> HIDE DEF epoch
  <2>3. /\ Len(series') = Len(series) + 1
        /\ \A n \in 1..Len(series) : series'[n] = series[n]
    BY <1>1, <2>1, <2>2, AppendProperties
  <2> QED BY <1>1, <2>3 DEF Holds
<1>3. ~Restored
  BY <1>1 DEF Restored
<1>4. CASE ~PassCommits
  <2>1. series' = series
    BY <1>3, <1>4 DEF StreamNext, streamVars, Connect, ReadSeed, SeedCursor, ReadPlanHead, GoLive,
         NextFrame, Deliver, Disconnect, Open, Wake, Sweep, Unwatched, ReadBatch, FanOut,
         ListenerFails, EngineBoots, Seed, ServerRestarts, seriesVars
  <2> QED BY <1>1, <2>1
<1> QED BY <1>2, <1>4

\* A connection a step leaves alone is where it was.
LEMMA GapKept ==
    ASSUME MaxRestores = 0, StreamInv, [StreamNext]_streamVars, NEW c \in Client,
           QueueFits(c), ReachedFits(c), queue'[c] = queue[c], dropped'[c] = dropped[c],
           mark'[c] = mark[c], seen'[c] = seen[c], sent'[c] = sent[c], conn'[c] = conn[c],
           cursor' = cursor, c \in subs' => c \in subs
    PROVE  QueueFits(c)' /\ ReachedFits(c)'
<1>1. queue[c] \in Seq(Frame) /\ \A i \in 1..Len(queue[c]) : queue[c][i] \in Frame
  BY ElementOfSeq DEF StreamInv, StreamTypeOK
<1>2. QueueFits(c)'
  BY <1>1, SeriesGrows DEF QueueFits
<1>3. NextWithin(c, mark[c].seq)' <=> NextWithin(c, mark[c].seq)
  BY DEF NextWithin
<1>4. NextWithin(c, seen[c].seq)' <=> NextWithin(c, seen[c].seq)
  BY DEF NextWithin
<1> QED BY <1>2, <1>3, <1>4 DEF ReachedFits

\* A connection that has not planned yet, or has ended, and whose queue is empty.
LEMMA GapBefore ==
    ASSUME NEW c \in Client, queue'[c] = <<>>, conn'[c] \notin Serving \cup {"planning"},
           (mark[c].epoch = 0 => mark[c].seq = 0)'
    PROVE  QueueFits(c)' /\ ReachedFits(c)'
BY EmptySeq DEF QueueFits, ReachedFits, Serving

LEMMA GapTypes ==
    ASSUME StreamInv
    PROVE  /\ conn \in [Client -> ConnPhase] /\ seen \in [Client -> Frame] /\ mark \in [Client -> Frame]
           /\ sent \in [Client -> Nat] /\ queue \in [Client -> Seq(Frame)]
           /\ dropped \in [Client -> BOOLEAN] /\ subs \subseteq Client
           /\ batch \in Seq(Frame) /\ Len(batch) \in Nat /\ cursor.seq \in Int
           /\ cursor \in Frame \cup {Unseeded} /\ series \in Seq(Epoch) /\ Len(series) \in Nat
<1>1. cursor \in Frame \cup {Unseeded}
  BY DEF StreamInv, StreamTypeOK
<1>2. cursor.seq \in Int
  BY <1>1, FrameType DEF Frame
<1> QED BY <1>1, <1>2, LenProperties DEF StreamInv, StreamTypeOK

LEMMA CursorStep ==
    ASSUME MaxRestores = 0, ~ConcurrentAttach, StreamInv, CursorFits, [StreamNext]_streamVars
    PROVE  CursorFits'
<1> USE GapTypes
<1>1. ASSUME UNCHANGED <<cursor, batch>>,
             \A c \in Client : Attaching(c)' => Attaching(c),
             \A c \in Client : seen'[c] = seen[c] \/ seen'[c] = Cold
      PROVE  CursorFits'
  <2>1. Len(series) <= Len(series') /\ Len(series') \in Nat /\ Cold.seq = 0
    BY SeriesGrows, FrameType
  <2>2. /\ cursor'.seq + Len(batch') <= Len(series')
        /\ \A i \in 1..Len(batch') : Holds(series', batch'[i]) /\ batch'[i].seq = cursor'.seq + i
    BY <1>1, <2>1, SeriesGrows, ElementOfSeq DEF CursorFits
  <2>3. \A c \in Client : seen[c].seq \in Nat
    BY DEF Frame
  <2>4. ASSUME NEW c \in Client
        PROVE  seen'[c].seq <= Len(series') /\ (seen'[c].epoch = 0 => seen'[c].seq = 0)
    <3>1. CASE seen'[c] = seen[c]
      BY <2>1, <2>3, <3>1 DEF CursorFits
    <3>2. CASE seen'[c] = Cold
      BY <2>1, <3>2
    <3> QED BY <1>1, <3>1, <3>2
  <2> QED BY <1>1, <2>2, <2>4 DEF CursorFits
<1>2. ASSUME NEW c \in Client, Connect(c) PROVE CursorFits'
  <2>1. UNCHANGED <<seriesVars, cursor, batch, seen>>
    BY <1>2 DEF Connect, tailVars
  <2>2. CASE cursor # Unseeded
    <3>1. \A d \in Client : Attaching(d)' => Attaching(d)
      BY <1>2, <2>2 DEF Connect, Attach, Attaching
    <3> QED BY <1>1, <2>1, <3>1
  <2>3. CASE cursor = Unseeded
    <3>1. /\ \A d \in Client : ~Attaching(d)
          /\ conn' = [conn EXCEPT ![c] = "seeding"]
      BY <1>2, <2>3 DEF Connect, Attaching
    <3>2. \A d \in Client : Attaching(d)' => d = c
      BY <3>1 DEF Attaching
    <3> QED BY <2>1, <2>3, <3>2 DEF CursorFits, seriesVars
  <2> QED BY <2>2, <2>3
<1>3. ASSUME NEW c \in Client, ReadSeed(c) PROVE CursorFits'
  <2>1. /\ UNCHANGED <<seriesVars, cursor, batch>> /\ seen' = [seen EXCEPT ![c] = head]
        /\ conn' = [conn EXCEPT ![c] = "seeded"] /\ conn[c] = "seeding"
    BY <1>3 DEF ReadSeed, tailVars
  <2>2. \A d \in Client : Attaching(d)' <=> Attaching(d)
    BY <2>1 DEF Attaching
  <2>3. head.seq = Len(series) /\ (head.epoch = 0 => head.seq = 0)
    BY EmptySeq DEF StreamInv, HeadFits
  <2> QED BY <2>1, <2>2, <2>3 DEF CursorFits, seriesVars
<1>4. ASSUME NEW c \in Client, SeedCursor(c) PROVE CursorFits'
  <2>1. /\ UNCHANGED <<seriesVars, batch, seen>> /\ cursor' = seen[c]
        /\ conn' = [conn EXCEPT ![c] = "attached"] /\ conn[c] = "seeded"
    BY <1>4 DEF SeedCursor, Attach
  <2>2. cursor = Unseeded /\ \A d \in Client : ~Attaching(d)'
    BY <2>1 DEF CursorFits, Attaching
  <2>3. batch = <<>> /\ Len(batch) = 0
    BY <2>2, EmptySeq DEF StreamInv, TailFits
  <2>4. seen[c].seq <= Len(series) /\ seen[c].seq \in Nat
    BY DEF CursorFits, Frame
  <2> QED BY <2>1, <2>2, <2>3, <2>4 DEF CursorFits, seriesVars
<1>5. ASSUME NEW c \in Client, ReadPlanHead(c) PROVE CursorFits'
  <2>1. UNCHANGED <<seriesVars, cursor, batch>>
    BY <1>5 DEF ReadPlanHead, tailVars
  <2>2. \A d \in Client : Attaching(d)' => Attaching(d)
    BY <1>5 DEF ReadPlanHead, Close, Attaching
  <2>3. head.seq = Len(series) /\ (head.epoch = 0 => head.seq = 0) /\ Cold.seq = 0
    BY EmptySeq, FrameType DEF StreamInv, HeadFits
  <2>4. seen' = [seen EXCEPT ![c] = head] \/ seen' = [seen EXCEPT ![c] = Cold]
    BY <1>5 DEF ReadPlanHead, Close
  <2>5. ASSUME NEW d \in Client
        PROVE  seen'[d].seq <= Len(series) /\ (seen'[d].epoch = 0 => seen'[d].seq = 0)
    <3>1. seen'[d] = head \/ seen'[d] = Cold \/ seen'[d] = seen[d]
      BY <2>4
    <3> QED BY <2>3, <3>1 DEF CursorFits
  <2> QED BY <2>1, <2>2, <2>5 DEF CursorFits, seriesVars
<1>6. ASSUME NEW c \in Client, GoLive(c) \/ NextFrame(c) \/ Deliver(c) \/ Disconnect(c) PROVE CursorFits'
  <2>1. UNCHANGED <<cursor, batch>>
    BY <1>6 DEF GoLive, NextFrame, Deliver, Disconnect, tailVars
  <2>2. \A d \in Client : Attaching(d)' => Attaching(d)
    BY <1>6 DEF GoLive, NextFrame, Deliver, Disconnect, Close, Attaching
  <2>3. \A d \in Client : seen'[d] = seen[d] \/ seen'[d] = Cold
    BY <1>6 DEF GoLive, NextFrame, Deliver, Disconnect, Close
  <2> QED BY <1>1, <2>1, <2>2, <2>3
<1>7. CASE ReadBatch
  <2>1. cursor \in Frame
    BY <1>7 DEF ReadBatch, StreamInv, TailFits
  <2>2. cursor.seq \in Nat /\ BatchSize \in Int
    BY <2>1, StreamAssumption DEF Frame, StreamAssumption
  <2>3. batch' = Rows(series, cursor.seq, BatchSize) /\ UNCHANGED <<seriesVars, cursor, conn, seen>>
    BY <1>7 DEF ReadBatch, sessionVars
  <2>4. batch' \in Seq(Frame) /\ \A i \in 1..Len(batch') :
           cursor.seq + i \in 1..Len(series)
           /\ batch'[i] = [seq |-> cursor.seq + i, epoch |-> series[cursor.seq + i]]
    BY <2>2, <2>3, RowsAreConsecutive
  <2>5. ASSUME NEW i \in 1..Len(batch') PROVE Holds(series, batch'[i]) /\ batch'[i].seq = cursor.seq + i
    <3>1. cursor.seq + i \in 1..Len(series)
          /\ batch'[i] = [seq |-> cursor.seq + i, epoch |-> series[cursor.seq + i]]
      BY <2>4
    <3> QED BY <3>1 DEF Holds
  <2>6. cursor.seq + Len(batch') <= Len(series)
    <3>1. Len(batch') \in Nat
      BY <2>4, LenProperties
    <3>2. CASE Len(batch') = 0
      BY <3>2 DEF CursorFits
    <3>3. CASE Len(batch') # 0
      <4>1. Len(batch') \in 1..Len(batch')
        BY <3>1, <3>3
      <4>2. cursor.seq + Len(batch') \in 1..Len(series)
        BY <2>4, <4>1
      <4> QED BY <4>2
    <3> QED BY <3>2, <3>3
  <2> QED BY <2>3, <2>5, <2>6 DEF CursorFits, Attaching, seriesVars
<1>8. CASE FanOut
  <2>1. /\ cursor' = batch[Len(batch)] /\ batch' = <<>> /\ Len(batch') = 0
        /\ UNCHANGED <<seriesVars, conn, seen>>
    BY <1>8, EmptySeq DEF FanOut, sessionVars
  <2>2. Len(batch) \in 1..Len(batch)
    BY <1>8, EmptySeq DEF FanOut, StreamInv, TailFits
  <2>3. cursor'.seq = cursor.seq + Len(batch)
    BY <2>1, <2>2 DEF CursorFits
  <2>4. \A c \in Client : ~Attaching(c)
    BY <1>8 DEF FanOut, StreamInv, TailFits, CursorFits
  <2> QED BY <2>1, <2>3, <2>4 DEF CursorFits, Attaching, seriesVars
<1>9. CASE Open \/ Wake \/ Sweep \/ Unwatched \/ ListenerFails \/ PassCommits \/ EngineBoots
  <2>1. UNCHANGED <<cursor, batch, conn, seen>>
    BY <1>9 DEF Open, Wake, Sweep, Unwatched, ListenerFails, PassCommits, EngineBoots, tailVars,
                sessionVars
  <2> QED BY <1>1, <2>1 DEF Attaching
<1>10. CASE ServerRestarts
  <2>1. /\ cursor' = Unseeded /\ batch' = <<>> /\ Len(batch') = 0 /\ UNCHANGED seriesVars
        /\ \A c \in Client : conn'[c] = "closed" /\ seen'[c] = Cold
    BY <1>10, EmptySeq DEF ServerRestarts
  <2> QED BY <2>1, FrameType DEF CursorFits, Attaching, seriesVars
<1>11. CASE UNCHANGED streamVars
  BY <1>1, <1>11 DEF streamVars, tailVars, sessionVars, Attaching
<1>12. ~Restored
  <2>1. restores \in 0..MaxRestores
    BY DEF StreamInv, StreamTypeOK
  <2> QED BY <2>1 DEF Restored
<1> QED BY <1>2, <1>3, <1>4, <1>5, <1>6, <1>7, <1>8, <1>9, <1>10, <1>11, <1>12 DEF StreamNext

\* The connection a step of a session serves.
LEMMA SessionGapStep ==
    ASSUME MaxRestores = 0, StreamInv, HistoryInv, CursorFits, [StreamNext]_streamVars,
           NEW c \in Client, QueueFits(c), ReachedFits(c),
           \/ Connect(c) \/ ReadSeed(c) \/ SeedCursor(c) \/ ReadPlanHead(c)
           \/ GoLive(c) \/ NextFrame(c) \/ Deliver(c) \/ Disconnect(c)
    PROVE  QueueFits(c)' /\ ReachedFits(c)'
<1> USE GapTypes
<1>1. ASSUME Close(c), mark'[c] = mark[c] \/ mark'[c] = Cold PROVE QueueFits(c)' /\ ReachedFits(c)'
  <2>1. queue'[c] = <<>> /\ conn'[c] = "closed"
    BY <1>1 DEF Close
  <2>2. mark'[c].epoch = 0 => mark'[c].seq = 0
    BY <1>1, FrameType DEF ReachedFits
  <2> QED BY <2>1, <2>2, GapBefore DEF Serving
<1>2. ASSUME Attach(c), mark'[c] = mark[c] PROVE QueueFits(c)' /\ ReachedFits(c)'
  <2>1. queue'[c] = <<>> /\ conn'[c] = "attached"
    BY <1>2 DEF Attach
  <2>2. mark'[c].epoch = 0 => mark'[c].seq = 0
    BY <1>2 DEF ReachedFits
  <2> QED BY <2>1, <2>2, GapBefore DEF Serving
<1>3. ASSUME queue' = queue, subs' = subs, cursor' = cursor, series' = series
      PROVE  QueueFits(c)'
  BY <1>3 DEF QueueFits
<1>4. CASE Connect(c)
  <2>1. mark' = mark /\ cursor' = cursor /\ series' = series
    BY <1>4 DEF Connect, consumerVars, tailVars, seriesVars
  <2>2. CASE cursor # Unseeded
    BY <1>2, <1>4, <2>1, <2>2 DEF Connect
  <2>3. CASE cursor = Unseeded
    <3>1. conn'[c] = "seeding" /\ UNCHANGED subVars
      BY <1>4, <2>3 DEF Connect
    <3> QED BY <1>3, <2>1, <3>1 DEF ReachedFits, Serving, subVars
  <2> QED BY <2>2, <2>3
<1>5. CASE ReadSeed(c)
  <2>1. /\ UNCHANGED <<mark, cursor, series, subVars>> /\ conn'[c] = "seeded"
    BY <1>5 DEF ReadSeed, consumerVars, tailVars, seriesVars
  <2> QED BY <1>3, <2>1 DEF ReachedFits, Serving, subVars
<1>6. CASE SeedCursor(c)
  BY <1>2, <1>6 DEF SeedCursor, consumerVars
<1>7. CASE ReadPlanHead(c)
  <2>1. CASE StartOver(c) /\ Close(c)
    BY <1>1, <2>1 DEF StartOver
  <2>2. CASE /\ seen' = [seen EXCEPT ![c] = head] /\ conn' = [conn EXCEPT ![c] = "planning"]
             /\ UNCHANGED <<subVars, request, sent, epochOf, consumerVars>>
    <3>1. /\ UNCHANGED <<mark, cursor, series, subVars>> /\ conn'[c] = "planning" /\ seen'[c] = head
      BY <1>7, <2>2 DEF ReadPlanHead, consumerVars, tailVars, seriesVars
    <3>2. head.seq = Len(series)
      BY SeriesGrows
    <3>3. cursor.seq <= head.seq
      BY <3>2 DEF CursorFits
    <3>4. queue[c] # <<>> => queue[c][1].seq <= head.seq + 1
      <4>1. queue[c] # <<>> => 1 \in 1..Len(queue[c])
        BY EmptySeq, LenProperties
      <4> QED BY <3>2, <4>1 DEF QueueFits, Holds
    <3>5. NextWithin(c, seen[c].seq)'
      BY <3>1, <3>3, <3>4 DEF NextWithin, subVars
    <3> QED BY <1>3, <3>1, <3>5 DEF ReachedFits, Serving, subVars
  <2> QED BY <1>7, <2>1, <2>2 DEF ReadPlanHead
<1>8. CASE GoLive(c)
  <2>1. /\ UNCHANGED <<series, cursor, subVars>> /\ conn'[c] = "live" /\ conn[c] = "planning"
    BY <1>8 DEF GoLive, tailVars, seriesVars
  <2>2. PICK final \in Frame :
          /\ final = Cold \/ Holds(series, final)
          /\ seen[c].seq = 0 /\ request[c].kind # "since" => final = Cold
          /\ sent' = [sent EXCEPT ![c] = final.seq]
          /\ mark' = [mark EXCEPT ![c] =
                         [seq |-> Larger(final.seq, seen[c].seq), epoch |-> seen[c].epoch]]
    BY <1>8, GoLiveReplays, TypeParts DEF StreamInv
  <2>3. /\ sent'[c] = final.seq /\ mark'[c].seq = Larger(final.seq, seen[c].seq)
        /\ mark'[c].epoch = seen[c].epoch
    BY <2>2
  <2>4. final.seq \in Nat /\ seen[c].seq \in Nat
    BY DEF Frame
  <2>5. mark'[c].seq \in Nat /\ mark'[c].seq >= seen[c].seq /\ sent'[c] <= mark'[c].seq
    BY <2>3, <2>4 DEF Larger
  <2>6. seen[c].epoch = 0 => mark'[c].seq = 0
    <3>1. SUFFICES ASSUME seen[c].epoch = 0 PROVE mark'[c].seq = 0
      OBVIOUS
    <3>2. seen[c].seq = 0
      BY <3>1 DEF CursorFits
    <3>3. request[c].kind # "since"
      BY <2>1, <3>1 DEF HistoryInv, Knows, AsksForItsMark
    <3> QED BY <2>2, <2>3, <3>2, <3>3, FrameType DEF Larger
  <2>7. NextWithin(c, mark[c].seq)'
    <3>1. NextWithin(c, seen[c].seq)
      BY <2>1 DEF ReachedFits
    <3>2. queue[c] # <<>> => queue[c][1].seq \in Nat
      <4>1. SUFFICES ASSUME queue[c] # <<>> PROVE queue[c][1].seq \in Nat
        OBVIOUS
      <4>2. queue[c] \in Seq(Frame)
        OBVIOUS
      <4>3. 1 \in 1..Len(queue[c])
        BY <4>1, <4>2, EmptySeq, LenProperties
      <4>4. queue[c][1] \in Frame
        BY <4>2, <4>3, ElementOfSeq
      <4> QED BY <4>4 DEF Frame
    <3>3. \A first, a, b \in Nat : first <= a + 1 /\ b >= a => first <= b + 1
      OBVIOUS
    <3>4. UNCHANGED <<queue, dropped, cursor>>
      BY <2>1 DEF subVars
    <3>5. CASE queue[c] # <<>>
      <4>1. queue[c][1].seq <= seen[c].seq + 1
        BY <3>1, <3>5 DEF NextWithin
      <4>2. queue[c][1].seq <= mark'[c].seq + 1
        BY <4>1, <2>4, <2>5, <3>2, <3>3, <3>5
      <4> QED BY <4>2, <3>4, <3>5 DEF NextWithin
    <3>6. CASE queue[c] = <<>>
      <4>1. ~dropped[c] => cursor.seq <= seen[c].seq
        BY <3>1, <3>6 DEF NextWithin
      <4>2. ~dropped[c] => cursor.seq <= mark'[c].seq
        BY <4>1, <1>2, <2>4, <2>5
      <4> QED BY <4>2, <3>4, <3>6 DEF NextWithin
    <3> QED BY <3>5, <3>6
  <2> QED BY <1>3, <2>1, <2>3, <2>5, <2>6, <2>7 DEF ReachedFits, Serving, subVars
<1>9. CASE NextFrame(c)
  <2>1. CASE Close(c)
    BY <1>1, <1>9, <2>1 DEF NextFrame, consumerVars
  <2>2. CASE conn' = [conn EXCEPT ![c] = "await"] /\ UNCHANGED <<subVars, request, seen, sent, epochOf>>
    <3>1. /\ UNCHANGED <<mark, cursor, series, subVars, sent>> /\ conn'[c] = "await"
          /\ conn[c] = "live"
      BY <1>9, <2>2 DEF NextFrame, consumerVars, tailVars, seriesVars
    <3>2. NextWithin(c, mark[c].seq)' <=> NextWithin(c, mark[c].seq)
      BY <3>1 DEF NextWithin, subVars
    <3> QED BY <1>3, <3>1, <3>2 DEF ReachedFits, Serving, subVars
  <2> QED BY <1>9, <2>1, <2>2 DEF NextFrame
<1>10. CASE Deliver(c)
  <2> DEFINE f == Head(queue[c])
  <2>1. /\ conn[c] = "await" /\ queue[c] # <<>> /\ UNCHANGED <<series, cursor>>
    BY <1>10 DEF Deliver, tailVars, seriesVars
  <2>2. /\ f = queue[c][1] /\ f \in Frame /\ Holds(series, f) /\ f.seq \in Nat
        /\ Len(queue[c]) \in Nat /\ 1 \in 1..Len(queue[c])
    <3>1. 1 \in 1..Len(queue[c]) /\ f = queue[c][1] /\ f \in Frame /\ Len(queue[c]) \in Nat
      BY <2>1, HeadTailProperties, EmptySeq, LenProperties
    <3>2. f.seq \in Nat
      BY <3>1 DEF Frame
    <3> QED BY <3>1, <3>2 DEF QueueFits
  <2>3. CASE OtherEpoch(c, f) /\ ~Stale(c, f)
    BY <1>1, <1>10, <2>3 DEF Deliver, StartOver
  <2>4. CASE ~(OtherEpoch(c, f) /\ ~Stale(c, f))
    <3>1. /\ queue'[c] = Tail(queue[c]) /\ conn'[c] = "live" /\ UNCHANGED <<subs, dropped, seen>>
          /\ IF Stale(c, f) THEN UNCHANGED <<sent, epochOf, consumerVars>> ELSE Send(c, f)
      BY <1>10, <2>4 DEF Deliver
    <3> HIDE DEF f
    <3>2. /\ Len(queue'[c]) = Len(queue[c]) - 1
          /\ \A i \in 1..Len(queue'[c]) : queue'[c][i] = queue[c][i + 1]
      BY <2>1, <3>1, HeadTailProperties
    <3> DEFINE rest == Len(queue'[c])
    <3>9. rest \in Nat /\ (queue'[c] # <<>> => rest # 0)
      <4>1. queue'[c] \in Seq(Frame)
        BY <2>1, <3>1, HeadTailProperties
      <4> QED BY <4>1, EmptySeq, LenProperties
    <3>10. rest + 1 = Len(queue[c])
      BY <2>2, <3>2, <3>9
    <3> HIDE DEF rest
    <3>3. QueueFits(c)'
      <4>1. ASSUME NEW i \in 1..Len(queue'[c])
            PROVE  Holds(series, queue'[c][i]) /\ queue'[c][i].seq = f.seq + i
        <5>1. i \in 1..rest
          BY DEF rest
        <5>2. i + 1 \in 1..Len(queue[c]) /\ i \in Nat
          BY <2>2, <3>9, <3>10, <5>1
        <5>3. queue'[c][i] = queue[c][i + 1]
          BY <3>2
        <5>4. queue[c][i + 1].seq = f.seq + (i + 1) - 1 /\ Holds(series, queue[c][i + 1])
          BY <2>2, <5>2 DEF QueueFits
        <5> QED BY <2>2, <5>2, <5>3, <5>4
      <4>2. c \in subs /\ queue'[c] # <<>> => queue'[c][Len(queue'[c])].seq = cursor.seq
        <5>1. SUFFICES ASSUME c \in subs, queue'[c] # <<>>
                       PROVE  queue'[c][Len(queue'[c])].seq = cursor.seq
          OBVIOUS
        <5>2. rest \in 1..rest
          BY <3>9, <5>1
        <5>3. queue'[c][rest] = queue[c][Len(queue[c])]
          BY <3>2, <3>10, <5>2 DEF rest
        <5> QED BY <2>1, <5>1, <5>3 DEF QueueFits, rest
      <4>3. ASSUME NEW i \in 1..Len(queue'[c])
            PROVE  queue'[c][i].seq = queue'[c][1].seq + i - 1
        <5>1. i \in 1..rest
          BY DEF rest
        <5>2. 1 \in 1..rest /\ i \in Nat
          BY <3>9, <5>1
        <5>3. queue'[c][1].seq = f.seq + 1 /\ queue'[c][i].seq = f.seq + i
          BY <4>1, <5>2 DEF rest
        <5> QED BY <2>2, <5>2, <5>3
      <4> QED BY <2>1, <3>1, <4>1, <4>2, <4>3 DEF QueueFits
    <3>4. mark[c].seq \in Nat /\ sent[c] \in Nat
      BY DEF Frame
    <3>5. f.seq <= mark'[c].seq /\ mark'[c].seq \in Nat /\ sent'[c] <= mark'[c].seq
      <4>1. CASE Stale(c, f)
        <5>1. mark'[c] = mark[c] /\ sent'[c] = sent[c] /\ sent[c] <= mark[c].seq
          BY <2>1, <3>1, <4>1 DEF consumerVars, ReachedFits, Serving
        <5> QED BY <2>2, <3>4, <4>1, <5>1 DEF Stale
      <4>2. CASE ~Stale(c, f)
        <5>1. mark'[c].seq = Larger(mark[c].seq, f.seq) /\ sent'[c] = f.seq
          BY <3>1, <4>2 DEF Send
        <5> QED BY <2>2, <3>4, <5>1 DEF Larger
      <4> QED BY <4>1, <4>2
    <3>6. mark'[c].epoch = 0 => mark'[c].seq = 0
      <4>1. CASE Stale(c, f)
        BY <3>1, <4>1 DEF consumerVars, ReachedFits
      <4>2. CASE ~Stale(c, f)
        <5>1. mark'[c].epoch = f.epoch
          BY <3>1, <4>2 DEF Send
        <5>2. f.epoch # 0
          BY <2>2, SeriesGrows DEF Holds, StreamInv, HeadFits
        <5> QED BY <5>1, <5>2
      <4> QED BY <4>1, <4>2
    <3>7. NextWithin(c, mark[c].seq)'
      <4>1. CASE queue'[c] # <<>>
        <5>1. 1 \in 1..rest /\ 2 \in 1..Len(queue[c])
          BY <2>2, <3>9, <3>10, <4>1
        <5>3. queue'[c][1] = queue[c][2] /\ queue[c][2].seq = f.seq + 2 - 1
          BY <2>2, <3>2, <5>1 DEF QueueFits, rest
        <5>2. queue'[c][1].seq = f.seq + 1
          BY <2>2, <5>3
        <5> QED BY <2>2, <3>5, <4>1, <5>2 DEF NextWithin
      <4>2. CASE queue'[c] = <<>>
        <5>1. Len(queue[c]) = 1
          BY <2>2, <3>9, <3>10, <4>2, EmptySeq DEF rest
        <5>2. ~dropped[c] => cursor.seq = f.seq
          BY <2>1, <2>2, <5>1 DEF QueueFits, StreamInv, RegisteredIffOpen, Connected
        <5> QED BY <2>1, <3>1, <3>5, <4>2, <5>2 DEF NextWithin
      <4> QED BY <4>1, <4>2
    <3> QED BY <3>1, <3>3, <3>5, <3>6, <3>7 DEF ReachedFits, Serving
  <2> QED BY <2>3, <2>4
<1>11. CASE Disconnect(c)
  BY <1>1, <1>11 DEF Disconnect, consumerVars
<1> QED BY <1>4, <1>5, <1>6, <1>7, <1>8, <1>9, <1>10, <1>11

LEMMA SessionGap ==
    ASSUME MaxRestores = 0, StreamInv, HistoryInv, CursorFits, [StreamNext]_streamVars,
           \A d \in Client : QueueFits(d) /\ ReachedFits(d), NEW c \in Client,
           \/ Connect(c) \/ ReadSeed(c) \/ SeedCursor(c) \/ ReadPlanHead(c)
           \/ GoLive(c) \/ NextFrame(c) \/ Deliver(c) \/ Disconnect(c)
    PROVE  \A d \in Client : QueueFits(d)' /\ ReachedFits(d)'
<1> USE GapTypes
<1> SUFFICES ASSUME NEW d \in Client, d # c PROVE QueueFits(d)' /\ ReachedFits(d)'
  BY SessionGapStep
<1>1. ASSUME Attach(c) \/ Close(c)
      PROVE  /\ queue'[d] = queue[d] /\ dropped'[d] = dropped[d] /\ conn'[d] = conn[d]
             /\ d \in subs' <=> d \in subs
  BY <1>1 DEF Attach, Close
<1>2. /\ queue'[d] = queue[d] /\ dropped'[d] = dropped[d] /\ conn'[d] = conn[d]
      /\ d \in subs' <=> d \in subs
  <2>1. CASE Connect(c) \/ ReadSeed(c) \/ SeedCursor(c)
    BY <1>1, <2>1 DEF Connect, ReadSeed, SeedCursor, subVars
  <2>2. CASE ReadPlanHead(c) \/ GoLive(c) \/ NextFrame(c) \/ Disconnect(c)
    BY <1>1, <2>2 DEF ReadPlanHead, GoLive, NextFrame, Disconnect, subVars
  <2>3. CASE Deliver(c)
    BY <1>1, <2>3 DEF Deliver
  <2> QED BY <2>1, <2>2, <2>3
<1>3. mark'[d] = mark[d] /\ seen'[d] = seen[d] /\ sent'[d] = sent[d]
  <2>1. CASE Connect(c) \/ ReadSeed(c) \/ SeedCursor(c)
    BY <2>1 DEF Connect, ReadSeed, SeedCursor, consumerVars
  <2>2. CASE ReadPlanHead(c) \/ GoLive(c) \/ NextFrame(c) \/ Disconnect(c)
    BY <2>2 DEF ReadPlanHead, GoLive, NextFrame, Disconnect, Close, StartOver, consumerVars
  <2>3. CASE Deliver(c)
    BY <2>3 DEF Deliver, Close, StartOver, Send, consumerVars
  <2> QED BY <2>1, <2>2, <2>3
<1>4. CASE cursor' = cursor
  BY <1>2, <1>3, <1>4, GapKept
<1>5. CASE cursor' # cursor
  <2>1. SeedCursor(c)
    BY <1>5 DEF Connect, ReadSeed, ReadPlanHead, GoLive, NextFrame, Deliver, Disconnect, tailVars
  <2>2. cursor = Unseeded
    BY <2>1 DEF SeedCursor, CursorFits, Attaching
  <2>3. d \notin subs /\ d \notin subs'
    BY <1>2, <2>2 DEF StreamInv, TailFits
  <2>4. conn[d] \in Connected => dropped[d]
    BY <2>3 DEF StreamInv, RegisteredIffOpen
  <2>5. series' = series
    BY <2>1 DEF SeedCursor, seriesVars
  <2>6. QueueFits(d)'
    BY <1>2, <2>3, <2>5 DEF QueueFits
  <2>7. conn[d] \in Connected => /\ NextWithin(d, mark[d].seq)' <=> NextWithin(d, mark[d].seq)
                                 /\ NextWithin(d, seen[d].seq)' <=> NextWithin(d, seen[d].seq)
    BY <1>2, <1>3, <2>4 DEF NextWithin
  <2> QED BY <1>2, <1>3, <2>6, <2>7 DEF ReachedFits, Serving, Connected
<1> QED BY <1>4, <1>5

LEMMA Offsets ==
    ASSUME NEW a \in Int, NEW b \in Int, NEW n \in Int, NEW k \in Int
    PROVE  (b = a - n + 1 => b + k - 1 = a - n + k) /\ a - n + (n + k) = a + k
OBVIOUS

\* The fan-out continues every queue where it stood.
LEMMA FanOutGap ==
    ASSUME MaxRestores = 0, StreamInv, CursorFits, FanOut, NEW c \in Client,
           QueueFits(c), ReachedFits(c)
    PROVE  QueueFits(c)' /\ ReachedFits(c)'
<1> USE GapTypes
<1>1. /\ UNCHANGED <<series, conn, seen, sent, mark>> /\ cursor' = batch[Len(batch)]
      /\ dropped'[c] = (dropped[c] \/ Overflows(c))
      /\ subs' = Kept
  BY DEF FanOut, seriesVars, sessionVars, consumerVars
<1>2. /\ Len(batch) \in 1..Len(batch) /\ cursor \in Frame /\ cursor.seq \in Nat
      /\ cursor'.seq = cursor.seq + Len(batch)
  <2>1. batch # <<>> /\ cursor # Unseeded
    BY DEF FanOut, StreamInv, TailFits
  <2>2. Len(batch) \in 1..Len(batch)
    BY <2>1, EmptySeq
  <2>3. cursor \in Frame
    BY <2>1
  <2>4. cursor.seq \in Nat
    BY <2>3 DEF Frame
  <2> QED BY <1>1, <2>2, <2>3, <2>4 DEF CursorFits
<1>3. CASE c \notin subs
  <2>1. queue'[c] = queue[c] /\ c \notin subs' /\ dropped'[c] = dropped[c]
    BY <1>1, <1>3 DEF FanOut, Kept, Overflows
  <2>2. conn[c] \in Connected => dropped[c]
    BY <1>3 DEF StreamInv, RegisteredIffOpen
  <2>3. QueueFits(c)'
    BY <1>1, <2>1 DEF QueueFits
  <2>4. conn[c] \in Connected => /\ NextWithin(c, mark[c].seq)' <=> NextWithin(c, mark[c].seq)
                                 /\ NextWithin(c, seen[c].seq)' <=> NextWithin(c, seen[c].seq)
    BY <1>1, <2>1, <2>2 DEF NextWithin
  <2> QED BY <1>1, <2>3, <2>4 DEF ReachedFits, Serving, Connected
<1>4. CASE c \in subs
  <2> DEFINE n == Len(queue[c])
             k == Len(Fitting(c))
  <2>1. /\ queue'[c] = queue[c] \o Fitting(c) /\ Len(queue'[c]) = n + k
        /\ queue'[c] \in Seq(Frame) /\ n \in Nat /\ k \in Nat /\ k = Smaller(Room(c), Len(batch))
        /\ \A i \in 1..k : Fitting(c)[i] = batch[i]
    <3>1. queue'[c] = queue[c] \o Fitting(c)
      BY <1>4 DEF FanOut
    <3>2. Fitting(c) \in Seq(Frame) /\ queue[c] \in Seq(Frame)
      BY FittingTyped, TypeParts DEF StreamInv
    <3>3. n \in Nat /\ k \in Nat
      BY <3>2, LenProperties
    <3> QED BY <3>1, <3>3, FittingTyped, TypeParts DEF StreamInv
  <2>2. /\ \A i \in 1..n : queue'[c][i] = queue[c][i]
        /\ \A i \in 1..k : queue'[c][n + i] = batch[i]
    <3>1. Fitting(c) \in Seq(Frame) /\ queue[c] \in Seq(Frame)
      BY FittingTyped, TypeParts DEF StreamInv
    <3>2. \A i \in 1..(n + k) : queue'[c][i] = IF i <= n THEN queue[c][i] ELSE Fitting(c)[i - n]
      BY <2>1, <3>1, ConcatProperties
    <3>3. ASSUME NEW i \in 1..n PROVE queue'[c][i] = queue[c][i]
      BY <2>1, <3>2
    <3>4. ASSUME NEW i \in 1..k PROVE queue'[c][n + i] = batch[i]
      <4>1. n + i \in 1..(n + k) /\ ~(n + i <= n) /\ (n + i) - n = i
        BY <2>1
      <4> QED BY <2>1, <3>2, <4>1
    <3> QED BY <3>3, <3>4
  <2>3. k <= Len(batch) /\ (Overflows(c) \/ k = Len(batch))
    <3>1. Room(c) \in Int
      BY <2>1, StreamAssumption DEF Room, StreamAssumption
    <3> QED BY <1>4, <2>1, <3>1 DEF Smaller, Overflows
  <2>4. n # 0 => queue[c] # <<>>
    BY EmptySeq
  <2>5. n = 0 => queue[c] = <<>>
    BY EmptySeq
  <2>6. queue'[c] # <<>> => n + k # 0
    BY <2>1, EmptySeq
  <2>7. \A i \in 1..n : queue[c][i].seq \in Nat
    <3> TAKE i \in 1..n
    <3>1. queue[c] \in Seq(Frame)
      OBVIOUS
    <3>2. queue[c][i] \in Frame
      BY <3>1, ElementOfSeq
    <3> QED BY <3>2 DEF Frame
  <2> HIDE DEF k
  <2>8. \A i \in 1..n : queue[c][i].seq = cursor.seq - n + i
    <3> SUFFICES ASSUME NEW i \in 1..n PROVE queue[c][i].seq = cursor.seq - n + i
      OBVIOUS
    <3>1. n \in 1..n /\ n # 0 /\ 1 \in 1..n
      BY <2>1
    <3>2. queue[c][n].seq = cursor.seq
      BY <1>4, <2>4, <3>1 DEF QueueFits
    <3>3. queue[c][n].seq = queue[c][1].seq + n - 1 /\ queue[c][i].seq = queue[c][1].seq + i - 1
      BY <3>1 DEF QueueFits
    <3>4. queue[c][1].seq \in Nat
      BY <2>7, <3>1
    <3>5. i \in Nat /\ n \in Nat /\ cursor.seq \in Nat
      BY <1>2, <2>1
    <3>6. queue[c][1].seq = cursor.seq - n + 1
      <4>1. \A b, at, m \in Int : at = b + m - 1 => b = at - m + 1
        OBVIOUS
      <4>2. cursor.seq = queue[c][1].seq + n - 1 /\ queue[c][1].seq \in Int
        BY <3>2, <3>3, <3>4
      <4>3. cursor.seq \in Int /\ n \in Int
        BY <3>5
      <4> QED BY <4>1, <4>2, <4>3
    <3>7. queue[c][1].seq + i - 1 = cursor.seq - n + i
      <4> DEFINE first == queue[c][1].seq
                 at == cursor.seq
      <4>1. first \in Int /\ at \in Int /\ n \in Int /\ i \in Int /\ first = at - n + 1
        BY <3>4, <3>5, <3>6
      <4> HIDE DEF first, at, n
      <4>2. first + i - 1 = at - n + i
        BY <4>1, Offsets
      <4> QED BY <4>2 DEF first, at
    <3> QED BY <3>3, <3>7
  <2>15. n \in Nat /\ k \in Nat /\ Len(queue'[c]) = n + k
    BY <2>1
  <2> HIDE DEF n
  <2>9. ASSUME NEW i \in 1..(n + k)
        PROVE  Holds(series, queue'[c][i]) /\ queue'[c][i].seq = cursor.seq - n + i
    <3>1. CASE i \in 1..n
      BY <2>2, <2>8, <3>1 DEF QueueFits, n
    <3>2. CASE i \notin 1..n
      <4> DEFINE j == i - n
      <4>1. j \in 1..k /\ n + j = i /\ j \in 1..Len(batch) /\ i \in Nat
        BY <2>1, <2>3, <3>2 DEF n
      <4>2. queue'[c][i] = batch[j]
        BY <2>2, <4>1
      <4>3. Holds(series, batch[j]) /\ batch[j].seq = cursor.seq + j
        BY <4>1 DEF CursorFits
      <4>4. cursor.seq + j = cursor.seq - n + i
        <5>1. cursor.seq \in Int /\ n \in Int /\ j \in Int
          BY <1>2, <2>15, <4>1
        <5>2. cursor.seq - n + (n + j) = cursor.seq + j
          BY <5>1, Offsets
        <5> QED BY <4>1, <5>2
      <4> QED BY <4>2, <4>3, <4>4
    <3> QED BY <3>1, <3>2
  <2>10. QueueFits(c)'
    <3>1. ASSUME NEW i \in 1..Len(queue'[c])
          PROVE  queue'[c][i].seq = queue'[c][1].seq + i - 1
      <4>1. i \in 1..(n + k) /\ 1 \in 1..(n + k) /\ i \in Nat
        BY <2>1 DEF n
      <4>2. queue'[c][1].seq = cursor.seq - n + 1 /\ queue'[c][i].seq = cursor.seq - n + i
        BY <2>9, <4>1
      <4> DEFINE first == queue'[c][1].seq
                 ith == queue'[c][i].seq
                 at == cursor.seq
      <4>3. at \in Int /\ n \in Int /\ i \in Int /\ first = at - n + 1 /\ ith = at - n + i
        BY <1>2, <2>15, <4>1, <4>2
      <4> HIDE DEF first, ith, at
      <4>4. ith = first + i - 1
        BY <4>3
      <4> QED BY <4>4 DEF first, ith
    <3>2. ASSUME c \in subs', queue'[c] # <<>>
          PROVE  queue'[c][Len(queue'[c])].seq = cursor'.seq
      <4>1. k = Len(batch)
        BY <1>1, <2>3, <3>2 DEF Kept
      <4>2. n + k \in 1..(n + k)
        BY <2>1, <2>6, <3>2 DEF n
      <4>3. queue'[c][n + k].seq = cursor.seq - n + (n + k)
        BY <2>9, <4>2
      <4>4. cursor.seq - n + (n + k) = cursor'.seq
        <5>1. cursor.seq - n + (n + k) = cursor.seq + k
          BY <1>2, <2>15, Offsets
        <5> QED BY <1>2, <4>1, <5>1
      <4>5. queue'[c][Len(queue'[c])] = queue'[c][n + k]
        BY <2>15
      <4> QED BY <4>3, <4>4, <4>5
    <3>3. \A i \in 1..Len(queue'[c]) : Holds(series', queue'[c][i])
      BY <1>1, <2>1, <2>9 DEF n
    <3> QED BY <3>1, <3>2, <3>3 DEF QueueFits
  <2>11. ASSUME NEW bound \in Nat, NextWithin(c, bound)
         PROVE  IF queue'[c] # <<>> THEN queue'[c][1].seq <= bound + 1
                ELSE ~dropped'[c] => cursor'.seq <= bound
    <3>1. CASE queue'[c] # <<>>
      <4>1. queue'[c][1].seq = cursor.seq - n + 1
        <5>1. 1 \in 1..(n + k)
          BY <2>1, <2>6, <3>1 DEF n
        <5> QED BY <2>9, <5>1
      <4>2. CASE n = 0
        <5>1. ~dropped[c]
          BY <1>4 DEF StreamInv, RegisteredIffOpen
        <5>2. cursor.seq <= bound
          BY <2>5, <2>11, <4>2, <5>1 DEF NextWithin
        <5> QED BY <1>2, <3>1, <4>1, <4>2, <5>2
      <4>3. CASE n # 0
        <5>1. 1 \in 1..n
          BY <2>1, <4>3 DEF n
        <5>2. queue[c][1].seq = cursor.seq - n + 1 /\ queue[c][1].seq <= bound + 1
          BY <2>4, <2>8, <2>11, <4>3, <5>1 DEF NextWithin
        <5> QED BY <3>1, <4>1, <5>2
      <4> QED BY <4>2, <4>3
    <3>2. CASE queue'[c] = <<>>
      <4>1. n + k = 0
        BY <2>1, <3>2, EmptySeq
      <4>2. k # Len(batch)
        BY <1>2, <2>1, <4>1 DEF n
      <4> QED BY <1>1, <2>3, <3>2, <4>2
    <3> QED BY <3>1, <3>2
  <2>12. mark[c].seq \in Nat /\ seen[c].seq \in Nat
    BY DEF Frame
  <2>13. NextWithin(c, mark[c].seq) => NextWithin(c, mark[c].seq)'
    BY <1>1, <2>11, <2>12 DEF NextWithin
  <2>14. NextWithin(c, seen[c].seq) => NextWithin(c, seen[c].seq)'
    BY <1>1, <2>11, <2>12 DEF NextWithin
  <2> QED BY <1>1, <2>10, <2>13, <2>14 DEF ReachedFits
<1> QED BY <1>3, <1>4

LEMMA GapInvariance ==
    ASSUME MaxRestores = 0, ~ConcurrentAttach
    PROVE  StreamSpec => []GapInv
<1>1. StreamInit => GapInv
  BY EmptySeq, FrameType DEF StreamInit, SeriesInit, GapInv, CursorFits, QueueFits, ReachedFits,
                             Attaching, Serving
<1>2. StreamInv /\ HistoryInv /\ GapInv /\ [StreamNext]_streamVars => GapInv'
  <2> SUFFICES ASSUME StreamInv, HistoryInv, GapInv, [StreamNext]_streamVars PROVE GapInv'
    OBVIOUS
  <2> USE GapTypes
  <2>1. CursorFits /\ \A c \in Client : QueueFits(c) /\ ReachedFits(c)
    BY DEF GapInv
  <2>2. CursorFits'
    BY <2>1, CursorStep
  <2> SUFFICES \A c \in Client : QueueFits(c)' /\ ReachedFits(c)'
    BY <2>2 DEF GapInv
  <2>3. ASSUME NEW c \in Client,
               \/ Connect(c) \/ ReadSeed(c) \/ SeedCursor(c) \/ ReadPlanHead(c)
               \/ GoLive(c) \/ NextFrame(c) \/ Deliver(c) \/ Disconnect(c)
        PROVE  \A d \in Client : QueueFits(d)' /\ ReachedFits(d)'
    BY <2>1, <2>3, SessionGap
  <2>4. CASE FanOut
    BY <2>1, <2>4, FanOutGap
  <2>5. CASE \/ Open \/ Wake \/ Sweep \/ Unwatched \/ ReadBatch \/ ListenerFails
             \/ PassCommits \/ EngineBoots \/ UNCHANGED streamVars
    <3>1. UNCHANGED <<cursor, subs, queue, dropped, mark, seen, sent, conn>>
      BY <2>5 DEF Open, Wake, Sweep, Unwatched, ReadBatch, ListenerFails, PassCommits, EngineBoots,
                  streamVars, tailVars, subVars, sessionVars, consumerVars
    <3> QED BY <2>1, <3>1, GapKept
  <2>6. CASE ServerRestarts
    <3> TAKE c \in Client
    <3>1. queue'[c] = <<>> /\ conn'[c] = "closed" /\ mark' = mark
      BY <2>6 DEF ServerRestarts, consumerVars
    <3>2. (mark[c].epoch = 0 => mark[c].seq = 0)'
      BY <2>1, <3>1 DEF ReachedFits
    <3> QED BY <3>1, <3>2, GapBefore DEF Serving
  <2>7. ~Restored
    <3>1. restores \in 0..MaxRestores
      BY DEF StreamInv, StreamTypeOK
    <3> QED BY <3>1 DEF Restored
  <2> QED BY <2>3, <2>4, <2>5, <2>6, <2>7 DEF StreamNext
<1> QED BY <1>1, <1>2, StreamInvariance, HistoryInvariance, PTL DEF StreamSpec

\* No envelope is skipped between the replay and the live frames, or between two live
\* frames, without the connection ending.  Two first subscribers attaching at once are
\* excluded because the later one may set the cursor back behind, or past, what the
\* earlier one is served (the run attach_race shows what is left to hold there), and a
\* restore under the dispatcher because its cursor may then stand past the journal's head.
THEOREM NoFrameIsSkipped ==
    ASSUME MaxRestores = 0, ~ConcurrentAttach
    PROVE  StreamSpec => NoSilentGap
<1> DEFINE Steps(c) == conn[c] = "await" /\ conn'[c] = "live" /\ mark'[c] # mark[c]
                           => mark'[c].seq = mark[c].seq + 1
<1>1. StreamInv /\ HistoryInv /\ GapInv /\ [StreamNext]_streamVars => \A c \in Client : Steps(c)
  <2> SUFFICES ASSUME StreamInv, HistoryInv, GapInv, [StreamNext]_streamVars, NEW c \in Client,
                      conn[c] = "await", conn'[c] = "live", mark'[c] # mark[c]
               PROVE  mark'[c].seq = mark[c].seq + 1
    OBVIOUS
  <2> USE GapTypes
  <2> DEFINE f == Head(queue[c])
  <2>1. ASSUME NEW d \in Client, Attach(d) \/ Close(d) PROVE FALSE
    BY <2>1 DEF Attach, Close
  <2>2. ASSUME NEW d \in Client, Connect(d) \/ ReadSeed(d) \/ SeedCursor(d) \/ ReadPlanHead(d)
                                 \/ GoLive(d) \/ NextFrame(d) \/ Disconnect(d)
        PROVE  FALSE
    BY <2>1, <2>2 DEF Connect, ReadSeed, SeedCursor, ReadPlanHead, GoLive, NextFrame, Disconnect
  <2>3. ASSUME NEW d \in Client, Deliver(d), d # c PROVE FALSE
    BY <2>3 DEF Deliver, Close
  <2>4. Deliver(c)
    <3>1. CASE \/ Open \/ Wake \/ Sweep \/ Unwatched \/ ReadBatch \/ FanOut \/ ListenerFails
               \/ PassCommits \/ EngineBoots \/ Restored \/ ServerRestarts \/ UNCHANGED streamVars
      BY <3>1 DEF Open, Wake, Sweep, Unwatched, ReadBatch, FanOut, ListenerFails, PassCommits,
                  EngineBoots, Restored, ServerRestarts, sessionVars, streamVars
    <3> QED BY <2>2, <2>3, <3>1 DEF StreamNext
  <2>5. /\ queue[c] # <<>> /\ ~Stale(c, f) /\ ~OtherEpoch(c, f)
        /\ mark'[c] = [seq |-> Larger(mark[c].seq, f.seq), epoch |-> f.epoch]
    BY <2>1, <2>4 DEF Deliver, Send, consumerVars
  <2>6. /\ f = queue[c][1] /\ f \in Frame /\ 1 \in 1..Len(queue[c]) /\ queue[c] \in Seq(Frame)
    BY <2>5, HeadTailProperties, EmptySeq, LenProperties
  <2> HIDE DEF f
  <2>7. Holds(series, f) /\ f.seq <= mark[c].seq + 1 /\ (mark[c].epoch = 0 => mark[c].seq = 0)
    BY <2>5, <2>6 DEF GapInv, QueueFits, ReachedFits, NextWithin, Serving
  <2>8. f.seq \in Nat \ {0} /\ f.epoch \in 1..head.epoch /\ mark[c].seq \in Nat
        /\ mark[c].epoch \in Nat
    <3>1. mark[c] \in Frame
      BY EpochsTyped
    <3>2. mark[c].seq \in Nat /\ mark[c].epoch \in Nat /\ f.seq \in Nat
      BY <3>1, <2>6 DEF Frame
    <3>3. f.seq \in 1..Len(series) /\ f.epoch = series[f.seq]
      BY <2>7 DEF Holds
    <3>4. f.epoch \in 1..head.epoch /\ f.seq # 0
      BY <3>3 DEF StreamInv, HeadFits
    <3> QED BY <3>2, <3>4
  <2>9. mark[c].epoch <= head.epoch /\ head.epoch <= 1 /\ head.epoch \in Nat
    BY SeriesGrows DEF HistoryInv, Knows, Remembers
  <2>10. CASE f.seq > mark[c].seq
    BY <2>5, <2>7, <2>8, <2>10 DEF Larger
  <2>11. CASE f.seq <= mark[c].seq
    <3>1. Larger(mark[c].seq, f.seq) = mark[c].seq /\ mark[c].epoch # 0
      BY <2>7, <2>8, <2>11 DEF Larger
    <3>2. mark[c].epoch = f.epoch
      BY <2>8, <2>9, <3>1
    <3>3. mark[c] = [seq |-> mark[c].seq, epoch |-> mark[c].epoch]
      BY DEF Frame
    <3> QED BY <2>5, <3>1, <3>2, <3>3
  <2> QED BY <2>8, <2>10, <2>11
<1>2. StreamSpec => [][\A c \in Client : Steps(c)]_streamVars
  BY <1>1, StreamInvariance, HistoryInvariance, GapInvariance, PTL DEF StreamSpec
<1> QED BY <1>2 DEF NoSilentGap
=============================================================================
