---------------------------- MODULE SignalStream ----------------------------
(***************************************************************************)
(* The live transport of one signal stream: StreamDispatcher tailing the   *)
(* journal by seq and fanning out to bounded queues, StreamSession giving  *)
(* each connection its replay and then its live frames, and consumers that *)
(* reconnect with the cursor they reached.                                 *)
(*                                                                         *)
(* Reads of the store run in threads, so the event loop interleaves other  *)
(* work between a read and the use of its answer; what runs between two    *)
(* awaits is one action.                                                   *)
(***************************************************************************)
EXTENDS SignalSeries, StreamReplay, TLC

CONSTANTS
    Client,             \* consumers, one connection each at a time
    Histories,          \* the values of ?history= they ask for
    QueueSize,          \* stream.subscriber_queue_size
    BatchSize,          \* how many envelopes one read of the tail may return
    ConcurrentAttach,   \* two first subscribers may attach at once
    MaxSeq,             \* bound: envelopes published
    MaxFailures,        \* bound: listening connections lost
    MaxRestores         \* bound: restores of the database under the dispatcher

ASSUME StreamAssumption ==
    /\ Client # {} /\ Histories \subseteq Nat
    /\ QueueSize \in Nat \ {0} /\ BatchSize \in Nat \ {0}
    /\ ConcurrentAttach \in BOOLEAN
    /\ MaxSeq \in Nat /\ MaxFailures \in Nat /\ MaxRestores \in Nat
    /\ 0..(MaxRestores + 1) \subseteq Epoch

VARIABLES
    \* the dispatcher
    tail,       \* where its loop stands
    cursor,     \* the last position handed to the fan-out, Unseeded at first
    batch,      \* the envelopes its last read returned
    notified,   \* a notification waits on the listening connection
    subs,       \* the registered subscriptions
    queue,      \* each subscription's bounded queue
    dropped,    \* the queue overflowed
    \* the sessions
    conn,       \* where each connection stands
    request,    \* what it asked for
    seen,       \* the head its last store read answered
    sent,       \* last_seq: the last frame sent live or replayed, 0 if none
    epochOf,    \* stream_epoch: the epoch the connection runs under
    \* the consumers and the environment
    mark,       \* [seq, epoch] a consumer has reached, kept across connections
    last,       \* history: the last frame it was given since it started over
    failures, restores

tailVars == <<tail, cursor, batch, notified>>
subVars == <<subs, queue, dropped>>
sessionVars == <<conn, request, seen, sent, epochOf>>
consumerVars == <<mark, last>>
streamVars == <<seriesVars, tailVars, subVars, sessionVars, consumerVars, failures, restores>>


Frame == [seq : Nat, epoch : Nat]
Unseeded == [seq |-> -1, epoch |-> 0]
NoRequest == [kind |-> "history", n |-> 0, epoch |-> 0]
Requests == [kind : {"history"}, n : Histories, epoch : {0}]
TailPhase == {"down", "enter", "loop", "fan", "wait"}
ConnPhase == {"closed", "seeding", "seeded", "attached", "planning", "live", "await"}

(***************************************************************************)
(* Subscribing and unsubscribing.                                          *)
(***************************************************************************)

Attach(c) ==
    /\ subs' = subs \cup {c}
    /\ queue' = [queue EXCEPT ![c] = <<>>]
    /\ dropped' = [dropped EXCEPT ![c] = FALSE]
    /\ conn' = [conn EXCEPT ![c] = "attached"]

\* unsubscribe: the stream's cursor stays.  The session's own variables die
\* with its connection; mark is the consumer's.
Close(c) ==
    /\ subs' = subs \ {c}
    /\ queue' = [queue EXCEPT ![c] = <<>>]
    /\ dropped' = [dropped EXCEPT ![c] = FALSE]
    /\ conn' = [conn EXCEPT ![c] = "closed"]
    /\ request' = [request EXCEPT ![c] = NoRequest]
    /\ seen' = [seen EXCEPT ![c] = Cold]
    /\ sent' = [sent EXCEPT ![c] = 0]
    /\ epochOf' = [epochOf EXCEPT ![c] = 0]

\* A consumer told that its cursor is unusable discards what it holds.
StartOver(c) ==
    /\ mark' = [mark EXCEPT ![c] = Cold]
    /\ last' = [last EXCEPT ![c] = Cold]

\* A consumer asks for a snapshot, or resumes behind the position it reached.
\* subscribe runs to its end at once where the stream has a cursor, and else
\* first reads the head.
Connect(c) ==
    /\ conn[c] = "closed"
    /\ \E r \in Requests \cup {[kind |-> "since", n |-> mark[c].seq, epoch |-> mark[c].epoch]} :
          /\ r.kind = "since" => mark[c].epoch # 0
          /\ request' = [request EXCEPT ![c] = r]
    /\ IF cursor # Unseeded THEN Attach(c)
       ELSE /\ ConcurrentAttach \/ \A d \in Client : conn[d] \notin {"seeding", "seeded"}
            /\ conn' = [conn EXCEPT ![c] = "seeding"]
            /\ UNCHANGED subVars
    /\ UNCHANGED <<seriesVars, tailVars, seen, sent, epochOf, consumerVars, failures, restores>>

\* The thread reads stream_head for the first subscriber.
ReadSeed(c) ==
    /\ conn[c] = "seeding"
    /\ seen' = [seen EXCEPT ![c] = head]
    /\ conn' = [conn EXCEPT ![c] = "seeded"]
    /\ UNCHANGED <<seriesVars, tailVars, subVars, request, sent, epochOf, consumerVars,
                   failures, restores>>

\* Back on the event loop: the cursor is set to what was read, whatever it has
\* become in the meantime.
SeedCursor(c) ==
    /\ conn[c] = "seeded"
    /\ cursor' = seen[c]
    /\ Attach(c)
    /\ UNCHANGED <<seriesVars, tail, batch, notified, request, seen, sent, epochOf, consumerVars,
                   failures, restores>>

(***************************************************************************)
(* Replay, then live.                                                      *)
(***************************************************************************)

\* plan reads the head; an unusable cursor ends the connection with its
\* control frame.  A consumer told so starts over.
ReadPlanHead(c) ==
    /\ conn[c] = "attached"
    /\ \/ /\ Terminal(head, request[c])
          /\ StartOver(c)
          /\ Close(c)
       \/ /\ ~Terminal(head, request[c])
          /\ seen' = [seen EXCEPT ![c] = head]
          /\ conn' = [conn EXCEPT ![c] = "planning"]
          /\ UNCHANGED <<subVars, request, sent, epochOf, consumerVars>>
    /\ UNCHANGED <<seriesVars, tailVars, failures, restores>>

\* The oldest seq inside the replay window, or NoFloor: what was committed after
\* the head was read is not a window old.
Windows(h) == 0..(IF Len(series) > h.seq THEN h.seq + 1 ELSE h.seq)

\* plan reads the rows, the session sends them and the 'live' control, whose
\* head_seq is the position the consumer has now reached.
GoLive(c) ==
    /\ conn[c] = "planning"
    /\ \E window \in Windows(seen[c]) :
          LET rows == PlanRows(series, seen[c], request[c], window)
              final == IF rows = <<>> THEN Cold ELSE rows[Len(rows)]
          IN  /\ sent' = [sent EXCEPT ![c] = final.seq]
              /\ mark' = [mark EXCEPT ![c] =
                             [seq |-> Larger(final.seq, seen[c].seq), epoch |-> seen[c].epoch]]
              /\ last' = [last EXCEPT ![c] = 
                             IF request[c].kind = "since" /\ rows = <<>> THEN @ ELSE final]
    /\ epochOf' = [epochOf EXCEPT ![c] = seen[c].epoch]
    /\ seen' = [seen EXCEPT ![c] = Cold]
    /\ conn' = [conn EXCEPT ![c] = "live"]
    /\ UNCHANGED <<seriesVars, tailVars, subVars, request, failures, restores>>

\* Faulty variant of NextFrame: a dropped subscriber goes on waiting.
NextFrameUndropped(c) ==
    /\ conn[c] = "live"
    /\ conn' = [conn EXCEPT ![c] = "await"]
    /\ UNCHANGED <<subVars, request, seen, sent, epochOf>>
    /\ UNCHANGED <<seriesVars, tailVars, consumerVars, failures, restores>>

\* The top of the live loop: a dropped subscriber's connection ends here, its
\* queue unread; any other waits for its next frame.
NextFrame(c) ==
    /\ conn[c] = "live"
    /\ IF dropped[c] THEN Close(c)
       ELSE /\ conn' = [conn EXCEPT ![c] = "await"]
            /\ UNCHANGED <<subVars, request, seen, sent, epochOf>>
    /\ UNCHANGED <<seriesVars, tailVars, consumerVars, failures, restores>>

\* The frame at the head of the queue: discarded when the replay carried it,
\* the end of the connection when its epoch is another, and sent otherwise.
Stale(c, f) == f.seq <= sent[c]
OtherEpoch(c, f) == epochOf[c] # 0 /\ f.epoch # epochOf[c]

Send(c, f) ==
    /\ sent' = [sent EXCEPT ![c] = f.seq]
    /\ epochOf' = [epochOf EXCEPT ![c] = f.epoch]
    /\ mark' = [mark EXCEPT ![c] = [seq |-> Larger(@.seq, f.seq), epoch |-> f.epoch]]
    /\ last' = [last EXCEPT ![c] = f]

Deliver(c) ==
    /\ conn[c] = "await"
    /\ queue[c] # <<>>
    /\ LET f == Head(queue[c])
       IN  IF OtherEpoch(c, f) /\ ~Stale(c, f)
           THEN Close(c) /\ StartOver(c)
           ELSE /\ queue' = [queue EXCEPT ![c] = Tail(@)]
                /\ conn' = [conn EXCEPT ![c] = "live"]
                /\ IF Stale(c, f) THEN UNCHANGED <<sent, epochOf, consumerVars>> ELSE Send(c, f)
                /\ UNCHANGED <<subs, dropped, request, seen>>
    /\ UNCHANGED <<seriesVars, tailVars, failures, restores>>

\* The consumer goes away, at any point.
Disconnect(c) ==
    /\ conn[c] # "closed"
    /\ Close(c)
    /\ UNCHANGED <<seriesVars, tailVars, consumerVars, failures, restores>>

(***************************************************************************)
(* The dispatcher's loop.                                                  *)
(***************************************************************************)

\* LISTEN first, then a sweep for what was committed while nobody listened.
Open ==
    /\ tail = "down"
    /\ tail' = "enter"
    /\ notified' = FALSE
    /\ UNCHANGED <<seriesVars, cursor, batch, subVars, sessionVars, consumerVars, failures, restores>>

\* Woken by a notification, or by the deadline with none pending.
Wake ==
    /\ tail = "wait"
    /\ notified
    /\ tail' = "enter"
    /\ notified' = FALSE
    /\ UNCHANGED <<seriesVars, cursor, batch, subVars, sessionVars, consumerVars, failures, restores>>

Sweep ==
    /\ tail = "wait"
    /\ ~notified
    /\ tail' = "enter"
    /\ UNCHANGED <<seriesVars, cursor, batch, notified, subVars, sessionVars, consumerVars,
                   failures, restores>>

\* _advance returns at once where nobody is watching.
Unwatched ==
    /\ tail = "enter"
    /\ subs = {}
    /\ tail' = "wait"
    /\ UNCHANGED <<seriesVars, cursor, batch, notified, subVars, sessionVars, consumerVars,
                   failures, restores>>

\* One bounded read forward from the cursor.
ReadBatch ==
    /\ tail = "loop" \/ (tail = "enter" /\ subs # {})
    /\ batch' = Rows(series, cursor.seq, BatchSize)
    /\ tail' = IF batch' = <<>> THEN "wait" ELSE "fan"
    /\ UNCHANGED <<seriesVars, cursor, notified, subVars, sessionVars, consumerVars,
                   failures, restores>>

\* Faulty variant of Room: one envelope too many.
RoomAndOne(c) == QueueSize + 1 - Len(queue[c])

Room(c) == QueueSize - Len(queue[c])
Fitting(c) == SubSeq(batch, 1, Smaller(Room(c), Len(batch)))

\* Faulty variant of Overflows: a full queue discards and nobody is dropped.
OverflowIgnored(c) == FALSE

Overflows(c) == c \in subs /\ Len(batch) > Room(c)

Kept == {c \in subs : ~Overflows(c)}

\* Between two awaits: every envelope moves the cursor and is put into every
\* queue; the first one that does not fit drops its subscriber.
FanOut ==
    /\ tail = "fan"
    /\ cursor' = batch[Len(batch)]
    /\ queue' = [c \in Client |-> IF c \in subs THEN queue[c] \o Fitting(c) ELSE queue[c]]
    /\ dropped' = [c \in Client |-> dropped[c] \/ Overflows(c)]
    /\ subs' = Kept
    /\ tail' = IF Len(batch) < BatchSize THEN "wait" ELSE "loop"
    /\ batch' = <<>>
    /\ UNCHANGED <<seriesVars, notified, sessionVars, consumerVars, failures, restores>>

\* The listening connection, or the store under a read, fails: the loop
\* reopens after a pause, and what was notified in between is lost.
ListenerFails ==
    /\ tail \in {"enter", "loop", "wait"}
    /\ failures < MaxFailures
    /\ failures' = failures + 1
    /\ tail' = "down"
    /\ notified' = FALSE
    /\ UNCHANGED <<seriesVars, cursor, batch, subVars, sessionVars, consumerVars, restores>>

(***************************************************************************)
(* The journal under the readers, and the serving process.                 *)
(***************************************************************************)

\* A pass commits; the notification reaches an open listening connection only.
PassCommits ==
    /\ Len(series) < MaxSeq
    /\ Publish
    /\ notified' = (notified \/ tail # "down")
    /\ UNCHANGED <<tail, cursor, batch, subVars, sessionVars, consumerVars, failures, restores>>

EngineBoots ==
    /\ Seed
    /\ UNCHANGED <<tailVars, subVars, sessionVars, consumerVars, failures, restores>>

\* The database is taken back and the writing engine, reconciling at its boot,
\* continues under a later epoch, while this process goes on serving.
Restored ==
    /\ restores < MaxRestores
    /\ head # Cold
    /\ \E n \in 0..(Len(series) - 1) : series' = SubSeq(series, 1, n)
    /\ head' = [seq |-> Len(series'), epoch |-> head.epoch + 1]
    /\ restores' = restores + 1
    /\ UNCHANGED <<tailVars, subVars, sessionVars, consumerVars, failures>>

\* The serving process dies and comes back: cursor and connections are gone.
ServerRestarts ==
    /\ cursor # Unseeded
    /\ failures < MaxFailures
    /\ failures' = failures + 1
    /\ tail' = "down" /\ cursor' = Unseeded /\ batch' = <<>> /\ notified' = FALSE
    /\ subs' = {}
    /\ queue' = [c \in Client |-> <<>>]
    /\ dropped' = [c \in Client |-> FALSE]
    /\ conn' = [c \in Client |-> "closed"]
    /\ request' = [c \in Client |-> NoRequest]
    /\ seen' = [c \in Client |-> Cold]
    /\ sent' = [c \in Client |-> 0]
    /\ epochOf' = [c \in Client |-> 0]
    /\ UNCHANGED <<seriesVars, consumerVars, restores>>

(***************************************************************************)
(* The specification.                                                      *)
(***************************************************************************)

StreamInit ==
    /\ SeriesInit
    /\ tail = "down" /\ cursor = Unseeded /\ batch = <<>> /\ notified = FALSE
    /\ subs = {}
    /\ queue = [c \in Client |-> <<>>]
    /\ dropped = [c \in Client |-> FALSE]
    /\ conn = [c \in Client |-> "closed"]
    /\ request = [c \in Client |-> NoRequest]
    /\ seen = [c \in Client |-> Cold]
    /\ sent = [c \in Client |-> 0]
    /\ epochOf = [c \in Client |-> 0]
    /\ mark = [c \in Client |-> Cold]
    /\ last = [c \in Client |-> Cold]
    /\ failures = 0 /\ restores = 0

TailStep == Open \/ Wake \/ Sweep \/ Unwatched \/ ReadBatch \/ FanOut
SessionStep(c) ==
    ReadSeed(c) \/ SeedCursor(c) \/ ReadPlanHead(c) \/ GoLive(c) \/ NextFrame(c) \/ Deliver(c)

StreamNext ==
    \/ \E c \in Client : Connect(c)
    \/ \E c \in Client : ReadSeed(c)
    \/ \E c \in Client : SeedCursor(c)
    \/ \E c \in Client : ReadPlanHead(c)
    \/ \E c \in Client : GoLive(c)
    \/ \E c \in Client : NextFrame(c)
    \/ \E c \in Client : Deliver(c)
    \/ \E c \in Client : Disconnect(c)
    \/ Open \/ Wake \/ Sweep \/ Unwatched \/ ReadBatch \/ FanOut \/ ListenerFails
    \/ PassCommits \/ EngineBoots \/ Restored \/ ServerRestarts

StreamSpec == StreamInit /\ [][StreamNext]_streamVars

\* Each await ends: a store read is bounded by its connect timeout, the wait
\* for a notification by the sweep's deadline, a task of the event loop runs
\* again once it can.  Consumers owe nothing.
FairStreamSpec ==
    /\ StreamSpec
    /\ WF_streamVars(TailStep)
    /\ \A c \in Client : WF_streamVars(SessionStep(c))

\* For TLC: consumers are interchangeable.
ClientSymmetry == Permutations(Client)

(***************************************************************************)
(* Properties.                                                             *)
(***************************************************************************)

Connected == {"attached", "planning", "live", "await"}
Serving == {"live", "await"}

StreamTypeOK ==
    /\ series \in Seq(Epoch) /\ head \in [seq : Nat, epoch : Epoch]
    /\ tail \in TailPhase /\ cursor \in Frame \cup {Unseeded}
    /\ batch \in Seq(Frame) /\ notified \in BOOLEAN
    /\ subs \subseteq Client
    /\ queue \in [Client -> Seq(Frame)] /\ \A c \in Client : Len(queue[c]) <= QueueSize
    /\ dropped \in [Client -> BOOLEAN]
    /\ conn \in [Client -> ConnPhase]
    /\ request \in [Client -> [kind : {"history", "since"}, n : Nat, epoch : Nat]]
    /\ seen \in [Client -> Frame] /\ mark \in [Client -> Frame] /\ last \in [Client -> Frame]
    /\ sent \in [Client -> Nat] /\ epochOf \in [Client -> Nat]
    /\ failures \in 0..MaxFailures /\ restores \in 0..MaxRestores

\* A live frame the consumer had not reached is the next one: no envelope
\* between the replay and the live frames, or between two live frames, is
\* skipped without the connection ending (RC-1 and the single tail reader).
NoSilentGap == [][
    \A c \in Client : conn[c] = "await" /\ conn'[c] = "live" /\ mark'[c] # mark[c]
        => mark'[c].seq = mark[c].seq + 1]_streamVars

\* The fan-out fills exactly the queues of open connections: one that ended,
\* however it ended, leaves no queue behind, and one that is open and was not
\* dropped is still registered.
RegisteredIffOpen ==
    \A c \in Client : c \in subs <=> conn[c] \in Connected /\ ~dropped[c]

\* A consumer that resumes, and is not told to start over, resumes in the history
\* it was reading: the last envelope it was given is still the one the journal
\* holds at that seq, although the database was taken back meanwhile and the
\* writer has passed the consumer's position again.
ResumesInItsHistory == [][
    \A c \in Client : conn[c] = "attached" /\ conn'[c] = "planning"
                        /\ request[c].kind = "since" /\ last[c] # Cold
        => last[c].seq <= Len(series) /\ series[last[c].seq] = last[c].epoch]_streamVars

\* Every committed envelope reaches every connection that stays open, whatever
\* notification was lost with the listening connection, as long as nothing takes
\* the journal back under the serving process.
Delivered ==
    \A c \in Client : \A n \in 1..MaxSeq :
        conn[c] \in Serving /\ Len(series) >= n
            ~> mark[c].seq >= n \/ conn[c] = "closed" \/ restores > 0
=============================================================================
