----------------------------- MODULE WorkerFleet -----------------------------
(***************************************************************************)
(* The background workers of one engine process: ingest and eval workers   *)
(* as tasks of one event loop, their triggers, the breaking wake bus, the  *)
(* thread pool every pass body runs in, the pass deadline that abandons    *)
(* the await and not the thread, and the supervisor's shutdown.            *)
(*                                                                         *)
(* An action is what a task does between two awaits, or what a pool thread *)
(* does.  A body is the synchronous part of a pass; what it computes is    *)
(* reduced to the candidates an ingest body stores and an eval body reads. *)
(***************************************************************************)
EXTENDS Integers, Sequences, FiniteSets, SequencesExt

CONSTANTS
    Fleet,        \* the workers in the order the supervisor holds their tasks
    FeedOf,       \* the ingest worker of each worker's source set
    Sensitivity,  \* each worker's breaking.min_importance
    Tier,         \* tiers an ingest pass may flag
    MaxStored,    \* bound: passes that store a flagged candidate
    MaxDefects    \* bound: workers whose task dies of a code defect

Worker == {Fleet[i] : i \in DOMAIN Fleet}
Ingest == {w \in Worker : FeedOf[w] = w}
Eval == Worker \ Ingest

ASSUME FleetAssumption ==
    /\ Fleet \in Seq(Worker) /\ Worker # {} /\ IsFiniteSet(Worker)
    /\ FeedOf \in [Worker -> Worker]
    /\ \A w \in Worker : FeedOf[FeedOf[w]] = FeedOf[w]
    /\ Sensitivity \in [Worker -> Nat]
    /\ Tier \subseteq Nat \ {0}
    /\ MaxStored \in Nat /\ MaxDefects \in Nat

VARIABLES
    loop,        \* where each worker's task stands
    stopped,     \* the stop event of each worker's trigger
    flag,        \* the tier flagged by the ingest pass being reported
    job,         \* the body each task awaits: none, queued or running
    queue,       \* bodies waiting for a thread, in order
    stuck,       \* how many abandoned bodies of each worker hold a thread
    latch,       \* the event of each eval worker's bus subscription
    stored,      \* candidates each source set has persisted
    read,        \* the candidates each eval worker's newest body could see
    supervisor,  \* running, draining, drained, raised, released
    died,        \* tasks that ended by an exception
    owed         \* history: a qualifying nudge newer than the last pass begun

taskVars == <<loop, stopped, flag>>
poolVars == <<job, queue, stuck, read>>
vars == <<taskVars, poolVars, latch, stored, supervisor, died, owed>>

LoopPhase == {"turn", "pass", "report", "probe", "wait", "ended"}

(***************************************************************************)
(* The pool.                                                               *)
(***************************************************************************)

ThreadsPerWorker == 2
Floor == 4
Larger(a, b) == IF a < b THEN b ELSE a

\* Faulty variant of PassPoolSize: one thread for each worker.
OneThreadEach == Cardinality(Worker)

PassPoolSize == Larger(Floor, Cardinality(Worker) * ThreadsPerWorker)

\* The bodies in threads: those a task still awaits, and the abandoned ones.
Awaited == {w \in Worker : job[w] = "running"}
Abandoned == UNION {{w} \X (1..stuck[w]) : w \in Worker}
Busy == Cardinality(Awaited) + Cardinality(Abandoned)

\* A body begins on the corpus as it is then, which an eval body reads.
Beginning(w) == read' = [read EXCEPT ![w] = stored[FeedOf[w]]]

\* Any idle thread will do, whose pass it may have run before.
ThreadFor(w) == Busy < PassPoolSize

\* run_in_executor: an idle thread takes the body at once, or it queues.
Submit(w) ==
    /\ IF ThreadFor(w)
       THEN /\ job' = [job EXCEPT ![w] = "running"]
            /\ Beginning(w)
            /\ UNCHANGED queue
       ELSE /\ job' = [job EXCEPT ![w] = "queued"]
            /\ queue' = Append(queue, w)
            /\ UNCHANGED read
    /\ UNCHANGED stuck

\* A thread is free again and takes the body at the head of the queue; the
\* jobs are as given.
ThreadFreed(jobs) ==
    IF queue = <<>>
    THEN job' = jobs /\ UNCHANGED <<queue, read>>
    ELSE /\ job' = [jobs EXCEPT ![Head(queue)] = "running"]
         /\ Beginning(Head(queue))
         /\ queue' = Tail(queue)

(***************************************************************************)
(* A worker's task.                                                        *)
(***************************************************************************)

\* The trigger after its pass: stop is noticed before the next wait ends.
Settle(w) ==
    /\ loop' = [loop EXCEPT ![w] = IF stopped[w] THEN "ended" ELSE "wait"]
    /\ flag' = [flag EXCEPT ![w] = 0]
    /\ UNCHANGED stopped

Goto(w, phase) ==
    /\ loop' = [loop EXCEPT ![w] = phase]
    /\ UNCHANGED <<stopped, flag>>

\* The loop comes round: the stop event, else _pass submits its body.
Turn(w) ==
    /\ loop[w] = "turn"
    /\ IF stopped[w]
       THEN Goto(w, "ended") /\ UNCHANGED <<poolVars, owed>>
       ELSE /\ Goto(w, "pass")
            /\ Submit(w)
            /\ owed' = [owed EXCEPT ![w] = FALSE]
    /\ UNCHANGED <<latch, stored, supervisor, died>>

\* The body returns: what it flagged is stored, and the task goes on to report
\* it.  An eval pass reports without awaiting anything.
Succeed(w) ==
    /\ loop[w] = "pass" /\ job[w] = "running"
    /\ ThreadFreed([job EXCEPT ![w] = "none"])
    /\ \/ w \in Eval /\ Settle(w) /\ UNCHANGED stored
       \/ /\ w \in Ingest
          /\ \E t \in Tier \cup {0} :
                /\ t > 0 => stored[w] < MaxStored
                /\ stored' = [stored EXCEPT ![w] = IF t > 0 THEN @ + 1 ELSE @]
                /\ flag' = [flag EXCEPT ![w] = t]
          /\ loop' = [loop EXCEPT ![w] = "report"]
          /\ UNCHANGED stopped
    /\ UNCHANGED <<stuck, latch, supervisor, died, owed>>

\* The body raises: logged, the next tick continues.
Fail(w) ==
    /\ loop[w] = "pass" /\ job[w] = "running"
    /\ ThreadFreed([job EXCEPT ![w] = "none"])
    /\ Settle(w)
    /\ UNCHANGED <<stuck, latch, stored, supervisor, died, owed>>

\* A defect outside the pass's handlers, in what follows a body that returned:
\* the task ends by an exception.
Die(w) ==
    /\ loop[w] = "pass" /\ job[w] = "running"
    /\ Cardinality(died) < MaxDefects
    /\ ThreadFreed([job EXCEPT ![w] = "none"])
    /\ Goto(w, "ended")
    /\ died' = died \cup {w}
    /\ UNCHANGED <<stuck, latch, stored, supervisor, owed>>

\* Faulty variant of Deadline: a blocked body is awaited for ever.
DeadlineNever(w) == FALSE /\ UNCHANGED vars

\* Faulty variant of Withdraw: the cancelled body stays in the pool's queue.
WithdrawLater(w) == UNCHANGED queue

\* Cancelling a body that waits for a thread takes it out of the queue.
Withdraw(w) == \E i \in DOMAIN queue : queue[i] = w /\ queue' = RemoveAt(queue, i)

\* wait_for gives up: a queued body is withdrawn, a running one abandoned with
\* its thread.  A probe's deadline fails the report it is part of.
Deadline(w) ==
    /\ loop[w] \in {"pass", "probe"}
    /\ job' = [job EXCEPT ![w] = "none"]
    /\ \/ job[w] = "queued" /\ Withdraw(w) /\ UNCHANGED stuck
       \/ /\ job[w] = "running"
          /\ stuck' = [stuck EXCEPT ![w] = @ + 1]
          /\ UNCHANGED queue
    /\ Settle(w)
    /\ UNCHANGED <<read, latch, stored, supervisor, died, owed>>

\* An abandoned body ends after all.  Nobody reads its result: what an ingest
\* body flagged is stored and announced to no one.
StuckReturns(w) ==
    /\ stuck[w] > 0
    /\ stuck' = [stuck EXCEPT ![w] = @ - 1]
    /\ ThreadFreed(job)
    /\ \/ UNCHANGED stored
       \/ /\ w \in Ingest /\ stored[w] < MaxStored
          /\ stored' = [stored EXCEPT ![w] = @ + 1]
    /\ UNCHANGED <<taskVars, latch, supervisor, died, owed>>

(***************************************************************************)
(* Reporting an ingest pass, and the bus.                                  *)
(***************************************************************************)

\* The eval workers over w's source set that a tier t is hot enough for.
Woken(w, t) == {e \in Eval : FeedOf[e] = w /\ t > 0 /\ t >= Sensitivity[e]}

\* Faulty variant of Publish: only an eval worker that waits is woken.
PublishToWaiting(w) ==
    /\ latch' = [e \in Worker |-> latch[e] \/ (e \in Woken(w, flag[w]) /\ loop[e] = "wait")]
    /\ owed' = [e \in Worker |-> owed[e] \/ e \in Woken(w, flag[w])]

\* BreakingBus.publish latches each subscription the tier reaches.
Publish(w) ==
    /\ latch' = [e \in Worker |-> latch[e] \/ e \in Woken(w, flag[w])]
    /\ owed' = [e \in Worker |-> owed[e] \/ e \in Woken(w, flag[w])]

\* The alert is delivered, or none was due; the last thing is the nudge.
Report(w) ==
    /\ loop[w] = "report"
    /\ Publish(w)
    /\ Settle(w)
    /\ UNCHANGED <<poolVars, stored, supervisor, died>>

\* While a host back-off holds, the connectivity probe runs in the pool first.
BeginProbe(w) ==
    /\ loop[w] = "report"
    /\ Goto(w, "probe")
    /\ Submit(w)
    /\ UNCHANGED <<latch, stored, supervisor, died, owed>>

EndProbe(w) ==
    /\ loop[w] = "probe" /\ job[w] = "running"
    /\ ThreadFreed([job EXCEPT ![w] = "none"])
    /\ Publish(w)
    /\ Settle(w)
    /\ UNCHANGED <<stuck, stored, supervisor, died>>

\* Whatever reporting raises is logged, and the nudge that follows is skipped.
ReportFails(w) ==
    /\ loop[w] = "report"
    /\ Settle(w)
    /\ UNCHANGED <<poolVars, latch, stored, supervisor, died, owed>>

(***************************************************************************)
(* The trigger's wait.                                                     *)
(***************************************************************************)

\* The tick is due, or stop was called; a wake that lost the race stays latched.
Tick(w) ==
    /\ loop[w] = "wait"
    /\ Goto(w, IF stopped[w] THEN "ended" ELSE "turn")
    /\ UNCHANGED <<poolVars, latch, stored, supervisor, died, owed>>

\* A breaking wake ends the wait and re-arms the subscription.
Wake(e) ==
    /\ e \in Eval /\ loop[e] = "wait" /\ latch[e]
    /\ latch' = [latch EXCEPT ![e] = FALSE]
    /\ Goto(e, "turn")
    /\ UNCHANGED <<poolVars, stored, supervisor, died, owed>>

(***************************************************************************)
(* Shutdown.                                                               *)
(***************************************************************************)

\* stop_all signals every trigger in one go.
StopAll ==
    /\ supervisor = "running"
    /\ supervisor' = "draining"
    /\ stopped' = [w \in Worker |-> TRUE]
    /\ UNCHANGED <<loop, flag, poolVars, latch, stored, died, owed>>

\* It awaits the tasks in order: the first that died raises out of stop_all.
Before(i) == {Fleet[k] : k \in 1..(i - 1)}
Ended(S) == \A w \in S : loop[w] = "ended"

\* Faulty variant of Drained: the pool is shut down with wait=True.
DrainedJoined ==
    /\ supervisor = "draining" /\ Ended(Worker) /\ died = {} /\ Busy = 0
    /\ supervisor' = "drained"
    /\ UNCHANGED <<taskVars, poolVars, latch, stored, died, owed>>

Drained ==
    /\ supervisor = "draining"
    /\ \/ /\ Ended(Worker) /\ died = {}
          /\ supervisor' = "drained"
       \/ /\ \E i \in DOMAIN Fleet : Ended(Before(i)) /\ Fleet[i] \in died
          /\ supervisor' = "raised"
    /\ UNCHANGED <<taskVars, poolVars, latch, stored, died, owed>>

\* The end of the lifespan: the pool is left to itself and the journal's run
\* lock is released.
Release ==
    /\ supervisor = "drained"
    /\ supervisor' = "released"
    /\ UNCHANGED <<taskVars, poolVars, latch, stored, died, owed>>

(***************************************************************************)
(* The specification.                                                      *)
(***************************************************************************)

Init ==
    /\ loop = [w \in Worker |-> "turn"]
    /\ stopped = [w \in Worker |-> FALSE]
    /\ flag = [w \in Worker |-> 0]
    /\ job = [w \in Worker |-> "none"]
    /\ queue = <<>>
    /\ stuck = [w \in Worker |-> 0]
    /\ latch = [w \in Worker |-> FALSE]
    /\ stored = [w \in Worker |-> 0]
    /\ read = [w \in Worker |-> 0]
    /\ supervisor = "running"
    /\ died = {}
    /\ owed = [w \in Worker |-> FALSE]

Next ==
    \/ \E w \in Worker : Turn(w)
    \/ \E w \in Worker : Succeed(w)
    \/ \E w \in Worker : Fail(w)
    \/ \E w \in Worker : Die(w)
    \/ \E w \in Worker : Deadline(w)
    \/ \E w \in Worker : StuckReturns(w)
    \/ \E w \in Worker : Report(w)
    \/ \E w \in Worker : BeginProbe(w)
    \/ \E w \in Worker : EndProbe(w)
    \/ \E w \in Worker : ReportFails(w)
    \/ \E w \in Worker : Tick(w)
    \/ \E e \in Worker : Wake(e)
    \/ StopAll \/ Drained \/ Release

Spec == Init /\ [][Next]_vars

\* What the event loop does by itself: a task that can run does, timers fire
\* and deadlines end.  No body owes a return.
FairSpec ==
    /\ Spec
    /\ \A w \in Worker : /\ WF_vars(Turn(w))
                         /\ WF_vars(Deadline(w))
                         /\ WF_vars(Report(w) \/ ReportFails(w))
                         /\ WF_vars(Tick(w))
    /\ WF_vars(Drained)
    /\ WF_vars(Release)

(***************************************************************************)
(* Properties.                                                             *)
(***************************************************************************)

TypeOK ==
    /\ loop \in [Worker -> LoopPhase]
    /\ stopped \in [Worker -> BOOLEAN]
    /\ flag \in [Worker -> Tier \cup {0}]
    /\ job \in [Worker -> {"none", "queued", "running"}]
    /\ queue \in Seq(Worker) /\ \A i \in DOMAIN queue : job[queue[i]] = "queued"
    /\ stuck \in [Worker -> Nat]
    /\ latch \in [Worker -> BOOLEAN]
    /\ stored \in [Worker -> Nat] /\ read \in [Worker -> Nat]
    /\ supervisor \in {"running", "draining", "drained", "raised", "released"}
    /\ died \subseteq Worker
    /\ owed \in [Worker -> BOOLEAN]

\* One hung pass never delays another: no body waits for a thread while there
\* is at most one abandoned predecessor for each worker in the pool (the size
\* build_pass_executor gives it).
RoomForEveryPass == Cardinality(Abandoned) <= Cardinality(Worker) => queue = <<>>

\* The pool never runs more bodies than it has threads, and holds a body back
\* only while every thread is taken.
PoolIsBounded == Busy <= PassPoolSize /\ (queue # <<>> => Busy = PassPoolSize)

\* No nudge is lost between the bus and the trigger: until a pass has begun
\* after it, a qualifying nudge is latched or the pass it ended the wait for is
\* about to begin, whatever it met on the way: a pass in flight, the tick
\* winning the race, the stop event.
NoNudgeLost ==
    \A e \in Eval : owed[e] => latch[e] \/ loop[e] \in {"turn", "ended"}

\* Every stored candidate is in front of an eval pass of its set in the end,
\* also when its nudge was never sent (an abandoned body, a failed report) and
\* whatever hangs, unless the worker ends or the pool is exhausted.
CandidatesReachEval ==
    \A e \in Eval : \A n \in 1..MaxStored :
        stored[FeedOf[e]] >= n ~> read[e] >= n \/ loop[e] = "ended" \/ queue # <<>>

\* A shutdown ends although bodies hang: the drain waits for deadlines only.
ShutdownEnds == supervisor = "draining" ~> supervisor \in {"released", "raised"}

=============================================================================
