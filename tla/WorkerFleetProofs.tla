-------------------------- MODULE WorkerFleetProofs --------------------------
(***************************************************************************)
(* Proofs about passes.  WorkerFleet: the pass pool holds a body back only *)
(* when every thread is taken, is large enough for the documented case,    *)
(* and a breaking nudge is never lost.  AnalysisPass: what a pass answers  *)
(* keeps the output contract.                                              *)
(***************************************************************************)
EXTENDS WorkerFleet, AnalysisPass, TLAPS, FiniteSetTheorems, SequenceTheorems,
        WellFoundedInduction, NaturalsInduction

\* A task has a body in the pool only while it awaits a pass or a probe.
JobInv == \A w \in Worker : job[w] # "none" => loop[w] \in {"pass", "probe"}

QueuedOnce == \A i, j \in DOMAIN queue : queue[i] = queue[j] => i = j

PoolTypeOK ==
    /\ job \in [Worker -> {"none", "queued", "running"}]
    /\ queue \in Seq(Worker) /\ \A i \in DOMAIN queue : job[queue[i]] = "queued"
    /\ stuck \in [Worker -> Nat]

PoolInv == PoolTypeOK /\ QueuedOnce /\ IsFiniteSet(Abandoned) /\ PoolIsBounded

(***************************************************************************)
(* Counting bodies.                                                        *)
(***************************************************************************)

\* The threads that abandoned bodies hold when worker w has left s[w] of them.
Held(s) == UNION {{w} \X (1..s[w]) : w \in Worker}

LEMMA HeldElement ==
    ASSUME NEW s \in [Worker -> Nat], NEW w \in Worker, NEW k
    PROVE  <<w, k>> \in Held(s) <=> k \in 1..s[w]
BY DEF Held

\* One more abandoned body holds one more thread.
LEMMA HeldMore ==
    ASSUME NEW s \in [Worker -> Nat], NEW w \in Worker, IsFiniteSet(Held(s)),
           NEW t, t = [s EXCEPT ![w] = @ + 1]
    PROVE  IsFiniteSet(Held(t)) /\ Cardinality(Held(t)) = Cardinality(Held(s)) + 1
<1> DEFINE thread == <<w, s[w] + 1>>
<1>1. Held(t) = Held(s) \cup {thread}
  BY DEF Held
<1>2. thread \notin Held(s)
  <2>1. s[w] + 1 \notin 1..s[w]
    OBVIOUS
  <2> QED BY <2>1, HeldElement
<1> HIDE DEF thread
<1>3. /\ IsFiniteSet(Held(s) \cup {thread})
      /\ Cardinality(Held(s) \cup {thread}) = Cardinality(Held(s)) + 1
  BY <1>2, FS_AddElement
<1> QED BY <1>1, <1>3

\* One fewer abandoned body frees one thread.
LEMMA HeldLess ==
    ASSUME NEW s \in [Worker -> Nat], NEW w \in Worker, IsFiniteSet(Held(s)), s[w] > 0,
           NEW t, t = [s EXCEPT ![w] = @ - 1]
    PROVE  IsFiniteSet(Held(t)) /\ Cardinality(Held(t)) = Cardinality(Held(s)) - 1
<1> DEFINE thread == <<w, s[w]>>
<1>1. Held(t) = Held(s) \ {thread}
  BY DEF Held
<1>2. thread \in Held(s)
  <2>1. s[w] \in 1..s[w]
    OBVIOUS
  <2> QED BY <2>1, HeldElement
<1> HIDE DEF thread
<1>3. /\ IsFiniteSet(Held(s) \ {thread})
      /\ Cardinality(Held(s) \ {thread}) = Cardinality(Held(s)) - 1
  BY <1>2, FS_RemoveElement
<1> QED BY <1>1, <1>3

\* The sizes that Busy adds up are natural numbers.
LEMMA Counts ==
    ASSUME PoolInv
    PROVE  /\ IsFiniteSet(Awaited) /\ Cardinality(Awaited) \in Nat
           /\ Cardinality(Abandoned) \in Nat
           /\ Cardinality(Worker) \in Nat /\ PassPoolSize \in Nat
           /\ PassPoolSize >= 2 * Cardinality(Worker)
           /\ Busy \in Nat
<1>1. IsFiniteSet(Awaited)
  BY FleetAssumption, FS_Subset DEF FleetAssumption, Awaited
<1>2. Cardinality(Worker) \in Nat
  BY FleetAssumption, FS_CardinalityType DEF FleetAssumption
<1>3. PassPoolSize \in Nat /\ PassPoolSize >= 2 * Cardinality(Worker)
  BY <1>2 DEF PassPoolSize, Larger, Floor, ThreadsPerWorker
<1>4. Cardinality(Awaited) \in Nat /\ Cardinality(Abandoned) \in Nat
  BY <1>1, FS_CardinalityType DEF PoolInv
<1> QED BY <1>1, <1>2, <1>3, <1>4 DEF Busy

\* A sequence without its i-th element.
LEMMA RemoveAtElements ==
    ASSUME NEW S, NEW q \in Seq(S), NEW i \in 1..Len(q)
    PROVE  /\ RemoveAt(q, i) \in Seq(S) /\ Len(RemoveAt(q, i)) = Len(q) - 1
           /\ \A k \in 1..(Len(q) - 1) :
                 RemoveAt(q, i)[k] = q[IF k < i THEN k ELSE k + 1]
<1> DEFINE front == SubSeq(q, 1, i - 1)
           back == SubSeq(q, i + 1, Len(q))
<1>1. Len(q) \in Nat /\ i \in Nat /\ i <= Len(q)
  OBVIOUS
<1>2. front \in Seq(S)
  OBVIOUS
<1>3. Len(front) = i - 1
  BY <1>1
<1>4. \A k \in 1..(i - 1) : front[k] = q[k]
  BY <1>1
<1>5. back \in Seq(S)
  OBVIOUS
<1>6. Len(back) = Len(q) - i
  BY <1>1
<1>7. \A k \in 1..(Len(q) - i) : back[k] = q[k + i]
  BY <1>1
<1>8. RemoveAt(q, i) = front \o back
  BY DEF RemoveAt
<1> HIDE DEF front, back
<1>9. /\ front \o back \in Seq(S) /\ Len(front \o back) = Len(front) + Len(back)
      /\ \A k \in 1..(Len(front) + Len(back)) :
            (front \o back)[k] = IF k <= Len(front) THEN front[k] ELSE back[k - Len(front)]
  BY <1>2, <1>5, ConcatProperties
<1>10. Len(front) + Len(back) = Len(q) - 1
  BY <1>1, <1>3, <1>6
<1>11. ASSUME NEW k \in 1..(Len(q) - 1)
       PROVE  (front \o back)[k] = q[IF k < i THEN k ELSE k + 1]
  <2>1. (front \o back)[k] = IF k <= i - 1 THEN front[k] ELSE back[k - (i - 1)]
    BY <1>3, <1>9, <1>10
  <2>2. CASE k < i
    <3>1. k <= i - 1 /\ k \in 1..(i - 1)
      BY <2>2, <1>1
    <3> QED BY <3>1, <2>1, <2>2, <1>4
  <2>3. CASE ~(k < i)
    <3>1. ~(k <= i - 1) /\ k - (i - 1) \in 1..(Len(q) - i) /\ (k - (i - 1)) + i = k + 1
      BY <2>3, <1>1
    <3>2. back[k - (i - 1)] = q[k + 1]
      BY <3>1, <1>7
    <3> QED BY <3>1, <3>2, <2>1, <2>3
  <2> QED BY <2>2, <2>3
<1> QED BY <1>8, <1>9, <1>10, <1>11

\* The queue without one entry is a queue of the other entries.
LEMMA WithoutOne ==
    ASSUME PoolTypeOK, QueuedOnce, NEW i \in DOMAIN queue
    PROVE  LET rest == RemoveAt(queue, i) IN
           /\ rest \in Seq(Worker)
           /\ \A k \in DOMAIN rest : \E j \in DOMAIN queue \ {i} : rest[k] = queue[j]
           /\ \A k, l \in DOMAIN rest : rest[k] = rest[l] => k = l
<1> DEFINE rest == RemoveAt(queue, i)
           at == [k \in 1..(Len(queue) - 1) |-> IF k < i THEN k ELSE k + 1]
<1>1. queue \in Seq(Worker) /\ DOMAIN queue = 1..Len(queue) /\ Len(queue) \in Nat /\ i \in 1..Len(queue)
  BY DEF PoolTypeOK
<1>2. /\ rest \in Seq(Worker) /\ Len(rest) = Len(queue) - 1
      /\ \A k \in 1..(Len(queue) - 1) : rest[k] = queue[IF k < i THEN k ELSE k + 1]
  BY <1>1, RemoveAtElements
<1> HIDE DEF rest
<1>3. DOMAIN rest = 1..(Len(queue) - 1)
  BY <1>2
<1>4. \A k \in 1..(Len(queue) - 1) : rest[k] = queue[at[k]]
  BY <1>2
<1>5. \A k \in 1..(Len(queue) - 1) : at[k] \in 1..Len(queue) /\ at[k] # i
  BY <1>1
<1>6. \A k, l \in 1..(Len(queue) - 1) : at[k] = at[l] => k = l
  BY <1>1
<1> HIDE DEF at
<1>7. \A k \in DOMAIN rest : \E j \in DOMAIN queue \ {i} : rest[k] = queue[j]
  BY <1>1, <1>3, <1>4, <1>5
<1>8. ASSUME NEW k \in DOMAIN rest, NEW l \in DOMAIN rest, rest[k] = rest[l]
      PROVE  k = l
  <2>1. queue[at[k]] = queue[at[l]] /\ at[k] \in DOMAIN queue /\ at[l] \in DOMAIN queue
    BY <1>1, <1>3, <1>4, <1>5, <1>8
  <2>2. at[k] = at[l]
    BY <2>1 DEF QueuedOnce
  <2> QED BY <2>2, <1>3, <1>6
<1> QED BY <1>2, <1>7, <1>8 DEF rest

(***************************************************************************)
(* The pool's operations keep its invariant.                               *)
(***************************************************************************)

\* Submitting a body: it runs if a thread is idle, and queues only if none is.
LEMMA SubmitKeepsPool ==
    ASSUME PoolInv, NEW w \in Worker, job[w] = "none", Submit(w)
    PROVE  PoolInv'
<1>1. stuck' = stuck /\ Abandoned' = Abandoned
  BY DEF Submit, ThreadFor, Abandoned
<1>2. CASE Busy < PassPoolSize
  <2>1. job' = [job EXCEPT ![w] = "running"] /\ queue' = queue /\ queue = <<>>
    BY <1>2, Counts DEF Submit, ThreadFor, PoolInv, PoolIsBounded, Busy
  <2>2. Awaited' = Awaited \cup {w} /\ w \notin Awaited
    BY <2>1 DEF Awaited, PoolInv, PoolTypeOK
  <2>3. Cardinality(Awaited') = Cardinality(Awaited) + 1
    BY <2>2, Counts, FS_AddElement
  <2>4. Busy' = Busy + 1 /\ Busy \in Nat
    BY <2>3, <1>1, Counts DEF Busy
  <2>5. PoolIsBounded'
    BY <2>1, <2>4, <1>2, Counts DEF PoolIsBounded, PassPoolSize
  <2>6. PoolTypeOK' /\ QueuedOnce'
    BY <2>1, <1>1 DEF PoolInv, PoolTypeOK, QueuedOnce
  <2> QED BY <2>5, <2>6, <1>1 DEF PoolInv
<1>3. CASE ~(Busy < PassPoolSize)
  <2>1. job' = [job EXCEPT ![w] = "queued"] /\ queue' = Append(queue, w)
    BY <1>3 DEF Submit, ThreadFor
  <2>2. Awaited' = Awaited
    BY <2>1 DEF Awaited, PoolInv, PoolTypeOK
  <2>3. Busy' = Busy /\ Busy = PassPoolSize
    <3>1. Busy' = Busy
      BY <2>2, <1>1 DEF Busy
    <3> QED BY <3>1, <1>3, Counts DEF PoolInv, PoolIsBounded
  <2>4. PoolIsBounded'
    BY <2>3, Counts DEF PoolIsBounded, PassPoolSize
  <2>5. \A i \in DOMAIN queue : queue[i] # w
    BY DEF PoolInv, PoolTypeOK
  <2>6. PoolTypeOK'
    BY <2>1, <2>5, <1>1 DEF PoolInv, PoolTypeOK
  <2>7. QueuedOnce'
    BY <2>1, <2>5 DEF PoolInv, PoolTypeOK, QueuedOnce
  <2> QED BY <2>4, <2>6, <2>7, <1>1 DEF PoolInv
<1> QED BY <1>2, <1>3

\* The body at the head of the queue, and those behind it.
LEMMA QueueParts ==
    ASSUME PoolTypeOK, queue # <<>>
    PROVE  /\ 1 \in DOMAIN queue /\ Head(queue) = queue[1]
           /\ Head(queue) \in Worker /\ job[Head(queue)] = "queued"
           /\ Tail(queue) \in Seq(Worker)
           /\ \A i \in DOMAIN Tail(queue) :
                 i + 1 \in DOMAIN queue /\ i + 1 # 1 /\ Tail(queue)[i] = queue[i + 1]
<1>1. /\ queue \in Seq(Worker) /\ \A i \in DOMAIN queue : job[queue[i]] = "queued"
      /\ DOMAIN queue = 1..Len(queue) /\ Len(queue) \in Nat
  BY DEF PoolTypeOK
<1>2. 1 \in DOMAIN queue /\ Head(queue) = queue[1]
  BY <1>1
<1>3. /\ Tail(queue) \in Seq(Worker) /\ Len(Tail(queue)) = Len(queue) - 1
      /\ \A i \in 1..Len(Tail(queue)) : Tail(queue)[i] = queue[i + 1]
  BY <1>1, HeadTailProperties
<1>4. DOMAIN Tail(queue) = 1..(Len(queue) - 1)
  BY <1>3
<1>5. \A i \in 1..(Len(queue) - 1) : i + 1 \in 1..Len(queue) /\ i + 1 # 1
  BY <1>1
<1>6. queue[1] \in Worker
  BY <1>1, <1>2
<1> QED BY <1>1, <1>2, <1>3, <1>4, <1>5, <1>6

\* A thread that is free again takes the next body.  The thread was w's: of an
\* awaited body, or of an abandoned one.
LEMMA AwaitedFreedKeepsPool ==
    ASSUME PoolInv, NEW w \in Worker, job[w] = "running", stuck' = stuck,
           ThreadFreed([job EXCEPT ![w] = "none"])
    PROVE  PoolInv'
<1>1. Abandoned' = Abandoned
  BY DEF Abandoned
<1>2. CASE queue = <<>>
  <2>1. job' = [job EXCEPT ![w] = "none"] /\ queue' = <<>>
    BY <1>2 DEF ThreadFreed
  <2>2. Awaited' = Awaited \ {w} /\ w \in Awaited
    BY <2>1 DEF Awaited, PoolInv, PoolTypeOK
  <2>3. Cardinality(Awaited') = Cardinality(Awaited) - 1
    BY <2>2, Counts, FS_RemoveElement
  <2>4. Busy' = Busy - 1
    BY <2>3, <1>1, Counts DEF Busy
  <2>5. PoolIsBounded'
    BY <2>1, <2>4, Counts DEF PoolInv, PoolIsBounded, PassPoolSize
  <2>6. PoolTypeOK' /\ QueuedOnce'
    BY <2>1, <1>2 DEF PoolInv, PoolTypeOK, QueuedOnce
  <2> QED BY <2>5, <2>6, <1>1 DEF PoolInv
<1>3. CASE queue # <<>>
  <2> DEFINE h == Head(queue)
  <2>1. /\ job' = [[job EXCEPT ![w] = "none"] EXCEPT ![h] = "running"]
        /\ queue' = Tail(queue)
    BY <1>3 DEF ThreadFreed
  <2>2. /\ h \in Worker /\ job[h] = "queued" /\ h # w
        /\ \A i \in DOMAIN queue' : i + 1 \in DOMAIN queue /\ i + 1 # 1 /\ queue'[i] = queue[i + 1]
        /\ queue' \in Seq(Worker) /\ 1 \in DOMAIN queue /\ h = queue[1]
    <3>1. h # w
      BY <1>3, QueueParts DEF PoolInv
    <3> QED BY <2>1, <3>1, <1>3, QueueParts DEF PoolInv
  <2> HIDE DEF h
  <2>3. Awaited' = (Awaited \ {w}) \cup {h} /\ w \in Awaited /\ h \notin Awaited
    BY <2>1, <2>2 DEF Awaited, PoolInv, PoolTypeOK
  <2>4. Cardinality(Awaited') = Cardinality(Awaited)
    <3> DEFINE others == Awaited \ {w}
    <3>1. IsFiniteSet(others) /\ Cardinality(others) = Cardinality(Awaited) - 1
      BY <2>3, Counts, FS_RemoveElement
    <3>2. h \notin others /\ Awaited' = others \cup {h}
      BY <2>3
    <3> HIDE DEF others
    <3>3. Cardinality(Awaited') = Cardinality(others) + 1
      BY <3>1, <3>2, FS_AddElement
    <3> QED BY <3>1, <3>3, Counts
  <2>5. Busy' = Busy /\ Busy = PassPoolSize
    BY <2>4, <1>1, <1>3 DEF Busy, PoolInv, PoolIsBounded
  <2>6. PoolIsBounded'
    BY <2>5, Counts DEF PoolIsBounded, PassPoolSize
  <2>7. \A i \in DOMAIN queue' : queue'[i] # h /\ queue'[i] # w /\ job[queue'[i]] = "queued"
    BY <2>2 DEF PoolInv, PoolTypeOK, QueuedOnce
  <2>8. PoolTypeOK'
    <3>1. job' \in [Worker -> {"none", "queued", "running"}]
      BY <2>1 DEF PoolInv, PoolTypeOK
    <3>2. \A i \in DOMAIN queue' : job'[queue'[i]] = "queued"
      <4> TAKE i \in DOMAIN queue'
      <4>1. queue'[i] \in Worker /\ queue'[i] # h /\ queue'[i] # w /\ job[queue'[i]] = "queued"
        BY <2>2, <2>7
      <4> QED BY <4>1, <2>1 DEF PoolInv, PoolTypeOK
    <3>3. stuck' \in [Worker -> Nat]
      BY DEF PoolInv, PoolTypeOK
    <3> QED BY <2>2, <3>1, <3>2, <3>3 DEF PoolTypeOK
  <2>9. QueuedOnce'
    BY <2>2 DEF PoolInv, PoolTypeOK, QueuedOnce
  <2> QED BY <2>6, <2>8, <2>9, <1>1 DEF PoolInv
<1> QED BY <1>2, <1>3

LEMMA AbandonedFreedKeepsPool ==
    ASSUME PoolInv, NEW w \in Worker, stuck[w] > 0,
           stuck' = [stuck EXCEPT ![w] = @ - 1], ThreadFreed(job)
    PROVE  PoolInv'
<1>1. stuck \in [Worker -> Nat] /\ stuck' \in [Worker -> Nat]
  BY DEF PoolInv, PoolTypeOK
<1>2. IsFiniteSet(Abandoned') /\ Cardinality(Abandoned') = Cardinality(Abandoned) - 1
  <2>1. Abandoned = Held(stuck) /\ Abandoned' = Held(stuck')
    BY DEF Abandoned, Held
  <2> QED BY <1>1, <2>1, HeldLess DEF PoolInv
<1>3. CASE queue = <<>>
  <2>1. job' = job /\ queue' = queue /\ queue = <<>>
    BY <1>3 DEF ThreadFreed
  <2>2. Busy' = Busy - 1
    <3>1. Awaited' = Awaited
      BY <2>1 DEF Awaited
    <3> QED BY <3>1, <1>2, Counts DEF Busy
  <2>3. PoolIsBounded'
    BY <2>1, <2>2, Counts DEF PoolInv, PoolIsBounded, PassPoolSize
  <2> QED BY <2>1, <2>3, <1>1, <1>2 DEF PoolInv, PoolTypeOK, QueuedOnce
<1>4. CASE queue # <<>>
  <2> DEFINE h == Head(queue)
  <2>1. job' = [job EXCEPT ![h] = "running"] /\ queue' = Tail(queue)
    BY <1>4 DEF ThreadFreed
  <2>2. /\ h \in Worker /\ job[h] = "queued"
        /\ \A i \in DOMAIN queue' : i + 1 \in DOMAIN queue /\ i + 1 # 1 /\ queue'[i] = queue[i + 1]
        /\ queue' \in Seq(Worker) /\ 1 \in DOMAIN queue /\ h = queue[1]
    BY <2>1, <1>4, QueueParts DEF PoolInv
  <2> HIDE DEF h
  <2>3. Awaited' = Awaited \cup {h} /\ h \notin Awaited
    BY <2>1, <2>2 DEF Awaited, PoolInv, PoolTypeOK
  <2>4. Cardinality(Awaited') = Cardinality(Awaited) + 1
    BY <2>3, Counts, FS_AddElement
  <2>5. Busy' = Busy /\ Busy = PassPoolSize
    <3>1. Busy' = Busy
      BY <2>4, <1>2, Counts DEF Busy
    <3> QED BY <3>1, <1>4 DEF PoolInv, PoolIsBounded
  <2>6. PoolIsBounded'
    BY <2>5, Counts DEF PoolIsBounded, PassPoolSize
  <2>7. \A i \in DOMAIN queue' : queue'[i] # h /\ job[queue'[i]] = "queued"
    BY <2>2 DEF PoolInv, PoolTypeOK, QueuedOnce
  <2>8. \A i \in DOMAIN queue' : job'[queue'[i]] = "queued"
    <3> TAKE i \in DOMAIN queue'
    <3>1. queue'[i] \in Worker /\ queue'[i] # h /\ job[queue'[i]] = "queued"
      BY <2>2, <2>7
    <3> QED BY <3>1, <2>1 DEF PoolInv, PoolTypeOK
  <2>9. PoolTypeOK'
    BY <2>1, <2>2, <2>8, <1>1 DEF PoolInv, PoolTypeOK
  <2>10. QueuedOnce'
    BY <2>2 DEF PoolInv, PoolTypeOK, QueuedOnce
  <2> QED BY <2>6, <2>9, <2>10, <1>2 DEF PoolInv
<1> QED BY <1>3, <1>4

\* The deadline of a body that runs turns an awaited body into an abandoned one.
LEMMA AbandoningKeepsPool ==
    ASSUME PoolInv, NEW w \in Worker, job[w] = "running", job' = [job EXCEPT ![w] = "none"],
           stuck' = [stuck EXCEPT ![w] = @ + 1], queue' = queue
    PROVE  PoolInv'
<1>1. stuck \in [Worker -> Nat] /\ stuck' \in [Worker -> Nat]
  BY DEF PoolInv, PoolTypeOK
<1>2. IsFiniteSet(Abandoned') /\ Cardinality(Abandoned') = Cardinality(Abandoned) + 1
  <2>1. Abandoned = Held(stuck) /\ Abandoned' = Held(stuck')
    BY DEF Abandoned, Held
  <2> QED BY <1>1, <2>1, HeldMore DEF PoolInv
<1>3. Awaited' = Awaited \ {w} /\ w \in Awaited
  BY DEF Awaited, PoolInv, PoolTypeOK
<1>4. Cardinality(Awaited') = Cardinality(Awaited) - 1
  BY <1>3, Counts, FS_RemoveElement
<1>5. Busy' = Busy
  BY <1>2, <1>4, Counts DEF Busy
<1>6. PoolIsBounded'
  BY <1>5 DEF PoolInv, PoolIsBounded, PassPoolSize
<1>7. \A i \in DOMAIN queue : queue[i] \in Worker /\ queue[i] # w
  BY DEF PoolInv, PoolTypeOK
<1>8. PoolTypeOK' /\ QueuedOnce'
  BY <1>1, <1>7 DEF PoolInv, PoolTypeOK, QueuedOnce
<1> QED BY <1>2, <1>6, <1>8 DEF PoolInv

\* The deadline of a body that waits for a thread withdraws it.
LEMMA WithdrawingKeepsPool ==
    ASSUME PoolInv, NEW i \in DOMAIN queue, job' = [job EXCEPT ![queue[i]] = "none"],
           stuck' = stuck, queue' = RemoveAt(queue, i)
    PROVE  PoolInv'
<1>1. /\ queue' \in Seq(Worker)
      /\ \A k \in DOMAIN queue' : \E j \in DOMAIN queue \ {i} : queue'[k] = queue[j]
      /\ QueuedOnce'
  BY WithoutOne DEF PoolInv, QueuedOnce
<1>2. queue[i] \in Worker /\ job[queue[i]] = "queued"
  BY DEF PoolInv, PoolTypeOK
<1>3. Busy' = Busy /\ Abandoned' = Abandoned
  <2>1. Awaited' = Awaited
    BY <1>2 DEF Awaited, PoolInv, PoolTypeOK
  <2> QED BY <2>1 DEF Busy, Abandoned
<1>4. PoolIsBounded'
  <2>1. queue # <<>>
    BY DEF PoolInv, PoolTypeOK
  <2> QED BY <2>1, <1>3 DEF PoolInv, PoolIsBounded, PassPoolSize
<1>5. \A k \in DOMAIN queue' : job'[queue'[k]] = "queued"
  <2> TAKE k \in DOMAIN queue'
  <2>1. PICK j \in DOMAIN queue \ {i} : queue'[k] = queue[j]
    BY <1>1
  <2>2. queue[j] # queue[i] /\ queue[j] \in Worker /\ job[queue[j]] = "queued"
    BY <2>1 DEF PoolInv, PoolTypeOK, QueuedOnce
  <2> QED BY <2>1, <2>2 DEF PoolInv, PoolTypeOK
<1>6. PoolTypeOK'
  BY <1>1, <1>2, <1>5 DEF PoolInv, PoolTypeOK
<1> QED BY <1>1, <1>3, <1>4, <1>6 DEF PoolInv

(***************************************************************************)
(* The inductive invariant.                                                *)
(***************************************************************************)

TaskTypeOK ==
    /\ loop \in [Worker -> LoopPhase] /\ stopped \in [Worker -> BOOLEAN]
    /\ flag \in [Worker -> Tier \cup {0}]
    /\ latch \in [Worker -> BOOLEAN] /\ owed \in [Worker -> BOOLEAN]
    /\ stored \in [Worker -> Nat] /\ read \in [Worker -> Nat]
    /\ supervisor \in {"running", "draining", "drained", "raised", "released"}
    /\ died \subseteq Worker

IInv == TaskTypeOK /\ JobInv /\ PoolInv

\* A freed thread gives no body to a task that has none, and what its new body
\* reads is a number of candidates.
LEMMA FreedJobs ==
    ASSUME IInv, NEW w \in Worker, job[w] = "running",
           ThreadFreed([job EXCEPT ![w] = "none"])
    PROVE  /\ \A v \in Worker : job'[v] # "none" => v # w /\ job[v] # "none"
           /\ read' \in [Worker -> Nat]
<1>1. CASE queue = <<>>
  BY <1>1 DEF ThreadFreed, IInv, TaskTypeOK, PoolInv, PoolTypeOK
<1>2. CASE queue # <<>>
  <2> DEFINE h == Head(queue)
  <2>1. h \in Worker /\ job[h] = "queued"
    BY <1>2 DEF IInv, TaskTypeOK, PoolInv, PoolTypeOK
  <2>2. job' = [[job EXCEPT ![w] = "none"] EXCEPT ![h] = "running"] /\ Beginning(h)
    BY <1>2 DEF ThreadFreed
  <2> HIDE DEF h
  <2>3. read' \in [Worker -> Nat]
    BY <2>1, <2>2, FleetAssumption DEF Beginning, IInv, TaskTypeOK, PoolInv, PoolTypeOK, FleetAssumption
  <2> QED BY <2>1, <2>2, <2>3 DEF IInv, TaskTypeOK, PoolInv, PoolTypeOK
<1> QED BY <1>1, <1>2

LEMMA FreedByAbandoned ==
    ASSUME IInv, ThreadFreed(job)
    PROVE  /\ \A v \in Worker : job'[v] # "none" => job[v] # "none"
           /\ read' \in [Worker -> Nat]
<1>1. CASE queue = <<>>
  BY <1>1 DEF ThreadFreed, IInv, TaskTypeOK, PoolInv, PoolTypeOK
<1>2. CASE queue # <<>>
  <2> DEFINE h == Head(queue)
  <2>1. h \in Worker /\ job[h] = "queued"
    BY <1>2 DEF IInv, TaskTypeOK, PoolInv, PoolTypeOK
  <2>2. job' = [job EXCEPT ![h] = "running"] /\ Beginning(h)
    BY <1>2 DEF ThreadFreed
  <2> HIDE DEF h
  <2>3. read' \in [Worker -> Nat]
    BY <2>1, <2>2, FleetAssumption DEF Beginning, IInv, TaskTypeOK, PoolInv, PoolTypeOK, FleetAssumption
  <2> QED BY <2>1, <2>2, <2>3 DEF IInv, TaskTypeOK, PoolInv, PoolTypeOK
<1> QED BY <1>1, <1>2

\* A submitted body belongs to w, and reads a number of candidates.
LEMMA SubmittedJobs ==
    ASSUME IInv, NEW w \in Worker, Submit(w)
    PROVE  /\ \A v \in Worker : job'[v] # "none" => v = w \/ job[v] # "none"
           /\ read' \in [Worker -> Nat]
<1>1. read' \in [Worker -> Nat]
  <2>1. CASE UNCHANGED read
    BY <2>1 DEF IInv, TaskTypeOK, PoolInv, PoolTypeOK
  <2>2. CASE Beginning(w)
    BY <2>2, FleetAssumption DEF Beginning, IInv, TaskTypeOK, PoolInv, PoolTypeOK, FleetAssumption
  <2> QED BY <2>1, <2>2 DEF Submit, ThreadFor
<1>2. \E body \in {"queued", "running"} : job' = [job EXCEPT ![w] = body]
  BY DEF Submit, ThreadFor
<1> QED BY <1>1, <1>2 DEF IInv, TaskTypeOK, PoolInv, PoolTypeOK

\* A task that leaves its body behind may settle or move on.
LEMMA LeavingKeepsJobInv ==
    ASSUME IInv, NEW w \in Worker, NEW phase \in LoopPhase,
           \/ Settle(w) \/ Goto(w, phase) \/ loop' = [loop EXCEPT ![w] = phase],
           \A v \in Worker : job'[v] # "none" => v # w /\ job[v] # "none"
    PROVE  JobInv'
BY DEF IInv, TaskTypeOK, PoolInv, PoolTypeOK, JobInv, Settle, Goto

\* A task that has no body may do the same.
LEMMA FreeTaskKeepsJobInv ==
    ASSUME IInv, NEW w \in Worker, loop[w] \notin {"pass", "probe"}, job' = job,
           NEW phase \in LoopPhase, Settle(w) \/ Goto(w, phase)
    PROVE  JobInv'
BY DEF IInv, TaskTypeOK, PoolInv, PoolTypeOK, JobInv, Settle, Goto

LEMMA TaskSteps ==
    ASSUME TaskTypeOK, NEW w \in Worker, NEW phase \in LoopPhase, Settle(w) \/ Goto(w, phase)
    PROVE  /\ loop' \in [Worker -> LoopPhase] /\ stopped' \in [Worker -> BOOLEAN]
           /\ flag' \in [Worker -> Tier \cup {0}]
<1>1. CASE Settle(w)
  <2>1. loop' \in [Worker -> LoopPhase]
    BY <1>1 DEF TaskTypeOK, LoopPhase, Settle
  <2>2. flag' \in [Worker -> Tier \cup {0}] /\ stopped' = stopped
    BY <1>1 DEF TaskTypeOK, Settle
  <2> QED BY <2>1, <2>2 DEF TaskTypeOK
<1>2. CASE Goto(w, phase)
  BY <1>2 DEF TaskTypeOK, Goto
<1> QED BY <1>1, <1>2

LEMMA PoolUnchanged ==
    ASSUME PoolInv, UNCHANGED poolVars
    PROVE  PoolInv'
BY DEF PoolInv, PoolTypeOK, QueuedOnce, Abandoned, Awaited, PoolIsBounded, Busy, PassPoolSize, poolVars

LEMMA InvInit == Init => IInv
<1> SUFFICES ASSUME Init PROVE IInv
  OBVIOUS
<1>1. TaskTypeOK /\ PoolTypeOK /\ QueuedOnce
  BY DEF Init, TaskTypeOK, PoolTypeOK, QueuedOnce, LoopPhase
<1>2. JobInv
  BY DEF Init, JobInv
<1>3. Awaited = {} /\ Abandoned = {}
  BY DEF Init, Awaited, Abandoned
<1>4. IsFiniteSet(Abandoned) /\ Busy = 0
  BY <1>3, FS_EmptySet DEF Busy
<1>5. PoolIsBounded
  <2>1. Cardinality(Worker) \in Nat
    BY FleetAssumption, FS_CardinalityType DEF FleetAssumption
  <2>2. PassPoolSize >= 0
    BY <2>1 DEF PassPoolSize, Larger, Floor, ThreadsPerWorker
  <2> QED BY <1>4, <2>2 DEF Init, PoolIsBounded
<1> QED BY <1>1, <1>2, <1>4, <1>5 DEF IInv, PoolInv

LEMMA InvNext == IInv /\ [Next]_vars => IInv'
<1> SUFFICES ASSUME IInv, [Next]_vars PROVE IInv'
  OBVIOUS
<1>p. /\ TaskTypeOK /\ PoolTypeOK /\ JobInv /\ PoolInv
      /\ {"turn", "pass", "report", "probe", "wait", "ended"} \subseteq LoopPhase
  BY DEF IInv, PoolInv, LoopPhase
<1>1. ASSUME NEW w \in Worker, Turn(w) PROVE IInv'
  <2>1. loop[w] = "turn" /\ job[w] = "none"
    BY <1>1, <1>p DEF Turn, JobInv, PoolTypeOK
  <2>2. CASE stopped[w]
    <3>1. Goto(w, "ended") /\ UNCHANGED <<poolVars, owed, latch, stored, supervisor, died>>
      BY <1>1, <2>2 DEF Turn
    <3>2. JobInv'
      BY <2>1, <3>1, <1>p, FreeTaskKeepsJobInv DEF poolVars
    <3>3. TaskTypeOK'
      BY <3>1, <1>p, TaskSteps DEF TaskTypeOK, poolVars
    <3> QED BY <3>1, <3>2, <3>3, <1>p, PoolUnchanged DEF IInv
  <2>3. CASE ~stopped[w]
    <3>1. /\ Goto(w, "pass") /\ Submit(w) /\ owed' = [owed EXCEPT ![w] = FALSE]
          /\ UNCHANGED <<latch, stored, supervisor, died>>
      BY <1>1, <2>3 DEF Turn
    <3>2. PoolInv'
      BY <2>1, <3>1, <1>p, SubmitKeepsPool
    <3>3. JobInv'
      BY <3>1, <1>p, SubmittedJobs DEF JobInv, Goto, TaskTypeOK
    <3>4. TaskTypeOK'
      BY <3>1, <1>p, TaskSteps, SubmittedJobs DEF TaskTypeOK
    <3> QED BY <3>2, <3>3, <3>4 DEF IInv
  <2> QED BY <2>2, <2>3
<1>2. ASSUME NEW w \in Worker, Succeed(w) PROVE IInv'
  <2>1. /\ job[w] = "running" /\ ThreadFreed([job EXCEPT ![w] = "none"]) /\ stuck' = stuck
        /\ UNCHANGED <<latch, supervisor, died, owed>>
    BY <1>2 DEF Succeed
  <2>2. PoolInv'
    BY <2>1, <1>p, AwaitedFreedKeepsPool
  <2>3. Settle(w) \/ loop' = [loop EXCEPT ![w] = "report"]
    BY <1>2 DEF Succeed
  <2>4. JobInv'
    BY <2>1, <2>3, <1>p, FreedJobs, LeavingKeepsJobInv
  <2>5. /\ loop' \in [Worker -> LoopPhase] /\ stopped' \in [Worker -> BOOLEAN]
        /\ flag' \in [Worker -> Tier \cup {0}] /\ stored' \in [Worker -> Nat]
    <3>1. CASE Settle(w) /\ UNCHANGED stored
      BY <3>1, <1>p, TaskSteps DEF TaskTypeOK
    <3>2. CASE /\ \E t \in Tier \cup {0} :
                     /\ stored' = [stored EXCEPT ![w] = IF t > 0 THEN @ + 1 ELSE @]
                     /\ flag' = [flag EXCEPT ![w] = t]
               /\ loop' = [loop EXCEPT ![w] = "report"] /\ UNCHANGED stopped
      BY <3>2, <1>p DEF TaskTypeOK
    <3> QED BY <1>2, <3>1, <3>2 DEF Succeed
  <2>6. TaskTypeOK'
    BY <2>1, <2>5, <1>p, FreedJobs DEF TaskTypeOK
  <2> QED BY <2>2, <2>4, <2>6 DEF IInv
<1>3. ASSUME NEW w \in Worker, Fail(w) PROVE IInv'
  <2>1. /\ job[w] = "running" /\ ThreadFreed([job EXCEPT ![w] = "none"]) /\ Settle(w)
        /\ UNCHANGED <<stuck, latch, stored, supervisor, died, owed>>
    BY <1>3 DEF Fail
  <2>2. PoolInv'
    BY <2>1, <1>p, AwaitedFreedKeepsPool
  <2>3. JobInv'
    BY <2>1, <1>p, FreedJobs, LeavingKeepsJobInv
  <2>4. TaskTypeOK'
    BY <2>1, <1>p, TaskSteps, FreedJobs DEF TaskTypeOK
  <2> QED BY <2>2, <2>3, <2>4 DEF IInv
<1>4. ASSUME NEW w \in Worker, Die(w) PROVE IInv'
  <2>1. /\ job[w] = "running" /\ ThreadFreed([job EXCEPT ![w] = "none"]) /\ Goto(w, "ended")
        /\ UNCHANGED <<stuck, latch, stored, supervisor, owed>> /\ died' = died \cup {w}
    BY <1>4 DEF Die
  <2>2. PoolInv'
    BY <2>1, <1>p, AwaitedFreedKeepsPool
  <2>3. JobInv'
    BY <2>1, <1>p, FreedJobs, LeavingKeepsJobInv
  <2>4. TaskTypeOK'
    BY <2>1, <1>p, TaskSteps, FreedJobs DEF TaskTypeOK
  <2> QED BY <2>2, <2>3, <2>4 DEF IInv
<1>5. ASSUME NEW w \in Worker, Deadline(w) PROVE IInv'
  <2>1. /\ job' = [job EXCEPT ![w] = "none"] /\ Settle(w)
        /\ UNCHANGED <<read, latch, stored, supervisor, died, owed>>
    BY <1>5 DEF Deadline
  <2>2. PoolInv'
    <3>1. CASE Withdraw(w) /\ UNCHANGED stuck
      BY <3>1, <2>1, <1>p, WithdrawingKeepsPool DEF Withdraw
    <3>2. CASE /\ job[w] = "running" /\ stuck' = [stuck EXCEPT ![w] = @ + 1]
               /\ UNCHANGED queue
      BY <3>2, <2>1, <1>p, AbandoningKeepsPool
    <3> QED BY <1>5, <3>1, <3>2 DEF Deadline
  <2>3. \A v \in Worker : job'[v] # "none" => v # w /\ job[v] # "none"
    BY <2>1, <1>p DEF PoolTypeOK
  <2>4. JobInv'
    BY <2>1, <2>3, <1>p, LeavingKeepsJobInv
  <2>5. TaskTypeOK'
    BY <2>1, <1>p, TaskSteps DEF TaskTypeOK
  <2> QED BY <2>2, <2>4, <2>5 DEF IInv
<1>6. ASSUME NEW w \in Worker, StuckReturns(w) PROVE IInv'
  <2>1. /\ stuck[w] > 0 /\ stuck' = [stuck EXCEPT ![w] = @ - 1] /\ ThreadFreed(job)
        /\ UNCHANGED <<taskVars, latch, supervisor, died, owed>>
    BY <1>6 DEF StuckReturns
  <2>2. PoolInv'
    BY <2>1, <1>p, AbandonedFreedKeepsPool
  <2>3. JobInv'
    BY <2>1, <1>p, FreedByAbandoned DEF JobInv, taskVars
  <2>4. stored' \in [Worker -> Nat]
    <3>1. stored' = stored \/ stored' = [stored EXCEPT ![w] = @ + 1]
      BY <1>6 DEF StuckReturns
    <3>2. stored \in [Worker -> Nat] /\ stored[w] + 1 \in Nat
      BY <1>p DEF TaskTypeOK
    <3>3. [stored EXCEPT ![w] = @ + 1] \in [Worker -> Nat]
      BY <3>2
    <3> QED BY <3>1, <3>2, <3>3
  <2>5. TaskTypeOK'
    BY <2>1, <2>4, <1>p, FreedByAbandoned DEF TaskTypeOK, taskVars
  <2> QED BY <2>2, <2>3, <2>5 DEF IInv
<1>7. ASSUME NEW w \in Worker, Report(w) \/ ReportFails(w) PROVE IInv'
  <2>1. /\ loop[w] = "report" /\ Settle(w) /\ UNCHANGED <<poolVars, stored, supervisor, died>>
        /\ Publish(w) \/ UNCHANGED <<latch, owed>>
    BY <1>7 DEF Report, ReportFails
  <2>2. JobInv'
    BY <2>1, <1>p, FreeTaskKeepsJobInv DEF poolVars
  <2>3. latch' \in [Worker -> BOOLEAN] /\ owed' \in [Worker -> BOOLEAN]
    BY <2>1, <1>p DEF Publish, TaskTypeOK
  <2>4. TaskTypeOK'
    BY <2>1, <2>3, <1>p, TaskSteps DEF TaskTypeOK, poolVars
  <2> QED BY <2>1, <2>2, <2>4, <1>p, PoolUnchanged DEF IInv
<1>8. ASSUME NEW w \in Worker, BeginProbe(w) PROVE IInv'
  <2>1. /\ loop[w] = "report" /\ Goto(w, "probe") /\ Submit(w)
        /\ UNCHANGED <<latch, stored, supervisor, died, owed>>
    BY <1>8 DEF BeginProbe
  <2>2. job[w] = "none"
    BY <2>1, <1>p DEF JobInv, PoolTypeOK
  <2>3. PoolInv'
    BY <2>1, <2>2, <1>p, SubmitKeepsPool
  <2>4. JobInv'
    BY <2>1, <1>p, SubmittedJobs DEF JobInv, Goto, TaskTypeOK
  <2>5. TaskTypeOK'
    BY <2>1, <1>p, TaskSteps, SubmittedJobs DEF TaskTypeOK
  <2> QED BY <2>3, <2>4, <2>5 DEF IInv
<1>9. ASSUME NEW w \in Worker, EndProbe(w) PROVE IInv'
  <2>1. /\ job[w] = "running" /\ ThreadFreed([job EXCEPT ![w] = "none"]) /\ Settle(w)
        /\ Publish(w) /\ UNCHANGED <<stuck, stored, supervisor, died>>
    BY <1>9 DEF EndProbe
  <2>2. PoolInv'
    BY <2>1, <1>p, AwaitedFreedKeepsPool
  <2>3. JobInv'
    BY <2>1, <1>p, FreedJobs, LeavingKeepsJobInv
  <2>4. latch' \in [Worker -> BOOLEAN] /\ owed' \in [Worker -> BOOLEAN]
    BY <2>1, <1>p DEF Publish, TaskTypeOK
  <2>5. TaskTypeOK'
    BY <2>1, <2>4, <1>p, TaskSteps, FreedJobs DEF TaskTypeOK
  <2> QED BY <2>2, <2>3, <2>5 DEF IInv
<1>10. ASSUME NEW w \in Worker, Tick(w) \/ Wake(w) PROVE IInv'
  <2>1. PICK phase \in {"turn", "ended"} : Goto(w, phase)
    BY <1>10 DEF Tick, Wake
  <2>2. /\ loop[w] = "wait" /\ UNCHANGED <<poolVars, stored, supervisor, died, owed>>
        /\ latch' = [latch EXCEPT ![w] = FALSE] \/ UNCHANGED latch
    BY <1>10 DEF Tick, Wake
  <2>3. JobInv'
    BY <2>1, <2>2, <1>p, FreeTaskKeepsJobInv DEF poolVars
  <2>4. TaskTypeOK'
    BY <2>1, <2>2, <1>p, TaskSteps DEF TaskTypeOK, poolVars
  <2> QED BY <2>2, <2>3, <2>4, <1>p, PoolUnchanged DEF IInv
<1>11. ASSUME StopAll \/ Drained \/ Release \/ UNCHANGED vars PROVE IInv'
  <2>1. UNCHANGED <<loop, flag, poolVars, latch, stored, died, owed>>
    BY <1>11 DEF StopAll, Drained, Release, taskVars, vars
  <2>2. JobInv'
    BY <2>1, <1>p DEF JobInv, poolVars
  <2>3. TaskTypeOK'
    BY <2>1, <1>11, <1>p DEF TaskTypeOK, StopAll, Drained, Release, taskVars, poolVars, vars
  <2> QED BY <2>1, <2>2, <2>3, <1>p, PoolUnchanged DEF IInv
<1> QED BY <1>1, <1>2, <1>3, <1>4, <1>5, <1>6, <1>7, <1>8, <1>9, <1>10, <1>11 DEF Next

THEOREM FleetInvariant == Spec => []IInv
BY InvInit, InvNext, PTL DEF Spec

(***************************************************************************)
(* What follows.                                                           *)
(***************************************************************************)

\* Every state has its type, and a body in the pool's queue is one that its task
\* waits for.
THEOREM FleetTypeOK == Spec => []TypeOK
<1>1. IInv => TypeOK
  BY DEF IInv, TaskTypeOK, PoolInv, PoolTypeOK, TypeOK
<1> QED BY <1>1, FleetInvariant, PTL

\* The pool holds a body back only while every thread is taken.
THEOREM PoolBound == Spec => []PoolIsBounded
<1>1. IInv => PoolIsBounded
  BY DEF IInv, PoolInv
<1> QED BY <1>1, FleetInvariant, PTL

\* Two threads for each worker are enough for the documented case: with at most
\* one abandoned body for each worker no body waits for a thread.
THEOREM PassesHaveRoom == Spec => []RoomForEveryPass
<1>1. IInv => RoomForEveryPass
  <2> SUFFICES ASSUME IInv, Cardinality(Abandoned) <= Cardinality(Worker), queue # <<>>
               PROVE  FALSE
    BY DEF RoomForEveryPass
  <2>1. PoolInv /\ Busy = PassPoolSize
    BY DEF IInv, PoolInv, PoolIsBounded
  <2>2. PICK w \in Worker : w \notin Awaited
    <3>1. 1 \in DOMAIN queue
      BY <2>1 DEF PoolInv, PoolTypeOK
    <3>2. queue[1] \in Worker /\ job[queue[1]] = "queued"
      BY <2>1, <3>1 DEF PoolInv, PoolTypeOK
    <3>3. queue[1] \notin Awaited
      BY <3>2 DEF Awaited
    <3> QED BY <3>2, <3>3
  <2>3. IsFiniteSet(Worker) /\ IsFiniteSet(Worker \ {w})
        /\ Cardinality(Worker \ {w}) = Cardinality(Worker) - 1
    BY FleetAssumption, FS_RemoveElement DEF FleetAssumption
  <2>4. Awaited \subseteq Worker \ {w}
    BY <2>2 DEF Awaited
  <2>5. Cardinality(Awaited) <= Cardinality(Worker \ {w})
    BY <2>3, <2>4, FS_Subset
  <2> QED BY <2>1, <2>3, <2>5, Counts DEF Busy
<1> QED BY <1>1, FleetInvariant, PTL

\* A qualifying nudge is latched, or about to be served, until a pass has begun
\* after it.
THEOREM NudgesAreKept == Spec => []NoNudgeLost
<1>1. Init => NoNudgeLost
  BY DEF Init, NoNudgeLost, Eval
<1>2. IInv /\ NoNudgeLost /\ [Next]_vars => NoNudgeLost'
  <2> SUFFICES ASSUME IInv, NoNudgeLost, [Next]_vars, NEW e \in Eval, owed'[e]
               PROVE  latch'[e] \/ loop'[e] \in {"turn", "ended"}
    BY DEF NoNudgeLost
  <2>1. e \in Worker /\ TaskTypeOK /\ (owed[e] => latch[e] \/ loop[e] \in {"turn", "ended"})
    BY DEF Eval, IInv, NoNudgeLost
  <2>2. CASE \E w \in Worker : Turn(w)
    BY <2>1, <2>2 DEF Turn, Goto, TaskTypeOK
  <2>3. CASE \E w \in Worker : Report(w) \/ EndProbe(w)
    <3>1. PICK w \in Worker : Publish(w) /\ Settle(w) /\ loop[w] \in {"report", "probe"}
      BY <2>3 DEF Report, EndProbe
    <3>2. latch'[e] = (latch[e] \/ e \in Woken(w, flag[w]))
      BY <3>1, <2>1 DEF Publish
    <3>3. owed'[e] = (owed[e] \/ e \in Woken(w, flag[w]))
      BY <3>1, <2>1 DEF Publish
    <3>4. CASE e \in Woken(w, flag[w])
      BY <3>2, <3>4
    <3>5. CASE owed[e]
      BY <3>1, <3>2, <3>5, <2>1 DEF Settle, TaskTypeOK
    <3> QED BY <3>3, <3>4, <3>5
  <2>4. CASE \E w \in Worker : Succeed(w) \/ Fail(w) \/ Die(w) \/ Deadline(w) \/ ReportFails(w)
    <3>1. PICK w \in Worker :
             /\ loop[w] \in {"pass", "probe", "report"} /\ UNCHANGED <<latch, owed>>
             /\ \E phase \in LoopPhase : loop' = [loop EXCEPT ![w] = phase]
      BY <2>4 DEF Succeed, Fail, Die, Deadline, ReportFails, Settle, Goto, LoopPhase
    <3> QED BY <3>1, <2>1 DEF TaskTypeOK
  <2>5. CASE \E w \in Worker : StuckReturns(w)
    BY <2>1, <2>5 DEF StuckReturns, taskVars
  <2>6. CASE \E w \in Worker : BeginProbe(w)
    BY <2>1, <2>6 DEF BeginProbe, Goto, TaskTypeOK
  <2>7. CASE \E w \in Worker : Tick(w) \/ Wake(w)
    BY <2>1, <2>7 DEF Tick, Wake, Goto, TaskTypeOK
  <2>8. CASE StopAll \/ Drained \/ Release \/ UNCHANGED vars
    BY <2>1, <2>8 DEF StopAll, Drained, Release, taskVars, vars
  <2> QED BY <2>2, <2>3, <2>4, <2>5, <2>6, <2>7, <2>8 DEF Next
<1> QED BY <1>1, <1>2, FleetInvariant, PTL DEF Spec

(***************************************************************************)
(* What a pass answers.  First the lists: the members of a set of indexes, *)
(* in order, are each of them once.                                        *)
(***************************************************************************)

LEMMA SymbolsAreListed ==
    /\ Len(Symbols) \in Nat /\ DOMAIN Symbols = 1 .. Len(Symbols)
    /\ Len(Symbols) > 0 /\ IsFiniteSet(DOMAIN Symbols)
    /\ Cardinality(DOMAIN Symbols) = Len(Symbols)
<1>1. /\ Len(Symbols) \in Nat /\ DOMAIN Symbols = 1 .. Len(Symbols)
      /\ Len(Symbols) > 0
    BY PassAssumption
<1>2. /\ IsFiniteSet(1 .. Len(Symbols))
      /\ Cardinality(1 .. Len(Symbols)) = IF 1 > Len(Symbols) THEN 0 ELSE Len(Symbols) - 1 + 1
  <2>1. 1 \in Int /\ Len(Symbols) \in Int
      BY <1>1
  <2> QED BY <2>1, FS_Interval
<1>3. Cardinality(1 .. Len(Symbols)) = Len(Symbols)
    BY <1>1, <1>2
<1> QED BY <1>1, <1>2, <1>3

LEMMA OrderedOnce ==
    ASSUME NEW S, S \subseteq DOMAIN Symbols, NEW at, at = InOrder(S)
    PROVE  /\ IsFiniteSet(S) /\ Cardinality(S) \in Nat
           /\ at \in [1 .. Cardinality(S) -> S]
           /\ \A m, n \in 1 .. Cardinality(S) : at[m] = at[n] => m = n
           /\ \A i \in S : \E n \in 1 .. Cardinality(S) : at[n] = i
<1> DEFINE N == Cardinality(S)
<1> DEFINE UpTo(i) == {j \in S : j <= i}
<1> DEFINE place == [i \in S |-> Place(i, S)]
<1>1. IsFiniteSet(S) /\ N \in Nat
  <2>1. S \in SUBSET DOMAIN Symbols
      OBVIOUS
  <2>2. IsFiniteSet(S)
      BY <2>1, SymbolsAreListed, FS_Subset
  <2> QED BY <2>2, FS_CardinalityType
<1>2. \A i \in S : i \in Nat
    BY SymbolsAreListed
<1>3. \A i \in S : /\ IsFiniteSet(UpTo(i)) /\ Cardinality(UpTo(i)) \in 1 .. N
                   /\ place[i] = Cardinality(UpTo(i))
  <2> TAKE i \in S
  <2>1. UpTo(i) \in SUBSET S /\ i \in UpTo(i)
      BY <1>2
  <2>2. place[i] = Cardinality(UpTo(i))
      BY DEF Place
  <2> HIDE DEF UpTo, place
  <2>3. IsFiniteSet(UpTo(i)) /\ Cardinality(UpTo(i)) <= N
      BY <1>1, <2>1, FS_Subset
  <2>4. Cardinality(UpTo(i)) \in Nat
      BY <2>3, FS_CardinalityType
  <2>5. Cardinality(UpTo(i)) # 0
      BY <2>1, <2>3, FS_EmptySet
  <2> QED BY <1>1, <2>2, <2>3, <2>4, <2>5
<1>4. ASSUME NEW i \in S, NEW k \in S, i < k PROVE place[i] # place[k]
  <2>1. UpTo(i) \in SUBSET UpTo(k)
      BY <1>2, <1>4
  <2>2. k \in UpTo(k) /\ k \notin UpTo(i)
      BY <1>2, <1>4
  <2>3. IsFiniteSet(UpTo(k)) /\ place[i] = Cardinality(UpTo(i)) /\ place[k] = Cardinality(UpTo(k))
      BY <1>3
  <2> HIDE DEF UpTo, place
  <2>4. Cardinality(UpTo(k)) = Cardinality(UpTo(i)) => UpTo(k) = UpTo(i)
      BY <2>1, <2>3, FS_Subset
  <2> QED BY <2>2, <2>3, <2>4
<1>5. \A i, k \in S : place[i] = place[k] => i = k
  <2> SUFFICES ASSUME NEW i \in S, NEW k \in S, place[i] = place[k] PROVE i = k
      OBVIOUS
  <2>1. ~(i < k) /\ ~(k < i)
      BY <1>4
  <2> QED BY <1>2, <2>1
<1>6. place \in [S -> 1 .. N] /\ DOMAIN place = S
    BY <1>3
<1>7. /\ IsFiniteSet(1 .. N) /\ Cardinality(1 .. N) = N
  <2>1. 1 \in Int /\ N \in Int
      BY <1>1
  <2>2. IsFiniteSet(1 .. N) /\ Cardinality(1 .. N) = IF 1 > N THEN 0 ELSE N - 1 + 1
      BY <2>1, FS_Interval
  <2> QED BY <1>1, <2>2
<1>8. \A n \in 1 .. N : \E i \in S : place[i] = n
  <2> HIDE DEF place
  <2>1. place \in Injection(S, 1 .. N)
      BY <1>5, <1>6 DEF Injection, IsInjective
  <2>2. place \in Surjection(S, 1 .. N)
      BY <1>7, <2>1, FS_Injection
  <2> QED BY <2>2 DEF Surjection
<1>9. at \in [1 .. N -> S] /\ \A n \in 1 .. N : place[at[n]] = n
  <2>1. \A n \in 1 .. N : at[n] \in S /\ Place(at[n], S) = n
    <3> TAKE n \in 1 .. N
    <3>1. at[n] = CHOOSE i \in S : Place(i, S) = n
        BY DEF InOrder
    <3>2. \E i \in S : Place(i, S) = n
        BY <1>8
    <3> QED BY <3>1, <3>2
  <2>2. at = [n \in 1 .. N |-> at[n]]
      BY DEF InOrder
  <2> QED BY <2>1, <2>2
<1> HIDE DEF place, N
<1>10. \A m, n \in 1 .. N : at[m] = at[n] => m = n
    BY <1>9
<1>11. \A i \in S : \E n \in 1 .. N : at[n] = i
  <2> TAKE i \in S
  <2>1. place[i] \in 1 .. N
      BY <1>6
  <2>2. at[place[i]] = i
      BY <1>5, <1>9, <2>1
  <2> QED BY <2>1, <2>2
<1> QED BY <1>1, <1>9, <1>10, <1>11 DEF N

Query == {QueryAt(i) : i \in DOMAIN Symbols}

\* Every symbol has an earliest one that shares its query.
LEMMA SomeoneIsFirst ==
    ASSUME NEW i \in DOMAIN Symbols
    PROVE  \E k \in FirstSeen : QueryAt(k) = QueryAt(i)
<1> DEFINE Sharers == {j \in DOMAIN Symbols : QueryAt(j) = QueryAt(i)}
<1>1. Sharers \subseteq Nat /\ Sharers # {}
    BY SymbolsAreListed
<1>2. \E k \in Sharers : \A j \in Sharers : k <= j
  <2> HIDE DEF Sharers
  <2>1. PICK k \in Sharers : \A j \in Sharers : ~(<<j, k>> \in OpToRel(<, Nat))
      BY <1>1, NatLessThanWellFounded, WFMin
  <2>2. \A j \in Sharers : ~(j < k)
      BY <1>1, <2>1 DEF OpToRel
  <2> QED BY <1>1, <2>2
<1>3. PICK k \in Sharers : \A j \in Sharers : k <= j
    BY <1>2
<1>4. ASSUME NEW j \in DOMAIN Symbols, j < k PROVE QueryAt(j) # QueryAt(k)
    BY <1>1, <1>3, <1>4, SymbolsAreListed
<1> QED BY <1>3, <1>4 DEF FirstSeen

\* Each query is a group, once.
LEMMA GroupsAreQueries ==
    /\ GroupByQuery \in Seq(Query)
    /\ \A m, n \in 1 .. Len(GroupByQuery) : GroupByQuery[m] = GroupByQuery[n] => m = n
    /\ \A query \in Query : \E n \in 1 .. Len(GroupByQuery) : GroupByQuery[n] = query
<1> DEFINE at == InOrder(FirstSeen)
<1> DEFINE N == Cardinality(FirstSeen)
<1>1. FirstSeen \subseteq DOMAIN Symbols
    BY DEF FirstSeen
<1>2. /\ N \in Nat /\ at \in [1 .. N -> FirstSeen]
      /\ \A m, n \in 1 .. N : at[m] = at[n] => m = n
      /\ \A i \in FirstSeen : \E n \in 1 .. N : at[n] = i
    BY <1>1, OrderedOnce
<1>3. GroupByQuery = [n \in 1 .. N |-> QueryAt(at[n])]
    BY <1>2 DEF GroupByQuery
<1> HIDE DEF at, N
<1>4. \A n \in 1 .. N : QueryAt(at[n]) \in Query
    BY <1>1, <1>2 DEF Query
<1>5. GroupByQuery \in [1 .. N -> Query]
    BY <1>3, <1>4
<1>6. GroupByQuery \in Seq(Query) /\ Len(GroupByQuery) = N
    BY <1>2, <1>5
<1>7. ASSUME NEW i \in FirstSeen, NEW k \in FirstSeen, QueryAt(i) = QueryAt(k) PROVE i = k
  <2>1. i \in DOMAIN Symbols /\ k \in DOMAIN Symbols /\ ~(i < k) /\ ~(k < i)
      BY <1>7 DEF FirstSeen
  <2> QED BY <2>1, SymbolsAreListed
<1>8. \A m, n \in 1 .. N : GroupByQuery[m] = GroupByQuery[n] => m = n
  <2> SUFFICES ASSUME NEW m \in 1 .. N, NEW n \in 1 .. N, GroupByQuery[m] = GroupByQuery[n]
               PROVE  m = n
      OBVIOUS
  <2>1. QueryAt(at[m]) = QueryAt(at[n]) /\ at[m] \in FirstSeen /\ at[n] \in FirstSeen
      BY <1>2, <1>3
  <2> QED BY <1>2, <1>7, <2>1
<1>9. ASSUME NEW query \in Query PROVE \E n \in 1 .. N : GroupByQuery[n] = query
  <2>1. PICK i \in DOMAIN Symbols : query = QueryAt(i)
      BY DEF Query
  <2>2. PICK k \in FirstSeen : QueryAt(k) = QueryAt(i)
      BY SomeoneIsFirst
  <2>3. PICK n \in 1 .. N : at[n] = k
      BY <1>2
  <2> QED BY <1>3, <2>1, <2>2, <2>3
<1> QED BY <1>6, <1>8, <1>9

\* A group's copies: one for each of its symbols.
IsFan(fan, query, basis, breaking) ==
    /\ fan \in Seq([symbol : Range(Symbols), basis : {basis}, breaking : {breaking}])
    /\ IsFiniteSet(Sharing(query)) /\ Cardinality(Sharing(query)) \in Nat
    /\ Len(fan) = Cardinality(Sharing(query))
    /\ \A n \in 1 .. Len(fan) : \E i \in Sharing(query) : fan[n] = Row(Symbols[i], basis, breaking)
    /\ \A i \in Sharing(query) : \E n \in 1 .. Len(fan) : fan[n].symbol = Symbols[i]

LEMMA FansCover ==
    ASSUME NEW query, NEW basis, NEW breaking
    PROVE  IsFan(Fan(query, basis, breaking), query, basis, breaking)
<1> DEFINE fan == Fan(query, basis, breaking)
<1> DEFINE S == Sharing(query)
<1> DEFINE at == InOrder(S)
<1> DEFINE N == Cardinality(S)
<1> DEFINE Copy == [symbol : Range(Symbols), basis : {basis}, breaking : {breaking}]
<1>1. S \subseteq DOMAIN Symbols
    BY DEF Sharing
<1>2. /\ IsFiniteSet(S) /\ N \in Nat /\ at \in [1 .. N -> S]
      /\ \A i \in S : \E n \in 1 .. N : at[n] = i
    BY <1>1, OrderedOnce
<1>3. SpecsOf(query) = [n \in 1 .. N |-> Symbols[at[n]]]
    BY <1>2 DEF SpecsOf
<1>4. fan = [n \in 1 .. N |-> Row(Symbols[at[n]], basis, breaking)]
    BY <1>3 DEF Fan
<1> HIDE DEF at, N, S, fan
<1>5. \A n \in 1 .. N : at[n] \in S /\ Symbols[at[n]] \in Range(Symbols)
    BY <1>1, <1>2 DEF Range
<1>6. \A n \in 1 .. N : Row(Symbols[at[n]], basis, breaking) \in Copy
    BY <1>5 DEF Row
<1> HIDE DEF Copy
<1>7. fan \in [1 .. N -> Copy]
    BY <1>4, <1>6
<1>8. fan \in Seq(Copy) /\ Len(fan) = N
    BY <1>2, <1>7
<1>9. ASSUME NEW i \in S PROVE \E n \in 1 .. N : fan[n].symbol = Symbols[i]
  <2>1. PICK n \in 1 .. N : at[n] = i
      BY <1>2
  <2>2. fan[n] = Row(Symbols[i], basis, breaking)
      BY <1>4, <2>1
  <2> QED BY <2>2 DEF Row
<1>10. \A n \in 1 .. N : \E i \in S : fan[n] = Row(Symbols[i], basis, breaking)
    BY <1>4, <1>5
<1> QED BY <1>2, <1>8, <1>9, <1>10 DEF N, S, Copy, IsFan, fan

(***************************************************************************)
(* The invariant: the rows are those of the groups that are through, and   *)
(* what the status is derived from was told with them.                     *)
(***************************************************************************)

Answer == [symbol : Range(Symbols), basis : {"llm", "no_data", "degraded"}, breaking : BOOLEAN]

Covered == {i \in DOMAIN Symbols : QueryAt(i) \notin Range(waiting)}

Agrees(r, s) ==
    /\ QueryOf[r.symbol] = QueryOf[s.symbol] => r.basis = s.basis /\ r.breaking = s.breaking
    /\ r.breaking => r.basis = "llm"

PassTypeOK ==
    /\ stage \in {"idle", "ingest", "evaluate"}
    /\ waiting \in Seq(Query) /\ rows \in Seq(Answer)

WaitingOnce == \A m, n \in 1 .. Len(waiting) : waiting[m] = waiting[n] => m = n

RowsCover ==
    /\ IsFiniteSet(Covered) /\ Len(rows) = Cardinality(Covered)
    /\ \A n \in 1 .. Len(rows) : \E i \in Covered : rows[n].symbol = Symbols[i]
    /\ \A i \in Covered : \E n \in 1 .. Len(rows) : rows[n].symbol = Symbols[i]

RowsAgree == \A m, n \in 1 .. Len(rows) : Agrees(rows[m], rows[n])

RowsAreTold == \A n \in 1 .. Len(rows) :
    /\ rows[n].basis = "degraded" => errors # {}
    /\ rows[n].basis # "degraded" => evals # {}

\* The envelope's part of the contract.
Keeps(e) ==
    /\ e.rows \in Seq(Answer) /\ Len(e.rows) = Len(Symbols)
    /\ {r.symbol : r \in RowsIn(e)} = {Symbols[n] : n \in DOMAIN Symbols}
    /\ e.status = "success" => e.errors = {} /\ \A r \in RowsIn(e) : r.basis # "degraded"
    /\ e.status = "error" => \A r \in RowsIn(e) : r.basis = "degraded"
    /\ e.status = "partial" => e.evals # {} \/ \E error \in e.errors :
                                                    error.type = "BUDGET_EXCEEDED"
    /\ e.errors # {} => e.status # "success"
    /\ \A r, s \in RowsIn(e) : Agrees(r, s)

PassInv ==
    /\ PassTypeOK /\ WaitingOnce
    /\ stage # "idle" => RowsCover
    /\ stage = "ingest" => rows = <<>>
    /\ RowsAgree /\ RowsAreTold
    /\ \A e \in Shown : Keeps(e)

LEMMA ContractIsKept == (\A e \in Shown : Keeps(e)) => EnvelopeContract
BY DEF Keeps, Agrees, EnvelopeContract, EverySymbolOnce, StatusTellsTheTruth, SharedAnalysisAgrees

\* A group that is through adds its rows: one per symbol, all alike.
LEMMA GroupIsCovered ==
    ASSUME PassTypeOK, WaitingOnce, RowsCover, RowsAgree, waiting # <<>>,
           NEW basis \in {"llm", "no_data", "degraded"}, NEW breaking \in BOOLEAN,
           breaking => basis = "llm",
           rows' = rows \o Fan(Head(waiting), basis, breaking), waiting' = Tail(waiting)
    PROVE  /\ rows' \in Seq(Answer) /\ waiting' \in Seq(Query) /\ WaitingOnce'
           /\ RowsCover' /\ RowsAgree'
           /\ \A n \in 1 .. Len(rows') : rows'[n] \in Range(rows) \/ rows'[n].basis = basis
           /\ Len(Fan(Head(waiting), basis, breaking)) > 0
<1> DEFINE query == Head(waiting)
<1> DEFINE fan == Fan(query, basis, breaking)
<1> DEFINE New == Sharing(query)
<1>1. waiting \in Seq(Query) /\ rows \in Seq(Answer) /\ Len(waiting) \in Nat /\ Len(waiting) > 0
    BY DEF PassTypeOK
<1>2. /\ query = waiting[1] /\ query \in Query
      /\ waiting' \in Seq(Query) /\ Len(waiting') = Len(waiting) - 1
      /\ \A n \in 1 .. Len(waiting') : waiting'[n] = waiting[n + 1]
    BY <1>1
<1>3. WaitingOnce'
  <2> SUFFICES ASSUME NEW m \in 1 .. Len(waiting'), NEW n \in 1 .. Len(waiting'),
                      waiting'[m] = waiting'[n]
               PROVE  m = n
      BY DEF WaitingOnce
  <2>1. waiting[m + 1] = waiting[n + 1] /\ m + 1 \in 1 .. Len(waiting) /\ n + 1 \in 1 .. Len(waiting)
      BY <1>1, <1>2
  <2>2. m + 1 = n + 1
      BY <2>1 DEF WaitingOnce
  <2> QED BY <2>2
<1>4. /\ fan \in Seq([symbol : Range(Symbols), basis : {basis}, breaking : {breaking}])
      /\ IsFiniteSet(New) /\ Cardinality(New) \in Nat /\ Len(fan) = Cardinality(New)
      /\ \A n \in 1 .. Len(fan) : \E i \in New : fan[n] = Row(Symbols[i], basis, breaking)
      /\ \A i \in New : \E n \in 1 .. Len(fan) : fan[n].symbol = Symbols[i]
  <2>1. IsFan(fan, query, basis, breaking)
      BY FansCover
  <2> HIDE DEF fan
  <2> QED BY <2>1 DEF IsFan
<1>5. Covered' = Covered \cup New /\ Covered \cap New = {}
  <2>1. Range(waiting) = {waiting[n] : n \in 1 .. Len(waiting)}
      BY <1>1 DEF Range
  <2>2. Range(waiting') = {waiting'[n] : n \in 1 .. Len(waiting')}
    <3>1. DOMAIN waiting' = 1 .. Len(waiting')
        BY <1>2
    <3> QED BY <3>1 DEF Range
  <2>3. query \in Range(waiting) /\ query \notin Range(waiting')
    <3>1. \A n \in 1 .. Len(waiting') : waiting'[n] # waiting[1]
      <4> TAKE n \in 1 .. Len(waiting')
      <4>1. n + 1 \in 1 .. Len(waiting) /\ 1 \in 1 .. Len(waiting) /\ n + 1 # 1
          BY <1>1, <1>2
      <4> QED BY <1>2, <4>1 DEF WaitingOnce
    <3> QED BY <1>1, <1>2, <2>1, <2>2, <3>1
  <2>4. Range(waiting) = Range(waiting') \cup {query}
    <3>1. ASSUME NEW n \in 1 .. Len(waiting) PROVE waiting[n] \in Range(waiting') \cup {query}
      <4>1. CASE n = 1
          BY <1>2, <4>1
      <4>2. CASE n # 1
        <5>1. n - 1 \in 1 .. Len(waiting') /\ (n - 1) + 1 = n
            BY <1>1, <1>2, <4>2
        <5> QED BY <1>2, <2>2, <5>1
      <4> QED BY <4>1, <4>2
    <3>2. ASSUME NEW n \in 1 .. Len(waiting') PROVE waiting'[n] \in Range(waiting)
      <4>1. n + 1 \in 1 .. Len(waiting)
          BY <1>1, <1>2
      <4> QED BY <1>2, <2>1, <4>1
    <3> QED BY <2>1, <2>2, <2>3, <3>1, <3>2
  <2>5. Covered' = {i \in DOMAIN Symbols : QueryAt(i) \notin Range(waiting')}
      BY DEF Covered, QueryAt
  <2> QED BY <2>3, <2>4, <2>5 DEF Covered, Sharing
<1> HIDE DEF fan, New
<1>6. /\ rows' = rows \o fan /\ Len(rows') = Len(rows) + Len(fan)
      /\ \A n \in 1 .. Len(rows) : rows'[n] = rows[n]
      /\ \A n \in 1 .. Len(fan) : rows'[n + Len(rows)] = fan[n]
      /\ Len(rows) \in Nat /\ Len(fan) \in Nat
    BY <1>1, <1>4 DEF fan
<1>7. \A n \in 1 .. Len(rows') : \/ n \in 1 .. Len(rows)
                                 \/ n - Len(rows) \in 1 .. Len(fan) /\ rows'[n] = fan[n - Len(rows)]
  <2> TAKE n \in 1 .. Len(rows')
  <2>1. n \notin 1 .. Len(rows) => n - Len(rows) \in 1 .. Len(fan) /\ (n - Len(rows)) + Len(rows) = n
      BY <1>6
  <2> QED BY <1>6, <2>1
<1>8. \A n \in 1 .. Len(fan) : fan[n] \in Answer
  <2> TAKE n \in 1 .. Len(fan)
  <2>1. PICK i \in New : fan[n] = Row(Symbols[i], basis, breaking)
      BY <1>4
  <2>2. Symbols[i] \in Range(Symbols)
      BY DEF New, Sharing, Range
  <2> QED BY <2>1, <2>2 DEF Row, Answer
<1>9. rows' \in Seq(Answer)
  <2>1. fan \in Seq(Answer)
    <3>1. fan \in [1 .. Len(fan) -> Answer]
        BY <1>4, <1>8
    <3> QED BY <1>6, <3>1, SeqDef
  <2>2. rows \o fan \in Seq(Answer)
      BY <1>1, <2>1, ConcatProperties
  <2> QED BY <1>6, <2>2
<1>10. RowsCover'
  <2>1. IsFiniteSet(Covered) /\ Cardinality(Covered) \in Nat
      BY FS_CardinalityType DEF RowsCover
  <2>2. IsFiniteSet(Covered') /\ Cardinality(Covered') = Cardinality(Covered) + Cardinality(New)
    <3>1. Cardinality(Covered \cap New) = 0
        BY <1>5, FS_EmptySet
    <3>2. /\ IsFiniteSet(Covered \cup New)
          /\ Cardinality(Covered \cup New)
               = Cardinality(Covered) + Cardinality(New) - Cardinality(Covered \cap New)
        BY <1>4, <2>1, FS_Union
    <3> QED BY <1>4, <1>5, <2>1, <3>1, <3>2
  <2>3. Len(rows') = Cardinality(Covered')
      BY <1>4, <1>6, <2>2 DEF RowsCover
  <2>4. ASSUME NEW n \in 1 .. Len(rows') PROVE \E i \in Covered' : rows'[n].symbol = Symbols[i]
    <3>1. CASE n \in 1 .. Len(rows)
        BY <1>5, <1>6, <3>1 DEF RowsCover
    <3>2. CASE n - Len(rows) \in 1 .. Len(fan) /\ rows'[n] = fan[n - Len(rows)]
      <4>1. PICK i \in New : fan[n - Len(rows)] = Row(Symbols[i], basis, breaking)
          BY <1>4, <3>2
      <4>2. rows'[n].symbol = Symbols[i]
          BY <3>2, <4>1 DEF Row
      <4> QED BY <1>5, <4>2
    <3> QED BY <1>7, <3>1, <3>2
  <2>5. ASSUME NEW i \in Covered' PROVE \E n \in 1 .. Len(rows') : rows'[n].symbol = Symbols[i]
    <3>1. CASE i \in Covered
      <4>1. PICK n \in 1 .. Len(rows) : rows[n].symbol = Symbols[i]
          BY <3>1 DEF RowsCover
      <4>2. n \in 1 .. Len(rows') /\ rows'[n] = rows[n]
          BY <1>6
      <4> QED BY <4>1, <4>2
    <3>2. CASE i \in New
      <4>1. PICK n \in 1 .. Len(fan) : fan[n].symbol = Symbols[i]
          BY <1>4, <3>2
      <4>2. n + Len(rows) \in 1 .. Len(rows') /\ rows'[n + Len(rows)] = fan[n]
          BY <1>6
      <4> QED BY <4>1, <4>2
    <3> QED BY <1>5, <3>1, <3>2
  <2> QED BY <2>2, <2>3, <2>4, <2>5 DEF RowsCover
<1>11. \A n \in 1 .. Len(rows) : \E i \in Covered : rows[n].symbol = Symbols[i]
    BY DEF RowsCover
<1>12. RowsAgree'
  <2> SUFFICES ASSUME NEW m \in 1 .. Len(rows'), NEW n \in 1 .. Len(rows')
               PROVE  Agrees(rows'[m], rows'[n])
      BY DEF RowsAgree, Agrees
  <2> DEFINE Old(k) == k \in 1 .. Len(rows) /\ rows'[k] = rows[k]
                       /\ \E i \in Covered : rows[k].symbol = Symbols[i]
  <2> DEFINE Added(k) == \E i \in New : rows'[k] = Row(Symbols[i], basis, breaking)
  <2>1. \A k \in 1 .. Len(rows') : Old(k) \/ Added(k)
    <3> TAKE k \in 1 .. Len(rows')
    <3>1. CASE k \in 1 .. Len(rows)
        BY <1>6, <1>11, <3>1
    <3>2. CASE k - Len(rows) \in 1 .. Len(fan) /\ rows'[k] = fan[k - Len(rows)]
        BY <1>4, <3>2
    <3> QED BY <1>7, <3>1, <3>2
  <2>2. \A k \in 1 .. Len(rows') : Old(k) => QueryOf[rows'[k].symbol] # query
    <3> SUFFICES ASSUME NEW k \in 1 .. Len(rows'), Old(k) PROVE QueryOf[rows'[k].symbol] # query
        OBVIOUS
    <3>1. PICK i \in Covered : rows'[k].symbol = Symbols[i]
        OBVIOUS
    <3>2. i \in DOMAIN Symbols /\ i \notin New
        BY <1>5 DEF Covered
    <3> QED BY <3>1, <3>2 DEF New, Sharing, QueryAt
  <2>3. \A k \in 1 .. Len(rows') :
            Added(k) => /\ QueryOf[rows'[k].symbol] = query
                        /\ rows'[k].basis = basis /\ rows'[k].breaking = breaking
    <3> SUFFICES ASSUME NEW k \in 1 .. Len(rows'), Added(k)
                 PROVE  /\ QueryOf[rows'[k].symbol] = query
                        /\ rows'[k].basis = basis /\ rows'[k].breaking = breaking
        OBVIOUS
    <3>1. PICK i \in New : rows'[k] = Row(Symbols[i], basis, breaking)
        OBVIOUS
    <3> QED BY <3>1 DEF New, Sharing, QueryAt, Row
  <2>4. \A k \in 1 .. Len(rows') : Old(k) => (rows'[k].breaking => rows'[k].basis = "llm")
      BY DEF RowsAgree, Agrees
  <2>5. CASE Old(m) /\ Old(n)
      BY <2>5 DEF RowsAgree
  <2>6. CASE Old(m) /\ Added(n)
    <3> HIDE DEF Old, Added
    <3> QED BY <2>2, <2>3, <2>4, <2>6 DEF Agrees
  <2>7. CASE Added(m)
    <3> HIDE DEF Old, Added
    <3> QED BY <2>1, <2>2, <2>3, <2>7 DEF Agrees
  <2> HIDE DEF Old, Added
  <2> QED BY <2>1, <2>5, <2>6, <2>7
<1>13. \A n \in 1 .. Len(rows') : rows'[n] \in Range(rows) \/ rows'[n].basis = basis
  <2> TAKE n \in 1 .. Len(rows')
  <2>1. CASE n \in 1 .. Len(rows)
      BY <1>1, <1>6, <2>1 DEF Range
  <2>2. CASE n - Len(rows) \in 1 .. Len(fan) /\ rows'[n] = fan[n - Len(rows)]
      BY <1>4, <2>2 DEF Row
  <2> QED BY <1>7, <2>1, <2>2
<1>14. Len(fan) > 0
  <2>1. PICK i \in DOMAIN Symbols : query = QueryAt(i)
      BY <1>2 DEF Query
  <2>2. i \in New
      BY <2>1 DEF New, Sharing
  <2>3. PICK n \in 1 .. Len(fan) : fan[n].symbol = Symbols[i]
      BY <1>4, <2>2
  <2> QED BY <1>6, <2>3
<1> QED BY <1>2, <1>3, <1>9, <1>10, <1>12, <1>13, <1>14 DEF fan

LEMMA ErrorsAreTold ==
    ASSUME NEW type
    PROVE  Keeps(ErrorEnvelope(type))
<1> DEFINE e == ErrorEnvelope(type)
<1>1. /\ e.status = "error" /\ e.rows = AllDegraded /\ e.errors # {}
    BY DEF ErrorEnvelope
<1>2. AllDegraded = [n \in 1 .. Len(Symbols) |-> Row(Symbols[n], "degraded", FALSE)]
    BY SymbolsAreListed DEF AllDegraded
<1>3. \A n \in 1 .. Len(Symbols) : Row(Symbols[n], "degraded", FALSE) \in Answer
    BY SymbolsAreListed DEF Row, Answer, Range
<1>4. AllDegraded \in Seq(Answer) /\ Len(AllDegraded) = Len(Symbols)
  <2>1. AllDegraded \in [1 .. Len(Symbols) -> Answer]
      BY <1>2, <1>3
  <2> QED BY <2>1, SymbolsAreListed
<1>5. RowsIn(e) = {Row(Symbols[n], "degraded", FALSE) : n \in 1 .. Len(Symbols)}
  <2>1. RowsIn(e) = {AllDegraded[n] : n \in 1 .. Len(Symbols)}
      BY <1>1, <1>4 DEF RowsIn
  <2> QED BY <1>2, <2>1
<1> HIDE DEF e
<1>6. \A n \in 1 .. Len(Symbols) : /\ Row(Symbols[n], "degraded", FALSE).symbol = Symbols[n]
                                  /\ Row(Symbols[n], "degraded", FALSE).basis = "degraded"
                                  /\ Row(Symbols[n], "degraded", FALSE).breaking = FALSE
    BY DEF Row
<1>7. {r.symbol : r \in RowsIn(e)} = {Symbols[n] : n \in DOMAIN Symbols}
  <2>1. DOMAIN Symbols = 1 .. Len(Symbols)
      BY SymbolsAreListed
  <2>2. \A n \in 1 .. Len(Symbols) : \E r \in RowsIn(e) : r.symbol = Symbols[n]
    <3> TAKE n \in 1 .. Len(Symbols)
    <3>1. Row(Symbols[n], "degraded", FALSE) \in RowsIn(e)
        BY <1>5
    <3> QED BY <1>6, <3>1
  <2>3. \A r \in RowsIn(e) : \E n \in 1 .. Len(Symbols) : r.symbol = Symbols[n]
    <3> TAKE r \in RowsIn(e)
    <3>1. PICK n \in 1 .. Len(Symbols) : r = Row(Symbols[n], "degraded", FALSE)
        BY <1>5
    <3> QED BY <1>6, <3>1
  <2> QED BY <2>1, <2>2, <2>3
<1>8. \A r \in RowsIn(e) : r.basis = "degraded" /\ r.breaking = FALSE
    BY <1>5, <1>6
<1>9. \A r, s \in RowsIn(e) : Agrees(r, s)
    BY <1>8 DEF Agrees
<1>10. e.status # "success" /\ e.status # "partial" /\ Len(e.rows) = Len(Symbols) /\ e.rows \in Seq(Answer)
    BY <1>1, <1>4
<1> QED BY <1>7, <1>8, <1>9, <1>10 DEF Keeps, e

\* What a pass that is through serves, saved or not.
LEMMA EnvelopesAreTrue ==
    ASSUME PassInv, stage = "evaluate", waiting = <<>>
    PROVE  Keeps(Envelope(DeriveStatus)) /\ Keeps(Unsaved)
<1>1. rows \in Seq(Answer) /\ DOMAIN rows = 1 .. Len(rows) /\ Len(rows) \in Nat
    BY DEF PassInv, PassTypeOK
<1>2. Covered = DOMAIN Symbols
    BY DEF Covered, Range
<1>3. Len(rows) = Len(Symbols)
    BY <1>2, SymbolsAreListed DEF PassInv, RowsCover
<1> DEFINE Mine == {rows[n] : n \in 1 .. Len(rows)}
<1>4. {r.symbol : r \in Mine} = {Symbols[n] : n \in DOMAIN Symbols}
    BY <1>2 DEF PassInv, RowsCover
<1>5. \A r, s \in Mine : Agrees(r, s)
    BY DEF PassInv, RowsAgree
<1>6. \A r \in Mine : /\ r.basis = "degraded" => errors # {}
                      /\ r.basis # "degraded" => evals # {}
    BY DEF PassInv, RowsAreTold
<1>7. \A e : e.rows = rows => RowsIn(e) = Mine
    BY <1>1 DEF RowsIn
<1> HIDE DEF Mine
<1> DEFINE Fits(e) ==
               /\ e.rows = rows /\ e.status \in {"success", "partial", "error"}
               /\ e.status = "success" => e.errors = {} /\ errors = {}
               /\ e.status = "error" => evals = {}
               /\ e.status = "partial" => e.evals # {} \/ \E error \in e.errors :
                                                               error.type = "BUDGET_EXCEEDED"
<1>8. ASSUME NEW e, Fits(e) PROVE Keeps(e)
  <2>1. RowsIn(e) = Mine
      BY <1>7, <1>8
  <2>2. {r.symbol : r \in RowsIn(e)} = {Symbols[n] : n \in DOMAIN Symbols}
      BY <1>4, <2>1
  <2>3. e.status = "success" => \A r \in RowsIn(e) : r.basis # "degraded"
      BY <1>6, <1>8, <2>1
  <2>4. e.status = "error" => \A r \in RowsIn(e) : r.basis = "degraded"
      BY <1>6, <1>8, <2>1
  <2>5. \A r, s \in RowsIn(e) : Agrees(r, s)
      BY <1>5, <2>1
  <2>6. e.rows \in Seq(Answer) /\ Len(e.rows) = Len(Symbols)
      BY <1>1, <1>3, <1>8
  <2>7. e.errors # {} => e.status # "success"
      BY <1>8
  <2> QED BY <1>8, <2>2, <2>3, <2>4, <2>5, <2>6, <2>7 DEF Keeps
<1>9. /\ DeriveStatus \in {"success", "partial", "error"}
      /\ DeriveStatus = "success" => errors = {} /\ evals # {}
      /\ DeriveStatus = "error" => evals = {}
      /\ DeriveStatus = "partial" => evals # {} \/ \E error \in errors : error.type = "BUDGET_EXCEEDED"
    BY DEF DeriveStatus, Types
<1>10. Keeps(Envelope(DeriveStatus))
  <2> DEFINE e == Envelope(DeriveStatus)
  <2>1. e.status = DeriveStatus /\ e.rows = rows /\ e.errors = errors /\ e.evals = evals
      BY DEF Envelope
  <2> HIDE DEF e
  <2>2. Fits(e)
      BY <1>9, <2>1
  <2> QED BY <1>8, <2>2 DEF e
<1>11. Keeps(Unsaved)
  <2> DEFINE e == Unsaved
  <2>1. /\ e.status = (IF DeriveStatus = "success" THEN "partial" ELSE DeriveStatus)
        /\ e.rows = rows /\ errors \subseteq e.errors /\ e.errors # {} /\ e.evals = evals
      BY DEF Unsaved
  <2> HIDE DEF e
  <2>2. e.status = "partial" => evals # {} \/ \E error \in e.errors : error.type = "BUDGET_EXCEEDED"
      BY <1>9, <2>1
  <2>3. e.status \in {"partial", "error"} /\ (e.status = "error" => evals = {})
      BY <1>9, <2>1
  <2>4. Fits(e)
      BY <2>1, <2>2, <2>3
  <2> QED BY <1>8, <2>4 DEF e
<1> QED BY <1>10, <1>11

LEMMA PassStarts == PassInit => PassInv
<1> SUFFICES ASSUME PassInit PROVE PassInv
    OBVIOUS
<1>1. Shown = {}
    BY DEF PassInit, Shown
<1>2. rows = <<>> /\ waiting = <<>> /\ stage = "idle" /\ Len(rows) = 0 /\ Len(waiting) = 0
    BY DEF PassInit
<1> QED BY <1>1, <1>2 DEF PassInv, PassTypeOK, WaitingOnce, RowsAgree, RowsAreTold

LEMMA PassSteps == PassInv /\ [PassNext]_passVars => PassInv'
<1> SUFFICES ASSUME PassInv, [PassNext]_passVars PROVE PassInv'
    OBVIOUS
<1> USE DEF PassTypeOK
<1>1. \A e \in Shown : Keeps(e)
    BY DEF PassInv
\* What is shown is what was, or keeps the contract itself.
<1>2. ASSUME NEW e, Shown' \subseteq Shown \cup {e}, Keeps(e)
      PROVE  (\A f \in Shown : Keeps(f))'
  <2>1. \A f : (Keeps(f))' <=> Keeps(f)
      BY DEF Keeps, RowsIn, Agrees
  <2> QED BY <1>1, <1>2, <2>1 DEF Shown
<1>3. ASSUME Shown' \subseteq Shown PROVE (\A f \in Shown : Keeps(f))'
  <2>1. \A f : (Keeps(f))' <=> Keeps(f)
      BY DEF Keeps, RowsIn, Agrees
  <2> QED BY <1>1, <1>3, <2>1 DEF Shown
<1>4. ASSUME Starts PROVE PassInv'
  <2>1. waiting' \in Seq(Query) /\ WaitingOnce'
      BY <1>4, GroupsAreQueries DEF Starts, WaitingOnce
  <2>2. rows' = <<>> /\ Len(rows') = 0 /\ stage' = "ingest" /\ Shown' \subseteq Shown
      BY <1>4 DEF Starts, Shown
  <2>3. Covered' = {}
    <3> SUFFICES ASSUME NEW i \in DOMAIN Symbols PROVE QueryAt(i) \in Range(waiting')
        BY DEF Covered, QueryAt
    <3>1. PICK n \in 1 .. Len(GroupByQuery) : GroupByQuery[n] = QueryAt(i)
        BY GroupsAreQueries DEF Query
    <3>2. waiting' = GroupByQuery /\ n \in DOMAIN GroupByQuery
        BY <1>4, <3>1, GroupsAreQueries DEF Starts
    <3> QED BY <3>1, <3>2 DEF Range
  <2>4. RowsCover'
      BY <2>2, <2>3, FS_EmptySet DEF RowsCover
  <2> QED BY <1>3, <2>1, <2>2, <2>4 DEF PassInv, RowsAgree, RowsAreTold
<1>5. ASSUME Ingests PROVE PassInv'
  <2>1. rows = <<>> /\ rows' = rows /\ waiting' = waiting /\ stage' = "evaluate" /\ Len(rows') = 0
      BY <1>5 DEF Ingests, PassInv
  <2>2. RowsCover'
    <3>1. Covered' = Covered
        BY <2>1 DEF Covered, QueryAt
    <3> QED BY <1>5, <2>1, <3>1 DEF RowsCover, PassInv, Ingests
  <2>3. Shown' \subseteq Shown
      BY <1>5 DEF Ingests, Shown
  <2> QED BY <1>3, <2>1, <2>2, <2>3 DEF PassInv, WaitingOnce, RowsAgree, RowsAreTold
<1>6. ASSUME Evaluates PROVE PassInv'
  <2> DEFINE Through(basis, breaking) ==
                 /\ rows' = rows \o Fan(Head(waiting), basis, breaking)
                 /\ basis = "degraded" => errors' # {}
                 /\ basis # "degraded" => evals' # {}
                 /\ errors \subseteq errors' /\ evals \subseteq evals'
  <2>1. waiting # <<>> /\ waiting' = Tail(waiting) /\ stage = "evaluate" /\ stage' = "evaluate"
      BY <1>6 DEF Evaluates
  <2>2. Shown' \subseteq Shown
      BY <1>6 DEF Evaluates, Shown
  <2>3. ASSUME NEW basis \in {"llm", "no_data", "degraded"}, NEW breaking \in BOOLEAN,
               breaking => basis = "llm", Through(basis, breaking)
        PROVE  PassInv'
    <3>1. /\ rows' \in Seq(Answer) /\ waiting' \in Seq(Query) /\ WaitingOnce'
          /\ RowsCover' /\ RowsAgree'
          /\ \A n \in 1 .. Len(rows') : rows'[n] \in Range(rows) \/ rows'[n].basis = basis
      <4>1. PassTypeOK /\ WaitingOnce /\ RowsCover /\ RowsAgree
          BY <2>1 DEF PassInv
      <4> QED BY <2>1, <2>3, <4>1, GroupIsCovered
    <3>2. RowsAreTold'
      <4> SUFFICES ASSUME NEW n \in 1 .. Len(rows')
                   PROVE  /\ rows'[n].basis = "degraded" => errors' # {}
                          /\ rows'[n].basis # "degraded" => evals' # {}
          BY DEF RowsAreTold
      <4>1. CASE rows'[n].basis = basis
          BY <2>3, <4>1
      <4>2. CASE rows'[n] \in Range(rows)
        <5>1. DOMAIN rows = 1 .. Len(rows)
            BY DEF PassInv
        <5>2. PICK m \in 1 .. Len(rows) : rows'[n] = rows[m]
            BY <4>2, <5>1 DEF Range
        <5>3. /\ rows[m].basis = "degraded" => errors # {}
              /\ rows[m].basis # "degraded" => evals # {}
            BY DEF PassInv, RowsAreTold
        <5> QED BY <2>3, <5>2, <5>3
      <4> QED BY <3>1, <4>1, <4>2
    <3> QED BY <1>3, <2>1, <2>2, <3>1, <3>2 DEF PassInv
  <2>4. \A type : Blame(Head(waiting), type) # {}
    <3> TAKE type
    <3>1. PassTypeOK /\ Len(waiting) > 0 /\ Head(waiting) \in Query
        BY <2>1 DEF PassInv
    <3>2. PICK i \in DOMAIN Symbols : QueryAt(i) = Head(waiting)
        BY <3>1 DEF Query
    <3>3. IsFan(Fan(Head(waiting), "degraded", FALSE), Head(waiting), "degraded", FALSE)
        BY FansCover
    <3>4. i \in Sharing(Head(waiting))
        BY <3>2 DEF Sharing
    <3>5. \E n : n \in DOMAIN Fan(Head(waiting), "degraded", FALSE)
      <4> DEFINE fan == Fan(Head(waiting), "degraded", FALSE)
      <4>1. IsFan(fan, Head(waiting), "degraded", FALSE)
          BY <3>3
      <4> HIDE DEF fan
      <4>2. DOMAIN fan = 1 .. Len(fan) /\ \E n \in 1 .. Len(fan) : fan[n].symbol = Symbols[i]
          BY <3>4, <4>1 DEF IsFan
      <4> QED BY <4>2 DEF fan
    <3>6. \E n : n \in DOMAIN SpecsOf(Head(waiting))
        BY <3>5 DEF Fan
    <3> QED BY <3>6 DEF Blame, Range
  <2> HIDE DEF Through
  <2>5. ASSUME NEW type \in Taxonomy, EvaluationFails(Head(waiting), type) PROVE PassInv'
    <3>1. Through("degraded", FALSE)
        BY <2>4, <2>5 DEF Through, EvaluationFails, Degraded
    <3> QED BY <2>3, <3>1
  <2>6. ASSUME GuardRejects(Head(waiting)) PROVE PassInv'
    <3>1. Through("degraded", FALSE)
        BY <2>4, <2>6 DEF Through, GuardRejects, Degraded
    <3> QED BY <2>3, <3>1
  <2>7. ASSUME NEW breaking \in BOOLEAN, EvaluationReturns(Head(waiting), "llm", breaking) PROVE PassInv'
    <3>1. Through("llm", breaking)
        BY <2>7 DEF Through, EvaluationReturns
    <3> QED BY <2>3, <3>1
  <2>8. ASSUME EvaluationReturns(Head(waiting), "no_data", FALSE) PROVE PassInv'
    <3>1. Through("no_data", FALSE)
        BY <2>8 DEF Through, EvaluationReturns
    <3> QED BY <2>3, <3>1
  <2> QED BY <1>6, <2>5, <2>6, <2>7, <2>8 DEF Evaluates
<1>7. ASSUME UNCHANGED <<waiting, rows, errors, evals>>, stage' = "idle",
             (\A f \in Shown : Keeps(f))'
      PROVE  PassInv'
    BY <1>7 DEF PassInv, WaitingOnce, RowsAgree, RowsAreTold
<1>8. ASSUME Persists PROVE PassInv'
  <2>1. Keeps(Envelope(DeriveStatus)) /\ Keeps(Unsaved)
      BY <1>8, EnvelopesAreTrue DEF Persists
  <2>2. \/ Shown' \subseteq Shown \cup {Envelope(DeriveStatus)}
        \/ Shown' \subseteq Shown \cup {Unsaved}
      BY <1>8 DEF Persists, Shown
  <2> QED BY <1>2, <1>7, <1>8, <2>1, <2>2 DEF Persists
<1>9. ASSUME RunRaises PROVE PassInv'
  <2>1. PICK type \in {"VECTOR_STORE_ERROR", "PARTIAL_RESPONSE"} :
            answer' = ErrorEnvelope(type) /\ latest' \in {latest, ErrorEnvelope(type)}
      BY <1>9 DEF RunRaises
  <2>2. Shown' \subseteq Shown \cup {ErrorEnvelope(type)}
      BY <2>1 DEF Shown
  <2> QED BY <1>2, <1>7, <1>9, <2>2, ErrorsAreTold DEF RunRaises
<1>10. ASSUME Latest PROVE PassInv'
  <2>1. Shown' \subseteq Shown \cup {ErrorEnvelope("VECTOR_STORE_ERROR")}
      BY <1>10 DEF Latest, Shown
  <2> QED BY <1>2, <1>7, <1>10, <2>1, ErrorsAreTold DEF Latest
<1>11. ASSUME UNCHANGED passVars PROVE PassInv'
  <2>1. Covered' = Covered
      BY <1>11 DEF passVars, Covered, QueryAt
  <2>2. Shown' \subseteq Shown
      BY <1>11 DEF passVars, Shown
  <2> QED BY <1>3, <1>11, <2>1, <2>2
          DEF passVars, PassInv, WaitingOnce, RowsCover, RowsAgree, RowsAreTold
<1> QED BY <1>4, <1>5, <1>6, <1>8, <1>9, <1>10, <1>11 DEF PassNext

\* The output contract (pipeline_runner.py, sentiment_router.py): whatever fails on
\* the way, every envelope a consumer is answered or the journal keeps has each symbol
\* once, says of itself what it is, and agrees where symbols share an analysis.
THEOREM AnswersKeepTheContract == PassSpec => []EnvelopeContract
<1>1. PassInit => PassInv
    BY PassStarts
<1>2. PassInv /\ [PassNext]_passVars => PassInv'
    BY PassSteps
<1>3. PassInv => EnvelopeContract
    BY ContractIsKept DEF PassInv
<1> QED BY <1>1, <1>2, <1>3, PTL DEF PassSpec
=============================================================================
