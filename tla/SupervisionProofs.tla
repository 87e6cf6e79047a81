------------------------- MODULE SupervisionProofs -------------------------
(***************************************************************************)
(* What holds of the parts that keep an eye on the engine, for every       *)
(* number of processes, runners, updates, days and alerts: each part's     *)
(* safety property follows from an inductive invariant of that part.       *)
(***************************************************************************)
EXTENDS PaidCalls, RunLock, Migrations, HostAlerts, CommandPoller, ArchiveExport, StallWatchdog,
        SourceHealth, TLAPS, FiniteSetTheorems, SequenceTheorems, WellFoundedInduction

(***************************************************************************)
(* The command poller.                                                     *)
(***************************************************************************)

\* Behind the offset, behind what the server has dropped and behind the batch's
\* next update lies nothing whose handling has not begun.
BehindIsTried ==
    \A u \in Update :
        u < offset \/ u < confirmed \/ (~Empty /\ u < batch.from) => u \in tried

\* The offset is never ahead of the batch, and only what is behind it was handled.
HandledIsBehind ==
    /\ ~Empty => offset <= batch.from
    /\ \A u \in Update : handled[u] <= 1 /\ (handled[u] > 0 => u < offset)

PollerInv == PollerTypeOK /\ BehindIsTried /\ HandledIsBehind

LEMMA PollerStarts == PollerInit => PollerInv
<1> SUFFICES ASSUME PollerInit PROVE PollerInv
    OBVIOUS
<1>1. PollerTypeOK
    BY PollerAssumption DEF PollerInit, PollerTypeOK, NoBatch, Update
<1>2. BehindIsTried
    BY PollerAssumption DEF PollerInit, BehindIsTried, Update, Empty, NoBatch
<1>3. HandledIsBehind
    BY PollerAssumption DEF PollerInit, HandledIsBehind, Update, Empty, NoBatch
<1> QED BY <1>1, <1>2, <1>3 DEF PollerInv

LEMMA GetUpdatesKeeps == PollerInv /\ GetUpdates => PollerInv'
<1> SUFFICES ASSUME PollerInv, GetUpdates PROVE PollerInv'
    OBVIOUS
<1> USE DEF PollerInv
<1>1. PICK to \in confirmed' - 1 .. posted : batch' = [from |-> confirmed', to |-> to]
    BY DEF GetUpdates
<1>2. confirmed' \in 1 .. MaxUpdates + 1 /\ offset <= confirmed' /\ confirmed <= confirmed'
    BY PollerAssumption DEF GetUpdates, PollerTypeOK
<1>3. /\ posted \in 0 .. MaxUpdates /\ offset \in 1 .. MaxUpdates + 1
      /\ confirmed \in 1 .. MaxUpdates + 1
    BY DEF PollerTypeOK
<1>4. to \in 0 .. MaxUpdates
  <2>1. \A c \in 1 .. MaxUpdates + 1 : \A p \in 0 .. MaxUpdates :
            \A n \in c - 1 .. p : n \in 0 .. MaxUpdates
      BY PollerAssumption
  <2> QED BY <1>2, <1>3, <2>1
<1>5. PollerTypeOK'
    BY <1>1, <1>2, <1>4 DEF GetUpdates, PollerTypeOK, Update
<1>6. BehindIsTried'
  <2> SUFFICES ASSUME NEW u \in Update, u < offset \/ u < confirmed'
               PROVE  u \in tried
      BY <1>1 DEF BehindIsTried, Empty, GetUpdates, Update
  <2>1. confirmed' = offset \/ confirmed' = confirmed
      BY DEF GetUpdates
  <2> QED BY <2>1 DEF BehindIsTried
<1>7. HandledIsBehind'
    BY <1>1, <1>2 DEF GetUpdates, HandledIsBehind, Empty, Update
<1> QED BY <1>5, <1>6, <1>7

LEMMA HandleKeeps == PollerInv /\ Handle => PollerInv'
<1> SUFFICES ASSUME PollerInv, Handle PROVE PollerInv'
    OBVIOUS
<1> USE DEF PollerInv
<1> DEFINE now == batch.from
<1>1. now \in 1 .. MaxUpdates /\ batch.to \in 0 .. MaxUpdates /\ now <= batch.to
    BY PollerAssumption DEF Handle, Empty, PollerTypeOK
<1>2. batch' = NoBatch \/ batch' = [from |-> now + 1, to |-> batch.to]
    BY DEF Handle, PollerTypeOK
<1>3. batch'.from = now + 1 \/ Empty'
    BY <1>2 DEF Empty, NoBatch
<1>4. offset' = now + 1
    BY DEF Handle, Advanced
<1>5. offset <= now
    BY DEF Handle, HandledIsBehind
<1>6. offset \in 1 .. MaxUpdates + 1
    BY DEF PollerTypeOK
<1>7. handled \in [Update -> 0 .. 2] /\ now \in Update
    BY <1>1 DEF PollerTypeOK, Update
<1>8. handled[now] = 0
    BY <1>5, <1>6, <1>1, <1>7 DEF HandledIsBehind
<1>9. handled' = [handled EXCEPT ![now] = 1]
    BY <1>7, <1>8 DEF Handle
<1>10. PollerTypeOK'
  <2>1. batch' \in [from : 1 .. MaxUpdates + 1, to : 0 .. MaxUpdates]
      BY <1>2, <1>1, PollerAssumption DEF NoBatch
  <2>2. offset' \in 1 .. MaxUpdates + 1
      BY <1>4, <1>1, PollerAssumption
  <2>3. handled' \in [Update -> 0 .. 2]
      BY <1>7, <1>9
  <2> QED BY <2>1, <2>2, <2>3, <1>7 DEF PollerTypeOK, Handle
<1>11. BehindIsTried'
  <2> SUFFICES ASSUME NEW u \in Update,
                      u < now + 1 \/ u < confirmed \/ (~Empty' /\ u < batch'.from)
               PROVE  u \in tried'
      BY <1>4 DEF BehindIsTried, Handle, Update
  <2>1. tried' = tried \union {now}
      BY DEF Handle
  <2>2. u < now \/ u = now \/ u < confirmed
      BY <1>3, <1>1 DEF Update
  <2> QED BY <2>1, <2>2 DEF BehindIsTried, Handle
<1>12. HandledIsBehind'
  <2>1. ~Empty' => offset' <= batch'.from
      BY <1>3, <1>4, <1>1
  <2>2. ASSUME NEW u \in Update PROVE handled'[u] <= 1 /\ (handled'[u] > 0 => u < offset')
    <3>1. CASE u = now
        BY <3>1, <1>9, <1>7, <1>4, <1>1
    <3>2. CASE u # now
      <4>1. handled'[u] = handled[u]
          BY <3>2, <1>9, <1>7
      <4> QED BY <4>1, <1>4, <1>5, <1>6, <1>1 DEF HandledIsBehind, Update
    <3> QED BY <3>1, <3>2
  <2> QED BY <2>1, <2>2 DEF HandledIsBehind, Update
<1> QED BY <1>10, <1>11, <1>12

LEMMA PollerStep == PollerInv /\ [PollerNext]_pollerVars => PollerInv'
<1> SUFFICES ASSUME PollerInv, [PollerNext]_pollerVars PROVE PollerInv'
    OBVIOUS
<1>1. CASE Post
  <2> USE DEF PollerInv, Post
  <2>1. PollerTypeOK'
      BY <1>1, PollerAssumption DEF PollerTypeOK, Update
  <2>2. BehindIsTried' /\ HandledIsBehind'
      BY <1>1 DEF BehindIsTried, HandledIsBehind, Empty, Update
  <2> QED BY <2>1, <2>2
<1>2. CASE GetUpdates
    BY <1>2, GetUpdatesKeeps
<1>3. CASE Handle
    BY <1>3, HandleKeeps
<1>4. CASE StartAgain
  <2> USE DEF PollerInv, StartAgain
  <2>1. PollerTypeOK'
      BY <1>4, PollerAssumption DEF PollerTypeOK, Update, NoBatch
  <2>2. Empty'
      BY <1>4 DEF Empty, NoBatch
  <2>3. BehindIsTried'
      BY <1>4, <2>2 DEF BehindIsTried, Update
  <2>4. HandledIsBehind'
      BY <1>4, <2>2 DEF HandledIsBehind, Update
  <2> QED BY <2>1, <2>3, <2>4
<1>5. CASE UNCHANGED pollerVars
    BY <1>5 DEF pollerVars, PollerInv, PollerTypeOK, BehindIsTried, HandledIsBehind, Empty, Update
<1> QED BY <1>1, <1>2, <1>3, <1>4, <1>5 DEF PollerNext

\* However the server's batches are cut, whichever handler fails and however often
\* the poller is started: no command is confirmed away before its handling began,
\* and none is handled twice by one poller (telegram_command_poller.py _loop).
THEOREM CommandsAreHandledOnce == PollerSpec => []EachCommandOnce
<1>1. PollerInv => EachCommandOnce
    BY DEF PollerInv, BehindIsTried, HandledIsBehind, EachCommandOnce, NothingConfirmedUnseen,
           HandledOnce
<1> QED BY <1>1, PollerStarts, PollerStep, PTL DEF PollerSpec

(***************************************************************************)
(* Schema migrations.                                                      *)
(***************************************************************************)

\* Version order is well founded: pending files have an oldest one.
LEMMA OldestExists ==
    ASSUME NEW T, T \subseteq Nat, T # {}
    PROVE  Oldest(T) \in T /\ \A u \in T : Oldest(T) <= u
<1>1. \E x \in T : \A y \in T : ~ (<<y, x>> \in OpToRel(<, Nat))
    BY NatLessThanWellFounded, WFMin
<1>2. PICK x \in T : \A y \in T : ~ (<<y, x>> \in OpToRel(<, Nat))
    BY <1>1
<1>3. ASSUME NEW y \in T PROVE x <= y
  <2>1. x \in Nat /\ y \in Nat
      OBVIOUS
  <2>2. ~(y < x)
      BY <1>2, <2>1 DEF OpToRel
  <2> QED BY <2>1, <2>2
<1> QED BY <1>3 DEF Oldest

Under(r) == runner[r].at \in {"applying", "recording"}

\* A runner past the lock has read every recorded version as recorded.
TodoCoversPending == \A r \in Runner : Under(r) => Version \ ledger \subseteq runner[r].todo

\* Between a statement and its row the file has taken effect without one.
RecordingFollowsEffect ==
    \A r \in Runner : runner[r].at = "recording" =>
        LET v == Oldest(runner[r].todo)
        IN  runner[r].todo # {} /\ v \notin Transactional /\ ran[v] > 0

RecordedHasEffect == \A v \in ledger : ran[v] > 0

\* As long as nothing went wrong: one runner is past the lock, what it has to do is
\* what is pending, and an effect without a row is the one it is recording.
UndisturbedRun ==
    faults = 0 =>
        /\ \A r \in Runner : Under(r) => lock = r /\ runner[r].todo \cap ledger = {}
        /\ \A v \in Version : ran[v] <= 1
        /\ \A v \in Version \ ledger : ran[v] > 0 =>
            \E r \in Runner : runner[r].at = "recording" /\ Oldest(runner[r].todo) = v

MigrationsInv ==
    /\ MigrationsTypeOK /\ TodoCoversPending /\ RecordingFollowsEffect
    /\ ApplyOnceEver /\ RecordedHasEffect /\ LedgerIsAPrefix /\ UndisturbedRun

LEMMA MigrationsStart == MigrationsInit => MigrationsInv
BY MigrationsAssumption
   DEF MigrationsInit, MigrationsInv, MigrationsTypeOK, TodoCoversPending, RecordingFollowsEffect,
       ApplyOnceEver, RecordedHasEffect, LedgerIsAPrefix, UndisturbedRun, Under, Off

\* What the invariant says of the oldest file a runner has to do.
LEMMA OldestTodo ==
    ASSUME MigrationsInv, NEW r \in Runner, Under(r), runner[r].todo # {}
    PROVE  LET v == Oldest(runner[r].todo)
           IN  /\ v \in Version /\ v \in runner[r].todo
               /\ \A u \in Version : u < v => u \in ledger
<1> DEFINE T == runner[r].todo
           v == Oldest(T)
<1>1. T \subseteq Version /\ Version \subseteq Nat
    BY MigrationsAssumption DEF MigrationsInv, MigrationsTypeOK
<1>2. v \in T /\ \A u \in T : v <= u
    BY <1>1, OldestExists
<1>3. ASSUME NEW u \in Version, u < v PROVE u \in ledger
  <2>1. u \notin T
    <3>1. u \in Nat /\ v \in Nat
        BY <1>1, <1>2
    <3>2. ~(v <= u)
        BY <3>1, <1>3
    <3> QED BY <3>2, <1>2
  <2> QED BY <2>1 DEF MigrationsInv, TodoCoversPending
<1> QED BY <1>1, <1>2, <1>3

\* Under the lock what is pending is read again.
LEMMA LockKeeps ==
    ASSUME MigrationsInv, NEW r \in Runner, TakeLock(r)
    PROVE  MigrationsInv'
<1> USE DEF MigrationsInv
<1> DEFINE new == [at |-> "applying", todo |-> Pending]
<1>1. /\ runner' = [runner EXCEPT ![r] = new] /\ runner[r].at = "waiting"
      /\ lock = Free /\ lock' = r /\ UNCHANGED <<ledger, ran, drifted, faults>>
    BY DEF TakeLock
<1>2. /\ DOMAIN runner = Runner
      /\ runner' \in [Runner -> [at : {"off", "waiting", "applying", "recording"}, todo : SUBSET Version]]
    BY <1>1 DEF MigrationsTypeOK, Pending
<1>3. runner'[r] = new /\ \A o \in Runner \ {r} : runner'[o] = runner[o]
    BY <1>1, <1>2
<1>4. MigrationsTypeOK'
    BY <1>1, <1>2 DEF MigrationsTypeOK
<1>5. TodoCoversPending'
  <2> SUFFICES ASSUME NEW o \in Runner, Under(o)' PROVE Version \ ledger \subseteq runner'[o].todo
      BY <1>1 DEF TodoCoversPending
  <2>1. CASE o = r
      BY <2>1, <1>3 DEF Pending
  <2>2. CASE o # r
      BY <2>2, <1>3 DEF TodoCoversPending, Under
  <2> QED BY <2>1, <2>2
<1>6. RecordingFollowsEffect'
  <2> SUFFICES ASSUME NEW o \in Runner, runner'[o].at = "recording"
               PROVE  /\ runner'[o].todo # {} /\ Oldest(runner'[o].todo) \notin Transactional
                      /\ ran[Oldest(runner'[o].todo)] > 0
      BY <1>1 DEF RecordingFollowsEffect
  <2>1. o # r
      BY <1>3
  <2> QED BY <2>1, <1>3 DEF RecordingFollowsEffect
<1>7. ApplyOnceEver' /\ RecordedHasEffect' /\ LedgerIsAPrefix'
    BY <1>1 DEF ApplyOnceEver, RecordedHasEffect, LedgerIsAPrefix
<1>8. UndisturbedRun'
  <2> SUFFICES ASSUME faults = 0
               PROVE  /\ \A o \in Runner : Under(o)' => r = o /\ runner'[o].todo \cap ledger = {}
                      /\ \A v \in Version : ran[v] <= 1
                      /\ \A v \in Version \ ledger : ~(ran[v] > 0)
      BY <1>1 DEF UndisturbedRun
  <2>1. \A o \in Runner : ~Under(o)
      BY <1>1, MigrationsAssumption DEF UndisturbedRun
  <2>2. \A o \in Runner : Under(o)' => o = r
      BY <2>1, <1>3 DEF Under
  <2>3. runner'[r].todo \cap ledger = {}
      BY <1>3 DEF Pending
  <2>4. \A v \in Version \ ledger : ~(ran[v] > 0)
      BY <2>1 DEF UndisturbedRun, Under
  <2> QED BY <2>2, <2>3, <2>4 DEF UndisturbedRun
<1> QED BY <1>4, <1>5, <1>6, <1>7, <1>8

\* A run that ends, in order or not, leaves the schema as it is; with nothing gone
\* wrong it ends only between two files.
LEMMA FailKeeps ==
    ASSUME MigrationsInv, NEW r \in Runner, Fail(r), UNCHANGED <<ledger, ran, drifted>>,
           faults' \in 0 .. MaxFaults,
           faults' = 0 => faults = 0 /\ runner[r].at = "applying"
    PROVE  MigrationsInv'
<1> USE DEF MigrationsInv
<1>1. /\ DOMAIN runner = Runner
      /\ runner' \in [Runner -> [at : {"off", "waiting", "applying", "recording"}, todo : SUBSET Version]]
    BY DEF MigrationsTypeOK, Fail, Off
<1>2. runner'[r] = Off /\ \A o \in Runner \ {r} : runner'[o] = runner[o]
    BY <1>1 DEF Fail
<1>3. MigrationsTypeOK'
    BY <1>1 DEF MigrationsTypeOK, Fail
<1>4. \A o \in Runner : runner'[o].at # "off" => o # r /\ runner'[o] = runner[o]
    BY <1>2 DEF Off
<1>5. TodoCoversPending'
    BY <1>4 DEF TodoCoversPending, Under
<1>6. RecordingFollowsEffect'
    BY <1>4 DEF RecordingFollowsEffect
<1>7. ApplyOnceEver' /\ RecordedHasEffect' /\ LedgerIsAPrefix'
    BY DEF ApplyOnceEver, RecordedHasEffect, LedgerIsAPrefix
<1>8. UndisturbedRun'
  <2> SUFFICES ASSUME faults' = 0
               PROVE  /\ \A o \in Runner : Under(o)' => FALSE
                      /\ \A v \in Version : ran[v] <= 1
                      /\ \A v \in Version \ ledger : ~(ran[v] > 0)
      BY DEF UndisturbedRun
  <2>1. lock = r /\ faults = 0
      BY DEF UndisturbedRun, Under
  <2>2. \A o \in Runner : Under(o) => o = r
      BY <2>1 DEF UndisturbedRun
  <2>3. \A o \in Runner : Under(o)' => FALSE
      BY <2>2, <1>4 DEF Under
  <2>4. \A v \in Version \ ledger : ~(ran[v] > 0)
      BY <2>1, <2>2 DEF UndisturbedRun, Under
  <2> QED BY <2>1, <2>3, <2>4 DEF UndisturbedRun
<1> QED BY <1>3, <1>5, <1>6, <1>7, <1>8

\* The row of a file whose effect is there, or comes with it, joins the ledger.
LEMMA RowKeeps ==
    ASSUME MigrationsInv, NEW r \in Runner, Under(r), runner[r].todo # {},
           NEW v, v = Oldest(runner[r].todo), v \notin ledger,
           ledger' = ledger \union {v},
           runner' = [runner EXCEPT ![r] = [at |-> "applying", todo |-> @.todo \ {v}]],
           UNCHANGED <<lock, drifted, faults>>,
           \/ runner[r].at = "applying" /\ v \in Transactional /\ ran' = [ran EXCEPT ![v] = 1]
           \/ runner[r].at = "recording" /\ UNCHANGED ran
    PROVE  MigrationsInv'
<1> USE DEF MigrationsInv
<1> DEFINE new == [at |-> "applying", todo |-> runner[r].todo \ {v}]
<1> DEFINE Transactionally ==
        runner[r].at = "applying" /\ v \in Transactional /\ ran' = [ran EXCEPT ![v] = 1]
<1>1. /\ v \in Version /\ v \in runner[r].todo
      /\ \A u \in Version : u < v => u \in ledger
    BY OldestTodo
<1>2. /\ DOMAIN runner = Runner
      /\ runner' \in [Runner -> [at : {"off", "waiting", "applying", "recording"}, todo : SUBSET Version]]
    BY DEF MigrationsTypeOK
<1>3. runner'[r] = new /\ \A o \in Runner \ {r} : runner'[o] = runner[o]
    BY <1>2
<1>4. ran \in [Version -> 0 .. 2]
    BY DEF MigrationsTypeOK
<1>5. /\ ran' \in [Version -> 0 .. 2]
      /\ ran'[v] > 0
      /\ \A u \in Version \ {v} : ran'[u] = ran[u]
  <2>1. CASE Transactionally
      BY <2>1, <1>1, <1>4
  <2>2. CASE runner[r].at = "recording" /\ UNCHANGED ran
      BY <2>2, <1>4 DEF RecordingFollowsEffect
  <2> QED BY <2>1, <2>2
<1>6. MigrationsTypeOK'
    BY <1>1, <1>2, <1>5 DEF MigrationsTypeOK
<1>7. TodoCoversPending'
  <2> SUFFICES ASSUME NEW o \in Runner, Under(o)', NEW u \in Version, u \notin ledger, u # v
               PROVE  u \in runner'[o].todo
      BY DEF TodoCoversPending
  <2>1. CASE o = r
      BY <2>1, <1>3 DEF TodoCoversPending
  <2>2. CASE o # r
      BY <2>2, <1>3 DEF TodoCoversPending, Under
  <2> QED BY <2>1, <2>2
<1>8. RecordingFollowsEffect'
  <2> SUFFICES ASSUME NEW o \in Runner, runner'[o].at = "recording"
               PROVE  /\ runner'[o].todo # {} /\ Oldest(runner'[o].todo) \notin Transactional
                      /\ ran'[Oldest(runner'[o].todo)] > 0
      BY DEF RecordingFollowsEffect
  <2>1. runner'[o] = runner[o]
      BY <1>3
  <2> DEFINE w == Oldest(runner[o].todo)
  <2>2. runner[o].todo # {} /\ w \notin Transactional /\ ran[w] > 0
      BY <2>1 DEF RecordingFollowsEffect
  <2>3. w \in Version
      BY <2>1, <2>2, OldestTodo DEF Under
  <2> HIDE DEF w
  <2>4. ran'[w] > 0
      BY <2>2, <2>3, <1>5
  <2> QED BY <2>1, <2>2, <2>4 DEF w
<1>9. ApplyOnceEver'
  <2> SUFFICES ASSUME NEW u \in Transactional
               PROVE  ran'[u] = IF u \in ledger \union {v} THEN 1 ELSE 0
      BY DEF ApplyOnceEver
  <2>1. u \in Version
      BY MigrationsAssumption
  <2>2. CASE u = v
    <3>1. Transactionally
        BY <2>2 DEF RecordingFollowsEffect
    <3> QED BY <3>1, <2>2, <1>1, <1>4
  <2>3. CASE u # v
      BY <2>1, <2>3, <1>5 DEF ApplyOnceEver
  <2> QED BY <2>2, <2>3
<1>10. RecordedHasEffect'
  <2> SUFFICES ASSUME NEW u \in ledger \union {v} PROVE ran'[u] > 0
      BY DEF RecordedHasEffect
  <2>1. u \in Version
      BY <1>1 DEF MigrationsTypeOK
  <2> QED BY <2>1, <1>5 DEF RecordedHasEffect
<1>11. LedgerIsAPrefix'
  <2> SUFFICES ASSUME NEW w \in Version, ran'[w] > 0, NEW u \in Version, u < w
               PROVE  u \in ledger \union {v}
      BY DEF LedgerIsAPrefix
  <2>1. CASE w = v
      BY <2>1, <1>1
  <2>2. CASE w # v
      BY <2>2, <1>5 DEF LedgerIsAPrefix
  <2> QED BY <2>1, <2>2
<1>12. UndisturbedRun'
  <2> SUFFICES ASSUME faults = 0
               PROVE  /\ \A o \in Runner : Under(o)' =>
                            lock = o /\ runner'[o].todo \cap (ledger \union {v}) = {}
                      /\ \A u \in Version : ran'[u] <= 1
                      /\ \A u \in Version \ (ledger \union {v}) : ~(ran'[u] > 0)
      BY DEF UndisturbedRun
  <2>1. lock = r /\ runner[r].todo \cap ledger = {} /\ \A o \in Runner : Under(o) => o = r
      BY DEF UndisturbedRun
  <2>2. ASSUME NEW o \in Runner, Under(o)'
        PROVE  lock = o /\ runner'[o].todo \cap (ledger \union {v}) = {}
    <3>1. o = r
        BY <2>1, <2>2, <1>3 DEF Under
    <3> QED BY <3>1, <2>1, <1>3
  <2>3. ASSUME NEW u \in Version PROVE ran'[u] <= 1
    <3>1. CASE u = v
        BY <3>1, <1>1, <1>4 DEF UndisturbedRun
    <3>2. CASE u # v
        BY <3>2, <1>5 DEF UndisturbedRun
    <3> QED BY <3>1, <3>2
  <2>4. ASSUME NEW u \in Version \ (ledger \union {v}) PROVE ~(ran'[u] > 0)
    <3>1. ~(ran[u] > 0)
        BY <2>1 DEF UndisturbedRun, Under
    <3> QED BY <3>1, <1>5
  <2> QED BY <2>2, <2>3, <2>4
<1> QED BY <1>6, <1>7, <1>8, <1>9, <1>10, <1>11, <1>12

LEMMA TransactionKeeps ==
    ASSUME MigrationsInv, NEW r \in Runner, ApplyInTransaction(r)
    PROVE  MigrationsInv'
<1> DEFINE v == Oldest(runner[r].todo)
<1>1. /\ Under(r) /\ runner[r].at = "applying" /\ runner[r].todo # {} /\ v \in Transactional
      /\ UNCHANGED <<drifted, faults>> /\ faults \in 0 .. MaxFaults
    BY DEF ApplyInTransaction, Under, MigrationsInv, MigrationsTypeOK
<1>2. CASE v \notin ledger
  <2>1. v \in Version /\ ran \in [Version -> 0 .. 2] /\ runner \in [Runner -> [at : {"off", "waiting", "applying", "recording"}, todo : SUBSET Version]]
      BY <1>1, OldestTodo DEF MigrationsInv, MigrationsTypeOK
  <2>2. ran[v] = 0
      BY <1>1, <1>2 DEF MigrationsInv, ApplyOnceEver
  <2>3. ran' = [ran EXCEPT ![v] = 1]
      BY <1>2, <2>1, <2>2 DEF ApplyInTransaction, Effect
  <2>4. runner' = [runner EXCEPT ![r] = [at |-> "applying", todo |-> @.todo \ {v}]]
      BY <1>1, <1>2, <2>1 DEF ApplyInTransaction
  <2>5. ledger' = ledger \union {v} /\ UNCHANGED lock
      BY <1>2 DEF ApplyInTransaction
  <2> HIDE DEF v
  <2> QED BY <1>1, <1>2, <2>3, <2>4, <2>5, RowKeeps DEF v
<1>3. CASE v \in ledger
    BY <1>1, <1>3, FailKeeps DEF ApplyInTransaction
<1> QED BY <1>2, <1>3

LEMMA StatementKeeps ==
    ASSUME MigrationsInv, NEW r \in Runner, RunStatement(r)
    PROVE  MigrationsInv'
<1> USE DEF MigrationsInv
<1> DEFINE v == Oldest(runner[r].todo)
<1>1. /\ Under(r) /\ runner[r].at = "applying" /\ runner[r].todo # {} /\ v \notin Transactional
      /\ UNCHANGED <<lock, ledger, drifted, faults>> /\ Effect(v)
      /\ runner' = [runner EXCEPT ![r].at = "recording"]
    BY DEF RunStatement, Under, At
<1>2. v \in Version /\ v \in runner[r].todo /\ \A u \in Version : u < v => u \in ledger
    BY <1>1, OldestTodo
<1>3. /\ DOMAIN runner = Runner
      /\ runner' \in [Runner -> [at : {"off", "waiting", "applying", "recording"}, todo : SUBSET Version]]
    BY <1>1 DEF MigrationsTypeOK
<1>4. /\ runner'[r].at = "recording" /\ runner'[r].todo = runner[r].todo
      /\ \A o \in Runner \ {r} : runner'[o] = runner[o]
    BY <1>1, <1>3 DEF MigrationsTypeOK
<1> HIDE DEF v
<1>5. ran \in [Version -> 0 .. 2]
    BY DEF MigrationsTypeOK
<1>6. /\ ran' \in [Version -> 0 .. 2] /\ ran'[v] > 0 /\ (ran[v] = 0 => ran'[v] = 1)
      /\ \A u \in Version \ {v} : ran'[u] = ran[u]
    BY <1>1, <1>2, <1>5 DEF Effect
<1>7. MigrationsTypeOK'
    BY <1>1, <1>3, <1>6 DEF MigrationsTypeOK
<1>8. TodoCoversPending'
  <2> SUFFICES ASSUME NEW o \in Runner, Under(o)' PROVE Version \ ledger \subseteq runner'[o].todo
      BY <1>1 DEF TodoCoversPending
  <2>1. CASE o = r
      BY <2>1, <1>1, <1>4 DEF TodoCoversPending
  <2>2. CASE o # r
      BY <2>2, <1>4 DEF TodoCoversPending, Under
  <2> QED BY <2>1, <2>2
<1>9. RecordingFollowsEffect'
  <2> SUFFICES ASSUME NEW o \in Runner, runner'[o].at = "recording"
               PROVE  /\ runner'[o].todo # {} /\ Oldest(runner'[o].todo) \notin Transactional
                      /\ ran'[Oldest(runner'[o].todo)] > 0
      BY DEF RecordingFollowsEffect
  <2>1. CASE o = r
      BY <2>1, <1>1, <1>4, <1>6 DEF v
  <2>2. CASE o # r
    <3> DEFINE w == Oldest(runner[o].todo)
    <3>1. runner'[o] = runner[o]
        BY <2>2, <1>4
    <3>2. runner[o].todo # {} /\ w \notin Transactional /\ ran[w] > 0
        BY <3>1 DEF RecordingFollowsEffect
    <3>3. w \in Version
        BY <3>1, <3>2, OldestTodo DEF Under
    <3> HIDE DEF w
    <3>4. ran'[w] > 0
        BY <3>2, <3>3, <1>6
    <3> QED BY <3>1, <3>2, <3>4 DEF w
  <2> QED BY <2>1, <2>2
<1>10. ApplyOnceEver'
    BY <1>1, <1>6, MigrationsAssumption DEF ApplyOnceEver
<1>11. RecordedHasEffect'
  <2> SUFFICES ASSUME NEW u \in ledger PROVE ran'[u] > 0
      BY <1>1 DEF RecordedHasEffect
  <2>1. u \in Version
      BY DEF MigrationsTypeOK
  <2> QED BY <2>1, <1>6 DEF RecordedHasEffect
<1>12. LedgerIsAPrefix'
  <2> SUFFICES ASSUME NEW w \in Version, ran'[w] > 0, NEW u \in Version, u < w
               PROVE  u \in ledger
      BY <1>1 DEF LedgerIsAPrefix
  <2>1. CASE w = v
      BY <2>1, <1>2
  <2>2. CASE w # v
      BY <2>2, <1>6 DEF LedgerIsAPrefix
  <2> QED BY <2>1, <2>2
<1>13. UndisturbedRun'
  <2> SUFFICES ASSUME faults = 0
               PROVE  /\ \A o \in Runner : Under(o)' => lock = o /\ runner'[o].todo \cap ledger = {}
                      /\ \A u \in Version : ran'[u] <= 1
                      /\ \A u \in Version \ ledger : ran'[u] > 0 =>
                            \E o \in Runner : runner'[o].at = "recording" /\ Oldest(runner'[o].todo) = u
      BY <1>1 DEF UndisturbedRun
  <2>1. lock = r /\ runner[r].todo \cap ledger = {} /\ \A o \in Runner : Under(o) => o = r
      BY <1>1 DEF UndisturbedRun
  <2>2. \A u \in Version \ ledger : ~(ran[u] > 0)
      BY <2>1, <1>1 DEF UndisturbedRun, Under
  <2>3. ran[v] = 0
      BY <2>1, <2>2, <1>2, <1>5
  <2>4. ASSUME NEW o \in Runner, Under(o)'
        PROVE  lock = o /\ runner'[o].todo \cap ledger = {}
    <3>1. o = r
        BY <2>1, <2>4, <1>4 DEF Under
    <3> QED BY <3>1, <2>1, <1>4
  <2>5. ASSUME NEW u \in Version PROVE ran'[u] <= 1
    <3>1. CASE u = v
        BY <3>1, <2>3, <1>6
    <3>2. CASE u # v
        BY <3>2, <1>6 DEF UndisturbedRun
    <3> QED BY <3>1, <3>2
  <2>6. ASSUME NEW u \in Version \ ledger, ran'[u] > 0
        PROVE  \E o \in Runner : runner'[o].at = "recording" /\ Oldest(runner'[o].todo) = u
    <3>1. u = v
        BY <2>2, <2>6, <1>6
    <3> QED BY <3>1, <1>4 DEF v
  <2> QED BY <2>4, <2>5, <2>6
<1> QED BY <1>7, <1>8, <1>9, <1>10, <1>11, <1>12, <1>13

LEMMA RecordKeeps ==
    ASSUME MigrationsInv, NEW r \in Runner, RecordStatement(r)
    PROVE  MigrationsInv'
<1> DEFINE v == Oldest(runner[r].todo)
<1>1. /\ Under(r) /\ runner[r].at = "recording" /\ runner[r].todo # {}
      /\ UNCHANGED <<ran, drifted, faults>> /\ faults \in 0 .. MaxFaults
    BY DEF RecordStatement, Under, MigrationsInv, MigrationsTypeOK, RecordingFollowsEffect
<1>2. CASE v \notin ledger
  <2>1. /\ ledger' = ledger \union {v} /\ UNCHANGED lock
        /\ runner' = [runner EXCEPT ![r] = [at |-> "applying", todo |-> @.todo \ {v}]]
      BY <1>2 DEF RecordStatement
  <2> HIDE DEF v
  <2> QED BY <1>1, <1>2, <2>1, RowKeeps DEF v
<1>3. CASE v \in ledger
  <2>1. v \in runner[r].todo
      BY <1>1, OldestTodo
  <2>2. faults # 0
      BY <1>1, <1>3, <2>1 DEF MigrationsInv, UndisturbedRun
  <2>3. Fail(r) /\ UNCHANGED ledger
      BY <1>3 DEF RecordStatement
  <2> HIDE DEF v
  <2> QED BY <1>1, <2>2, <2>3, FailKeeps
<1> QED BY <1>2, <1>3

LEMMA MigrationsStep == MigrationsInv /\ [MigrationsNext]_migrationVars => MigrationsInv'
<1> SUFFICES ASSUME MigrationsInv, [MigrationsNext]_migrationVars PROVE MigrationsInv'
    OBVIOUS
<1>0. faults \in 0 .. MaxFaults /\ MaxFaults \in Nat
    BY MigrationsAssumption DEF MigrationsInv, MigrationsTypeOK
<1>1. ASSUME NEW r \in Runner, Start(r) PROVE MigrationsInv'
  <2> USE DEF MigrationsInv
  <2>1. /\ UNCHANGED <<lock, ledger, ran, drifted, faults>>
        /\ UNCHANGED runner \/ runner' = [runner EXCEPT ![r].at = "waiting"]
        /\ runner[r].at = "off"
      BY <1>1 DEF Start, At
  <2>2. /\ runner' \in [Runner -> [at : {"off", "waiting", "applying", "recording"}, todo : SUBSET Version]]
        /\ \A o \in Runner : runner'[o] = runner[o] \/ runner'[o].at = "waiting"
        /\ runner'[r].at \in {"off", "waiting"} /\ \A o \in Runner \ {r} : runner'[o] = runner[o]
      BY <2>1 DEF MigrationsTypeOK
  <2>3. MigrationsTypeOK'
      BY <2>1, <2>2 DEF MigrationsTypeOK
  <2>4. \A o \in Runner : Under(o)' => o # r /\ runner'[o] = runner[o]
      BY <2>2 DEF Under
  <2>5. TodoCoversPending'
      BY <2>1, <2>4 DEF TodoCoversPending, Under
  <2>6. RecordingFollowsEffect'
      BY <2>1, <2>2 DEF RecordingFollowsEffect
  <2>7. ApplyOnceEver' /\ RecordedHasEffect' /\ LedgerIsAPrefix'
      BY <2>1 DEF ApplyOnceEver, RecordedHasEffect, LedgerIsAPrefix
  <2>8. UndisturbedRun'
    <3> SUFFICES ASSUME faults = 0
                 PROVE  /\ \A o \in Runner : Under(o)' => lock = o /\ runner'[o].todo \cap ledger = {}
                        /\ \A u \in Version : ran[u] <= 1
                        /\ \A u \in Version \ ledger : ran[u] > 0 =>
                              \E o \in Runner : runner'[o].at = "recording" /\ Oldest(runner'[o].todo) = u
        BY <2>1 DEF UndisturbedRun
    <3>1. \A o \in Runner : Under(o)' => lock = o /\ runner'[o].todo \cap ledger = {}
        BY <2>4 DEF UndisturbedRun, Under
    <3>2. ASSUME NEW u \in Version \ ledger, ran[u] > 0
          PROVE  \E o \in Runner : runner'[o].at = "recording" /\ Oldest(runner'[o].todo) = u
      <4>1. PICK o \in Runner : runner[o].at = "recording" /\ Oldest(runner[o].todo) = u
          BY <3>2 DEF UndisturbedRun
      <4>2. runner'[o] = runner[o]
          BY <4>1, <2>1, <2>2
      <4> QED BY <4>1, <4>2
    <3> QED BY <3>1, <3>2 DEF UndisturbedRun
  <2> QED BY <2>3, <2>5, <2>6, <2>7, <2>8
<1>2. ASSUME NEW r \in Runner, TakeLock(r) PROVE MigrationsInv'
    BY <1>2, LockKeeps
<1>3. ASSUME NEW r \in Runner, ApplyInTransaction(r) PROVE MigrationsInv'
    BY <1>3, TransactionKeeps
<1>4. ASSUME NEW r \in Runner, RunStatement(r) PROVE MigrationsInv'
    BY <1>4, StatementKeeps
<1>5. ASSUME NEW r \in Runner, RecordStatement(r) PROVE MigrationsInv'
    BY <1>5, RecordKeeps
<1>6. ASSUME NEW r \in Runner, Finish(r) PROVE MigrationsInv'
    BY <1>0, <1>6, FailKeeps DEF Finish
<1>7. ASSUME NEW r \in Runner, Dies(r) PROVE MigrationsInv'
  <2>1. faults' \in 0 .. MaxFaults /\ faults' # 0
      BY <1>0, <1>7 DEF Dies, Fault
  <2> QED BY <2>1, <1>7, FailKeeps DEF Dies
<1>8. CASE LosesLock \/ \E v \in Version : Edit(v)
  <2> USE DEF MigrationsInv
  <2>1. /\ UNCHANGED <<runner, ledger, ran>> /\ faults' \in 0 .. MaxFaults /\ faults' # 0
        /\ lock' \in {lock, Free} /\ drifted' \subseteq ledger
      BY <1>0, <1>8 DEF LosesLock, Edit, Fault, MigrationsTypeOK
  <2>2. MigrationsTypeOK'
      BY <2>1 DEF MigrationsTypeOK
  <2>3. TodoCoversPending' /\ RecordingFollowsEffect' /\ ApplyOnceEver' /\ RecordedHasEffect'
        /\ LedgerIsAPrefix'
      BY <2>1 DEF TodoCoversPending, RecordingFollowsEffect, ApplyOnceEver, RecordedHasEffect,
                  LedgerIsAPrefix, Under
  <2>4. UndisturbedRun'
      BY <2>1 DEF UndisturbedRun
  <2> QED BY <2>2, <2>3, <2>4
<1>9. CASE (\E v \in Version : Revert(v)) \/ UNCHANGED migrationVars
  <2> USE DEF MigrationsInv
  <2>1. UNCHANGED <<runner, lock, ledger, ran, faults>> /\ drifted' \subseteq drifted
      BY <1>9 DEF Revert, migrationVars
  <2>2. MigrationsTypeOK'
      BY <2>1 DEF MigrationsTypeOK
  <2>3. TodoCoversPending' /\ RecordingFollowsEffect' /\ ApplyOnceEver' /\ RecordedHasEffect'
        /\ LedgerIsAPrefix'
      BY <2>1 DEF TodoCoversPending, RecordingFollowsEffect, ApplyOnceEver, RecordedHasEffect,
                  LedgerIsAPrefix, Under
  <2>4. UndisturbedRun'
      BY <2>1 DEF UndisturbedRun, Under
  <2> QED BY <2>2, <2>3, <2>4
<1> QED BY <1>1, <1>2, <1>3, <1>4, <1>5, <1>6, <1>7, <1>8, <1>9 DEF MigrationsNext

\* However many runners are started together, die anywhere or lose their lock: a
\* file with a transaction has taken effect as often as the ledger says, and the
\* schema is a prefix of the files (migration_runner.py apply).
THEOREM SchemaIsAPrefix == MigrationsSpec => []MigrationsApplyOnce
<1>1. MigrationsInv => MigrationsApplyOnce
  <2> SUFFICES ASSUME MigrationsInv PROVE RecordedHasRun
      BY DEF MigrationsInv, MigrationsApplyOnce
  <2> QED BY DEF MigrationsInv, RecordedHasRun, RecordedHasEffect, UndisturbedRun
<1> QED BY <1>1, MigrationsStart, MigrationsStep, PTL DEF MigrationsSpec

(***************************************************************************)
(* The run lock.                                                           *)
(***************************************************************************)

\* While no session was lost, whoever has claimed the journal has the key.
ProducersHoldTheKey == losses = 0 => \A p \in Process : Running(p) => holder = p

\* The key held now was not lost.
HeldIsNotLost == \A p \in Process : holder = p => lostFor[p] = 0

RunLockInv == RunLockTypeOK /\ ProducersHoldTheKey /\ HeldIsNotLost /\ HeldWasTrueWhenAsked

LEMMA RunLockStarts == RunLockInit => RunLockInv
<1> SUFFICES ASSUME RunLockInit PROVE RunLockInv
    OBVIOUS
<1>1. RunLockTypeOK
    BY RunLockAssumption DEF RunLockInit, RunLockTypeOK, NoVerdict
<1>2. ProducersHoldTheKey /\ HeldIsNotLost
    BY DEF RunLockInit, ProducersHoldTheKey, HeldIsNotLost, Running
<1>3. HeldWasTrueWhenAsked
    BY DEF RunLockInit, HeldWasTrueWhenAsked, NoVerdict
<1> QED BY <1>1, <1>2, <1>3 DEF RunLockInv

\* A key that nobody held is granted: nobody else was producing.
LEMMA GrantKeeps ==
    ASSUME RunLockInv, NEW p \in Process, Granted(p),
           phase' \in [Process -> {"off", "claimed", "working", "drained"}],
           \A q \in Process \ {p} : phase'[q] = phase[q],
           verdict' = verdict \/ verdict' = [verdict EXCEPT ![p] = Judged(TRUE)],
           reading' \in [Process -> {"idle", "acquire"}], UNCHANGED losses
    PROVE  RunLockInv'
<1> USE DEF RunLockInv
<1>1. /\ holder = Nobody /\ holder' = p
      /\ session' = [session EXCEPT ![p] = "live"] /\ lostFor' = [lostFor EXCEPT ![p] = 0]
    BY DEF Granted
<1>2. RunLockTypeOK'
  <2>1. Judged(TRUE) \in [known : BOOLEAN, held : BOOLEAN, age : 0 .. Recheck]
      BY RunLockAssumption DEF Judged
  <2>2. verdict' \in [Process -> [known : BOOLEAN, held : BOOLEAN, age : 0 .. Recheck]]
      BY <2>1 DEF RunLockTypeOK
  <2>3. session' \in [Process -> {"none", "live", "dead"}]
      BY <1>1 DEF RunLockTypeOK
  <2>4. lostFor' \in [Process -> 0 .. Recheck]
      BY <1>1, RunLockAssumption DEF RunLockTypeOK
  <2>5. holder' \in Process \union {Nobody, Lingering} /\ losses' \in 0 .. MaxLosses
      BY <1>1 DEF RunLockTypeOK
  <2> QED BY <2>2, <2>3, <2>4, <2>5 DEF RunLockTypeOK
<1>3. ProducersHoldTheKey'
  <2> SUFFICES ASSUME losses = 0, NEW q \in Process, Running(q)' PROVE q = p
      BY <1>1 DEF ProducersHoldTheKey
  <2>1. CASE q # p
    <3>1. holder = q
        BY <2>1 DEF Running, ProducersHoldTheKey
    <3> QED BY <3>1, <1>1, RunLockAssumption
  <2> QED BY <2>1
<1>4. HeldIsNotLost'
    BY <1>1 DEF HeldIsNotLost, RunLockTypeOK
<1>5. HeldWasTrueWhenAsked'
  <2> SUFFICES ASSUME NEW q \in Process,
                      verdict'[q].known, verdict'[q].held, session'[q] # "none"
               PROVE  lostFor'[q] <= verdict'[q].age
      BY DEF HeldWasTrueWhenAsked
  <2>1. CASE q = p
    <3>1. lostFor'[p] = 0
        BY <1>1 DEF RunLockTypeOK
    <3>2. verdict'[p].age \in 0 .. Recheck
        BY <1>2 DEF RunLockTypeOK
    <3> QED BY <2>1, <3>1, <3>2, RunLockAssumption
  <2>2. CASE q # p
      BY <2>2, <1>1 DEF HeldWasTrueWhenAsked, RunLockTypeOK
  <2> QED BY <2>1, <2>2
<1> QED BY <1>2, <1>3, <1>4, <1>5

\* A process that is not producing gives its session up, and its verdict with it.
LEMMA DropKeeps ==
    ASSUME RunLockInv, NEW p \in Process, Dropped(p),
           phase' \in [Process -> {"off", "claimed", "working", "drained"}],
           ~Running(p)', \A q \in Process \ {p} : phase'[q] = phase[q],
           verdict' = [verdict EXCEPT ![p] = NoVerdict],
           reading' \in [Process -> {"idle", "acquire"}], UNCHANGED <<losses, lostFor>>
    PROVE  RunLockInv'
<1> USE DEF RunLockInv
<1>1. /\ session' = [session EXCEPT ![p] = "none"]
      /\ holder' = IF holder = p THEN Nobody ELSE holder
    BY DEF Dropped
<1>2. RunLockTypeOK'
    BY <1>1, RunLockAssumption DEF RunLockTypeOK, NoVerdict
<1>3. ProducersHoldTheKey'
    BY <1>1 DEF ProducersHoldTheKey, Running
<1>4. HeldIsNotLost'
    BY <1>1, RunLockAssumption DEF HeldIsNotLost
<1>5. HeldWasTrueWhenAsked'
  <2> SUFFICES ASSUME NEW q \in Process,
                      verdict'[q].known, verdict'[q].held, session'[q] # "none"
               PROVE  lostFor[q] <= verdict'[q].age
      BY DEF HeldWasTrueWhenAsked
  <2>1. q # p
      BY DEF RunLockTypeOK, NoVerdict
  <2> QED BY <2>1, <1>1 DEF HeldWasTrueWhenAsked, RunLockTypeOK
<1> QED BY <1>2, <1>3, <1>4, <1>5

\* Time passes for a verdict and for a lost key alike.
LEMMA SecondKeeps == RunLockInv /\ Second => RunLockInv'
<1> SUFFICES ASSUME RunLockInv, Second PROVE RunLockInv'
    OBVIOUS
<1> USE DEF RunLockInv
<1>0. Recheck \in Nat \ {0}
    BY RunLockAssumption
<1>1. \A t \in 0 .. Recheck : Older(t) \in 0 .. Recheck
    BY <1>0 DEF Older
<1>2. \A s, t \in 0 .. Recheck : s <= t => Older(s) <= Older(t)
    BY <1>0 DEF Older
<1>3. ASSUME NEW p \in Process
      PROVE  /\ lostFor[p] \in 0 .. Recheck /\ verdict[p].age \in 0 .. Recheck
             /\ verdict[p] \in [known : BOOLEAN, held : BOOLEAN, age : 0 .. Recheck]
    BY DEF RunLockTypeOK
<1>4. ASSUME NEW p \in Process
      PROVE  /\ verdict'[p].known = verdict[p].known /\ verdict'[p].held = verdict[p].held
             /\ verdict'[p].age = IF verdict[p].known THEN Older(verdict[p].age) ELSE 0
             /\ verdict'[p] \in [known : BOOLEAN, held : BOOLEAN, age : 0 .. Recheck]
             /\ lostFor'[p] = IF holder = p THEN 0 ELSE Older(lostFor[p])
             /\ lostFor'[p] \in 0 .. Recheck
    BY <1>0, <1>1, <1>3 DEF Second
<1>5. RunLockTypeOK'
  <2>1. verdict' \in [Process -> [known : BOOLEAN, held : BOOLEAN, age : 0 .. Recheck]]
      BY <1>4 DEF Second
  <2>2. lostFor' \in [Process -> 0 .. Recheck]
      BY <1>4 DEF Second
  <2> QED BY <2>1, <2>2 DEF RunLockTypeOK, Second
<1>6. ProducersHoldTheKey'
    BY DEF ProducersHoldTheKey, Running, Second
<1>7. HeldIsNotLost'
    BY <1>4 DEF HeldIsNotLost, Second
<1>8. HeldWasTrueWhenAsked'
  <2> SUFFICES ASSUME NEW p \in Process,
                      verdict'[p].known, verdict'[p].held, session[p] # "none"
               PROVE  lostFor'[p] <= verdict'[p].age
      BY DEF HeldWasTrueWhenAsked, Second
  <2>1. lostFor[p] <= verdict[p].age /\ verdict[p].known
      BY <1>4 DEF HeldWasTrueWhenAsked
  <2>2. Older(lostFor[p]) <= Older(verdict[p].age)
      BY <2>1, <1>2, <1>3
  <2>3. Older(verdict[p].age) \in 0 .. Recheck
      BY <1>1, <1>3
  <2>4. CASE holder = p
      BY <2>1, <2>3, <2>4, <1>0, <1>4
  <2>5. CASE holder # p
      BY <2>1, <2>2, <2>5, <1>4
  <2> QED BY <2>4, <2>5
<1> QED BY <1>5, <1>6, <1>7, <1>8

LEMMA RunLockStep == RunLockInv /\ [RunLockNext]_runLockVars => RunLockInv'
<1> SUFFICES ASSUME RunLockInv, [RunLockNext]_runLockVars PROVE RunLockInv'
    OBVIOUS
<1>1. ASSUME NEW p \in Process, Boot(p) PROVE RunLockInv'
  <2>1. /\ phase' = [phase EXCEPT ![p] = "claimed"] /\ Granted(p)
        /\ UNCHANGED <<verdict, reading, losses>>
      BY <1>1 DEF Boot
  <2>2. /\ phase' \in [Process -> {"off", "claimed", "working", "drained"}]
        /\ \A q \in Process \ {p} : phase'[q] = phase[q]
        /\ reading' \in [Process -> {"idle", "acquire"}]
      BY <2>1 DEF RunLockInv, RunLockTypeOK
  <2> QED BY <2>1, <2>2, GrantKeeps
<1>2. ASSUME NEW p \in Process, StartWorkers(p) \/ Drain(p) PROVE RunLockInv'
  <2> USE DEF RunLockInv
  <2>1. /\ UNCHANGED <<session, holder, verdict, reading, losses, lostFor>>
        /\ phase[p] \in {"claimed", "working"}
        /\ \E at \in {"working", "drained"} : phase' = [phase EXCEPT ![p] = at]
      BY <1>2 DEF StartWorkers, Drain
  <2>2. phase' \in [Process -> {"off", "claimed", "working", "drained"}]
      BY <2>1 DEF RunLockTypeOK
  <2>3. \A q \in Process : Running(q)' => Running(q)
      BY <2>1 DEF Running, RunLockTypeOK
  <2>4. RunLockTypeOK'
      BY <2>1, <2>2 DEF RunLockTypeOK
  <2>5. ProducersHoldTheKey' /\ HeldIsNotLost' /\ HeldWasTrueWhenAsked'
      BY <2>1, <2>3 DEF ProducersHoldTheKey, HeldIsNotLost, HeldWasTrueWhenAsked
  <2> QED BY <2>4, <2>5
<1>3. ASSUME NEW p \in Process, Release(p) PROVE RunLockInv'
  <2>1. /\ Dropped(p) /\ UNCHANGED <<phase, reading, losses, lostFor>> /\ phase[p] = "drained"
        /\ verdict' = [verdict EXCEPT ![p] = NoVerdict]
      BY <1>3 DEF Release, MayRelease
  <2>2. phase' \in [Process -> {"off", "claimed", "working", "drained"}]
        /\ reading' \in [Process -> {"idle", "acquire"}] /\ ~Running(p)'
      BY <2>1 DEF RunLockInv, RunLockTypeOK, Running
  <2> QED BY <2>1, <2>2, DropKeeps
<1>4. ASSUME NEW p \in Process, Exit(p) PROVE RunLockInv'
  <2>1. /\ Dropped(p) /\ UNCHANGED <<losses, lostFor>>
        /\ phase' = [phase EXCEPT ![p] = "off"] /\ reading' = [reading EXCEPT ![p] = "idle"]
        /\ verdict' = [verdict EXCEPT ![p] = NoVerdict]
      BY <1>4 DEF Exit
  <2>2. /\ phase' \in [Process -> {"off", "claimed", "working", "drained"}]
        /\ reading' \in [Process -> {"idle", "acquire"}] /\ ~Running(p)'
        /\ \A q \in Process \ {p} : phase'[q] = phase[q]
      BY <2>1 DEF RunLockInv, RunLockTypeOK, Running
  <2> QED BY <2>1, <2>2, DropKeeps
<1>5. ASSUME NEW p \in Process, Ask(p) PROVE RunLockInv'
  <2> USE DEF RunLockInv
  <2>1. UNCHANGED <<phase, session, holder, losses, lostFor>>
      BY <1>5 DEF Ask
  <2>2. \/ holder = p /\ verdict' = [verdict EXCEPT ![p] = Judged(TRUE)] /\ UNCHANGED reading
        \/ UNCHANGED verdict /\ reading' = [reading EXCEPT ![p] = "acquire"]
      BY <1>5 DEF Ask, HoldsKey
  <2>3. RunLockTypeOK'
    <3>1. Judged(TRUE) \in [known : BOOLEAN, held : BOOLEAN, age : 0 .. Recheck]
        BY RunLockAssumption DEF Judged
    <3>2. verdict' \in [Process -> [known : BOOLEAN, held : BOOLEAN, age : 0 .. Recheck]]
        BY <2>2, <3>1 DEF RunLockTypeOK
    <3>3. reading' \in [Process -> {"idle", "acquire"}]
        BY <2>2 DEF RunLockTypeOK
    <3> QED BY <2>1, <3>2, <3>3 DEF RunLockTypeOK
  <2>4. ProducersHoldTheKey' /\ HeldIsNotLost'
      BY <2>1 DEF ProducersHoldTheKey, HeldIsNotLost, Running
  <2>5. HeldWasTrueWhenAsked'
    <3> SUFFICES ASSUME NEW q \in Process,
                        verdict'[q].known, verdict'[q].held, session[q] # "none"
                 PROVE  lostFor[q] <= verdict'[q].age
        BY <2>1 DEF HeldWasTrueWhenAsked
    <3>1. CASE verdict'[q] = verdict[q]
        BY <3>1 DEF HeldWasTrueWhenAsked
    <3>2. CASE verdict'[q] # verdict[q]
      <4>1. q = p /\ holder = p /\ verdict'[p] = Judged(TRUE)
          BY <3>2, <2>2 DEF RunLockTypeOK
      <4> QED BY <4>1 DEF HeldIsNotLost, Judged
    <3> QED BY <3>1, <3>2
  <2> QED BY <2>3, <2>4, <2>5
<1>6. ASSUME NEW p \in Process, Reassert(p) PROVE RunLockInv'
  <2>1. /\ verdict' = [verdict EXCEPT ![p] = Judged(holder = Nobody)]
        /\ reading' = [reading EXCEPT ![p] = "idle"] /\ UNCHANGED <<phase, losses>>
      BY <1>6 DEF Reassert
  <2>2. /\ phase' \in [Process -> {"off", "claimed", "working", "drained"}]
        /\ \A q \in Process \ {p} : phase'[q] = phase[q]
        /\ reading' \in [Process -> {"idle", "acquire"}]
      BY <2>1 DEF RunLockInv, RunLockTypeOK
  <2>3. CASE Granted(p)
    <3>1. verdict' = [verdict EXCEPT ![p] = Judged(TRUE)]
        BY <2>1, <2>3 DEF Granted
    <3> QED BY <2>1, <2>2, <2>3, <3>1, GrantKeeps
  <2>4. CASE Refused(p)
    <3> USE DEF RunLockInv
    <3>1. UNCHANGED <<holder, session, lostFor>> /\ verdict' = [verdict EXCEPT ![p] = Judged(FALSE)]
        BY <2>1, <2>4 DEF Refused
    <3>2. RunLockTypeOK'
      <4>1. Judged(FALSE) \in [known : BOOLEAN, held : BOOLEAN, age : 0 .. Recheck]
          BY RunLockAssumption DEF Judged
      <4>2. verdict' \in [Process -> [known : BOOLEAN, held : BOOLEAN, age : 0 .. Recheck]]
          BY <3>1, <4>1 DEF RunLockTypeOK
      <4> QED BY <2>1, <2>2, <3>1, <4>2 DEF RunLockTypeOK
    <3>3. ProducersHoldTheKey' /\ HeldIsNotLost'
        BY <2>1, <3>1 DEF ProducersHoldTheKey, HeldIsNotLost, Running
    <3>4. HeldWasTrueWhenAsked'
        BY <3>1 DEF HeldWasTrueWhenAsked, Judged, RunLockTypeOK
    <3> QED BY <3>2, <3>3, <3>4
  <2> QED BY <1>6, <2>3, <2>4 DEF Reassert
<1>7. ASSUME NEW p \in Process, LoseSession(p) PROVE RunLockInv'
  <2> USE DEF RunLockInv
  <2>1. /\ losses' = losses + 1 /\ losses < MaxLosses /\ holder = p
        /\ session' = [session EXCEPT ![p] = "dead"] /\ holder' \in {Nobody, Lingering}
        /\ UNCHANGED <<phase, verdict, reading, lostFor>>
      BY <1>7 DEF LoseSession
  <2>2. RunLockTypeOK' /\ losses' # 0
      BY <2>1, RunLockAssumption DEF RunLockTypeOK
  <2>3. ProducersHoldTheKey'
      BY <2>2 DEF ProducersHoldTheKey
  <2>4. HeldIsNotLost'
      BY <2>1, RunLockAssumption DEF HeldIsNotLost
  <2>5. HeldWasTrueWhenAsked'
    <3> SUFFICES ASSUME NEW q \in Process,
                        verdict[q].known, verdict[q].held, session'[q] # "none"
                 PROVE  lostFor[q] <= verdict[q].age
        BY <2>1 DEF HeldWasTrueWhenAsked
    <3>1. CASE q = p
      <4>1. lostFor[p] = 0 /\ verdict[p].age \in 0 .. Recheck
          BY <2>1 DEF HeldIsNotLost, RunLockTypeOK
      <4> QED BY <3>1, <4>1, RunLockAssumption
    <3>2. CASE q # p
        BY <3>2, <2>1 DEF HeldWasTrueWhenAsked, RunLockTypeOK
    <3> QED BY <3>1, <3>2
  <2> QED BY <2>2, <2>3, <2>4, <2>5
<1>8. CASE ServerNotices
  <2> USE DEF RunLockInv
  <2>1. /\ holder = Lingering /\ holder' = Nobody
        /\ UNCHANGED <<phase, session, verdict, reading, losses, lostFor>>
      BY <1>8 DEF ServerNotices
  <2>2. RunLockTypeOK'
      BY <2>1 DEF RunLockTypeOK
  <2>3. ProducersHoldTheKey' /\ HeldIsNotLost' /\ HeldWasTrueWhenAsked'
      BY <2>1, RunLockAssumption
      DEF ProducersHoldTheKey, HeldIsNotLost, HeldWasTrueWhenAsked, Running
  <2> QED BY <2>2, <2>3
<1>9. CASE Second
    BY <1>9, SecondKeeps
<1>10. CASE UNCHANGED runLockVars
    BY <1>10 DEF runLockVars, RunLockInv, RunLockTypeOK, ProducersHoldTheKey, HeldIsNotLost,
                 HeldWasTrueWhenAsked, Running
<1> QED BY <1>1, <1>2, <1>3, <1>4, <1>5, <1>6, <1>7, <1>8, <1>9, <1>10 DEF RunLockNext

\* For any number of processes and any interleaving of boots, health reads, lost
\* sessions and shutdowns: two produce into one journal only after a session was
\* lost, and a verdict that the claim is held is no older than its loss
\* (run_lock.py acquire, status).
THEOREM ClaimsHold == RunLockSpec => []ClaimsAreTrue
<1>1. RunLockInv => ClaimsAreTrue
  <2> SUFFICES ASSUME RunLockInv, losses = 0
               PROVE  Cardinality({p \in Process : Running(p)}) <= 1
      BY DEF RunLockInv, ClaimsAreTrue, OneProducerPerJournal
  <2> DEFINE P == {p \in Process : Running(p)}
  <2>1. P \in SUBSET {holder}
      BY DEF RunLockInv, ProducersHoldTheKey
  <2>2. IsFiniteSet({holder}) /\ Cardinality({holder}) = 1
      BY FS_Singleton
  <2> HIDE DEF P
  <2>3. Cardinality(P) <= Cardinality({holder})
      BY <2>1, <2>2, FS_Subset
  <2> QED BY <2>2, <2>3 DEF P
<1> QED BY <1>1, RunLockStarts, RunLockStep, PTL DEF RunLockSpec

(***************************************************************************)
(* The alerts about the host.                                              *)
(***************************************************************************)

Held == Len(pending) + Len(queued)

\* The queues hold the newest alerts, in the order they were raised.
NewestAreHeld ==
    /\ raised \in Nat /\ Held <= raised
    /\ pending \in Seq(Nat) /\ queued \in Seq(Nat) /\ inbox \in Seq(Nat)
    /\ pending = <<>> \/ queued = <<>>
    /\ \A i \in 1 .. Len(pending) : pending[i] = raised - Held + i
    /\ \A i \in 1 .. Len(queued) : queued[i] = raised - Held + i

\* What the operator has read ends at the oldest one that is held, at most ...
ReadUpToTheHeld ==
    \A i \in 1 .. Len(inbox) : inbox[i] <= raised /\ inbox[i] <= raised - Held + 1

\* ... and whatever was raised before that was read, or dropped.
OlderAreReadOrForgotten == 1 .. raised - Held \subseteq ToSet(inbox) \union forgotten

AlertsInv == NewestAreHeld /\ ReadUpToTheHeld /\ ReadInOrder /\ OlderAreReadOrForgotten

LEMMA AlertsStart == AlertsInit => AlertsInv
<1> SUFFICES ASSUME AlertsInit PROVE AlertsInv
    OBVIOUS
<1>1. pending = <<>> /\ queued = <<>> /\ inbox = <<>> /\ raised = 0 /\ forgotten = {}
    BY DEF AlertsInit
<1>2. <<>> \in Seq(Nat) /\ Len(<<>>) = 0
    BY EmptySeq
<1>3. Held = 0
    BY <1>1, <1>2 DEF Held
<1>4. NewestAreHeld /\ ReadUpToTheHeld
    BY <1>1, <1>2, <1>3 DEF NewestAreHeld, ReadUpToTheHeld
<1>5. ReadInOrder /\ OlderAreReadOrForgotten
    BY <1>1, <1>3 DEF ReadInOrder, OlderAreReadOrForgotten
<1> QED BY <1>4, <1>5 DEF AlertsInv

\* A message that is not older than any before it keeps the inbox in order.
LEMMA ReadKeepsOrder ==
    ASSUME NEW s \in Seq(Nat), NEW e \in Nat, \A i \in 1 .. Len(s) : s[i] <= e,
           \A i \in DOMAIN s : i > 1 => s[i - 1] <= s[i]
    PROVE  LET t == Append(s, e)
           IN  /\ t \in Seq(Nat) /\ Len(t) = Len(s) + 1
               /\ \A i \in DOMAIN t : i > 1 => t[i - 1] <= t[i]
               /\ \A i \in 1 .. Len(t) : t[i] = e \/ \E j \in 1 .. Len(s) : t[i] = s[j]
               /\ ToSet(t) = ToSet(s) \union {e}
<1> DEFINE t == Append(s, e)
<1>1. /\ t \in Seq(Nat) /\ Len(t) = Len(s) + 1 /\ t[Len(s) + 1] = e
      /\ \A i \in 1 .. Len(s) : t[i] = s[i]
    BY AppendProperties
<1>2. DOMAIN s = 1 .. Len(s) /\ DOMAIN t = 1 .. Len(s) + 1 /\ Len(s) \in Nat
    BY <1>1, LenProperties
<1> HIDE DEF t
<1>3. ASSUME NEW i \in 1 .. Len(s) + 1, i > 1 PROVE t[i - 1] <= t[i]
  <2>1. i - 1 \in 1 .. Len(s)
      BY <1>2, <1>3
  <2>2. CASE i = Len(s) + 1
      BY <2>1, <2>2, <1>1
  <2>3. CASE i # Len(s) + 1
    <3>1. i \in 1 .. Len(s)
        BY <2>3, <1>2
    <3> QED BY <3>1, <2>1, <1>1, <1>2, <1>3
  <2> QED BY <2>2, <2>3
<1>4. ASSUME NEW i \in 1 .. Len(s) + 1
      PROVE  t[i] = e \/ \E j \in 1 .. Len(s) : t[i] = s[j]
  <2>1. i = Len(s) + 1 \/ i \in 1 .. Len(s)
      BY <1>2
  <2> QED BY <2>1, <1>1
<1>5. ToSet(t) \subseteq ToSet(s) \union {e}
    BY <1>4, <1>2 DEF ToSet
<1>6. ToSet(s) \subseteq ToSet(t)
  <2> SUFFICES ASSUME NEW i \in 1 .. Len(s) PROVE s[i] \in ToSet(t)
      BY <1>2 DEF ToSet
  <2>1. i \in DOMAIN t /\ t[i] = s[i]
      BY <1>1, <1>2
  <2> QED BY <2>1 DEF ToSet
<1>7. e \in ToSet(t)
  <2>1. Len(s) + 1 \in DOMAIN t
      BY <1>2
  <2> QED BY <2>1, <1>1 DEF ToSet
<1> QED BY <1>1, <1>2, <1>3, <1>4, <1>5, <1>6, <1>7 DEF t

\* What the invariant says of a delivery under way.
LEMMA UnderDelivery ==
    ASSUME AlertsInv, queued # <<>>
    PROVE  /\ pending = <<>> /\ Len(pending) = 0 /\ Len(queued) \in Nat \ {0} /\ Held = Len(queued)
           /\ raised \in Nat /\ Len(queued) <= raised /\ Len(inbox) \in Nat
           /\ Head(queued) = raised - Len(queued) + 1 /\ Head(queued) \in Nat
<1>1. /\ queued \in Seq(Nat) /\ inbox \in Seq(Nat) /\ pending = <<>> /\ raised \in Nat
      /\ Held <= raised /\ \A i \in 1 .. Len(queued) : queued[i] = raised - Held + i
    BY DEF AlertsInv, NewestAreHeld
<1>2. Len(queued) \in Nat \ {0} /\ Len(inbox) \in Nat /\ Len(pending) = 0
    BY <1>1, EmptySeq, LenProperties
<1>3. Held = Len(queued)
    BY <1>2 DEF Held
<1>4. Head(queued) = queued[1] /\ 1 \in 1 .. Len(queued)
    BY <1>1, <1>2, HeadTailProperties
<1> QED BY <1>1, <1>2, <1>3, <1>4

\* A message that reaches the operator, whether or not its send returns.
LEMMA ArrivalKeeps ==
    ASSUME AlertsInv, queued # <<>>, inbox' = Append(inbox, Head(queued))
    PROVE  /\ inbox' \in Seq(Nat) /\ ReadInOrder' /\ ToSet(inbox') = ToSet(inbox) \union {Head(queued)}
           /\ \A i \in 1 .. Len(inbox') : inbox'[i] <= Head(queued)
<1> DEFINE e == Head(queued)
<1>1. e \in Nat /\ \A i \in 1 .. Len(inbox) : inbox[i] <= e
    BY UnderDelivery DEF AlertsInv, ReadUpToTheHeld
<1>2. inbox \in Seq(Nat)
    BY DEF AlertsInv, NewestAreHeld
<1>3. \A i \in DOMAIN inbox : i > 1 => inbox[i - 1] <= inbox[i]
    BY DEF AlertsInv, ReadInOrder
<1> HIDE DEF e
<1> DEFINE t == Append(inbox, e)
<1>4. /\ t \in Seq(Nat) /\ \A i \in DOMAIN t : i > 1 => t[i - 1] <= t[i]
      /\ \A i \in 1 .. Len(t) : t[i] = e \/ \E j \in 1 .. Len(inbox) : t[i] = inbox[j]
      /\ ToSet(t) = ToSet(inbox) \union {e}
    BY <1>1, <1>2, <1>3, ReadKeepsOrder
<1>5. \A i \in 1 .. Len(t) : t[i] <= e
    BY <1>1, <1>4
<1>6. inbox' = t
    BY DEF e
<1> HIDE DEF t
<1> QED BY <1>4, <1>5, <1>6 DEF e, ReadInOrder

LEMMA DeliverKeeps == AlertsInv /\ Deliver => AlertsInv'
<1> SUFFICES ASSUME AlertsInv, Deliver PROVE AlertsInv'
    OBVIOUS
<1> DEFINE n == raised + 1
<1>1. /\ queued = <<>> /\ raised' = n /\ queued' = Append(pending, n) /\ pending' = <<>>
      /\ UNCHANGED <<inbox, forgotten>>
    BY DEF Deliver, Queue
<1>2. /\ raised \in Nat /\ pending \in Seq(Nat) /\ inbox \in Seq(Nat) /\ Held <= raised
      /\ \A i \in 1 .. Len(pending) : pending[i] = raised - Held + i
    BY DEF AlertsInv, NewestAreHeld
<1>3. Held = Len(pending) /\ Len(pending) \in Nat
    BY <1>1, <1>2, EmptySeq, LenProperties DEF Held
<1>4. /\ queued' \in Seq(Nat) /\ Len(queued') = Len(pending) + 1 /\ queued'[Len(pending) + 1] = n
      /\ \A i \in 1 .. Len(pending) : queued'[i] = pending[i]
    BY <1>1, <1>2, AppendProperties
<1>5. Held' = Held + 1
    BY <1>1, <1>3, <1>4, EmptySeq DEF Held
<1>6. \A i \in 1 .. Len(queued') : queued'[i] = raised - Held + i
  <2> TAKE i \in 1 .. Len(queued')
  <2>1. i \in 1 .. Len(pending) \/ i = Len(pending) + 1
      BY <1>3, <1>4
  <2> QED BY <2>1, <1>2, <1>3, <1>4
<1>7. Held \in Nat /\ raised' = raised + 1
    BY <1>1, <1>3
<1>8. NewestAreHeld'
  <2>1. \A i \in 1 .. Len(queued') : queued'[i] = raised' - Held' + i
      BY <1>2, <1>5, <1>6, <1>7
  <2>2. raised' \in Nat /\ Held' <= raised'
      BY <1>2, <1>5, <1>7
  <2> QED BY <1>1, <1>2, <1>4, <2>1, <2>2, EmptySeq DEF NewestAreHeld
<1>9. ReadUpToTheHeld'
  <2> SUFFICES ASSUME NEW i \in 1 .. Len(inbox)
               PROVE  inbox[i] <= raised' /\ inbox[i] <= raised' - Held' + 1
      BY <1>1 DEF ReadUpToTheHeld
  <2>1. inbox[i] \in Nat /\ inbox[i] <= raised /\ inbox[i] <= raised - Held + 1
      BY <1>2 DEF AlertsInv, ReadUpToTheHeld
  <2> QED BY <2>1, <1>2, <1>5, <1>7
<1>10. ReadInOrder'
    BY <1>1 DEF AlertsInv, ReadInOrder
<1>11. OlderAreReadOrForgotten'
  <2>1. raised' - Held' = raised - Held
      BY <1>2, <1>5, <1>7
  <2> QED BY <2>1, <1>1 DEF AlertsInv, OlderAreReadOrForgotten
<1> QED BY <1>8, <1>9, <1>10, <1>11 DEF AlertsInv

LEMMA SentKeeps == AlertsInv /\ Sent => AlertsInv'
<1> SUFFICES ASSUME AlertsInv, Sent PROVE AlertsInv'
    OBVIOUS
<1> DEFINE L == Len(queued)
           e == Head(queued)
<1>1. /\ queued # <<>> /\ inbox' = Append(inbox, e) /\ queued' = Tail(queued)
      /\ UNCHANGED <<raised, pending, forgotten>>
    BY DEF Sent
<1>2. /\ pending = <<>> /\ Len(pending) = 0 /\ L \in Nat \ {0} /\ Held = L /\ raised \in Nat
      /\ L <= raised /\ e = raised - L + 1
    BY <1>1, UnderDelivery
<1>3. /\ inbox' \in Seq(Nat) /\ ReadInOrder' /\ ToSet(inbox') = ToSet(inbox) \union {e}
      /\ \A i \in 1 .. Len(inbox') : inbox'[i] <= e
    BY <1>1, ArrivalKeeps
<1>4. queued \in Seq(Nat) /\ \A i \in 1 .. L : queued[i] = raised - L + i
    BY <1>2 DEF AlertsInv, NewestAreHeld
<1>5. /\ queued' \in Seq(Nat) /\ Len(queued') = L - 1
      /\ \A i \in 1 .. Len(queued') : queued'[i] = queued[i + 1]
    BY <1>1, <1>4, HeadTailProperties
<1>6. Held' = L - 1
    BY <1>1, <1>2, <1>5 DEF Held
<1> HIDE DEF L, e
<1>7. NewestAreHeld'
  <2>1. \A i \in 1 .. Len(queued') : queued'[i] = raised - Held' + i
    <3> TAKE i \in 1 .. Len(queued')
    <3>1. i + 1 \in 1 .. L /\ queued'[i] = queued[i + 1]
        BY <1>2, <1>5
    <3> QED BY <3>1, <1>2, <1>4, <1>6
  <2>2. Held' <= raised
      BY <1>2, <1>6
  <2> QED BY <1>1, <1>2, <1>3, <1>5, <2>1, <2>2, EmptySeq DEF NewestAreHeld
<1>8. ReadUpToTheHeld'
  <2> SUFFICES ASSUME NEW i \in 1 .. Len(inbox')
               PROVE  inbox'[i] <= raised /\ inbox'[i] <= raised - Held' + 1
      BY <1>1 DEF ReadUpToTheHeld
  <2>1. inbox'[i] \in Nat /\ inbox'[i] <= e
      BY <1>3
  <2> QED BY <2>1, <1>2, <1>6
<1>9. OlderAreReadOrForgotten'
  <2> SUFFICES ASSUME NEW k \in 1 .. raised - Held' PROVE k \in ToSet(inbox') \union forgotten
      BY <1>1 DEF OlderAreReadOrForgotten
  <2>1. k = e \/ k \in 1 .. raised - Held
      BY <1>2, <1>6
  <2> QED BY <2>1, <1>3 DEF AlertsInv, OlderAreReadOrForgotten
<1> QED BY <1>3, <1>7, <1>8, <1>9 DEF AlertsInv

LEMMA SendFailsKeeps == AlertsInv /\ SendFails => AlertsInv'
<1> SUFFICES ASSUME AlertsInv, SendFails PROVE AlertsInv'
    OBVIOUS
<1> DEFINE L == Len(queued)
           e == Head(queued)
           over == Over(queued)
<1>1. /\ queued # <<>> /\ UNCHANGED raised /\ queued' = <<>>
      /\ UNCHANGED inbox \/ inbox' = Append(inbox, e)
      /\ pending' = SubSeq(queued, over + 1, L)
      /\ forgotten' = forgotten \union {queued[i] : i \in 1 .. over}
    BY DEF SendFails, Kept
<1>2. /\ L \in Nat \ {0} /\ Held = L /\ raised \in Nat /\ L <= raised
      /\ e = raised - L + 1
    BY <1>1, UnderDelivery
<1>3. over \in Nat /\ over <= L
    BY <1>2, HostAlertsAssumption DEF Over
<1>4. queued \in Seq(Nat) /\ inbox \in Seq(Nat) /\ \A i \in 1 .. L : queued[i] = raised - L + i
    BY <1>2 DEF AlertsInv, NewestAreHeld
<1> HIDE DEF L, e, over
<1>5. /\ inbox' \in Seq(Nat) /\ ReadInOrder' /\ ToSet(inbox) \subseteq ToSet(inbox')
      /\ \A i \in 1 .. Len(inbox') : inbox'[i] <= e
  <2>1. CASE UNCHANGED inbox
      BY <2>1, <1>2, <1>4 DEF AlertsInv, ReadInOrder, ReadUpToTheHeld
  <2>2. CASE inbox' = Append(inbox, e)
      BY <2>2, <1>1, ArrivalKeeps DEF e
  <2> QED BY <1>1, <2>1, <2>2
<1>6. /\ pending' \in Seq(Nat) /\ Len(pending') = L - over
      /\ \A i \in 1 .. L - over : pending'[i] = queued[over + i]
  <2>1. over + 1 \in 1 .. L + 1 /\ \A i \in over + 1 .. L : i \in 1 .. L
      BY <1>2, <1>3
  <2>2. \A i \in over + 1 .. L : queued[i] \in Nat
      BY <2>1, <1>4 DEF L
  <2>3. L \in over .. L
      BY <1>2, <1>3
  <2>4. over + 1 \in Int /\ L \in Int
      BY <1>2, <1>3
  <2>5. pending' = SubSeq(queued, over + 1, L)
      BY <1>1
  <2>6. /\ pending' \in Seq(Nat)
        /\ Len(pending') = IF over + 1 <= L THEN L - (over + 1) + 1 ELSE 0
        /\ \A i \in 1 .. L - (over + 1) + 1 : pending'[i] = queued[over + 1 + i - 1]
      BY <2>2, <2>4, <2>5, SubSeqProperties
  <2>7. (IF over + 1 <= L THEN L - (over + 1) + 1 ELSE 0) = L - over
      BY <2>3, <1>2, <1>3
  <2>8. \A i \in 1 .. L - over : pending'[i] = queued[over + i]
    <3> TAKE i \in 1 .. L - over
    <3>1. i \in 1 .. L - (over + 1) + 1 /\ over + 1 + i - 1 = over + i
        BY <1>2, <1>3
    <3> QED BY <3>1, <2>6
  <2> QED BY <2>6, <2>7, <2>8
<1>7. Held' = L - over /\ Held' \in Nat
    BY <1>1, <1>2, <1>3, <1>6, EmptySeq DEF Held
<1>8. NewestAreHeld'
  <2>1. \A i \in 1 .. Len(pending') : pending'[i] = raised - Held' + i
    <3> TAKE i \in 1 .. Len(pending')
    <3>1. over + i \in 1 .. L /\ pending'[i] = queued[over + i]
        BY <1>2, <1>3, <1>6
    <3> QED BY <3>1, <1>2, <1>3, <1>4, <1>7
  <2>2. Held' <= raised
      BY <1>2, <1>3, <1>7
  <2> QED BY <1>1, <1>2, <1>5, <1>6, <2>1, <2>2, EmptySeq DEF NewestAreHeld
<1>9. ReadUpToTheHeld'
  <2> SUFFICES ASSUME NEW i \in 1 .. Len(inbox')
               PROVE  inbox'[i] <= raised /\ inbox'[i] <= raised - Held' + 1
      BY <1>1 DEF ReadUpToTheHeld
  <2>1. inbox'[i] \in Nat /\ inbox'[i] <= e
      BY <1>5
  <2> QED BY <2>1, <1>2, <1>3, <1>7
<1>10. OlderAreReadOrForgotten'
  <2> SUFFICES ASSUME NEW k \in 1 .. raised - Held' PROVE k \in ToSet(inbox') \union forgotten'
      BY <1>1 DEF OlderAreReadOrForgotten
  <2>1. CASE k \in 1 .. raised - L
      BY <2>1, <1>1, <1>2, <1>5 DEF AlertsInv, OlderAreReadOrForgotten
  <2>2. CASE k \notin 1 .. raised - L
    <3>1. k - (raised - L) \in 1 .. over
        BY <2>2, <1>2, <1>3, <1>7
    <3>2. k - (raised - L) \in 1 .. L
        BY <3>1, <1>2, <1>3
    <3>3. queued[k - (raised - L)] = k
        BY <3>2, <1>2, <1>4
    <3> QED BY <3>1, <3>3, <1>1
  <2> QED BY <2>1, <2>2
<1> QED BY <1>5, <1>8, <1>9, <1>10 DEF AlertsInv

LEMMA RestartsKeeps == AlertsInv /\ Restarts => AlertsInv'
<1> SUFFICES ASSUME AlertsInv, Restarts PROVE AlertsInv'
    OBVIOUS
<1>1. /\ pending' = <<>> /\ queued' = <<>> /\ UNCHANGED <<raised, inbox>>
      /\ forgotten' = forgotten \union ToSet(pending) \union ToSet(queued)
    BY DEF Restarts
<1>2. /\ raised \in Nat /\ pending \in Seq(Nat) /\ queued \in Seq(Nat) /\ inbox \in Seq(Nat)
      /\ Held <= raised /\ (pending = <<>> \/ queued = <<>>)
      /\ \A i \in 1 .. Len(pending) : pending[i] = raised - Held + i
      /\ \A i \in 1 .. Len(queued) : queued[i] = raised - Held + i
    BY DEF AlertsInv, NewestAreHeld
<1>3. /\ Len(pending) \in Nat /\ Len(queued) \in Nat /\ DOMAIN pending = 1 .. Len(pending)
      /\ DOMAIN queued = 1 .. Len(queued) /\ Len(<<>>) = 0 /\ <<>> \in Seq(Nat)
    BY <1>2, LenProperties, EmptySeq
<1>4. Held' = 0 /\ Held \in Nat
    BY <1>1, <1>3 DEF Held
<1>5. NewestAreHeld'
    BY <1>1, <1>2, <1>3, <1>4 DEF NewestAreHeld
<1>6. ReadUpToTheHeld'
  <2> SUFFICES ASSUME NEW i \in 1 .. Len(inbox)
               PROVE  inbox[i] <= raised /\ inbox[i] <= raised - 0 + 1
      BY <1>1, <1>4 DEF ReadUpToTheHeld
  <2>1. inbox[i] \in Nat /\ raised \in Nat
      BY <1>2, ElementOfSeq
  <2>2. inbox[i] <= raised
      BY DEF AlertsInv, ReadUpToTheHeld
  <2>3. \A a, b \in Nat : a <= b => a <= b - 0 + 1
      OBVIOUS
  <2> QED BY <2>1, <2>2, <2>3
<1>7. ReadInOrder'
    BY <1>1 DEF AlertsInv, ReadInOrder
<1>8. OlderAreReadOrForgotten'
  <2> SUFFICES ASSUME NEW k \in 1 .. raised PROVE k \in ToSet(inbox) \union forgotten'
      BY <1>1, <1>2, <1>4 DEF OlderAreReadOrForgotten
  <2>1. CASE k \in 1 .. raised - Held
      BY <2>1, <1>1 DEF AlertsInv, OlderAreReadOrForgotten
  <2>2. CASE k \notin 1 .. raised - Held
    <3> DEFINE i == k - (raised - Held)
    <3>1. i \in 1 .. Held /\ raised - Held + i = k
        BY <2>2, <1>2, <1>4
    <3> HIDE DEF i
    <3>2. CASE pending = <<>>
      <4>1. i \in DOMAIN queued /\ queued[i] = k
          BY <3>1, <3>2, <1>2, <1>3 DEF Held
      <4> QED BY <4>1, <1>1 DEF ToSet
    <3>3. CASE queued = <<>>
      <4>1. i \in DOMAIN pending /\ pending[i] = k
          BY <3>1, <3>3, <1>2, <1>3 DEF Held
      <4> QED BY <4>1, <1>1 DEF ToSet
    <3> QED BY <3>2, <3>3, <1>2
  <2> QED BY <2>1, <2>2
<1> QED BY <1>5, <1>6, <1>7, <1>8 DEF AlertsInv

LEMMA AlertsStep == AlertsInv /\ [AlertsNext]_alertVars => AlertsInv'
<1>1. AlertsInv /\ UNCHANGED alertVars => AlertsInv'
    BY DEF alertVars, AlertsInv, NewestAreHeld, ReadUpToTheHeld, ReadInOrder,
           OlderAreReadOrForgotten, Held
<1> QED BY <1>1, DeliverKeeps, SentKeeps, SendFailsKeeps, RestartsKeeps DEF AlertsNext

\* Through any number of failed sends, messages that arrive twice, restarts and
\* alerts dropped at the bound: an operator reads of the outages in order, and of no
\* all-clear before its alarm unless that was dropped (ingest_worker.py _deliver).
THEOREM IncidentsAreReadInOrder == AlertsSpec => []AlertsTellTheStory
<1>1. AlertsInv => AlertsTellTheStory
  <2> SUFFICES ASSUME AlertsInv, NEW i \in DOMAIN inbox, NEW k \in 1 .. inbox[i] - 1
               PROVE  k \in ToSet(inbox) \union forgotten
      BY DEF AlertsInv, AlertsTellTheStory, NoLoneRecovery
  <2>1. inbox \in Seq(Nat) /\ raised \in Nat /\ pending \in Seq(Nat) /\ queued \in Seq(Nat)
      BY DEF AlertsInv, NewestAreHeld
  <2>2. i \in 1 .. Len(inbox) /\ inbox[i] \in Nat /\ Held \in Nat
      BY <2>1, LenProperties DEF Held
  <2>3. inbox[i] <= raised - Held + 1
      BY <2>2 DEF AlertsInv, ReadUpToTheHeld
  <2>4. k \in 1 .. raised - Held
      BY <2>1, <2>2, <2>3
  <2> QED BY <2>4 DEF AlertsInv, OlderAreReadOrForgotten
<1> QED BY <1>1, AlertsStart, AlertsStep, PTL DEF AlertsSpec

(***************************************************************************)
(* The file archive.                                                       *)
(***************************************************************************)

ExportRecord ==
    [at : {"idle", "selecting", "writing"}, now : 0 .. LastDay + 1,
     read : [Day -> 0 .. MaxRows], todo : SUBSET Day, written : SUBSET Day, mode : Mode]

\* An export that read the closed days as they are will only write them so.
ReadsClosedDaysWhole(e) ==
    LET x == export[e]
    IN  x.at # "idle" =>
            /\ x.now <= today
            /\ x.mode = "peek" => x.now = today
            /\ \A d \in Day : d < x.now => x.read[d] = journal[d]
            /\ x.mode # "peek" => \A d \in x.todo : d < x.now
            /\ \A d \in x.written : d < x.now => files[d] = journal[d]

\* A day that was handed over has closed.
HandedOverHasClosed == \A d \in flags : d < today

ArchiveInv ==
    /\ ArchiveTypeOK
    /\ ~disturbed =>
        (\A e \in Exporter : ReadsClosedDaysWhole(e)) /\ HandedOverHasClosed /\ HandedOverIsWhole

LEMMA ExportsAreTyped == ArchiveTypeOK => export \in [Exporter -> ExportRecord]
BY DEF ArchiveTypeOK, ExportRecord

LEMMA NotRunningTyped == NotRunning \in ExportRecord /\ NotRunning.at = "idle"
BY ArchiveAssumption DEF NotRunning, ExportRecord, Day, Mode

LEMMA ArchiveStarts == ArchiveInit => ArchiveInv
<1> SUFFICES ASSUME ArchiveInit PROVE ArchiveInv
    OBVIOUS
<1>1. export \in [Exporter -> ExportRecord]
    BY NotRunningTyped DEF ArchiveInit
<1>2. ArchiveTypeOK
  <2>1. today \in 1 .. LastDay + 1 /\ crashes \in 0 .. MaxCrashes
      BY ArchiveAssumption DEF ArchiveInit
  <2>4. flags \subseteq Day /\ disturbed \in BOOLEAN
      BY Zenon DEF ArchiveInit
  <2>2. journal \in [Day -> 0 .. MaxRows]
      BY ArchiveAssumption DEF ArchiveInit
  <2>3. files \in [Day -> {NoFile} \union 0 .. MaxRows]
      BY DEF ArchiveInit
  <2> QED BY <1>1, <2>1, <2>2, <2>3, <2>4 DEF ArchiveTypeOK, ExportRecord
<1>3. \A e \in Exporter : ReadsClosedDaysWhole(e)
    BY NotRunningTyped DEF ArchiveInit, ReadsClosedDaysWhole
<1>4. HandedOverHasClosed /\ HandedOverIsWhole
    BY DEF ArchiveInit, HandedOverHasClosed, HandedOverIsWhole
<1> QED BY <1>2, <1>3, <1>4 DEF ArchiveInv

\* An export that ends leaves the others to what they were doing.
LEMMA EndKeeps ==
    ASSUME ArchiveInv, NEW e \in Exporter, Ended(e), UNCHANGED <<today, journal, files, disturbed>>,
           crashes' \in 0 .. MaxCrashes, flags' \subseteq Day,
           ~disturbed => \A d \in flags' \ flags : d < today /\ files[d] = journal[d]
    PROVE  ArchiveInv'
<1> USE DEF ArchiveInv
<1>1. /\ export \in [Exporter -> ExportRecord] /\ export' = [export EXCEPT ![e] = NotRunning]
    BY ExportsAreTyped DEF Ended
<1>2. export' \in [Exporter -> ExportRecord]
    BY <1>1, NotRunningTyped
<1>3. ArchiveTypeOK'
    BY <1>2 DEF ArchiveTypeOK, ExportRecord
<1> SUFFICES ASSUME ~disturbed
             PROVE  /\ \A o \in Exporter : ReadsClosedDaysWhole(o)'
                    /\ HandedOverHasClosed' /\ HandedOverIsWhole'
    BY <1>3
<1>4. ASSUME NEW o \in Exporter PROVE ReadsClosedDaysWhole(o)'
  <2>1. CASE o = e
      BY <2>1, <1>1, NotRunningTyped DEF ReadsClosedDaysWhole
  <2>2. CASE o # e
    <3>1. export'[o] = export[o]
        BY <2>2, <1>1
    <3> QED BY <3>1 DEF ReadsClosedDaysWhole
  <2> QED BY <2>1, <2>2
<1>5. HandedOverHasClosed' /\ HandedOverIsWhole'
    BY DEF HandedOverHasClosed, HandedOverIsWhole
<1> QED BY <1>4, <1>5

LEMMA CommitKeeps == ArchiveInv /\ Commit => ArchiveInv'
<1> SUFFICES ASSUME ArchiveInv, Commit PROVE ArchiveInv'
    OBVIOUS
<1> USE DEF ArchiveInv
<1>1. PICK c \in {today, today - 1} \cap Day :
          /\ journal[c] < MaxRows /\ journal' = [journal EXCEPT ![c] = @ + 1]
          /\ disturbed' = (disturbed \/ c < today)
    BY DEF Commit
<1>2. UNCHANGED <<today, files, flags, export, crashes>>
    BY DEF Commit
<1>3. /\ today \in 1 .. LastDay + 1 /\ journal \in [Day -> 0 .. MaxRows] /\ disturbed \in BOOLEAN
      /\ LastDay \in Nat /\ MaxRows \in Nat
    BY ArchiveAssumption DEF ArchiveTypeOK
<1>4. journal' \in [Day -> 0 .. MaxRows] /\ \A d \in Day \ {c} : journal'[d] = journal[d]
    BY <1>1, <1>3
<1>5. ArchiveTypeOK'
    BY <1>1, <1>2, <1>3, <1>4 DEF ArchiveTypeOK
<1> SUFFICES ASSUME ~disturbed'
             PROVE  /\ \A e \in Exporter : ReadsClosedDaysWhole(e)'
                    /\ HandedOverHasClosed' /\ HandedOverIsWhole'
    BY <1>5
<1>6. ~disturbed /\ \A d \in Day : d < today => journal'[d] = journal[d]
  <2>1. ~disturbed /\ ~(c < today)
      BY <1>1
  <2> QED BY <2>1, <1>4
<1>7. ASSUME NEW e \in Exporter PROVE ReadsClosedDaysWhole(e)'
  <2> DEFINE x == export[e]
  <2>1. x \in ExportRecord /\ x' = x
      BY <1>2, ExportsAreTyped
  <2>2. x.now \in 0 .. LastDay + 1 /\ x.written \subseteq Day
      BY <2>1 DEF ExportRecord
  <2> SUFFICES ASSUME x.at # "idle"
               PROVE  /\ x.now <= today
                      /\ x.mode = "peek" => x.now = today
                      /\ \A d \in Day : d < x.now => x.read[d] = journal'[d]
                      /\ x.mode # "peek" => \A d \in x.todo : d < x.now
                      /\ \A d \in x.written : d < x.now => files[d] = journal'[d]
      BY <1>2, <2>1 DEF ReadsClosedDaysWhole
  <2>3. /\ x.now <= today
        /\ x.mode = "peek" => x.now = today
        /\ \A d \in Day : d < x.now => x.read[d] = journal[d]
        /\ x.mode # "peek" => \A d \in x.todo : d < x.now
        /\ \A d \in x.written : d < x.now => files[d] = journal[d]
      BY <1>6 DEF ReadsClosedDaysWhole
  <2> HIDE DEF x
  <2>4. \A d \in Day : d < x.now => d < today
      BY <2>2, <2>3, <1>3 DEF Day
  <2> QED BY <2>2, <2>3, <2>4, <1>6
<1>8. HandedOverHasClosed' /\ HandedOverIsWhole'
  <2>1. flags \subseteq Day
      BY DEF ArchiveTypeOK
  <2> QED BY <2>1, <1>2, <1>6 DEF HandedOverHasClosed, HandedOverIsWhole
<1> QED BY <1>7, <1>8

LEMMA MidnightKeeps == ArchiveInv /\ Midnight => ArchiveInv'
<1> SUFFICES ASSUME ArchiveInv, Midnight PROVE ArchiveInv'
    OBVIOUS
<1> USE DEF ArchiveInv
<1>1. /\ today <= LastDay /\ today' = today + 1
      /\ disturbed' = (disturbed \/ \E e \in Exporter : Peeking(e))
      /\ UNCHANGED <<journal, files, flags, export, crashes>>
    BY DEF Midnight
<1>2. today \in 1 .. LastDay + 1 /\ disturbed \in BOOLEAN /\ LastDay \in Nat
    BY ArchiveAssumption DEF ArchiveTypeOK
<1>3. today' \in 1 .. LastDay + 1
    BY <1>1, <1>2
<1>4. ArchiveTypeOK'
    BY <1>1, <1>2, <1>3 DEF ArchiveTypeOK
<1> SUFFICES ASSUME ~disturbed'
             PROVE  /\ \A e \in Exporter : ReadsClosedDaysWhole(e)'
                    /\ HandedOverHasClosed' /\ HandedOverIsWhole'
    BY <1>4
<1>5. ~disturbed /\ \A e \in Exporter : ~Peeking(e)
    BY <1>1
<1>6. ASSUME NEW e \in Exporter PROVE ReadsClosedDaysWhole(e)'
  <2> DEFINE now == export[e].now
  <2>1. export[e] \in ExportRecord
      BY ExportsAreTyped
  <2>2. now \in 0 .. LastDay + 1
      BY <2>1 DEF ExportRecord
  <2>3. export[e].at # "idle" => export[e].mode # "peek" /\ now <= today
      BY <1>5 DEF Peeking, ReadsClosedDaysWhole
  <2> HIDE DEF now
  <2>4. now <= today => now <= today'
      BY <1>1, <1>2, <2>2
  <2> QED BY <1>1, <1>5, <2>3, <2>4 DEF ReadsClosedDaysWhole, now
<1>7. HandedOverHasClosed' /\ HandedOverIsWhole'
  <2>1. flags \subseteq Day
      BY DEF ArchiveTypeOK
  <2> QED BY <2>1, <1>1, <1>2, <1>5 DEF HandedOverHasClosed, HandedOverIsWhole, Day
<1> QED BY <1>6, <1>7

LEMMA BeginKeeps == ASSUME ArchiveInv, NEW e \in Exporter, Begin(e) PROVE ArchiveInv'
<1> USE DEF ArchiveInv
<1>1. PICK mode \in Mode :
          export' = [export EXCEPT ![e] = [NotRunning EXCEPT !.at = "selecting", !.now = today,
                                                             !.read = journal, !.mode = mode]]
    BY DEF Begin
<1>2. UNCHANGED <<today, journal, files, flags, disturbed, crashes>>
    BY DEF Begin
<1> DEFINE x == [NotRunning EXCEPT !.at = "selecting", !.now = today, !.read = journal, !.mode = mode]
<1>3. export \in [Exporter -> ExportRecord] /\ export' = [export EXCEPT ![e] = x]
    BY <1>1, ExportsAreTyped
<1>4. today \in 1 .. LastDay + 1 /\ journal \in [Day -> 0 .. MaxRows] /\ LastDay \in Nat
    BY ArchiveAssumption DEF ArchiveTypeOK
<1>5. /\ x \in ExportRecord
      /\ x.now = today /\ x.read = journal /\ x.todo = {} /\ x.written = {}
  <2>1. NotRunning \in ExportRecord /\ NotRunning.todo = {} /\ NotRunning.written = {}
      BY NotRunningTyped DEF NotRunning
  <2>2. today \in 0 .. LastDay + 1
      BY <1>4
  <2> QED BY <2>1, <2>2, <1>4 DEF ExportRecord
<1> HIDE DEF x
<1>6. export' \in [Exporter -> ExportRecord]
    BY <1>3, <1>5
<1>7. ArchiveTypeOK'
    BY <1>2, <1>6 DEF ArchiveTypeOK, ExportRecord
<1> SUFFICES ASSUME ~disturbed PROVE \A o \in Exporter : ReadsClosedDaysWhole(o)'
    BY <1>2, <1>7 DEF HandedOverHasClosed, HandedOverIsWhole
<1>8. ASSUME NEW o \in Exporter PROVE ReadsClosedDaysWhole(o)'
  <2>1. CASE o = e
    <3>1. export'[o] = x
        BY <2>1, <1>3
    <3>2. today <= today
        BY <1>4
    <3> QED BY <3>1, <3>2, <1>2, <1>5 DEF ReadsClosedDaysWhole
  <2>2. CASE o # e
    <3>1. export'[o] = export[o]
        BY <2>2, <1>3
    <3> QED BY <3>1, <1>2 DEF ReadsClosedDaysWhole
  <2> QED BY <2>1, <2>2
<1> QED BY <1>8

LEMMA SelectKeeps == ASSUME ArchiveInv, NEW e \in Exporter, Select(e) PROVE ArchiveInv'
<1> USE DEF ArchiveInv
<1>1. PICK days \in Selected(e) :
          export' = [export EXCEPT ![e].todo = days, ![e].at = "writing"]
    BY DEF Select
<1>2. UNCHANGED <<today, journal, files, flags, disturbed, crashes>> /\ export[e].at = "selecting"
    BY DEF Select
<1>3. export \in [Exporter -> ExportRecord] /\ export[e] \in ExportRecord
    BY ExportsAreTyped
<1>4. export[e].mode \in Mode
    BY <1>3 DEF ExportRecord
<1>5. days \subseteq Day /\ (export[e].mode # "peek" => \A d \in days : d < export[e].now)
    BY <1>1, <1>4 DEF Selected, Closed, Mode
<1>6. /\ export'[e].at = "writing" /\ export'[e].todo = days
      /\ export'[e].now = export[e].now /\ export'[e].read = export[e].read
      /\ export'[e].written = export[e].written /\ export'[e].mode = export[e].mode
    BY <1>1, <1>3 DEF ExportRecord
<1>7. export' \in [Exporter -> ExportRecord]
    BY <1>1, <1>3, <1>5 DEF ExportRecord
<1>8. ArchiveTypeOK'
    BY <1>2, <1>7 DEF ArchiveTypeOK, ExportRecord
<1> SUFFICES ASSUME ~disturbed PROVE \A o \in Exporter : ReadsClosedDaysWhole(o)'
    BY <1>2, <1>8 DEF HandedOverHasClosed, HandedOverIsWhole
<1>9. ASSUME NEW o \in Exporter PROVE ReadsClosedDaysWhole(o)'
  <2>1. CASE o = e
    <3>1. ReadsClosedDaysWhole(e)
        OBVIOUS
    <3> QED BY <2>1, <3>1, <1>2, <1>5, <1>6 DEF ReadsClosedDaysWhole
  <2>2. CASE o # e
    <3>1. export'[o] = export[o]
        BY <2>2, <1>1, <1>3
    <3> QED BY <3>1, <1>2 DEF ReadsClosedDaysWhole
  <2> QED BY <2>1, <2>2
<1> QED BY <1>9

LEMMA WriteKeeps == ASSUME ArchiveInv, NEW e \in Exporter, WriteFile(e) PROVE ArchiveInv'
<1> USE DEF ArchiveInv
<1>1. PICK w \in export[e].todo :
          /\ files' = [files EXCEPT ![w] = export[e].read[w]]
          /\ export' = [export EXCEPT ![e].todo = @ \ {w}, ![e].written = @ \union {w}]
    BY DEF WriteFile, Content
<1>2. UNCHANGED <<today, journal, flags, disturbed, crashes>> /\ export[e].at = "writing"
    BY DEF WriteFile
<1>3. export \in [Exporter -> ExportRecord] /\ export[e] \in ExportRecord
    BY ExportsAreTyped
<1>4. /\ w \in Day /\ export[e].read \in [Day -> 0 .. MaxRows] /\ export[e].now \in 0 .. LastDay + 1
      /\ export[e].todo \subseteq Day /\ export[e].written \subseteq Day
    BY <1>3 DEF ExportRecord
<1>5. /\ export'[e].at = export[e].at /\ export'[e].now = export[e].now
      /\ export'[e].read = export[e].read /\ export'[e].mode = export[e].mode
      /\ export'[e].todo = export[e].todo \ {w} /\ export'[e].written = export[e].written \union {w}
    BY <1>1, <1>3 DEF ExportRecord
<1>6. export' \in [Exporter -> ExportRecord]
    BY <1>1, <1>3, <1>4 DEF ExportRecord
<1>7. files \in [Day -> {NoFile} \union 0 .. MaxRows] /\ today \in 1 .. LastDay + 1
      /\ journal \in [Day -> 0 .. MaxRows] /\ flags \subseteq Day /\ LastDay \in Nat
    BY ArchiveAssumption DEF ArchiveTypeOK
<1>8. /\ files' \in [Day -> {NoFile} \union 0 .. MaxRows] /\ files'[w] = export[e].read[w]
      /\ \A d \in Day \ {w} : files'[d] = files[d]
    BY <1>1, <1>4, <1>7
<1>9. ArchiveTypeOK'
    BY <1>2, <1>6, <1>8 DEF ArchiveTypeOK, ExportRecord
<1> SUFFICES ASSUME ~disturbed
             PROVE  /\ \A o \in Exporter : ReadsClosedDaysWhole(o)'
                    /\ HandedOverHasClosed' /\ HandedOverIsWhole'
    BY <1>2, <1>9
<1>10. /\ export[e].now <= today /\ (export[e].mode = "peek" => export[e].now = today)
       /\ \A d \in Day : d < export[e].now => export[e].read[d] = journal[d]
       /\ export[e].mode # "peek" => \A d \in export[e].todo : d < export[e].now
    BY <1>2 DEF ReadsClosedDaysWhole
<1>11. w < today => files'[w] = journal[w]
  <2>1. w < today => w < export[e].now
      BY <1>10
  <2> QED BY <2>1, <1>4, <1>8, <1>10
<1>12. \A d \in Day : d < today /\ files[d] = journal[d] => files'[d] = journal[d]
    BY <1>8, <1>11
<1>13. ASSUME NEW o \in Exporter PROVE ReadsClosedDaysWhole(o)'
  <2> DEFINE now == export[o].now
  <2>1. export[o] \in ExportRecord
      BY <1>3
  <2>2. now \in 0 .. LastDay + 1 /\ export[o].written \subseteq Day
      BY <2>1 DEF ExportRecord
  <2> SUFFICES ASSUME export'[o].at # "idle" PROVE ReadsClosedDaysWhole(o)'
      BY DEF ReadsClosedDaysWhole
  <2>3. /\ export'[o].at = export[o].at /\ export'[o].now = now
        /\ export'[o].read = export[o].read /\ export'[o].mode = export[o].mode
        /\ export'[o].todo \subseteq export[o].todo
        /\ export'[o].written \subseteq export[o].written \union {w}
        /\ o # e => export'[o].written = export[o].written
    <3>1. CASE o = e
        BY <3>1, <1>5
    <3>2. CASE o # e
      <4>1. export'[o] = export[o]
          BY <3>2, <1>1, <1>3
      <4> QED BY <3>2, <4>1
    <3> QED BY <3>1, <3>2
  <2>4. /\ now <= today /\ (export[o].mode = "peek" => now = today)
        /\ \A d \in Day : d < now => export[o].read[d] = journal[d]
        /\ export[o].mode # "peek" => \A d \in export[o].todo : d < now
        /\ \A d \in export[o].written : d < now => files[d] = journal[d]
      BY <2>3 DEF ReadsClosedDaysWhole
  <2> HIDE DEF now
  <2>5. \A d \in Day : d < now => d < today
      BY <2>2, <2>4, <1>7 DEF Day
  <2>6. ASSUME NEW d \in export'[o].written, d < now PROVE files'[d] = journal[d]
    <3>1. d \in Day /\ d < today
        BY <2>2, <2>3, <2>5, <2>6, <1>4
    <3>2. CASE d = w
        BY <3>1, <3>2, <1>11
    <3>3. CASE d # w
        BY <3>1, <3>3, <2>3, <2>4, <2>6, <1>12
    <3> QED BY <3>2, <3>3
  <2> QED BY <2>3, <2>4, <2>6, <1>2 DEF ReadsClosedDaysWhole
<1>14. HandedOverHasClosed' /\ HandedOverIsWhole'
    BY <1>2, <1>7, <1>12 DEF HandedOverHasClosed, HandedOverIsWhole
<1> QED BY <1>13, <1>14

LEMMA FlagKeeps == ASSUME ArchiveInv, NEW e \in Exporter, Flag(e) PROVE ArchiveInv'
<1>1. /\ flags' = flags \union {d \in export[e].written : d < export[e].now}
      /\ Ended(e) /\ UNCHANGED <<today, journal, files, disturbed, crashes>>
      /\ export[e].at = "writing"
    BY DEF Flag, ClosedOf, Closed
<1>2. export[e] \in ExportRecord /\ flags \subseteq Day /\ crashes \in 0 .. MaxCrashes
      /\ today \in 1 .. LastDay + 1
    BY ExportsAreTyped DEF ArchiveInv, ArchiveTypeOK
<1>3. export[e].written \subseteq Day /\ export[e].now \in 0 .. LastDay + 1 /\ LastDay \in Nat
    BY <1>2, ArchiveAssumption DEF ExportRecord
<1>4. ASSUME ~disturbed, NEW d \in flags' \ flags PROVE d < today /\ files[d] = journal[d]
  <2>1. d \in export[e].written /\ d < export[e].now /\ d \in Day
      BY <1>1, <1>3, <1>4
  <2>2. export[e].now <= today /\ files[d] = journal[d]
      BY <1>1, <1>4, <2>1 DEF ArchiveInv, ReadsClosedDaysWhole
  <2> QED BY <2>1, <2>2, <1>2, <1>3 DEF Day
<1>5. flags' \subseteq Day /\ crashes' \in 0 .. MaxCrashes
    BY <1>1, <1>2, <1>3
<1>6. ~disturbed => \A d \in flags' \ flags : d < today /\ files[d] = journal[d]
    BY <1>4
<1> QED BY <1>1, <1>5, <1>6, EndKeeps

LEMMA ArchiveStep == ArchiveInv /\ [ArchiveNext]_archiveVars => ArchiveInv'
<1> SUFFICES ASSUME ArchiveInv, [ArchiveNext]_archiveVars PROVE ArchiveInv'
    OBVIOUS
<1>1. ASSUME NEW e \in Exporter, CutShort(e) PROVE ArchiveInv'
  <2>1. /\ Ended(e) /\ UNCHANGED <<today, journal, files, flags, disturbed>>
        /\ crashes' = crashes + 1 /\ crashes < MaxCrashes
      BY <1>1 DEF CutShort
  <2>2. flags' \subseteq Day /\ crashes' \in 0 .. MaxCrashes
      BY <2>1, ArchiveAssumption DEF ArchiveInv, ArchiveTypeOK
  <2> QED BY <2>1, <2>2, EndKeeps
<1>2. CASE UNCHANGED archiveVars
    BY <1>2 DEF archiveVars, ArchiveInv, ArchiveTypeOK, ReadsClosedDaysWhole, HandedOverHasClosed,
                HandedOverIsWhole
<1> QED BY <1>1, <1>2, CommitKeeps, MidnightKeeps, BeginKeeps, SelectKeeps, WriteKeeps, FlagKeeps
        DEF ArchiveNext, Exporting

\* Whichever exports race for a day, are cut short or are repeated: what is flagged
\* as handed over is the whole day, and stays it, as long as no row of a day commits
\* after its midnight and no peek is being written then (outcome_exporter.py).
THEOREM ArchivedDaysAreWhole == ArchiveSpec => []HandedOverIsWhole
<1>1. ArchiveInv => HandedOverIsWhole
    BY DEF ArchiveInv, HandedOverIsWhole
<1> QED BY <1>1, ArchiveStarts, ArchiveStep, PTL DEF ArchiveSpec

(***************************************************************************)
(* The stall watchdog.                                                     *)
(***************************************************************************)

WatchdogInv == WatchdogTypeOK /\ GapsEndWithTheirStall

LEMMA WatchdogStarts == WatchdogInit => WatchdogInv
BY DEF WatchdogInit, WatchdogInv, WatchdogTypeOK, GapsEndWithTheirStall, Silence, Gaps, Never

LEMMA TimeKeepsGaps == WatchdogInv /\ TimePasses => WatchdogInv'
<1> SUFFICES ASSUME WatchdogInv, TimePasses PROVE WatchdogInv'
    OBVIOUS
<1> USE WatchdogAssumption DEF WatchdogInv
<1>1. /\ silent' = [w \in Watched |-> Grows(silent[w])]
      /\ due' = [w \in Watched |-> Passes(due[w])] /\ UNCHANGED <<ended, gap, told>>
    BY DEF TimePasses
<1>2. ASSUME NEW w \in Watched
      PROVE  /\ silent[w] \in Silence /\ due[w] \in {Never} \union 0 .. MaxGap /\ gap[w] \in Gaps
             /\ gap[w] # Never => due[w] # Never /\ due[w] <= gap[w]
    BY DEF WatchdogTypeOK, GapsEndWithTheirStall, Standing
<1>3. \A t \in Silence : Grows(t) \in Silence
    BY DEF Silence, Grows, Never
<1>4. \A t \in {Never} \union 0 .. MaxGap :
          /\ Passes(t) \in {Never} \union 0 .. MaxGap /\ Passes(t) <= t
          /\ t # Never => Passes(t) # Never
    BY DEF Passes, Never
<1>5. WatchdogTypeOK'
    BY <1>1, <1>2, <1>3, <1>4 DEF WatchdogTypeOK
<1>6. GapsEndWithTheirStall'
  <2> SUFFICES ASSUME NEW w \in Watched, gap[w] # Never
               PROVE  due'[w] # Never /\ due'[w] <= gap[w]
      BY <1>1 DEF GapsEndWithTheirStall, Standing
  <2>1. due'[w] = Passes(due[w])
      BY <1>1
  <2>2. due[w] \in {Never} \union 0 .. MaxGap /\ gap[w] \in Int /\ due[w] # Never /\ due[w] <= gap[w]
      BY <1>2 DEF Gaps, Never
  <2>3. Passes(due[w]) \in Int /\ Passes(due[w]) <= due[w] /\ Passes(due[w]) # Never
      BY <2>2, <1>4 DEF Never
  <2> QED BY <2>1, <2>2, <2>3 DEF Never
<1> QED BY <1>5, <1>6

LEMMA CheckKeepsGaps == WatchdogInv /\ Check => WatchdogInv'
<1> SUFFICES ASSUME WatchdogInv, Check PROVE WatchdogInv'
    OBVIOUS
<1> USE WatchdogAssumption DEF WatchdogInv
<1>1. /\ due' = [w \in Watched |-> DueAfter(w)] /\ gap' = [w \in Watched |-> GapAfter(w)]
      /\ told' = [w \in Watched |-> Words(w)] /\ UNCHANGED <<silent, ended>>
    BY DEF Check
<1>2. ASSUME NEW w \in Watched
      PROVE  /\ DueAfter(w) \in {Never} \union 0 .. MaxGap /\ GapAfter(w) \in Gaps
             /\ GapAfter(w) # Never => DueAfter(w) # Never /\ DueAfter(w) <= GapAfter(w)
             /\ Words(w) \in {"nothing", "stalled", "died", "recovered"}
  <2>1. /\ due[w] \in {Never} \union 0 .. MaxGap /\ gap[w] \in Gaps
        /\ gap[w] # Never => due[w] # Never /\ due[w] <= gap[w]
        /\ told[w] \in {"nothing", "stalled", "died", "recovered"}
      BY DEF WatchdogTypeOK, GapsEndWithTheirStall, Standing
  <2>2. Doubled(w) \in FirstGap .. MaxGap
      BY <2>1 DEF Doubled, Waited, Gaps, Never
  <2>3. Words(w) \in {"nothing", "stalled", "died", "recovered"}
      BY <2>1 DEF Words
  <2>4. CASE Onset(w)
    <3>1. ~Repeats(w) /\ ~Recovers(w) /\ due[w] = Never
        BY <2>4 DEF Onset, Repeats, Recovers, Standing, Never
    <3>2. DueAfter(w) = FirstGap /\ GapAfter(w) = gap[w]
        BY <2>4, <3>1 DEF DueAfter, GapAfter
    <3> QED BY <2>1, <2>3, <3>1, <3>2
  <2>5. CASE Repeats(w)
    <3>1. ~Onset(w) /\ ~Recovers(w)
        BY <2>5 DEF Onset, Repeats, Recovers, Standing, Never
    <3>2. DueAfter(w) = Doubled(w) /\ GapAfter(w) = Doubled(w)
        BY <2>5, <3>1 DEF DueAfter, GapAfter
    <3> QED BY <2>2, <2>3, <3>2 DEF Gaps, Never
  <2>6. CASE Recovers(w)
    <3>1. ~Onset(w) /\ ~Repeats(w)
        BY <2>6 DEF Onset, Repeats, Recovers
    <3>2. DueAfter(w) = Never /\ GapAfter(w) = Never
        BY <2>6, <3>1 DEF DueAfter, GapAfter
    <3> QED BY <2>3, <3>2 DEF Gaps
  <2>7. CASE ~Onset(w) /\ ~Repeats(w) /\ ~Recovers(w)
    <3>1. DueAfter(w) = due[w] /\ GapAfter(w) = gap[w]
        BY <2>7 DEF DueAfter, GapAfter
    <3> QED BY <2>1, <2>3, <3>1
  <2> QED BY <2>4, <2>5, <2>6, <2>7
<1>3. WatchdogTypeOK'
    BY <1>1, <1>2 DEF WatchdogTypeOK
<1>4. GapsEndWithTheirStall'
    BY <1>1, <1>2 DEF GapsEndWithTheirStall, Standing
<1> QED BY <1>3, <1>4

LEMMA WatchdogStep == WatchdogInv /\ [WatchdogNext]_watchdogVars => WatchdogInv'
<1> SUFFICES ASSUME WatchdogInv, [WatchdogNext]_watchdogVars PROVE WatchdogInv'
    OBVIOUS
<1>1. ASSUME NEW w \in Watched, PassBegins(w) \/ TaskEnds(w) PROVE WatchdogInv'
  <2>1. /\ UNCHANGED <<due, gap, told>> /\ ended' \subseteq ended \union {w}
        /\ UNCHANGED silent \/ silent' = [silent EXCEPT ![w] = 0]
      BY <1>1 DEF PassBegins, TaskEnds
  <2>2. WatchdogTypeOK'
      BY <2>1, WatchdogAssumption DEF WatchdogInv, WatchdogTypeOK, Silence
  <2>3. GapsEndWithTheirStall'
      BY <2>1 DEF WatchdogInv, GapsEndWithTheirStall, Standing
  <2> QED BY <2>2, <2>3 DEF WatchdogInv
<1>2. CASE UNCHANGED watchdogVars
    BY <1>2 DEF watchdogVars, WatchdogInv, WatchdogTypeOK, GapsEndWithTheirStall, Standing
<1> QED BY <1>1, <1>2, TimeKeepsGaps, CheckKeepsGaps DEF WatchdogNext

\* For any threshold and any gaps: the doubling of a stall's reminders ends with the
\* stall, so the next one starts from the first gap again (stall_watchdog.py check).
THEOREM RemindersStartAnew == WatchdogSpec => []GapsEndWithTheirStall
<1>1. WatchdogInv => GapsEndWithTheirStall
    BY DEF WatchdogInv
<1> QED BY <1>1, WatchdogStarts, WatchdogStep, PTL DEF WatchdogSpec

(***************************************************************************)
(* Source health: quarantines, probes and host outages.                    *)
(***************************************************************************)

FlagRecord == [source : Source, start : Rung, probe : BOOLEAN]

OneStore == \A i, j \in Store : i = j

\* A source that is polled is not cooling off in the store that polls it.
PolledAreNotHeld == \A i \in Store, s \in Source : s \in pass[i].due => held[i][s] = None

\* What a probe or a cool-off of the only store is about still stands in the row.
MemoryIsOfTheRow ==
    \A i \in Store, s \in Source :
        /\ s \in probing[i] => row[s].flagged /\ row[s].until = 0 /\ held[i][s] = None
        /\ held[i][s] # None => row[s].flagged /\ row[s].until = held[i][s]

\* A store that keeps its memory remembers every flag, so a flag it withholds is
\* a probe's or a source's that is not flagged.
FlagsAreRemembered ==
    /\ \A i \in Store, s \in Source : row[s].flagged => held[i][s] # None \/ s \in probing[i]
    /\ \A i \in Store : \A flag \in pass[i].pending :
            flag.probe \/ ~row[flag.source].flagged
    /\ \A i \in Store : outage = IF host[i].down THEN 1 ELSE 0
    /\ \A s \in Source : episode[s].open <= 1

HealthInv ==
    /\ HealthTypeOK /\ FlaggedIffOpenEpisode /\ PolledAreNotHeld
    /\ OneStore => MemoryIsOfTheRow
    /\ OneStore /\ restarts = 0 => FlagsAreRemembered

LEMMA HealthNumbers ==
    /\ 0 \in Rung /\ None \in Times /\ 0 \in Times /\ None = -1
    /\ \A r \in Rung : CoolOff(r) \in Times /\ CoolOff(r) # None
    /\ \A t \in Times : Less(t) \in Times /\ (Less(t) = None <=> t = None) /\ (t = 0 => Less(t) = 0)
    /\ \A a \in Nat, r \in Rung : Least(Most(a, r), LastRung) \in Rung
    /\ \A n \in 0 .. MaxEpisodes : Least(n + 1, MaxEpisodes) \in 0 .. MaxEpisodes
BY SourceHealthAssumption DEF Rung, None, Times, CoolOff, Less, Least, Most

LEMMA NoScopeTyped ==
    /\ NoScope \in Scope /\ ~NoScope.open /\ NoScope.due = {} /\ NoScope.pending = {}
BY DEF NoScope, Scope

\* The types of what one source's row, episode and memories are.
LEMMA HealthTypes ==
    ASSUME HealthTypeOK
    PROVE  /\ \A s \in Source :
                /\ row[s] \in [streak : 0 .. FlagAfter, flagged : BOOLEAN, until : Times]
                /\ row[s].until \in Times /\ row[s].flagged \in BOOLEAN
                /\ row[s].streak \in 0 .. FlagAfter
                /\ episode[s] \in [open : Nat, recent : 0 .. MaxEpisodes]
                /\ episode[s].open \in Nat /\ episode[s].recent \in 0 .. MaxEpisodes
           /\ \A i \in Store :
                /\ pass[i] \in Scope /\ pass[i].due \subseteq Source /\ pass[i].open \in BOOLEAN
                /\ pass[i].failed \subseteq Source /\ pass[i].succeeded \subseteq Source
                /\ pass[i].pending \subseteq FlagRecord
                /\ host[i].backoff \in 0 .. Backoff
                /\ probing[i] \subseteq Source /\ held[i] \in [Source -> Times]
                /\ \A s \in Source : held[i][s] \in Times
<1>1. ASSUME NEW s \in Source
      PROVE  /\ row[s] \in [streak : 0 .. FlagAfter, flagged : BOOLEAN, until : Times]
             /\ episode[s] \in [open : Nat, recent : 0 .. MaxEpisodes]
    BY DEF HealthTypeOK
<1>2. ASSUME NEW i \in Store
      PROVE  /\ pass[i] \in Scope /\ probing[i] \subseteq Source /\ held[i] \in [Source -> Times]
             /\ host[i] \in [down : BOOLEAN, backoff : 0 .. Backoff]
    BY DEF HealthTypeOK
<1>3. ASSUME NEW i \in Store
      PROVE  /\ pass[i].due \subseteq Source /\ pass[i].open \in BOOLEAN
             /\ pass[i].failed \subseteq Source /\ pass[i].succeeded \subseteq Source
             /\ pass[i].pending \subseteq FlagRecord
    BY <1>2 DEF Scope, FlagRecord
<1> QED BY <1>1, <1>2, <1>3

LEMMA HealthStarts == HealthInit => HealthInv
<1> SUFFICES ASSUME HealthInit PROVE HealthInv
    OBVIOUS
<1>1. /\ row = [s \in Source |-> [streak |-> 0, flagged |-> FALSE, until |-> None]]
      /\ episode = [s \in Source |-> [open |-> 0, recent |-> 0]]
      /\ outage = 0 /\ held = [i \in Store |-> [s \in Source |-> None]]
      /\ probing = [i \in Store |-> {}]
      /\ host = [i \in Store |-> [down |-> FALSE, backoff |-> 0]]
      /\ pass = [i \in Store |-> NoScope] /\ restarts = 0
    BY DEF HealthInit
<1>2. HealthTypeOK
  <2>1. row \in [Source -> [streak : 0 .. FlagAfter, flagged : BOOLEAN, until : Times]]
      BY <1>1, HealthNumbers, SourceHealthAssumption
  <2>2. episode \in [Source -> [open : Nat, recent : 0 .. MaxEpisodes]]
      BY <1>1, SourceHealthAssumption
  <2>3. held \in [Store -> [Source -> Times]] /\ probing \in [Store -> SUBSET Source]
      BY <1>1, HealthNumbers
  <2>4. host \in [Store -> [down : BOOLEAN, backoff : 0 .. Backoff]] /\ pass \in [Store -> Scope]
      BY <1>1, NoScopeTyped, SourceHealthAssumption
  <2> QED BY <1>1, <2>1, <2>2, <2>3, <2>4 DEF HealthTypeOK
<1>3. FlaggedIffOpenEpisode
    BY <1>1 DEF FlaggedIffOpenEpisode
<1>4. PolledAreNotHeld /\ MemoryIsOfTheRow
    BY <1>1, NoScopeTyped DEF PolledAreNotHeld, MemoryIsOfTheRow
<1>5. FlagsAreRemembered
    BY <1>1, NoScopeTyped DEF FlagsAreRemembered
<1> QED BY <1>2, <1>3, <1>4, <1>5 DEF HealthInv

LEMMA BeginPassKeeps == ASSUME HealthInv, NEW i \in Store, BeginPass(i) PROVE HealthInv'
<1> USE DEF HealthInv
<1>1. PICK due0 \in SUBSET MayPoll(i) :
          pass' = [pass EXCEPT ![i] = [NoScope EXCEPT !.open = TRUE, !.due = due0]]
    BY DEF BeginPass
<1>2. /\ held' = [held EXCEPT ![i] = [s \in Source |-> IF s \in Elapsed(i) THEN None ELSE @[s]]]
      /\ probing' = [probing EXCEPT ![i] = @ \union Elapsed(i)]
      /\ UNCHANGED <<row, episode, outage, host, restarts>>
    BY DEF BeginPass
<1> DEFINE new == [NoScope EXCEPT !.open = TRUE, !.due = due0]
<1>3. MayPoll(i) \subseteq Source /\ \A s \in MayPoll(i) : held[i][s] <= 0
    BY DEF MayPoll
<1>4. Elapsed(i) \subseteq Source /\ \A s \in Elapsed(i) : held[i][s] = 0
    BY <1>3 DEF Elapsed
<1>5. new \in Scope /\ new.due = due0 /\ new.pending = {}
    BY <1>3 DEF NoScope, Scope
<1> HIDE DEF new
<1>6. pass \in [Store -> Scope] /\ pass' = [pass EXCEPT ![i] = new]
    BY <1>1 DEF HealthTypeOK, new
<1>7. pass' \in [Store -> Scope] /\ pass'[i] = new /\ \A j \in Store \ {i} : pass'[j] = pass[j]
    BY <1>5, <1>6
<1>8. held \in [Store -> [Source -> Times]] /\ probing \in [Store -> SUBSET Source]
    BY DEF HealthTypeOK
<1>9. /\ held' \in [Store -> [Source -> Times]]
      /\ \A s \in Source : held'[i][s] = IF s \in Elapsed(i) THEN None ELSE held[i][s]
      /\ \A j \in Store \ {i} : held'[j] = held[j]
    BY <1>2, <1>8, HealthNumbers
<1>10. /\ probing' \in [Store -> SUBSET Source] /\ probing'[i] = probing[i] \union Elapsed(i)
       /\ \A j \in Store \ {i} : probing'[j] = probing[j]
    BY <1>2, <1>4, <1>8
<1>11. HealthTypeOK'
    BY <1>2, <1>7, <1>9, <1>10 DEF HealthTypeOK
<1>12. FlaggedIffOpenEpisode'
    BY <1>2 DEF FlaggedIffOpenEpisode
<1>13. PolledAreNotHeld'
  <2> SUFFICES ASSUME NEW j \in Store, NEW s \in Source, s \in pass'[j].due PROVE held'[j][s] = None
      BY DEF PolledAreNotHeld
  <2>1. CASE j = i
    <3>1. s \in MayPoll(i)
        BY <2>1, <1>5, <1>7
    <3>2. held[i][s] \in Times /\ held[i][s] <= 0
        BY <3>1, <1>3, HealthTypes
    <3>3. held[i][s] = 0 \/ held[i][s] = None
        BY <3>2 DEF Times, None
    <3>4. held[i][s] = 0 => s \in Elapsed(i)
        BY <3>1 DEF Elapsed
    <3> QED BY <2>1, <3>3, <3>4, <1>9
  <2>2. CASE j # i
      BY <2>2, <1>7, <1>9 DEF PolledAreNotHeld
  <2> QED BY <2>1, <2>2
<1>14. OneStore => MemoryIsOfTheRow'
  <2> SUFFICES ASSUME OneStore, NEW s \in Source
               PROVE  /\ s \in probing'[i] => row[s].flagged /\ row[s].until = 0 /\ held'[i][s] = None
                      /\ held'[i][s] # None => row[s].flagged /\ row[s].until = held'[i][s]
      BY <1>2 DEF MemoryIsOfTheRow, OneStore
  <2>1. /\ s \in probing[i] => row[s].flagged /\ row[s].until = 0 /\ held[i][s] = None
        /\ held[i][s] # None => row[s].flagged /\ row[s].until = held[i][s]
      BY DEF MemoryIsOfTheRow
  <2>2. s \in Elapsed(i) => held[i][s] = 0 /\ held[i][s] # None
      BY <1>4, HealthNumbers
  <2> QED BY <2>1, <2>2, <1>9, <1>10
<1>15. OneStore /\ restarts = 0 => FlagsAreRemembered'
  <2> SUFFICES ASSUME OneStore, restarts = 0
               PROVE  /\ \A s \in Source : row[s].flagged => held'[i][s] # None \/ s \in probing'[i]
                      /\ \A flag \in pass'[i].pending : flag.probe \/ ~row[flag.source].flagged
      BY <1>2 DEF FlagsAreRemembered, OneStore
  <2>1. \A s \in Source : row[s].flagged => held'[i][s] # None \/ s \in probing'[i]
      BY <1>9, <1>10 DEF FlagsAreRemembered
  <2> QED BY <2>1, <1>5, <1>7
<1>16. OneStore' = OneStore
    BY DEF OneStore
<1> QED BY <1>2, <1>11, <1>12, <1>13, <1>14, <1>15

LEMMA SuccessKeeps ==
    ASSUME HealthInv, NEW i \in Store, NEW s \in Source, RecordSuccess(i, s) PROVE HealthInv'
<1> USE DEF HealthInv
<1> DEFINE clean == [streak |-> 0, flagged |-> FALSE, until |-> None]
<1>1. /\ s \in pass[i].due /\ row' = [row EXCEPT ![s] = clean]
      /\ episode' = [episode EXCEPT ![s].open = IF row[s].flagged \/ s \in probing[i] THEN 0 ELSE @]
      /\ held' = [held EXCEPT ![i][s] = None]
      /\ probing' = [probing EXCEPT ![i] = @ \ {s}]
      /\ pass' = [pass EXCEPT ![i].due = @ \ {s}, ![i].succeeded = @ \union {s}]
      /\ UNCHANGED <<outage, host, restarts>>
    BY DEF RecordSuccess
<1>2. /\ row \in [Source -> [streak : 0 .. FlagAfter, flagged : BOOLEAN, until : Times]]
      /\ episode \in [Source -> [open : Nat, recent : 0 .. MaxEpisodes]]
      /\ held \in [Store -> [Source -> Times]] /\ probing \in [Store -> SUBSET Source]
      /\ pass \in [Store -> Scope]
    BY DEF HealthTypeOK
<1>3. clean \in [streak : 0 .. FlagAfter, flagged : BOOLEAN, until : Times]
    BY HealthNumbers, SourceHealthAssumption
<1>4. /\ row' \in [Source -> [streak : 0 .. FlagAfter, flagged : BOOLEAN, until : Times]]
      /\ ~row'[s].flagged /\ row'[s].until = None /\ \A u \in Source \ {s} : row'[u] = row[u]
  <2>1. row'[s] = clean
      BY <1>1, <1>2
  <2> QED BY <2>1, <1>1, <1>2, <1>3
<1>5. /\ episode' \in [Source -> [open : Nat, recent : 0 .. MaxEpisodes]]
      /\ episode'[s].open = (IF row[s].flagged \/ s \in probing[i] THEN 0 ELSE episode[s].open)
      /\ \A u \in Source \ {s} : episode'[u] = episode[u]
    BY <1>1, <1>2
<1>6. /\ held' \in [Store -> [Source -> Times]] /\ held'[i][s] = None
      /\ \A u \in Source \ {s} : held'[i][u] = held[i][u]
      /\ \A j \in Store \ {i} : held'[j] = held[j]
    BY <1>1, <1>2, HealthNumbers
<1>7. /\ probing' \in [Store -> SUBSET Source] /\ probing'[i] = probing[i] \ {s}
      /\ \A j \in Store \ {i} : probing'[j] = probing[j]
    BY <1>1, <1>2
<1>8. /\ pass'[i].due = pass[i].due \ {s} /\ pass'[i].pending = pass[i].pending
      /\ \A j \in Store \ {i} : pass'[j] = pass[j]
  <2>1. pass[i] \in Scope
      BY <1>2
  <2> QED BY <2>1, <1>1, <1>2 DEF Scope
<1>9. pass' \in [Store -> Scope]
  <2>1. pass[i] \in Scope
      BY <1>2
  <2> QED BY <2>1, <1>1, <1>2 DEF Scope
<1>10. HealthTypeOK'
    BY <1>1, <1>4, <1>5, <1>6, <1>7, <1>9 DEF HealthTypeOK
<1>11. episode'[s].open = 0
    BY <1>5, HealthTypes DEF FlaggedIffOpenEpisode
<1>12. FlaggedIffOpenEpisode'
  <2> SUFFICES ASSUME NEW u \in Source
               PROVE  /\ row'[u].flagged <=> episode'[u].open > 0
                      /\ row'[u].flagged <=> row'[u].until # None
      BY DEF FlaggedIffOpenEpisode
  <2>1. CASE u = s
      BY <2>1, <1>4, <1>11
  <2>2. CASE u # s
      BY <2>2, <1>4, <1>5 DEF FlaggedIffOpenEpisode
  <2> QED BY <2>1, <2>2
<1>13. PolledAreNotHeld'
    BY <1>6, <1>8 DEF PolledAreNotHeld
<1>14. OneStore => MemoryIsOfTheRow'
    BY <1>4, <1>6, <1>7 DEF MemoryIsOfTheRow, OneStore
<1>15. OneStore /\ restarts = 0 => FlagsAreRemembered'
  <2> SUFFICES ASSUME OneStore, restarts = 0 PROVE FlagsAreRemembered'
      OBVIOUS
  <2>1. \A u \in Source : row'[u].flagged => held'[i][u] # None \/ u \in probing'[i]
      BY <1>4, <1>6, <1>7 DEF FlagsAreRemembered
  <2>2. \A flag \in pass'[i].pending : flag.probe \/ ~row'[flag.source].flagged
    <3> TAKE flag \in pass'[i].pending
    <3>1. flag \in pass[i].pending /\ flag \in FlagRecord
        BY <1>8, HealthTypes
    <3>2. flag.source \in Source
        BY <3>1 DEF FlagRecord
    <3>3. flag.probe \/ ~row[flag.source].flagged
        BY <3>1 DEF FlagsAreRemembered
    <3> QED BY <3>2, <3>3, <1>4
  <2>3. \A u \in Source : episode'[u].open <= 1
      BY <1>5, <1>11 DEF FlagsAreRemembered
  <2> QED BY <2>1, <2>2, <2>3, <1>1 DEF FlagsAreRemembered, OneStore
<1> QED BY <1>1, <1>10, <1>12, <1>13, <1>14, <1>15

LEMMA FailureKeeps ==
    ASSUME HealthInv, NEW i \in Store, NEW s \in Source, RecordFailure(i, s) PROVE HealthInv'
<1> USE DEF HealthInv
<1> DEFINE streak == IF row[s].streak < FlagAfter THEN row[s].streak + 1 ELSE FlagAfter
           probe  == s \in probing[i]
<1>1. /\ s \in pass[i].due /\ row' = [row EXCEPT ![s].streak = streak]
      /\ UNCHANGED <<episode, outage, held, probing, host, restarts>>
    BY DEF RecordFailure
<1>2. PICK start \in Rung :
          pass' = [pass EXCEPT
              ![i].due = @ \ {s}, ![i].failed = @ \union {s},
              ![i].pending = IF streak >= FlagAfter \/ probe
                  THEN @ \union {[source |-> s, start |-> start, probe |-> probe]} ELSE @]
    BY DEF RecordFailure
<1> DEFINE new == [source |-> s, start |-> start, probe |-> probe]
           pend == IF streak >= FlagAfter \/ probe THEN pass[i].pending \union {new} ELSE pass[i].pending
<1>3. streak \in 0 .. FlagAfter
    BY HealthTypes, SourceHealthAssumption
<1>4. /\ row \in [Source -> [streak : 0 .. FlagAfter, flagged : BOOLEAN, until : Times]]
      /\ pass \in [Store -> Scope] /\ pass[i] \in Scope
    BY DEF HealthTypeOK
<1>5. new \in FlagRecord /\ new.source = s /\ new.probe = (s \in probing[i])
    BY DEF FlagRecord
<1>6. pend \subseteq FlagRecord /\ pend \subseteq pass[i].pending \union {new}
    BY <1>5, HealthTypes
<1> HIDE DEF streak, new
<1>7. /\ row' \in [Source -> [streak : 0 .. FlagAfter, flagged : BOOLEAN, until : Times]]
      /\ \A u \in Source : row'[u].flagged = row[u].flagged /\ row'[u].until = row[u].until
    BY <1>1, <1>3, <1>4
<1>8. pass' = [pass EXCEPT ![i].due = @ \ {s}, ![i].failed = @ \union {s}, ![i].pending = pend]
    BY <1>2, <1>4 DEF new
<1> HIDE DEF pend
<1>9. /\ pass'[i].due = pass[i].due \ {s} /\ pass'[i].pending = pend
      /\ \A j \in Store \ {i} : pass'[j] = pass[j]
    BY <1>4, <1>8 DEF Scope
<1>10. pass' \in [Store -> Scope]
    BY <1>4, <1>6, <1>8 DEF Scope, FlagRecord
<1>11. HealthTypeOK'
    BY <1>1, <1>7, <1>10 DEF HealthTypeOK
<1>12. FlaggedIffOpenEpisode'
    BY <1>1, <1>7 DEF FlaggedIffOpenEpisode
<1>13. PolledAreNotHeld'
    BY <1>1, <1>9 DEF PolledAreNotHeld
<1>14. OneStore => MemoryIsOfTheRow'
    BY <1>1, <1>7 DEF MemoryIsOfTheRow
<1>15. OneStore /\ restarts = 0 => FlagsAreRemembered'
  <2> SUFFICES ASSUME OneStore, restarts = 0 PROVE FlagsAreRemembered'
      OBVIOUS
  <2>1. \A u \in Source : row'[u].flagged => held[i][u] # None \/ u \in probing[i]
      BY <1>7 DEF FlagsAreRemembered
  <2>2. \A flag \in pass'[i].pending : flag.probe \/ ~row'[flag.source].flagged
    <3> TAKE flag \in pass'[i].pending
    <3>1. flag \in pass[i].pending \/ flag = new
        BY <1>6, <1>9
    <3>2. CASE flag \in pass[i].pending
      <4>1. flag \in FlagRecord
          BY <3>2, HealthTypes
      <4>2. flag.source \in Source
          BY <4>1 DEF FlagRecord
      <4>3. flag.probe \/ ~row[flag.source].flagged
          BY <3>2 DEF FlagsAreRemembered
      <4> QED BY <4>2, <4>3, <1>7
    <3>3. CASE flag = new
      <4>1. held[i][s] = None
          BY <1>1 DEF PolledAreNotHeld
      <4>2. row[s].flagged => s \in probing[i]
          BY <4>1 DEF FlagsAreRemembered
      <4> QED BY <3>3, <4>2, <1>5, <1>7
    <3> QED BY <3>1, <3>2, <3>3
  <2> QED BY <2>1, <2>2, <1>1 DEF FlagsAreRemembered, OneStore
<1> QED BY <1>1, <1>11, <1>12, <1>13, <1>14, <1>15

\* A host outage touches no source: it is one row, however many passes see it.
LEMMA HostEventKeeps ==
    ASSUME HealthInv, NEW i \in Store, EnterHostEvent(i), pass' = [pass EXCEPT ![i] = NoScope],
           UNCHANGED restarts
    PROVE  HealthInv'
<1> USE DEF HealthInv
<1>1. /\ outage' = IF host[i].down THEN outage ELSE outage + 1
      /\ host' = [host EXCEPT ![i] = [down |-> TRUE, backoff |-> Backoff]]
      /\ UNCHANGED <<row, episode, held, probing>>
    BY DEF EnterHostEvent
<1>2. host \in [Store -> [down : BOOLEAN, backoff : 0 .. Backoff]] /\ pass \in [Store -> Scope]
      /\ outage \in Nat
    BY DEF HealthTypeOK
<1>3. /\ host' \in [Store -> [down : BOOLEAN, backoff : 0 .. Backoff]] /\ host'[i].down
      /\ outage' \in Nat
    BY <1>1, <1>2, SourceHealthAssumption
<1>4. pass' \in [Store -> Scope] /\ pass'[i] = NoScope /\ \A j \in Store \ {i} : pass'[j] = pass[j]
    BY <1>2, NoScopeTyped
<1>5. HealthTypeOK'
    BY <1>1, <1>3, <1>4 DEF HealthTypeOK
<1>6. FlaggedIffOpenEpisode'
    BY <1>1 DEF FlaggedIffOpenEpisode
<1>7. PolledAreNotHeld'
    BY <1>1, <1>4, NoScopeTyped DEF PolledAreNotHeld
<1>8. OneStore => MemoryIsOfTheRow'
    BY <1>1 DEF MemoryIsOfTheRow
<1>9. OneStore /\ restarts = 0 => FlagsAreRemembered'
  <2> SUFFICES ASSUME OneStore, restarts = 0 PROVE FlagsAreRemembered'
      OBVIOUS
  <2>1. outage = IF host[i].down THEN 1 ELSE 0
      BY DEF FlagsAreRemembered
  <2>2. outage' = 1
      BY <2>1, <1>1
  <2>3. \A j \in Store : outage' = IF host'[j].down THEN 1 ELSE 0
      BY <2>2, <1>3 DEF OneStore
  <2>4. \A j \in Store : pass'[j].pending = {}
      BY <1>4, NoScopeTyped DEF OneStore
  <2> QED BY <2>3, <2>4, <1>1 DEF FlagsAreRemembered
<1> QED BY <1>5, <1>6, <1>7, <1>8, <1>9

\* A pass that is not an outage holds back what it found, and owes it no probe.
LEMMA ResolveKeeps ==
    ASSUME HealthInv, NEW i \in Store, ResolveFlags(i), pass' = [pass EXCEPT ![i] = NoScope],
           UNCHANGED restarts
    PROVE  HealthInv'
<1> USE DEF HealthInv
<1> DEFINE flagged == Flagged(pass[i])
           until(s) == CoolOff(RungFor(FlagOf(pass[i], s)))
           left(s) == IF FlagOf(pass[i], s).probe THEN 0 ELSE episode[s].open
<1>1. /\ row' = [s \in Source |-> IF s \notin flagged THEN row[s]
                    ELSE [row[s] EXCEPT !.flagged = TRUE, !.until = until(s)]]
      /\ episode' = [s \in Source |-> IF s \notin flagged THEN episode[s]
                    ELSE [open |-> left(s) + 1,
                          recent |-> Least(episode[s].recent + 1, MaxEpisodes)]]
      /\ held' = [held EXCEPT ![i] = [s \in Source |-> IF s \in flagged THEN until(s) ELSE @[s]]]
      /\ probing' = [probing EXCEPT ![i] = probing[i] \ flagged]
    BY DEF ResolveFlags, ApplyFlags, Stopped
<1>2. \/ /\ host[i].down /\ outage' = 0
         /\ host' = [host EXCEPT ![i] = [down |-> FALSE, backoff |-> 0]]
      \/ UNCHANGED <<outage, host>>
    BY DEF ResolveFlags
<1>3. /\ pass[i].pending \subseteq FlagRecord
      /\ row \in [Source -> [streak : 0 .. FlagAfter, flagged : BOOLEAN, until : Times]]
      /\ episode \in [Source -> [open : Nat, recent : 0 .. MaxEpisodes]]
      /\ held \in [Store -> [Source -> Times]] /\ probing \in [Store -> SUBSET Source]
      /\ host \in [Store -> [down : BOOLEAN, backoff : 0 .. Backoff]]
      /\ pass \in [Store -> Scope] /\ outage \in Nat
    BY HealthTypes DEF HealthTypeOK
<1>4. ASSUME NEW s \in Source, s \in flagged
      PROVE  /\ FlagOf(pass[i], s) \in pass[i].pending /\ FlagOf(pass[i], s).source = s
             /\ until(s) \in Times /\ until(s) # None /\ left(s) \in Nat
  <2> DEFINE flag == FlagOf(pass[i], s)
  <2>1. flag \in pass[i].pending /\ flag.source = s
      BY <1>4 DEF Flagged, FlagOf
  <2>2. flag \in FlagRecord
      BY <2>1, <1>3
  <2>3. flag.start \in Rung
      BY <2>2 DEF FlagRecord
  <2>4. episode[s].recent \in Nat /\ episode[s].open \in Nat
      BY HealthTypes, SourceHealthAssumption
  <2> HIDE DEF flag
  <2>5. Most(episode[s].recent, flag.start) \in Nat
      BY <2>3, <2>4, SourceHealthAssumption DEF Most, Rung
  <2>6. RungFor(flag) \in Rung
    <3>1. RungFor(flag) = Least(Most(episode[s].recent, flag.start), LastRung)
        BY <2>1 DEF RungFor
    <3> QED BY <3>1, <2>3, <2>4, HealthNumbers
  <2> QED BY <2>1, <2>4, <2>6, HealthNumbers DEF flag
<1> HIDE DEF flagged, until, left
<1>5. /\ row' \in [Source -> [streak : 0 .. FlagAfter, flagged : BOOLEAN, until : Times]]
      /\ \A s \in Source : s \notin flagged => row'[s] = row[s]
      /\ \A s \in Source : s \in flagged => row'[s].flagged /\ row'[s].until = until(s)
  <2>1. ASSUME NEW s \in Source
        PROVE  /\ row'[s] \in [streak : 0 .. FlagAfter, flagged : BOOLEAN, until : Times]
               /\ s \notin flagged => row'[s] = row[s]
               /\ s \in flagged => row'[s].flagged /\ row'[s].until = until(s)
    <3>1. row[s] \in [streak : 0 .. FlagAfter, flagged : BOOLEAN, until : Times]
        BY <1>3
    <3>2. CASE s \in flagged
      <4>1. until(s) \in Times /\ row'[s] = [row[s] EXCEPT !.flagged = TRUE, !.until = until(s)]
          BY <1>1, <1>4, <3>2
      <4> QED BY <3>1, <3>2, <4>1
    <3>3. CASE s \notin flagged
        BY <1>1, <3>1, <3>3
    <3> QED BY <3>2, <3>3
  <2> QED BY <2>1, <1>1
<1>6. /\ episode' \in [Source -> [open : Nat, recent : 0 .. MaxEpisodes]]
      /\ \A s \in Source : s \notin flagged => episode'[s] = episode[s]
      /\ \A s \in Source : s \in flagged => episode'[s].open = left(s) + 1
  <2>1. ASSUME NEW s \in Source
        PROVE  /\ episode'[s] \in [open : Nat, recent : 0 .. MaxEpisodes]
               /\ s \notin flagged => episode'[s] = episode[s]
               /\ s \in flagged => episode'[s].open = left(s) + 1
    <3>1. CASE s \in flagged
      <4>1. Least(episode[s].recent + 1, MaxEpisodes) \in 0 .. MaxEpisodes
          BY HealthTypes, HealthNumbers
      <4>2. left(s) + 1 \in Nat
          BY <3>1, <1>4
      <4> QED BY <3>1, <4>1, <4>2, <1>1
    <3>2. CASE s \notin flagged
        BY <3>2, <1>1, <1>3
    <3> QED BY <3>1, <3>2
  <2> QED BY <2>1, <1>1
<1>7. /\ held' \in [Store -> [Source -> Times]]
      /\ \A s \in Source : held'[i][s] = IF s \in flagged THEN until(s) ELSE held[i][s]
      /\ \A j \in Store \ {i} : held'[j] = held[j]
  <2> DEFINE h == [s \in Source |-> IF s \in flagged THEN until(s) ELSE held[i][s]]
  <2>1. h \in [Source -> Times]
      BY <1>3, <1>4
  <2>2. held' = [held EXCEPT ![i] = h]
      BY <1>1
  <2>3. \A s \in Source : h[s] = IF s \in flagged THEN until(s) ELSE held[i][s]
      OBVIOUS
  <2> HIDE DEF h
  <2> QED BY <2>1, <2>2, <2>3, <1>3
<1>8. /\ probing' \in [Store -> SUBSET Source] /\ probing'[i] = probing[i] \ flagged
      /\ \A j \in Store \ {i} : probing'[j] = probing[j]
    BY <1>1, <1>3
<1>9. pass' \in [Store -> Scope] /\ pass'[i] = NoScope /\ \A j \in Store \ {i} : pass'[j] = pass[j]
    BY <1>3, NoScopeTyped
<1>10. host' \in [Store -> [down : BOOLEAN, backoff : 0 .. Backoff]] /\ outage' \in Nat
  <2>1. [down |-> FALSE, backoff |-> 0] \in [down : BOOLEAN, backoff : 0 .. Backoff]
      BY SourceHealthAssumption
  <2>2. host' \in [Store -> [down : BOOLEAN, backoff : 0 .. Backoff]]
      BY <2>1, <1>2, <1>3
  <2> QED BY <2>2, <1>2, <1>3
<1>11. HealthTypeOK'
    BY <1>5, <1>6, <1>7, <1>8, <1>9, <1>10 DEF HealthTypeOK
<1>12. FlaggedIffOpenEpisode'
  <2> SUFFICES ASSUME NEW s \in Source
               PROVE  /\ row'[s].flagged <=> episode'[s].open > 0
                      /\ row'[s].flagged <=> row'[s].until # None
      BY DEF FlaggedIffOpenEpisode
  <2>1. CASE s \in flagged
    <3>1. left(s) + 1 > 0
        BY <2>1, <1>4
    <3> QED BY <2>1, <3>1, <1>4, <1>5, <1>6
  <2>2. CASE s \notin flagged
      BY <2>2, <1>5, <1>6 DEF FlaggedIffOpenEpisode
  <2> QED BY <2>1, <2>2
<1>13. PolledAreNotHeld'
    BY <1>7, <1>9, NoScopeTyped DEF PolledAreNotHeld
<1>14. OneStore => MemoryIsOfTheRow'
  <2> SUFFICES ASSUME OneStore, NEW s \in Source
               PROVE  /\ s \in probing'[i] => row'[s].flagged /\ row'[s].until = 0 /\ held'[i][s] = None
                      /\ held'[i][s] # None => row'[s].flagged /\ row'[s].until = held'[i][s]
      BY DEF MemoryIsOfTheRow, OneStore
  <2>1. CASE s \in flagged
      BY <2>1, <1>5, <1>7, <1>8
  <2>2. CASE s \notin flagged
      BY <2>2, <1>5, <1>7, <1>8 DEF MemoryIsOfTheRow
  <2> QED BY <2>1, <2>2
<1>15. OneStore /\ restarts = 0 => FlagsAreRemembered'
  <2> SUFFICES ASSUME OneStore, restarts = 0 PROVE FlagsAreRemembered'
      OBVIOUS
  <2>1. ASSUME NEW s \in Source, row'[s].flagged PROVE held'[i][s] # None \/ s \in probing'[i]
    <3>1. CASE s \in flagged
        BY <3>1, <1>4, <1>7
    <3>2. CASE s \notin flagged
        BY <3>2, <2>1, <1>5, <1>7, <1>8 DEF FlagsAreRemembered
    <3> QED BY <3>1, <3>2
  <2>2. pass'[i].pending = {}
      BY <1>9, NoScopeTyped
  <2>3. outage' = IF host'[i].down THEN 1 ELSE 0
    <3>1. outage = IF host[i].down THEN 1 ELSE 0
        BY DEF FlagsAreRemembered
    <3>2. CASE UNCHANGED <<outage, host>>
        BY <3>1, <3>2
    <3>3. CASE outage' = 0 /\ host' = [host EXCEPT ![i] = [down |-> FALSE, backoff |-> 0]]
      <4>1. ~host'[i].down
          BY <3>3, <1>3
      <4> QED BY <3>3, <4>1
    <3> QED BY <1>2, <3>2, <3>3
  <2>4. ASSUME NEW s \in Source PROVE episode'[s].open <= 1
    <3>1. CASE s \in flagged
      <4> DEFINE flag == FlagOf(pass[i], s)
      <4>1. flag \in pass[i].pending /\ flag.source = s
          BY <3>1, <1>4
      <4>2. flag.probe \/ ~row[s].flagged
          BY <4>1 DEF FlagsAreRemembered
      <4>3. ~row[s].flagged => episode[s].open = 0
          BY HealthTypes DEF FlaggedIffOpenEpisode
      <4>4. left(s) = 0
          BY <4>2, <4>3 DEF left
      <4> QED BY <3>1, <4>4, <1>6
    <3>2. CASE s \notin flagged
        BY <3>2, <1>6 DEF FlagsAreRemembered
    <3> QED BY <3>1, <3>2
  <2> QED BY <2>1, <2>2, <2>3, <2>4 DEF FlagsAreRemembered, OneStore
<1> QED BY <1>11, <1>12, <1>13, <1>14, <1>15

\* Time runs alike for a row and for what a store remembers of it.
LEMMA TickKeeps == HealthInv /\ Tick => HealthInv'
<1> SUFFICES ASSUME HealthInv, Tick PROVE HealthInv'
    OBVIOUS
<1> USE DEF HealthInv
<1>1. /\ row' = [s \in Source |-> [row[s] EXCEPT !.until = Less(@)]]
      /\ held' = [i \in Store |-> [s \in Source |-> Less(held[i][s])]]
      /\ host' = [i \in Store |-> [host[i] EXCEPT !.backoff = Less(@)]]
      /\ UNCHANGED <<episode, outage, probing, pass, restarts>>
    BY DEF Tick
<1>2. ASSUME NEW s \in Source
      PROVE  /\ row'[s] \in [streak : 0 .. FlagAfter, flagged : BOOLEAN, until : Times]
             /\ row'[s].flagged = row[s].flagged /\ row'[s].until = Less(row[s].until)
             /\ row'[s].until = None <=> row[s].until = None
    BY <1>1, HealthTypes, HealthNumbers
<1>3. ASSUME NEW i \in Store, NEW s \in Source
      PROVE  /\ held'[i][s] = Less(held[i][s]) /\ held'[i][s] \in Times
             /\ held'[i][s] = None <=> held[i][s] = None
    BY <1>1, HealthTypes, HealthNumbers
<1>4. ASSUME NEW i \in Store
      PROVE  host'[i] \in [down : BOOLEAN, backoff : 0 .. Backoff] /\ host'[i].down = host[i].down
  <2>1. host[i] \in [down : BOOLEAN, backoff : 0 .. Backoff]
      BY DEF HealthTypeOK
  <2>2. Less(host[i].backoff) \in 0 .. Backoff
      BY <2>1, SourceHealthAssumption DEF Less
  <2> QED BY <2>1, <2>2, <1>1
<1>5. HealthTypeOK'
  <2>1. row' \in [Source -> [streak : 0 .. FlagAfter, flagged : BOOLEAN, until : Times]]
      BY <1>1, <1>2
  <2>2. held' \in [Store -> [Source -> Times]]
      BY <1>1, <1>3
  <2>3. host' \in [Store -> [down : BOOLEAN, backoff : 0 .. Backoff]]
      BY <1>1, <1>4
  <2> QED BY <1>1, <2>1, <2>2, <2>3 DEF HealthTypeOK
<1>6. FlaggedIffOpenEpisode'
    BY <1>1, <1>2 DEF FlaggedIffOpenEpisode
<1>7. PolledAreNotHeld'
    BY <1>1, <1>3 DEF PolledAreNotHeld
<1>8. OneStore => MemoryIsOfTheRow'
  <2> SUFFICES ASSUME OneStore, NEW i \in Store, NEW s \in Source
               PROVE  /\ s \in probing[i] => row'[s].flagged /\ row'[s].until = 0 /\ held'[i][s] = None
                      /\ held'[i][s] # None => row'[s].flagged /\ row'[s].until = held'[i][s]
      BY <1>1 DEF MemoryIsOfTheRow
  <2>1. /\ s \in probing[i] => row[s].flagged /\ row[s].until = 0 /\ held[i][s] = None
        /\ held[i][s] # None => row[s].flagged /\ row[s].until = held[i][s]
      BY DEF MemoryIsOfTheRow
  <2>2. Less(0) = 0
      BY HealthNumbers
  <2> QED BY <2>1, <2>2, <1>2, <1>3
<1>9. OneStore /\ restarts = 0 => FlagsAreRemembered'
  <2> SUFFICES ASSUME OneStore, restarts = 0 PROVE FlagsAreRemembered'
      OBVIOUS
  <2>1. \A i \in Store, s \in Source : row'[s].flagged => held'[i][s] # None \/ s \in probing'[i]
      BY <1>1, <1>2, <1>3 DEF FlagsAreRemembered
  <2>2. ASSUME NEW i \in Store, NEW flag \in pass[i].pending PROVE flag.probe \/ ~row'[flag.source].flagged
    <3>1. flag \in FlagRecord
        BY HealthTypes
    <3>2. flag.source \in Source
        BY <3>1 DEF FlagRecord
    <3>3. flag.probe \/ ~row[flag.source].flagged
        BY DEF FlagsAreRemembered
    <3> QED BY <3>2, <3>3, <1>2
  <2> QED BY <2>1, <2>2, <1>1, <1>4 DEF FlagsAreRemembered
<1> QED BY <1>1, <1>5, <1>6, <1>7, <1>8, <1>9

LEMMA RestartKeeps == ASSUME HealthInv, NEW i \in Store, Restart(i) PROVE HealthInv'
<1> USE DEF HealthInv
<1> DEFINE h == [s \in Source |-> IF row[s].until > 0 THEN row[s].until ELSE None]
<1>1. /\ restarts' = restarts + 1 /\ held' = [held EXCEPT ![i] = h]
      /\ probing' = [probing EXCEPT ![i] = {}]
      /\ host' = [host EXCEPT ![i] = [down |-> FALSE, backoff |-> 0]]
      /\ outage' \in {outage, 0} /\ pass' = [pass EXCEPT ![i] = NoScope] /\ UNCHANGED <<row, episode>>
    BY DEF Restart
<1>2. /\ held \in [Store -> [Source -> Times]] /\ probing \in [Store -> SUBSET Source]
      /\ host \in [Store -> [down : BOOLEAN, backoff : 0 .. Backoff]]
      /\ pass \in [Store -> Scope] /\ outage \in Nat /\ restarts \in Nat
    BY DEF HealthTypeOK
<1>3. h \in [Source -> Times]
    BY HealthTypes, HealthNumbers
<1>4. \A s \in Source : h[s] = IF row[s].until > 0 THEN row[s].until ELSE None
    OBVIOUS
<1> HIDE DEF h
<1>5. /\ held' \in [Store -> [Source -> Times]] /\ held'[i] = h
      /\ \A j \in Store \ {i} : held'[j] = held[j]
    BY <1>1, <1>2, <1>3
<1>6. /\ probing' \in [Store -> SUBSET Source] /\ probing'[i] = {}
      /\ \A j \in Store \ {i} : probing'[j] = probing[j]
    BY <1>1, <1>2
<1>7. pass' \in [Store -> Scope] /\ pass'[i] = NoScope /\ \A j \in Store \ {i} : pass'[j] = pass[j]
    BY <1>1, <1>2, NoScopeTyped
<1>8. host' \in [Store -> [down : BOOLEAN, backoff : 0 .. Backoff]] /\ outage' \in Nat
      /\ restarts' \in Nat /\ restarts' # 0
  <2>1. [down |-> FALSE, backoff |-> 0] \in [down : BOOLEAN, backoff : 0 .. Backoff]
      BY SourceHealthAssumption
  <2>2. host' \in [Store -> [down : BOOLEAN, backoff : 0 .. Backoff]]
      BY <2>1, <1>1, <1>2
  <2> QED BY <2>2, <1>1, <1>2
<1>9. HealthTypeOK'
    BY <1>1, <1>5, <1>6, <1>7, <1>8 DEF HealthTypeOK
<1>10. FlaggedIffOpenEpisode'
    BY <1>1 DEF FlaggedIffOpenEpisode
<1>11. PolledAreNotHeld'
    BY <1>5, <1>7, NoScopeTyped DEF PolledAreNotHeld
<1>12. OneStore => MemoryIsOfTheRow'
  <2> SUFFICES ASSUME OneStore, NEW s \in Source, held'[i][s] # None
               PROVE  row[s].flagged /\ row[s].until = held'[i][s]
      BY <1>1, <1>6 DEF MemoryIsOfTheRow, OneStore
  <2>1. row[s].until # None /\ held'[i][s] = row[s].until
      BY <1>4, <1>5
  <2> QED BY <2>1 DEF FlaggedIffOpenEpisode
<1> QED BY <1>8, <1>9, <1>10, <1>11, <1>12

LEMMA HealthStep == HealthInv /\ [HealthNext]_healthVars => HealthInv'
<1> SUFFICES ASSUME HealthInv, [HealthNext]_healthVars PROVE HealthInv'
    OBVIOUS
<1>1. ASSUME NEW i \in Store, EndPass(i) PROVE HealthInv'
    BY <1>1, HostEventKeeps, ResolveKeeps DEF EndPass
<1>2. ASSUME NEW s \in Source, Forget(s) PROVE HealthInv'
  <2> USE DEF HealthInv
  <2>1. /\ episode[s].recent > 0 /\ episode' = [episode EXCEPT ![s].recent = @ - 1]
        /\ UNCHANGED <<row, outage, held, probing, host, pass, restarts>>
      BY <1>2 DEF Forget
  <2>2. episode \in [Source -> [open : Nat, recent : 0 .. MaxEpisodes]]
      BY DEF HealthTypeOK
  <2>3. episode[s].recent - 1 \in 0 .. MaxEpisodes
      BY <2>1, HealthTypes, SourceHealthAssumption
  <2>4. /\ episode' \in [Source -> [open : Nat, recent : 0 .. MaxEpisodes]]
        /\ \A u \in Source : episode'[u].open = episode[u].open
      BY <2>1, <2>2, <2>3
  <2>5. HealthTypeOK' /\ FlaggedIffOpenEpisode'
      BY <2>1, <2>4 DEF HealthTypeOK, FlaggedIffOpenEpisode
  <2>6. PolledAreNotHeld' /\ (OneStore => MemoryIsOfTheRow')
      BY <2>1 DEF PolledAreNotHeld, MemoryIsOfTheRow
  <2>7. OneStore /\ restarts = 0 => FlagsAreRemembered'
      BY <2>1, <2>4 DEF FlagsAreRemembered
  <2> QED BY <2>1, <2>5, <2>6, <2>7
<1>3. CASE UNCHANGED healthVars
    BY <1>3 DEF healthVars, HealthInv, HealthTypeOK, FlaggedIffOpenEpisode, PolledAreNotHeld,
                MemoryIsOfTheRow, FlagsAreRemembered, OneStore
<1> QED BY <1>1, <1>2, <1>3, BeginPassKeeps, SuccessKeeps, FailureKeeps, TickKeeps, RestartKeeps
        DEF HealthNext

\* Whatever the number of sources, stores and passes, however they interleave, fail
\* and restart: the flag, the open episode and the end date stand or fall together;
\* and as long as one store keeps its memory each source has one open episode and
\* each probe and cool-off its row (source_health_store.py).
THEOREM QuarantinesAgree == HealthSpec => []QuarantinesAreAccounted
<1>1. HealthInv => QuarantinesAreAccounted
  <2> SUFFICES ASSUME HealthInv PROVE EpisodesAreAChain /\ ProbesAnswerAFlag
      BY DEF HealthInv, QuarantinesAreAccounted
  <2>1. Cardinality(Store) = 1 => OneStore
    <3> SUFFICES ASSUME Cardinality(Store) = 1 PROVE OneStore
        OBVIOUS
    <3>1. PICK x : Store = {x}
        BY FS_Singleton, SourceHealthAssumption
    <3> QED BY <3>1 DEF OneStore
  <2>2. PICK i \in Store : TRUE
      BY SourceHealthAssumption
  <2>3. OneStore /\ restarts = 0 => outage <= 1 /\ \A s \in Source : episode[s].open <= 1
    <3> SUFFICES ASSUME OneStore, restarts = 0
                 PROVE  outage <= 1 /\ \A s \in Source : episode[s].open <= 1
        OBVIOUS
    <3>1. outage = IF host[i].down THEN 1 ELSE 0
        BY <2>2 DEF HealthInv, FlagsAreRemembered
    <3>2. outage <= 1
        BY <3>1
    <3> QED BY <3>2 DEF HealthInv, FlagsAreRemembered
  <2>4. EpisodesAreAChain
      BY <2>1, <2>3 DEF EpisodesAreAChain
  <2>5. ProbesAnswerAFlag
      BY <2>1 DEF HealthInv, ProbesAnswerAFlag, MemoryIsOfTheRow
  <2> QED BY <2>4, <2>5
<1> QED BY <1>1, HealthStarts, HealthStep, PTL DEF HealthSpec

\* A ratio of at most the whole is reached when everything failed.
LEMMA AllFailedIsCorrelated ==
    ASSUME Ratio <= 100, NEW scope \in Scope, scope.succeeded = {},
           Cardinality(scope.failed) >= MinPollable
    PROVE  Correlated(scope)
<1> DEFINE c == Cardinality(scope.failed)
<1>1. scope.failed \in SUBSET Source
    BY DEF Scope
<1>2. IsFiniteSet(scope.failed)
    BY <1>1, SourceHealthAssumption, FS_Subset
<1>3. c \in Nat /\ Cardinality(scope.succeeded) = 0
    BY <1>2, FS_CardinalityType, FS_EmptySet
<1>4. \A r, n \in Nat : r <= 100 => 100 * n >= r * n
  <2> TAKE r, n \in Nat
  <2> SUFFICES ASSUME r <= 100 PROVE 100 * n >= r * n
      OBVIOUS
  <2>1. 100 - r \in Nat
      OBVIOUS
  <2>2. \A k \in Nat : k * n \in Nat
      OBVIOUS
  <2>3. (100 - r) * n \in Nat
      BY <2>1, <2>2
  <2>4. (100 - r) * n = 100 * n - r * n
      OBVIOUS
  <2> QED BY <2>3, <2>4
<1> HIDE DEF c
<1>5. 100 * c >= Ratio * c
    BY <1>3, <1>4, SourceHealthAssumption
<1>6. c + 0 = c
    BY <1>3
<1> QED BY <1>3, <1>5, <1>6 DEF Correlated, Pollable, c

\* A pass that saw no feed answer, and enough of them, quarantines none, whatever
\* the streaks and probes were, at any correlated_failure_ratio up to the whole: a
\* larger one, which the code does not refuse, turns the guard off
\* (source_health_store.py _enter_host_event).
THEOREM OutagesAreNobodysFault ==
    ASSUME Ratio <= 100
    PROVE  HealthSpec => OutageFlagsNothing
<1>1. ASSUME HealthInv, [HealthNext]_healthVars, NEW i \in Store,
             pass[i].open, ~pass'[i].open, pass[i].succeeded = {},
             Cardinality(pass[i].failed) >= MinPollable, restarts' = restarts
      PROVE  UNCHANGED <<row, episode>>
  <2>0. /\ pass \in [Store -> Scope] /\ pass[i] \in Scope /\ restarts \in Nat
      BY <1>1 DEF HealthInv, HealthTypeOK
  <2>1. ASSUME NEW j \in Store, EndPass(j) PROVE UNCHANGED <<row, episode>>
    <3>1. j = i
        BY <1>1, <2>0, <2>1 DEF EndPass
    <3>2. Correlated(pass[i])
        BY <1>1, <2>0, AllFailedIsCorrelated
    <3> QED BY <2>1, <3>1, <3>2 DEF EndPass, EnterHostEvent, ResolveFlags
  <2>2. ASSUME NEW j \in Store, BeginPass(j) PROVE UNCHANGED <<row, episode>>
      BY <2>2 DEF BeginPass
  <2>3. ASSUME NEW j \in Store, Restart(j) PROVE FALSE
      BY <1>1, <2>0, <2>3 DEF Restart
  <2>4. ASSUME NEW j \in Store, NEW s \in Source, RecordSuccess(j, s) \/ RecordFailure(j, s)
        PROVE  FALSE
    <3>1. pass'[i].open = pass[i].open
      <4>1. CASE RecordSuccess(j, s)
          BY <2>0, <4>1 DEF RecordSuccess, Scope
      <4>2. CASE RecordFailure(j, s)
          BY <2>0, <4>2 DEF RecordFailure, Scope
      <4> QED BY <2>4, <4>1, <4>2
    <3> QED BY <1>1, <3>1
  <2>5. ASSUME UNCHANGED pass PROVE FALSE
      BY <1>1, <2>5
  <2> QED BY <1>1, <2>1, <2>2, <2>3, <2>4, <2>5 DEF HealthNext, Forget, Tick, healthVars
<1>2. HealthInv /\ [HealthNext]_healthVars =>
        [\A i \in Store :
            pass[i].open /\ ~pass'[i].open /\ pass[i].succeeded = {}
                    /\ Cardinality(pass[i].failed) >= MinPollable /\ restarts' = restarts
                => UNCHANGED <<row, episode>>]_healthVars
    BY <1>1
<1> QED BY <1>2, HealthStarts, HealthStep, PTL DEF HealthSpec, OutageFlagsNothing

(***************************************************************************)
(* The paid calls.                                                         *)
(***************************************************************************)

\* A batch is either still to be sent or was charged, never both.
BatchesAreOnce == \A c \in Caller : call[c].left + call[c].paid <= MaxBatches

PaidInv == PaidTypeOK /\ BatchesAreOnce /\ SuspensionEnds

\* A call of one thread.
CallType == [at : {"idle", "asking", "rearming", "calling", "arming", "spent"},
             left : 0 .. MaxBatches, paid : 0 .. MaxBatches]

LEMMA PaidStarts == PaidInit => PaidInv
<1> SUFFICES ASSUME PaidInit PROVE PaidInv
    OBVIOUS
<1>1. PaidTypeOK
  <2>1. Idle \in CallType
      BY PaidCallsAssumption DEF Idle, CallType
  <2>2. call \in [Caller -> CallType]
      BY <2>1 DEF PaidInit
  <2>3. retry \in {NotSet} \union 0 .. Reprobe /\ troubles \in 0 .. MaxTroubles
      BY PaidCallsAssumption DEF PaidInit
  <2> QED BY <2>2, <2>3 DEF PaidInit, PaidTypeOK, CallType
<1>2. BatchesAreOnce
  <2>1. Idle.left = 0 /\ Idle.paid = 0
      BY DEF Idle
  <2>2. 0 + 0 <= MaxBatches
      BY PaidCallsAssumption
  <2> QED BY <2>1, <2>2 DEF PaidInit, BatchesAreOnce
<1>3. SuspensionEnds
    BY DEF PaidInit, SuspensionEnds
<1> QED BY <1>1, <1>2, <1>3 DEF PaidInv

\* One thread's step replaces its own call: the types and the batches of all follow
\* from those of the new one.
LEMMA OneCallMoves ==
    ASSUME PaidInv, NEW c \in Caller, NEW to \in CallType, to.left + to.paid <= MaxBatches,
           call' = [call EXCEPT ![c] = to]
    PROVE  call' \in [Caller -> CallType] /\ BatchesAreOnce'
<1>1. call \in [Caller -> CallType]
    BY DEF PaidInv, PaidTypeOK, CallType
<1>2. call' \in [Caller -> CallType]
    BY <1>1
<1>3. ASSUME NEW d \in Caller PROVE call'[d].left + call'[d].paid <= MaxBatches
    BY <1>1, <1>3 DEF PaidInv, BatchesAreOnce
<1> QED BY <1>2, <1>3 DEF BatchesAreOnce

LEMMA PaidStep == PaidInv /\ [PaidNext]_paidVars => PaidInv'
<1> SUFFICES ASSUME PaidInv, [PaidNext]_paidVars PROVE PaidInv'
    OBVIOUS
<1> USE PaidCallsAssumption
<1>t. call \in [Caller -> CallType] /\ suspended \in BOOLEAN /\ unlogged \in BOOLEAN
        /\ retry \in {NotSet} \union 0 .. Reprobe /\ troubles \in 0 .. MaxTroubles /\ quota \in BOOLEAN
    BY DEF PaidInv, PaidTypeOK, CallType
<1>i. Idle \in CallType /\ Idle.left + Idle.paid <= MaxBatches
    BY DEF Idle, CallType
<1>a. \A c \in Caller :
        call[c] \in CallType /\ call[c].left \in 0 .. MaxBatches /\ call[c].paid \in 0 .. MaxBatches
            /\ call[c].left + call[c].paid <= MaxBatches
    BY <1>t DEF CallType, PaidInv, BatchesAreOnce
\* Nobody who was arming stopped without having armed.
<1>k. ASSUME retry' = retry, suspended' => suspended,
             \A d \in Caller : call[d].at = "arming" => call'[d].at = "arming"
      PROVE  SuspensionEnds'
    BY <1>k DEF PaidInv, SuspensionEnds
<1>r. Reprobe # NotSet /\ Reprobe \in {NotSet} \union 0 .. Reprobe
    BY DEF NotSet
<1>b. ASSUME Trouble PROVE troubles' \in 0 .. MaxTroubles
    BY <1>b, <1>t DEF Trouble
<1>1. ASSUME NEW c \in Caller, Ask1(c) PROVE PaidInv'
  <2>1. PICK n \in 1 .. MaxBatches :
          call' = [call EXCEPT ![c] = [at |-> IF suspended THEN "asking" ELSE "calling",
                                       left |-> n, paid |-> 0]]
      BY <1>1 DEF Ask1
  <2> DEFINE to == [at |-> IF suspended THEN "asking" ELSE "calling", left |-> n, paid |-> 0]
  <2>2. to \in CallType /\ to.left + to.paid <= MaxBatches
      BY DEF CallType
  <2>3. call' \in [Caller -> CallType] /\ BatchesAreOnce'
    <3> HIDE DEF to
    <3>1. call' = [call EXCEPT ![c] = to]
        BY <2>1 DEF to
    <3> QED BY <3>1, <2>2, OneCallMoves
  <2>4. SuspensionEnds'
      BY <1>1, <1>k, <1>t, <2>1 DEF Ask1
  <2> QED BY <1>1, <1>t, <2>3, <2>4 DEF Ask1, PaidInv, PaidTypeOK, CallType
<1>2. ASSUME NEW c \in Caller, NEW at \in {"calling", "rearming"}, CallAt(c, at)
      PROVE  call' \in [Caller -> CallType] /\ BatchesAreOnce'
                /\ \A d \in Caller : d # c => call'[d] = call[d]
  <2> DEFINE to == [call[c] EXCEPT !.at = at]
  <2>1. to \in CallType /\ to.left + to.paid <= MaxBatches
      BY <1>a DEF CallType
  <2>2. call' = [call EXCEPT ![c] = to]
      BY <1>2 DEF CallAt
  <2> HIDE DEF to
  <2> QED BY <1>t, <2>1, <2>2, OneCallMoves
<1>3. ASSUME NEW c \in Caller, CallEnds(c)
      PROVE  call' \in [Caller -> CallType] /\ BatchesAreOnce'
                /\ \A d \in Caller : d # c => call'[d] = call[d]
    BY <1>3, <1>i, <1>t, OneCallMoves DEF CallEnds
<1>4. ASSUME NEW c \in Caller, Ask2(c) PROVE PaidInv'
  <2>1. call' \in [Caller -> CallType] /\ BatchesAreOnce'
          /\ \A d \in Caller : d # c => call'[d] = call[d]
      BY <1>2, <1>3, <1>4 DEF Ask2
  <2>2. SuspensionEnds'
      BY <1>4, <1>k, <2>1 DEF Ask2
  <2> QED BY <1>4, <1>t, <2>1, <2>2 DEF Ask2, PaidInv, PaidTypeOK, CallType
<1>5. ASSUME NEW c \in Caller, Rearm(c) PROVE PaidInv'
  <2>1. call' \in [Caller -> CallType] /\ BatchesAreOnce'
      BY <1>2, <1>5 DEF Rearm
  <2>2. SuspensionEnds'
      BY <1>5, <1>r DEF Rearm, SuspensionEnds
  <2> QED BY <1>5, <1>r, <1>t, <2>1, <2>2 DEF Rearm, PaidInv, PaidTypeOK, CallType
<1>6. ASSUME NEW c \in Caller, Billed(c) PROVE PaidInv'
  <2> DEFINE to == [at |-> call[c].at, left |-> call[c].left - 1, paid |-> call[c].paid + 1]
  <2>1. to \in CallType /\ to.left + to.paid <= MaxBatches
      BY <1>6, <1>a DEF CallType, Billed, Request
  <2>2. call' = [call EXCEPT ![c] = to]
    <3>1. \A x \in CallType : [[x EXCEPT !.left = @ - 1] EXCEPT !.paid = @ + 1]
                = [at |-> x.at, left |-> x.left - 1, paid |-> x.paid + 1]
      <4> TAKE x \in CallType
      <4>1. x = [at |-> x.at, left |-> x.left, paid |-> x.paid]
          BY DEF CallType
      <4>2. [x EXCEPT !.left = @ - 1] = [at |-> x.at, left |-> x.left - 1, paid |-> x.paid]
          BY <4>1
      <4> DEFINE y == [x EXCEPT !.left = @ - 1]
      <4>3. y = [at |-> x.at, left |-> x.left - 1, paid |-> x.paid]
          BY <4>2
      <4> HIDE DEF y
      <4>4. [y EXCEPT !.paid = @ + 1] = [at |-> x.at, left |-> x.left - 1, paid |-> x.paid + 1]
          BY <4>3
      <4> QED BY <4>4 DEF y
    <3>2. call' = [call EXCEPT ![c] = [[call[c] EXCEPT !.left = @ - 1] EXCEPT !.paid = @ + 1]]
        BY <1>6, <1>t DEF Billed
    <3> QED BY <1>a, <3>1, <3>2
  <2>3. to.at = call[c].at
      OBVIOUS
  <2> HIDE DEF to
  <2>4. call' \in [Caller -> CallType] /\ BatchesAreOnce'
      BY <2>1, <2>2, OneCallMoves
  <2>5. SuspensionEnds'
      BY <1>6, <1>k, <1>t, <2>2, <2>3 DEF Billed
  <2> QED BY <1>6, <1>t, <2>4, <2>5 DEF Billed, PaidInv, PaidTypeOK, CallType
<1>7. ASSUME NEW c \in Caller, RefusedForQuota(c) PROVE PaidInv'
  <2> DEFINE to == [at |-> "arming", left |-> 0, paid |-> 0]
  <2>1. to \in CallType /\ to.left + to.paid <= MaxBatches
      BY DEF CallType
  <2>2. call' = [call EXCEPT ![c] = to]
    <3>1. [Idle EXCEPT !.at = "arming"] = to
        BY DEF Idle
    <3> QED BY <1>7, <3>1 DEF RefusedForQuota
  <2>3. call' \in [Caller -> CallType] /\ BatchesAreOnce'
    <3> HIDE DEF to
    <3> QED BY <2>1, <2>2, OneCallMoves
  <2>4. SuspensionEnds'
      BY <1>t, <2>2 DEF SuspensionEnds
  <2> QED BY <1>7, <1>t, <2>3, <2>4 DEF RefusedForQuota, Forgets, PaidInv, PaidTypeOK, CallType
<1>8. ASSUME NEW c \in Caller, Arm(c) PROVE PaidInv'
  <2>1. SuspensionEnds'
      BY <1>8, <1>r DEF Arm, SuspensionEnds
  <2> QED BY <1>3, <1>8, <1>r, <1>t, <2>1 DEF Arm, PaidInv, PaidTypeOK, CallType
<1>9. ASSUME NEW c \in Caller, RequestFails(c) PROVE PaidInv'
  <2>1. SuspensionEnds'
      BY <1>3, <1>9, <1>k DEF RequestFails
  <2> QED BY <1>3, <1>9, <1>b, <1>t, <2>1 DEF RequestFails, Forgets, PaidInv, PaidTypeOK, CallType
<1>10. ASSUME NEW c \in Caller, RecordCost(c) PROVE PaidInv'
  <2>1. call' \in [Caller -> CallType] /\ BatchesAreOnce'
          /\ \A d \in Caller : d # c => call'[d] = call[d]
    <3>1. CASE CallEnds(c)
        BY <1>3, <3>1
    <3>2. CASE call' = [call EXCEPT ![c] = [Idle EXCEPT !.at = "spent"]]
      <4> DEFINE to == [Idle EXCEPT !.at = "spent"]
      <4>1. to \in CallType /\ to.left + to.paid <= MaxBatches
          BY DEF CallType, Idle
      <4> HIDE DEF to
      <4> QED BY <1>t, <3>2, <4>1, OneCallMoves DEF to
    <3> QED BY <1>10, <3>1, <3>2 DEF RecordCost
  <2>2. SuspensionEnds'
      BY <1>10, <1>k, <2>1 DEF RecordCost
  <2>3. troubles' \in 0 .. MaxTroubles /\ unlogged' \in BOOLEAN
      BY <1>10, <1>b, <1>t DEF RecordCost, Forgets
  <2> QED BY <1>10, <1>t, <2>1, <2>2, <2>3 DEF RecordCost, PaidInv, PaidTypeOK, CallType
<1>11. ASSUME NEW c \in Caller, RecordSpend(c) PROVE PaidInv'
  <2>1. SuspensionEnds'
      BY <1>11 DEF RecordSpend, SuspensionEnds
  <2>2. retry' \in {NotSet} \union 0 .. Reprobe
      BY <1>11, <1>t DEF RecordSpend
  <2> QED BY <1>3, <1>11, <1>t, <2>1, <2>2 DEF RecordSpend, PaidInv, PaidTypeOK, CallType
<1>12. CASE Account
  <2>1. troubles' \in 0 .. MaxTroubles /\ quota' \in BOOLEAN
      BY <1>12, <1>b, <1>t DEF Account, RunsOut, ToppedUp
  <2> QED BY <1>12, <2>1 DEF Account, PaidInv, PaidTypeOK, BatchesAreOnce, SuspensionEnds
<1>13. CASE CoolOffRuns
  <2>1. retry' \in {NotSet} \union 0 .. Reprobe /\ (retry # NotSet => retry' # NotSet)
      BY <1>13, <1>t DEF CoolOffRuns, NotSet
  <2> QED BY <1>13, <2>1 DEF CoolOffRuns, PaidInv, PaidTypeOK, BatchesAreOnce, SuspensionEnds
<1>14. CASE UNCHANGED paidVars
    BY <1>14 DEF paidVars, PaidInv, PaidTypeOK, BatchesAreOnce, SuspensionEnds
<1> QED BY <1>1, <1>4, <1>5, <1>6, <1>7, <1>8, <1>9, <1>10, <1>11, <1>12, <1>13, <1>14
        DEF PaidNext, Steps

\* However many threads call, and in whatever order their refusals, probes and late
\* successes reach the guard, which takes no lock: paid work that is suspended has a
\* window that will elapse, or a thread about to set one (budget_guard.py).
THEOREM SuspensionsEnd == PaidSpec => []SuspensionEnds
<1>1. PaidInv => SuspensionEnds
    BY DEF PaidInv
<1> QED BY <1>1, PaidStarts, PaidStep, PTL DEF PaidSpec
=============================================================================
