------------------------ MODULE OutcomeJournalProofs ------------------------
(***************************************************************************)
(* What OutcomeJournal guarantees for every number of writers, every       *)
(* combination of faults and without bounds on the run.                    *)
(***************************************************************************)
EXTENDS OutcomeJournal, TLAPS

(***************************************************************************)
(* The operators on the counter row.                                       *)
(***************************************************************************)

LEMMA MaxOrZeroType ==
    ASSUME NEW S, S \subseteq Nat
    PROVE  MaxOrZero(S) \in Nat
BY DEF MaxOrZero, IsMaximum

LEMMA JournalHeadType ==
    ASSUME NEW j \in Seq(Stamp)
    PROVE  JournalSeq(j) \in Nat /\ JournalEpoch(j) \in Nat
<1>1. \A i \in DOMAIN j : j[i] \in Stamp
  OBVIOUS
<1>2. {j[i].seq : i \in DOMAIN j} \subseteq Nat /\ {j[i].epoch : i \in DOMAIN j} \subseteq Nat
  BY <1>1 DEF Stamp
<1> QED BY <1>2, MaxOrZeroType DEF JournalSeq, JournalEpoch

LEMMA LargerType ==
    ASSUME NEW a \in Nat, NEW b \in Nat
    PROVE  Larger(a, b) \in Nat /\ Larger(a, b) >= a /\ Larger(a, b) >= b
BY DEF Larger

LEMMA EnsuredType ==
    ASSUME NEW r \in Row, NEW c \in Nat
    PROVE  Ensured(r, c) \in Row
BY DEF Ensured, Row, NoRow, Null

LEMMA MintedType ==
    ASSUME NEW r \in Row, NEW t \in Nat
    PROVE  Minted(r, t) \in Row /\ Minted(r, t).seq = r.seq + 1
<1> DEFINE last == Larger(t, r.last)
           held == r.last # Null /\ t < r.last
           resyncs == IF held THEN r.resyncs + 1 ELSE r.resyncs
           correction == IF held THEN Larger(r.correction, r.last - t) ELSE r.correction
<1>1. r.seq + 1 \in Nat /\ last \in Nat /\ resyncs \in Nat /\ correction \in Nat
  <2>1. r.seq + 1 \in Nat /\ r.last \in Nat /\ r.resyncs \in Nat /\ r.correction \in Nat
    BY DEF Row
  <2>2. last \in Nat /\ resyncs \in Nat
    BY <2>1 DEF Larger
  <2>3. ASSUME held PROVE Larger(r.correction, r.last - t) \in Nat
    <3>1. r.last - t \in Nat
      BY <2>1, <2>3
    <3> QED BY <2>1, <3>1 DEF Larger
  <2> QED BY <2>1, <2>2, <2>3
<1>2. Minted(r, t) = [r EXCEPT !.seq = r.seq + 1, !.last = last,
                               !.resyncs = resyncs, !.correction = correction]
  BY DEF Minted
<1> HIDE DEF last, resyncs, correction
<1> QED BY <1>1, <1>2 DEF Row

LEMMA StampOfType ==
    ASSUME NEW r \in Row
    PROVE  StampOf(r) \in Stamp /\ StampOf(r).seq = r.seq
BY DEF StampOf, Row, Stamp

LEMMA ReconciledType ==
    ASSUME TypeOK, NEW r \in Row, NEW c \in Nat
    PROVE  Reconciled(r, c) \in Row
<1>1. JournalSeq(journal) \in Nat /\ JournalEpoch(journal) \in Nat
  BY JournalHeadType DEF TypeOK
<1>2. Larger(r.seq, JournalSeq(journal)) \in Nat /\ NextEpoch(r) \in Nat
  <2>1. r.seq \in Nat /\ r.epoch \in Nat /\ second \in Nat
    BY DEF Row, TypeOK
  <2> QED BY <1>1, <2>1 DEF NextEpoch, Larger
<1>3. Bumped(r, c) \in Row
  BY <1>2 DEF Bumped, Row, Null
<1>4. [r EXCEPT !.cluster = c] \in Row
  BY DEF Row
<1> QED BY <1>3, <1>4 DEF Reconciled

(***************************************************************************)
(* Type correctness.                                                       *)
(***************************************************************************)

LEMMA NoRowType == NoRow \in Row /\ NoStamp \in Stamp
BY DEF NoRow, NoStamp, Row, Stamp, Null

LEMMA TypeInit == Init => TypeOK
<1> SUFFICES ASSUME Init PROVE TypeOK
  OBVIOUS
<1>1. backup \in [taken : BOOLEAN, row : Row, journal : Seq(Stamp)]
  BY NoRowType DEF Init
<1> QED BY <1>1, NoRowType DEF Init, TypeOK, Phase, Null

LEMMA ReconcileType ==
    ASSUME TypeOK, Reconcile
    PROVE  row' \in Row
<1>1. PICK c \in Fingerprint : row' = Reconciled(Ensured(row, c), c)
  BY DEF Reconcile
<1>2. c \in Nat
  BY DEF Fingerprint, TypeOK, Null
<1> QED BY <1>1, <1>2, EnsuredType, ReconciledType DEF TypeOK

LEMMA EndSaveType ==
    ASSUME TypeOK, NEW w \in Writer, NEW outcome \in Phase, EndSave(w, outcome)
    PROVE  /\ pc' \in [Writer -> Phase] /\ now' \in [Writer -> Nat]
           /\ pending' \in [Writer -> Row] /\ envelope' \in [Writer -> Stamp]
BY NoRowType DEF EndSave, TypeOK, Null

LEMMA CommittedType ==
    ASSUME TypeOK, NEW w \in Writer, Committed(w)
    PROVE  /\ row' \in Row /\ journal' \in Seq(Stamp) /\ published' \in Seq(Stamp)
<1>1. pending[w] \in Row /\ StampOf(pending[w]) \in Stamp
  BY StampOfType DEF TypeOK
<1> QED BY <1>1 DEF Committed, TypeOK

LEMMA TypeStep == TypeOK /\ [Next]_vars => TypeOK'
<1> SUFFICES ASSUME TypeOK, [Next]_vars PROVE TypeOK'
  OBVIOUS
<1> USE DEF TypeOK
<1>1. ASSUME NEW w \in Writer, BeginSave(w) PROVE TypeOK'
  BY <1>1, NoRowType DEF BeginSave, envVars, Phase
<1>2. ASSUME NEW w \in Writer, Mint(w) PROVE TypeOK'
  <2>1. Ensured(row, Null) \in Row
    BY EnsuredType DEF Null
  <2>2. Minted(Ensured(row, Null), now[w]) \in Row
    BY <2>1, MintedType
  <2>3. StampOf(Minted(Ensured(row, Null), now[w])) \in Stamp
    BY <2>2, StampOfType
  <2> QED BY <1>2, <2>2, <2>3 DEF Mint, envVars, Phase
<1>3. ASSUME NEW w \in Writer, Commit(w) PROVE TypeOK'
  BY <1>3, CommittedType, EndSaveType DEF Commit, Committed, envVars, Phase
<1>4. ASSUME NEW w \in Writer, CommitUnacknowledged(w) PROVE TypeOK'
  BY <1>4, CommittedType, EndSaveType DEF CommitUnacknowledged, Committed, envVars, Phase
<1>5. ASSUME NEW w \in Writer, Rollback(w) PROVE TypeOK'
  BY <1>5, EndSaveType DEF Rollback, envVars, Phase
<1>6. CASE Boot
  BY <1>6, ReconcileType DEF Boot, Reconcile, saveVars
<1>7. CASE BootUnreconciled
  BY <1>7 DEF BootUnreconciled, saveVars
<1>8. CASE CliAssembles
  BY <1>8, ReconcileType DEF CliAssembles, Reconcile, saveVars
<1>9. CASE Crash
  BY <1>9, NoRowType DEF Crash, Phase, Null
<1>10. CASE Tick
  BY <1>10 DEF Tick, saveVars
<1>11. CASE ClockStep
  BY <1>11 DEF ClockStep, saveVars
<1>12. CASE Backup
  BY <1>12 DEF Backup, saveVars
<1>13. CASE RestoreBackup
  BY <1>13 DEF RestoreBackup, Rewinding, saveVars
<1>14. CASE Promote
  BY <1>14 DEF Promote, Rewinding, saveVars
<1>15. CASE LoseCounter
  BY <1>15, NoRowType DEF LoseCounter, Rewinding, saveVars
<1>16. CASE UNCHANGED vars
  BY <1>16 DEF vars, saveVars, envVars
<1> QED
  BY <1>1, <1>2, <1>3, <1>4, <1>5, <1>6, <1>7, <1>8, <1>9, <1>10, <1>11, <1>12, <1>13,
     <1>14, <1>15, <1>16 DEF Next

\* Every variable keeps its type: counters, stamps and samples stay natural
\* numbers although the clock runs backwards and rows are restored.
THEOREM TypeCorrect == Spec => []TypeOK
BY TypeInit, TypeStep, PTL DEF Spec

(***************************************************************************)
(* The inductive invariant behind the numbering.                           *)
(***************************************************************************)

Contiguous(j) == \A i \in DOMAIN j : j[i].seq = i

\* What a counter row may say of the journal beside it in the database.
CounterAgrees(r, j) ==
    r.seq = Len(j) \/ ("counter_reset" \in Faults /\ r = NoRow)

MintInv ==
    /\ \A w \in Writer : InSave(w) => up
    /\ \A v, w \in Writer : pc[v] = "minted" /\ pc[w] = "minted" => v = w
    /\ \A w \in Writer : pc[w] = "minted" => pending[w].seq = row.seq + 1

CountInv ==
    /\ Contiguous(journal) /\ Contiguous(backup.journal)
    /\ CounterAgrees(row, journal) /\ CounterAgrees(backup.row, backup.journal)
    /\ up => row.seq = Len(journal)

IInv == TypeOK /\ MintInv /\ CountInv

\* A counter lost behind a boot whose reconciliation failed is the one thing the
\* numbering does not survive.
SomeReconciliation == ~({"counter_reset", "reconcile_skipped"} \subseteq Faults)

LEMMA MaximumOfInterval ==
    ASSUME NEW n \in Nat
    PROVE  MaxOrZero(1..n) = n
<1>1. CASE n = 0
  BY <1>1 DEF MaxOrZero, IsMaximum
<1>2. CASE n # 0
  <2>1. IsMaximum(n, 1..n)
    BY <1>2 DEF IsMaximum
  <2>2. ASSUME NEW m, IsMaximum(m, 1..n) PROVE m = n
    <3>1. m \in 1..n /\ n <= m
      BY <1>2, <2>2 DEF IsMaximum
    <3> QED BY <3>1
  <2> QED BY <2>1, <2>2 DEF MaxOrZero
<1> QED BY <1>1, <1>2

LEMMA ContiguousHead ==
    ASSUME NEW j \in Seq(Stamp), Contiguous(j)
    PROVE  JournalSeq(j) = Len(j)
<1>1. {j[i].seq : i \in DOMAIN j} = 1..Len(j)
  BY DEF Contiguous
<1>2. JournalSeq(j) = MaxOrZero(1..Len(j))
  BY <1>1, Zenon DEF JournalSeq
<1>3. Len(j) \in Nat
  OBVIOUS
<1> QED BY <1>2, <1>3, MaximumOfInterval

LEMMA ReconcileCounts ==
    ASSUME IInv, Reconcile
    PROVE  row'.seq = Len(journal)
<1>1. PICK c \in Fingerprint : row' = Reconciled(Ensured(row, c), c)
  BY DEF Reconcile
<1> DEFINE r == Ensured(row, c)
<1>2. c \in Nat /\ row \in Row /\ journal \in Seq(Stamp)
  BY DEF Fingerprint, IInv, TypeOK, Null
<1>3. r \in Row /\ r.seq = row.seq
  BY <1>2, EnsuredType DEF Ensured, NoRow, Null
<1>4. JournalSeq(journal) = Len(journal)
  BY <1>2, ContiguousHead DEF IInv, CountInv
<1>5. r.seq = Len(journal) \/ r.seq = 0
  BY <1>3 DEF IInv, CountInv, CounterAgrees, NoRow
<1>6. r.seq \in Nat /\ Len(journal) \in Nat
  BY <1>2, <1>3 DEF Row
<1>7. CASE CounterBehind(r) \/ ClusterChanged(r, c)
  <2>1. row' = Bumped(r, c)
    BY <1>1, <1>7 DEF Reconciled
  <2>2. Bumped(r, c).seq = Larger(r.seq, Len(journal))
    BY <1>3, <1>4 DEF Bumped, Row
  <2> QED BY <2>1, <2>2, <1>5, <1>6 DEF Larger
<1>8. CASE ~CounterBehind(r) /\ ~ClusterChanged(r, c)
  <2>1. row'.seq = r.seq
    BY <1>1, <1>3, <1>8 DEF Reconciled, Row
  <2> QED BY <2>1, <1>4, <1>5, <1>6, <1>8 DEF CounterBehind
<1> QED BY <1>7, <1>8

LEMMA CountInit == Init => IInv
<1> SUFFICES ASSUME Init PROVE IInv
  OBVIOUS
<1>1. MintInv
  BY DEF Init, MintInv, InSave
<1>2. CountInv
  BY DEF Init, CountInv, Contiguous, CounterAgrees, NoRow
<1> QED BY <1>1, <1>2, TypeInit DEF IInv

\* A commit appends the next number, and the counter follows.
LEMMA CommittedCounts ==
    ASSUME IInv, NEW w \in Writer, Committed(w), NEW outcome \in {"saved", "failed"},
           EndSave(w, outcome)
    PROVE  MintInv' /\ CountInv'
<1>1. /\ pc[w] = "minted" /\ up /\ row.seq = Len(journal)
      /\ pending[w] \in Row /\ pending[w].seq = Len(journal) + 1
  BY DEF Committed, IInv, MintInv, CountInv, TypeOK, InSave
<1>2. row'.seq = Len(journal) + 1
  BY <1>1 DEF Committed
<1>3. journal' = Append(journal, StampOf(pending[w])) /\ journal \in Seq(Stamp)
  BY DEF Committed, IInv, TypeOK
<1>4. StampOf(pending[w]) \in Stamp /\ StampOf(pending[w]).seq = Len(journal) + 1
  BY <1>1, StampOfType
<1>5. Len(journal') = Len(journal) + 1 /\ Contiguous(journal')
  BY <1>3, <1>4 DEF Contiguous, IInv, CountInv
<1>6. \A v \in Writer : pc'[v] # "minted"
  BY <1>1 DEF EndSave, IInv, TypeOK, MintInv
<1>7. MintInv'
  BY <1>1, <1>6 DEF EndSave, Committed, envVars, IInv, TypeOK, MintInv, InSave
<1>8. CountInv'
  BY <1>2, <1>5 DEF Committed, envVars, IInv, CountInv, CounterAgrees
<1> QED BY <1>7, <1>8

LEMMA CountStep ==
    ASSUME SomeReconciliation, IInv, [Next]_vars
    PROVE  MintInv' /\ CountInv'
<1> USE DEF IInv
<1>1. ASSUME NEW w \in Writer, BeginSave(w) PROVE MintInv' /\ CountInv'
  <2>1. MintInv'
    BY <1>1 DEF BeginSave, envVars, MintInv, InSave, TypeOK
  <2>2. CountInv'
    BY <1>1 DEF BeginSave, envVars, CountInv, CounterAgrees, Contiguous
  <2> QED BY <2>1, <2>2
<1>2. ASSUME NEW w \in Writer, Mint(w) PROVE MintInv' /\ CountInv'
  <2> DEFINE r == Minted(Ensured(row, Null), now[w])
  <2>1. r.seq = row.seq + 1
    <3>1. Ensured(row, Null) \in Row /\ Ensured(row, Null).seq = row.seq
      BY EnsuredType DEF TypeOK, Ensured, NoRow, Null
    <3> QED BY <3>1, MintedType DEF TypeOK
  <2>2. /\ pc' = [pc EXCEPT ![w] = "minted"] /\ pending' = [pending EXCEPT ![w] = r]
        /\ UNCHANGED <<row, up>> /\ pc[w] = "sampled"
        /\ \A v \in Writer : pc[v] # "minted"
    BY <1>2 DEF Mint, envVars, LockFree
  <2> HIDE DEF r
  <2>3. MintInv'
    BY <2>1, <2>2 DEF MintInv, InSave, TypeOK
  <2>4. CountInv'
    BY <1>2 DEF Mint, envVars, CountInv, CounterAgrees, Contiguous
  <2> QED BY <2>3, <2>4
<1>3. ASSUME NEW w \in Writer, Commit(w) PROVE MintInv' /\ CountInv'
  BY <1>3, CommittedCounts DEF Commit
<1>4. ASSUME NEW w \in Writer, CommitUnacknowledged(w) PROVE MintInv' /\ CountInv'
  BY <1>4, CommittedCounts DEF CommitUnacknowledged
<1>5. ASSUME NEW w \in Writer, Rollback(w) PROVE MintInv' /\ CountInv'
  <2>1. MintInv'
    BY <1>5 DEF Rollback, EndSave, envVars, MintInv, InSave, TypeOK
  <2>2. CountInv'
    BY <1>5 DEF Rollback, envVars, CountInv, CounterAgrees, Contiguous
  <2> QED BY <2>1, <2>2
<1>6. CASE Boot \/ CliAssembles
  <2>1. Reconcile /\ up' /\ UNCHANGED <<journal, backup, saveVars>>
        /\ \A w \in Writer : pc[w] # "minted"
    BY <1>6 DEF Boot, CliAssembles, Reconcile, LockFree
  <2>2. row'.seq = Len(journal)
    BY <2>1, ReconcileCounts
  <2>3. MintInv'
    BY <2>1 DEF MintInv, InSave, saveVars
  <2>4. CountInv'
    BY <2>1, <2>2 DEF CountInv, CounterAgrees, Contiguous
  <2> QED BY <2>3, <2>4
<1>7. CASE BootUnreconciled
  <2>1. row.seq = Len(journal)
    BY <1>7 DEF BootUnreconciled, SomeReconciliation, CountInv, CounterAgrees
  <2>2. MintInv'
    BY <1>7 DEF BootUnreconciled, saveVars, MintInv, InSave
  <2>3. CountInv'
    BY <1>7, <2>1 DEF BootUnreconciled, CountInv, CounterAgrees, Contiguous
  <2> QED BY <2>2, <2>3
<1>8. CASE Crash
  <2>1. MintInv'
    BY <1>8 DEF Crash, MintInv, InSave
  <2>2. CountInv'
    BY <1>8 DEF Crash, CountInv, CounterAgrees, Contiguous
  <2> QED BY <2>1, <2>2
<1>9. CASE Tick \/ ClockStep
  <2>1. UNCHANGED <<row, journal, saveVars, up, backup>>
    BY <1>9 DEF Tick, ClockStep
  <2>2. MintInv'
    BY <2>1 DEF saveVars, MintInv, InSave
  <2>3. CountInv'
    BY <2>1 DEF CountInv, CounterAgrees, Contiguous
  <2> QED BY <2>2, <2>3
<1>10. CASE Backup
  <2>1. /\ backup'.row = row /\ backup'.journal = journal
        /\ UNCHANGED <<row, journal, saveVars, up>>
    BY <1>10 DEF Backup
  <2>2. MintInv'
    BY <2>1 DEF saveVars, MintInv, InSave
  <2>3. CountInv'
    BY <2>1 DEF CountInv, CounterAgrees, Contiguous
  <2> QED BY <2>2, <2>3
<1>11. CASE RestoreBackup \/ Promote \/ LoseCounter
  <2>1. ~up /\ ~up' /\ UNCHANGED <<saveVars, backup>>
    BY <1>11 DEF RestoreBackup, Promote, LoseCounter, Rewinding
  <2>2. Contiguous(journal') /\ CounterAgrees(row', journal')
    BY <1>11 DEF RestoreBackup, Promote, LoseCounter, CountInv, CounterAgrees, Contiguous
  <2>3. MintInv'
    BY <2>1 DEF saveVars, MintInv, InSave
  <2>4. CountInv'
    BY <2>1, <2>2 DEF CountInv, CounterAgrees, Contiguous
  <2> QED BY <2>3, <2>4
<1>12. CASE UNCHANGED vars
  <2>1. MintInv'
    BY <1>12 DEF vars, saveVars, envVars, MintInv, InSave
  <2>2. CountInv'
    BY <1>12 DEF vars, saveVars, envVars, CountInv, CounterAgrees, Contiguous
  <2> QED BY <2>1, <2>2
<1> QED
  BY <1>1, <1>2, <1>3, <1>4, <1>5, <1>6, <1>7, <1>8, <1>9, <1>10, <1>11, <1>12 DEF Next

LEMMA NumberingInductive == SomeReconciliation => (Spec => []IInv)
<1> SUFFICES ASSUME SomeReconciliation PROVE Spec => []IInv
  OBVIOUS
<1>1. Init => IInv
  BY CountInit
<1>2. IInv /\ [Next]_vars => IInv'
  BY CountStep, TypeStep DEF IInv
<1> QED BY <1>1, <1>2, PTL DEF Spec

\* Committed outcomes are numbered without a hole in commit order, however many
\* threads save, roll back, die or lose an acknowledgement, and across restores,
\* promotions and a lost counter.
THEOREM NumberedWithoutGaps == SomeReconciliation => (Spec => []Gapless)
<1>1. IInv => Gapless
  BY DEF IInv, CountInv, Contiguous, Gapless
<1> QED BY <1>1, NumberingInductive, PTL

\* The head served to readers is the end of the journal whenever an engine runs.
THEOREM HeadNeverAstray == SomeReconciliation => (Spec => []HeadIsJournalEnd)
<1>1. IInv => HeadIsJournalEnd
  BY ContiguousHead DEF IInv, TypeOK, CountInv, HeadIsJournalEnd
<1> QED BY <1>1, NumberingInductive, PTL

(***************************************************************************)
(* The order of everything a stream ever published, across rewinds of its  *)
(* database: (stream_epoch, seq) follows the commits, and available_msc    *)
(* never steps back within an epoch; then, that the journal implements the *)
(* series its readers are promised.                                        *)
(*                                                                         *)
(* The argument: a rewind that may take published positions back leaves a  *)
(* row the next boot must bump (MustBump), and every epoch in use then lies *)
(* strictly before the present second, which the bump jumps to.            *)
(***************************************************************************)

\* What boot reconciliation can tell apart: backups hold the counter row, no
\* boot goes unreconciled, and a restore meets a readable fingerprint.
RewindsAreVisible ==
    /\ "early_backup" \notin Faults /\ "reconcile_skipped" \notin Faults
    /\ ~({"pitr", "unreadable_cluster"} \subseteq Faults)

\* The counter row and the database it lives in agree.
Settled == row.seq = Len(journal) /\ row.cluster \in {Null, cluster}

\* The next boot will notice that the series was taken back.
MustBump ==
    \/ row.seq # Len(journal)
    \/ /\ "unreadable_cluster" \notin Faults
       /\ row.cluster # Null /\ row.cluster # cluster

EpochsUpTo(j, bound) == \A i \in DOMAIN j : j[i].epoch <= bound
Horizon == IF Settled THEN second ELSE second - 1

EpochInv ==
    /\ second >= 2
    /\ row.epoch <= Horizon
    /\ EpochsUpTo(journal, Horizon) /\ EpochsUpTo(published, Horizon)
    /\ backup.row.epoch <= second /\ EpochsUpTo(backup.journal, second)

ClusterInv ==
    /\ cluster >= 1 /\ row.cluster <= cluster /\ backup.row.cluster <= cluster
    /\ backup.taken => backup.row.cluster # Null
    /\ row = NoRow \/ row.epoch >= 1
    /\ backup.row = NoRow \/ backup.row.epoch >= 1
    /\ up => row.epoch >= 1

MintedInv == \A w \in Writer : pc[w] = "minted" =>
    /\ pending[w].epoch = row.epoch /\ pending[w].cluster = row.cluster
    /\ pending[w].last >= row.last

\* The stamp s lies before whatever is committed next.
Covered(s) ==
    \/ s.epoch < row.epoch
    \/ s.epoch = row.epoch /\ s.seq <= row.seq /\ s.avail <= row.last
    \/ ~up /\ MustBump

Precedes(s, t) ==
    \/ s.epoch < t.epoch
    \/ s.epoch = t.epoch /\ s.seq < t.seq /\ s.avail <= t.avail

Ordered(j) == \A i, k \in DOMAIN j : i < k => Precedes(j[i], j[k])

PastInv ==
    /\ \A i \in DOMAIN published : Covered(published[i])
    /\ Ordered(published)

OrderInv == EpochInv /\ ClusterInv /\ MintedInv /\ PastInv

OInv == IInv /\ OrderInv

(***************************************************************************)
(* What one boot reconciliation does to the row.                           *)
(***************************************************************************)

LEMMA JournalEpochBound ==
    ASSUME NEW j \in Seq(Stamp), NEW bound \in Nat, EpochsUpTo(j, bound)
    PROVE  JournalEpoch(j) <= bound
<1> DEFINE S == {j[i].epoch : i \in DOMAIN j}
<1>1. \A e \in S : e <= bound
  BY DEF EpochsUpTo
<1>2. MaxOrZero(S) \in S \/ MaxOrZero(S) = 0
  BY DEF MaxOrZero, IsMaximum
<1>3. JournalEpoch(j) = MaxOrZero(S)
  BY DEF JournalEpoch
<1> QED BY <1>1, <1>2, <1>3

\* The row was rewound and now runs under the present second as its epoch.
BumpedRow ==
    /\ ~Settled
    /\ row'.epoch = second /\ row'.epoch > row.epoch
    /\ row'.cluster \in {Null, cluster}

\* The row stays in force, or is the stream's first.
KeptRow ==
    /\ ~MustBump
    /\ row'.epoch = row.epoch \/ (row = NoRow /\ row'.epoch = 1)
    /\ row'.epoch >= 1 /\ row'.last = row.last
    /\ row'.cluster = row.cluster \/ row'.cluster \in {Null, cluster}

LEMMA BumpedOrKept ==
    ASSUME OInv, Reconcile
    PROVE  BumpedRow \/ KeptRow
<1>1. PICK c \in Fingerprint : row' = Reconciled(Ensured(row, c), c)
  BY DEF Reconcile
<1> DEFINE r == Ensured(row, c)
<1>2. c \in {Null, cluster} /\ c \in Nat /\ ("unreadable_cluster" \notin Faults => c = cluster)
  BY <1>1 DEF Fingerprint, OInv, IInv, TypeOK, Null
<1>3. /\ row \in Row /\ journal \in Seq(Stamp) /\ Len(journal) \in Nat
      /\ second \in Nat /\ cluster \in Nat
  BY DEF OInv, IInv, TypeOK
<1>4. /\ r \in Row /\ r.seq = row.seq /\ r.last = row.last
      /\ row = NoRow => r.epoch = 1 /\ r.cluster = c /\ row.epoch = 0
      /\ row # NoRow => r = row
  <2>1. CASE row = NoRow
    BY <2>1, <1>2, <1>3, EnsuredType DEF Ensured, NoRow
  <2>2. CASE row # NoRow
    BY <2>2, <1>2, <1>3, EnsuredType DEF Ensured
  <2> QED BY <2>1, <2>2
<1>5. /\ r.seq \in Nat /\ r.epoch \in Nat /\ r.cluster \in Nat
      /\ row.seq \in Nat /\ row.epoch \in Nat /\ row.cluster \in Nat
  BY <1>3, <1>4 DEF Row
<1>6. JournalSeq(journal) = Len(journal)
  BY <1>3, ContiguousHead DEF OInv, IInv, CountInv
<1>7. row.seq = Len(journal) \/ row.seq = 0
  BY DEF OInv, IInv, CountInv, CounterAgrees, NoRow
<1>8. CASE CounterBehind(r) \/ ClusterChanged(r, c)
  <2>1. ~Settled
    <3>1. CASE CounterBehind(r)
      BY <3>1, <1>4, <1>5, <1>6 DEF CounterBehind, Settled
    <3>2. CASE ClusterChanged(r, c)
      BY <3>2, <1>2, <1>4 DEF ClusterChanged, Settled
    <3> QED BY <1>8, <3>1, <3>2
  <2>2. r.epoch <= second - 1 /\ row.epoch <= second - 1
    BY <2>1, <1>3, <1>4, <1>5 DEF OInv, OrderInv, EpochInv, Horizon
  <2>3. JournalEpoch(journal) <= second - 1 /\ JournalEpoch(journal) \in Nat
    <3>1. second - 1 \in Nat /\ EpochsUpTo(journal, second - 1)
      BY <2>1, <1>3 DEF OInv, OrderInv, EpochInv, Horizon
    <3> QED BY <3>1, <1>3, JournalEpochBound, JournalHeadType
  <2>4. NextEpoch(r) = second
    BY <2>2, <2>3, <1>3, <1>5 DEF NextEpoch, Larger
  <2>5. row' = Bumped(r, c)
    BY <1>1, <1>8 DEF Reconciled
  <2>6. row'.epoch = second /\ row'.cluster = c
    BY <2>4, <2>5, <1>4 DEF Bumped, Row
  <2> QED BY <2>1, <2>2, <2>6, <1>2, <1>3, <1>5 DEF BumpedRow
<1>9. CASE ~CounterBehind(r) /\ ~ClusterChanged(r, c)
  <2>1. row' = IF r.cluster = Null THEN [r EXCEPT !.cluster = c] ELSE r
    BY <1>1, <1>9 DEF Reconciled
  <2>2. /\ row'.epoch = r.epoch /\ row'.last = r.last
        /\ row'.cluster = r.cluster \/ row'.cluster = c
    BY <2>1, <1>4 DEF Row
  <2>3. row.seq = Len(journal)
    BY <1>9, <1>3, <1>4, <1>5, <1>6, <1>7 DEF CounterBehind
  <2>4. ASSUME "unreadable_cluster" \notin Faults PROVE row.cluster \in {Null, cluster}
    <3>1. CASE row = NoRow
      BY <3>1 DEF NoRow
    <3>2. CASE row # NoRow
      <4>1. r = row /\ c = cluster
        BY <3>2, <2>4, <1>2, <1>4
      <4>2. cluster = Null \/ row.cluster = Null \/ cluster = row.cluster
        BY <4>1, <1>9 DEF ClusterChanged
      <4> QED BY <4>2, <1>3 DEF OInv, OrderInv, ClusterInv, Null
    <3> QED BY <3>1, <3>2
  <2>5. ~MustBump
    BY <2>3, <2>4 DEF MustBump
  <2>6. r.epoch >= 1
    BY <1>4 DEF OInv, OrderInv, ClusterInv
  <2>7. r.cluster = row.cluster \/ r.cluster \in {Null, cluster}
    BY <1>2, <1>4
  <2> QED BY <2>2, <2>5, <2>6, <2>7, <1>2, <1>4 DEF KeptRow
<1> QED BY <1>8, <1>9

(***************************************************************************)
(* The steps.                                                              *)
(***************************************************************************)

LEMMA EpochsUpToLater ==
    ASSUME NEW j \in Seq(Stamp), NEW b \in Int, NEW d \in Int, b <= d, EpochsUpTo(j, b)
    PROVE  EpochsUpTo(j, d)
<1>1. \A i \in DOMAIN j : j[i] \in Stamp
  OBVIOUS
<1>2. \A i \in DOMAIN j : j[i].epoch \in Nat
  BY <1>1 DEF Stamp
<1> QED BY <1>2 DEF EpochsUpTo

LEMMA OrderInit == Init => OInv
<1> SUFFICES ASSUME Init PROVE OInv
  OBVIOUS
<1>1. IInv
  BY CountInit
<1>2. EpochInv
  BY DEF Init, EpochInv, Horizon, EpochsUpTo, NoRow
<1>3. ClusterInv
  BY DEF Init, ClusterInv, NoRow, Null
<1>4. MintedInv /\ PastInv
  BY DEF Init, MintedInv, PastInv, Ordered
<1> QED BY <1>1, <1>2, <1>3, <1>4 DEF OInv, OrderInv

\* Time passes, an engine dies, a save begins or fails: the database is as it was.
LEMMA NothingCommitted ==
    ASSUME OInv, TypeOK', UNCHANGED <<row, journal, cluster, published>>,
           up' => up, second' >= second,
           \/ UNCHANGED backup
           \/ /\ backup'.row = row /\ backup'.journal = journal
              /\ row.cluster # Null
    PROVE  EpochInv' /\ ClusterInv' /\ PastInv'
<1>1. Settled' = Settled /\ MustBump' = MustBump
  BY DEF Settled, MustBump
<1>2. second \in Nat /\ second' \in Nat
  BY DEF OInv, IInv, TypeOK
<1>3. Horizon <= second /\ Horizon <= Horizon' /\ Horizon \in Int /\ Horizon' \in Int
  <2>1. CASE Settled
    <3>1. Horizon = second /\ Horizon' = second'
      BY <2>1, <1>1 DEF Horizon
    <3> QED BY <3>1, <1>2
  <2>2. CASE ~Settled
    <3>1. Horizon = second - 1 /\ Horizon' = second' - 1
      BY <2>2, <1>1, Zenon DEF Horizon
    <3>2. \A a, b \in Nat : a <= b =>
             a - 1 \in Int /\ b - 1 \in Int /\ a - 1 <= b - 1 /\ a - 1 <= a
      OBVIOUS
    <3>3. second <= second'
      BY <1>2
    <3> QED BY <3>1, <3>2, <3>3, <1>2
  <2> QED BY <2>1, <2>2
<1>4. row \in Row /\ backup.row \in Row /\ row.epoch \in Nat /\ backup.row.epoch \in Nat
  BY DEF OInv, IInv, TypeOK, Row
<1>5. /\ journal \in Seq(Stamp) /\ published \in Seq(Stamp)
      /\ backup.journal \in Seq(Stamp)
  BY DEF OInv, IInv, TypeOK
<1>6. EpochsUpTo(journal, Horizon') /\ EpochsUpTo(published, Horizon')
  BY <1>3, EpochsUpToLater, <1>5 DEF OInv, OrderInv, EpochInv
<1>7. backup'.row.epoch <= second' /\ EpochsUpTo(backup'.journal, second')
  <2>1. CASE UNCHANGED backup
    BY <2>1, <1>2, <1>4, EpochsUpToLater, <1>5 DEF OInv, OrderInv, EpochInv
  <2>2. CASE backup'.row = row /\ backup'.journal = journal
    <3>1. row.epoch <= second'
      BY <1>2, <1>3, <1>4 DEF OInv, OrderInv, EpochInv
    <3>2. EpochsUpTo(journal, second')
      BY <1>2, <1>3, EpochsUpToLater, <1>5 DEF OInv, OrderInv, EpochInv
    <3> QED BY <2>2, <3>1, <3>2
  <2> QED BY <2>1, <2>2
<1>8. EpochInv'
  BY <1>2, <1>3, <1>4, <1>6, <1>7 DEF OInv, OrderInv, EpochInv, EpochsUpTo
<1>9. ClusterInv'
  BY DEF OInv, OrderInv, ClusterInv
<1>10. PastInv'
  BY <1>1 DEF OInv, OrderInv, PastInv, Covered, Ordered, Precedes
<1> QED BY <1>8, <1>9, <1>10

LEMMA CommittedOrder ==
    ASSUME OInv, NEW w \in Writer, Committed(w), NEW outcome \in {"saved", "failed"},
           EndSave(w, outcome)
    PROVE  OrderInv'
<1> DEFINE p == pending[w]
           s == StampOf(p)
<1>1. /\ pc[w] = "minted" /\ up /\ row.seq = Len(journal)
      /\ p \in Row /\ row \in Row /\ p.seq = row.seq + 1 /\ p.epoch = row.epoch
      /\ p.cluster = row.cluster /\ p.last >= row.last
  BY DEF Committed, OInv, OrderInv, MintedInv, IInv, MintInv, CountInv, TypeOK, InSave
<1>2. /\ row' = p /\ journal' = Append(journal, s) /\ published' = Append(published, s)
      /\ UNCHANGED <<second, cluster, up, backup>>
  BY DEF Committed, envVars
<1>3. s \in Stamp /\ s.seq = p.seq /\ s.epoch = p.epoch /\ s.avail = p.last
  BY <1>1, StampOfType DEF StampOf
<1>4. journal \in Seq(Stamp) /\ published \in Seq(Stamp)
  BY DEF OInv, IInv, TypeOK
<1>5. /\ row.seq \in Nat /\ row.epoch \in Nat /\ row.last \in Nat
      /\ p.seq \in Nat /\ p.last \in Nat
  BY <1>1 DEF Row
<1> HIDE DEF p, s
<1>6. Settled' = Settled /\ Horizon' = Horizon
  BY <1>1, <1>2, <1>4, <1>5 DEF Settled, Horizon
<1>7. EpochInv'
  <2>1. ASSUME NEW j \in Seq(Stamp), EpochsUpTo(j, Horizon)
        PROVE  EpochsUpTo(Append(j, s), Horizon)
    BY <2>1, <1>1, <1>3 DEF EpochsUpTo, OInv, OrderInv, EpochInv
  <2> QED BY <2>1, <1>1, <1>2, <1>4, <1>6 DEF OInv, OrderInv, EpochInv, EpochsUpTo
<1>8. ClusterInv'
  BY <1>1, <1>2 DEF OInv, OrderInv, ClusterInv
<1>9. MintedInv'
  BY <1>1 DEF EndSave, OInv, IInv, MintInv, MintedInv, TypeOK
<1>10. ASSUME NEW i \in DOMAIN published
       PROVE  Covered(published[i])' /\ Precedes(published[i], s)
  <2>1. published[i] \in Stamp
    BY <1>4
  <2>2. \/ published[i].epoch < row.epoch
        \/ /\ published[i].epoch = row.epoch /\ published[i].seq <= row.seq
           /\ published[i].avail <= row.last
    BY <1>1 DEF OInv, OrderInv, PastInv, Covered
  <2>3. /\ published[i].seq \in Nat /\ published[i].avail \in Nat
        /\ published'[i] = published[i]
    BY <2>1, <1>2, <1>4 DEF Stamp
  <2>4. Precedes(published[i], s)
    BY <2>2, <2>3, <1>1, <1>3, <1>5 DEF Precedes
  <2>5. Covered(published[i])'
    BY <2>2, <2>3, <1>1, <1>2, <1>5 DEF Covered
  <2> QED BY <2>4, <2>5
<1>11. PastInv'
  <2>1. \A i \in DOMAIN published' : Covered(published[i])'
    <3> SUFFICES ASSUME NEW i \in DOMAIN published' PROVE Covered(published[i])'
      OBVIOUS
    <3>1. i \in DOMAIN published \/ published'[i] = s
      BY <1>2, <1>4
    <3>2. CASE published'[i] = s
      BY <3>2, <1>1, <1>2, <1>3, <1>5 DEF Covered
    <3> QED BY <3>1, <3>2, <1>10
  <2>2. Ordered(published')
    <3> SUFFICES ASSUME NEW i \in DOMAIN published', NEW k \in DOMAIN published', i < k
                 PROVE  Precedes(published'[i], published'[k])
      BY DEF Ordered
    <3>1. i \in DOMAIN published /\ published'[i] = published[i]
      BY <1>2, <1>4
    <3>2. CASE k \in DOMAIN published
      <4>1. published'[k] = published[k]
        BY <3>2, <1>2, <1>4
      <4> QED BY <3>1, <3>2, <4>1 DEF OInv, OrderInv, PastInv, Ordered
    <3>3. CASE k \notin DOMAIN published
      <4>1. published'[k] = s
        BY <3>3, <1>2, <1>4
      <4> QED BY <3>1, <4>1, <1>10
    <3> QED BY <3>2, <3>3
  <2> QED BY <2>1, <2>2 DEF PastInv
<1> QED BY <1>7, <1>8, <1>9, <1>11 DEF OrderInv

LEMMA HorizonRange ==
    ASSUME second \in Nat
    PROVE  Horizon \in Int /\ second - 1 <= Horizon /\ Horizon <= second
BY DEF Horizon

\* Boot, or run_cli assembling beside a running engine.
LEMMA ReconcileOrder ==
    ASSUME OInv, TypeOK', Reconcile, up', UNCHANGED <<journal, cluster, second, backup, published>>
    PROVE  OrderInv'
<1>1. BumpedRow \/ KeptRow
  BY BumpedOrKept
<1>2. row'.seq = Len(journal)
  BY ReconcileCounts DEF OInv
<1>3. /\ second \in Nat /\ second >= 2 /\ cluster \in Nat /\ cluster >= 1
      /\ row \in Row /\ row.epoch \in Nat /\ row'.epoch \in Nat
      /\ journal \in Seq(Stamp) /\ published \in Seq(Stamp)
  BY DEF OInv, IInv, OrderInv, EpochInv, ClusterInv, TypeOK, Row
<1>4. Settled => Settled'
  BY <1>1, <1>2 DEF BumpedRow, KeptRow, Settled
<1>5. /\ Horizon \in Int /\ Horizon' \in Int /\ Horizon <= Horizon' /\ Horizon <= second
      /\ second - 1 <= Horizon'
  <2>1. CASE Settled
    <3>1. Horizon = second /\ Horizon' = second
      BY <2>1, <1>4 DEF Horizon
    <3> QED BY <3>1, <1>3
  <2>2. CASE ~Settled
    <3>1. Horizon = second - 1
      BY <2>2 DEF Horizon
    <3>2. Horizon' = second \/ Horizon' = second - 1
      BY DEF Horizon
    <3> QED BY <3>1, <3>2, <1>3
  <2> QED BY <2>1, <2>2
<1>6. row'.epoch <= Horizon'
  <2>1. CASE BumpedRow
    <3>1. Settled'
      BY <2>1, <1>2 DEF BumpedRow, Settled
    <3> QED BY <3>1, <2>1, <1>3 DEF BumpedRow, Horizon
  <2>2. CASE KeptRow
    <3>1. row.epoch <= Horizon
      BY DEF OInv, OrderInv, EpochInv
    <3> QED BY <3>1, <2>2, <1>3, <1>5 DEF KeptRow
  <2> QED BY <1>1, <2>1, <2>2
<1>7. EpochInv'
  <2>1. EpochsUpTo(journal, Horizon') /\ EpochsUpTo(published, Horizon')
    BY <1>3, <1>5, EpochsUpToLater DEF OInv, OrderInv, EpochInv
  <2> QED BY <2>1, <1>6 DEF OInv, OrderInv, EpochInv, EpochsUpTo
<1>8. ClusterInv'
  BY <1>1, <1>3 DEF BumpedRow, KeptRow, OInv, OrderInv, ClusterInv, Null
<1>9. MintedInv'
  BY DEF Reconcile, LockFree, saveVars, MintedInv
<1>10. ASSUME NEW i \in DOMAIN published PROVE Covered(published[i])'
  <2>1. published[i].epoch \in Nat /\ published[i].seq \in Nat /\ published'[i] = published[i]
    <3>1. published[i] \in Stamp
      BY <1>3
    <3> QED BY <3>1 DEF Stamp
  <2>2. CASE BumpedRow
    <3>1. published[i].epoch <= second - 1
      BY <2>2 DEF BumpedRow, OInv, OrderInv, EpochInv, EpochsUpTo, Horizon
    <3>2. published[i].epoch < row'.epoch
      BY <3>1, <2>1, <2>2, <1>3 DEF BumpedRow
    <3> QED BY <3>2, <2>1 DEF Covered
  <2>3. CASE KeptRow
    <3>1. \/ published[i].epoch < row.epoch
          \/ /\ published[i].epoch = row.epoch /\ published[i].seq <= row.seq
             /\ published[i].avail <= row.last
      BY <2>3 DEF KeptRow, OInv, OrderInv, PastInv, Covered
    <3>2. row'.seq = row.seq /\ row'.last = row.last
      BY <2>3, <1>2 DEF KeptRow, MustBump
    <3>3. CASE row'.epoch = row.epoch
      BY <3>1, <3>2, <3>3, <2>1 DEF Covered
    <3>4. CASE row = NoRow /\ row'.epoch = 1
      <4>1. row.epoch = 0
        BY <3>4 DEF NoRow
      <4>2. published[i].epoch < row'.epoch
        BY <4>1, <3>1, <3>4, <2>1
      <4> QED BY <4>2, <2>1 DEF Covered
    <3> QED BY <3>3, <3>4, <2>3 DEF KeptRow
  <2> QED BY <1>1, <2>2, <2>3
<1>11. PastInv'
  BY <1>10 DEF OInv, OrderInv, PastInv, Ordered, Precedes
<1> QED BY <1>7, <1>8, <1>9, <1>11 DEF OrderInv

\* The database is taken back, promoted or loses its counter: more than a second
\* passes, and what was published is either still covered or bound to be noticed.
LEMMA RewindOrder ==
    ASSUME OInv, TypeOK', RewindsAreVisible, RestoreBackup \/ Promote \/ LoseCounter
    PROVE  OrderInv'
<1>1. /\ ~up /\ ~up' /\ second' = second + 1 /\ UNCHANGED <<saveVars, backup, published>>
  BY DEF RestoreBackup, Promote, LoseCounter, Rewinding
<1>2. /\ second \in Nat /\ second >= 2 /\ cluster \in Nat /\ cluster >= 1
      /\ row \in Row /\ row.epoch \in Nat /\ row.cluster \in Nat
      /\ backup.row \in Row /\ backup.row.epoch \in Nat /\ backup.row.cluster \in Nat
      /\ journal \in Seq(Stamp) /\ published \in Seq(Stamp)
      /\ backup.journal \in Seq(Stamp)
  BY DEF OInv, IInv, OrderInv, EpochInv, ClusterInv, TypeOK, Row
<1>3. row'.epoch <= second /\ (row' = NoRow \/ row'.epoch >= 1)
      /\ EpochsUpTo(journal', second)
  <2>1. row.epoch <= second /\ EpochsUpTo(journal, second)
    BY <1>2, HorizonRange, EpochsUpToLater DEF OInv, OrderInv, EpochInv
  <2>2. backup.row.epoch <= second /\ EpochsUpTo(backup.journal, second)
    BY DEF OInv, OrderInv, EpochInv
  <2>3. NoRow.epoch <= second
    BY <1>2 DEF NoRow
  <2> QED BY <2>1, <2>2, <2>3 DEF RestoreBackup, Promote, LoseCounter,
             OInv, OrderInv, ClusterInv
<1>4. EpochInv'
  <2>1. second' \in Nat /\ Horizon' \in Int /\ second <= Horizon'
    <3>1. Horizon' = second' \/ Horizon' = second' - 1
      BY Zenon DEF Horizon
    <3> QED BY <3>1, <1>1, <1>2
  <2>2. EpochsUpTo(published, second)
    BY <1>2, HorizonRange, EpochsUpToLater DEF OInv, OrderInv, EpochInv
  <2>3. EpochsUpTo(published, Horizon') /\ EpochsUpTo(journal', Horizon')
    <3>1. journal' \in Seq(Stamp)
      BY DEF TypeOK
    <3> QED BY <3>1, <2>1, <2>2, <1>2, <1>3, EpochsUpToLater
  <2>4. EpochsUpTo(backup.journal, second') /\ backup.row.epoch <= second'
    BY <1>1, <1>2, EpochsUpToLater DEF OInv, OrderInv, EpochInv
  <2>5. row'.epoch <= Horizon'
    <3>1. row'.epoch \in Nat
      BY DEF TypeOK, Row
    <3> QED BY <3>1, <2>1, <1>2, <1>3
  <2> QED BY <2>1, <2>3, <2>4, <2>5, <1>1, <1>2 DEF EpochInv, EpochsUpTo
<1>5. ClusterInv'
  <2>1. cluster' >= cluster /\ cluster' \in Nat
    BY <1>2 DEF RestoreBackup, Promote, LoseCounter
  <2>2. row'.cluster <= cluster'
    BY <1>2 DEF RestoreBackup, Promote, LoseCounter, NoRow, Null, OInv, OrderInv, ClusterInv
  <2> QED BY <2>1, <2>2, <1>1, <1>2, <1>3 DEF OInv, OrderInv, ClusterInv
<1>6. MintedInv'
  <2>1. \A w \in Writer : pc[w] # "minted"
    BY <1>1 DEF OInv, IInv, MintInv, InSave
  <2> QED BY <2>1, <1>1 DEF saveVars, MintedInv
<1>7. \A i \in DOMAIN published : Covered(published[i])'
  <2>1. CASE RestoreBackup
    <3>1. "unreadable_cluster" \notin Faults
      BY <2>1 DEF RestoreBackup, RewindsAreVisible
    <3>2. row'.cluster # Null /\ row'.cluster # cluster'
      BY <2>1, <1>2 DEF RestoreBackup, OInv, OrderInv, ClusterInv
    <3> QED BY <3>1, <3>2, <1>1 DEF Covered, MustBump
  <2>2. CASE Promote
    <3>1. UNCHANGED <<row, journal, published>> /\ cluster' = cluster + 1
      BY <2>2, <1>1 DEF Promote
    <3>2. MustBump => MustBump'
      BY <3>1, <1>2 DEF MustBump, OInv, OrderInv, ClusterInv
    <3> QED BY <3>1, <3>2, <1>1 DEF Covered, OInv, OrderInv, PastInv
  <2>3. CASE LoseCounter
    <3>1. row'.seq # Len(journal')
      BY <2>3, <1>2 DEF LoseCounter, NoRow
    <3> QED BY <3>1, <1>1 DEF Covered, MustBump
  <2> QED BY <2>1, <2>2, <2>3
<1>8. PastInv'
  BY <1>1, <1>7 DEF OInv, OrderInv, PastInv, Ordered, Precedes
<1> QED BY <1>4, <1>5, <1>6, <1>8 DEF OrderInv

LEMMA OrderStep ==
    ASSUME RewindsAreVisible, OInv, TypeOK', [Next]_vars
    PROVE  OrderInv'
<1>1. ASSUME NEW w \in Writer, BeginSave(w) \/ Rollback(w) PROVE OrderInv'
  <2>1. /\ UNCHANGED <<row, journal, cluster, published, up, second, backup>>
        /\ \A v \in Writer : pc'[v] = "minted" => pc[v] = "minted" /\ pending'[v] = pending[v]
    BY <1>1 DEF BeginSave, Rollback, EndSave, envVars, OInv, IInv, TypeOK
  <2>2. MintedInv'
    BY <2>1 DEF MintedInv, OInv, OrderInv
  <2>3. second' >= second
    BY <2>1 DEF OInv, IInv, TypeOK
  <2> QED BY <2>1, <2>2, <2>3, NothingCommitted DEF OrderInv
<1>2. ASSUME NEW w \in Writer, Mint(w) PROVE OrderInv'
  <2>1. /\ UNCHANGED <<row, journal, cluster, published, up, second, backup>>
        /\ \A v \in Writer : pc'[v] = "minted" => v = w
        /\ pending'[w] = Minted(Ensured(row, Null), now[w])
    BY <1>2 DEF Mint, LockFree, envVars, OInv, IInv, TypeOK
  <2>2. Ensured(row, Null) = row
    <3>1. row.epoch >= 1
      BY <1>2 DEF Mint, OInv, IInv, MintInv, InSave, OrderInv, ClusterInv
    <3> QED BY <3>1 DEF Ensured, NoRow
  <2>3. /\ Minted(row, now[w]).epoch = row.epoch /\ Minted(row, now[w]).cluster = row.cluster
        /\ Minted(row, now[w]).last = Larger(now[w], row.last)
    BY DEF Minted, OInv, IInv, TypeOK, Row
  <2>4. Larger(now[w], row.last) >= row.last
    <3>1. now[w] \in Nat /\ row.last \in Nat
      BY DEF OInv, IInv, TypeOK, Row
    <3> QED BY <3>1, LargerType
  <2>5. MintedInv'
    BY <2>1, <2>2, <2>3, <2>4 DEF MintedInv
  <2>6. second' >= second
    BY <2>1 DEF OInv, IInv, TypeOK
  <2> QED BY <2>1, <2>5, <2>6, NothingCommitted DEF OrderInv
<1>3. ASSUME NEW w \in Writer, Commit(w) PROVE OrderInv'
  BY <1>3, CommittedOrder DEF Commit
<1>4. ASSUME NEW w \in Writer, CommitUnacknowledged(w) PROVE OrderInv'
  BY <1>4, CommittedOrder DEF CommitUnacknowledged
<1>5. CASE Boot \/ CliAssembles
  BY <1>5, ReconcileOrder DEF Boot, CliAssembles, Reconcile
<1>6. CASE BootUnreconciled
  BY <1>6 DEF BootUnreconciled, RewindsAreVisible
<1>7. CASE Crash
  <2>1. /\ UNCHANGED <<row, journal, cluster, published, second, backup>>
        /\ ~up' /\ \A v \in Writer : pc'[v] = "idle"
    BY <1>7 DEF Crash
  <2>2. second' >= second
    BY <2>1 DEF OInv, IInv, TypeOK
  <2> QED BY <2>1, <2>2, NothingCommitted DEF OrderInv, MintedInv
<1>8. CASE Tick \/ ClockStep
  <2>1. /\ UNCHANGED <<row, journal, cluster, published, up, backup, saveVars>>
        /\ second' >= second
    BY <1>8 DEF Tick, ClockStep, OInv, IInv, TypeOK
  <2> QED BY <2>1, NothingCommitted DEF OrderInv, OInv, MintedInv, saveVars
<1>9. CASE Backup
  <2>1. /\ UNCHANGED <<row, journal, cluster, published, up, second, saveVars>>
        /\ backup'.row = row /\ backup'.journal = journal /\ row.cluster # Null
    BY <1>9 DEF Backup, RewindsAreVisible
  <2>2. second' >= second
    BY <2>1 DEF OInv, IInv, TypeOK
  <2> QED BY <2>1, <2>2, NothingCommitted DEF OrderInv, OInv, MintedInv, saveVars
<1>10. CASE RestoreBackup \/ Promote \/ LoseCounter
  BY <1>10, RewindOrder
<1>11. CASE UNCHANGED vars
  <2>1. /\ UNCHANGED <<row, journal, cluster, published, up, second, backup, saveVars>>
    BY <1>11 DEF vars, envVars
  <2>2. second' >= second
    BY <2>1 DEF OInv, IInv, TypeOK
  <2> QED BY <2>1, <2>2, NothingCommitted DEF OrderInv, OInv, MintedInv, saveVars
<1> QED
  BY <1>1, <1>2, <1>3, <1>4, <1>5, <1>6, <1>7, <1>8, <1>9, <1>10, <1>11 DEF Next

LEMMA OrderInductive == RewindsAreVisible => (Spec => []OInv)
<1> SUFFICES ASSUME RewindsAreVisible PROVE Spec => []OInv
  OBVIOUS
<1>1. SomeReconciliation
  BY DEF RewindsAreVisible, SomeReconciliation
<1>2. OInv /\ [Next]_vars => OInv'
  <2> SUFFICES ASSUME OInv, [Next]_vars PROVE OInv'
    OBVIOUS
  <2>1. IInv'
    BY <1>1, CountStep, TypeStep DEF OInv, IInv
  <2>2. OrderInv'
    BY <2>1, OrderStep DEF IInv
  <2> QED BY <2>1, <2>2 DEF OInv
<1> QED BY <1>2, OrderInit, PTL DEF Spec

\* (stream_epoch, seq) names every envelope ever published once, and sorts them as
\* they were committed, over any number of restores, promotions and lost counters.
THEOREM KeysFollowCommits == RewindsAreVisible => (Spec => []KeysInCommitOrder)
<1>1. OInv => KeysInCommitOrder
  BY DEF OInv, OrderInv, PastInv, Ordered, Precedes, KeysInCommitOrder
<1> QED BY <1>1, OrderInductive, PTL

\* available_msc never steps back within an epoch, although saves overlap and the
\* wall clock is corrected backwards.
THEOREM AvailabilityIsMonotone == RewindsAreVisible => (Spec => []AvailableNeverBackwards)
<1>1. OInv => AvailableNeverBackwards
  <2> SUFFICES ASSUME OInv, NEW i \in DOMAIN published, NEW k \in DOMAIN published,
                      i < k, published[i].epoch = published[k].epoch
               PROVE  published[i].avail <= published[k].avail
    BY DEF AvailableNeverBackwards
  <2>1. Precedes(published[i], published[k])
    BY DEF OInv, OrderInv, PastInv, Ordered
  <2>2. published[i] \in Stamp /\ published[k] \in Stamp
    BY DEF OInv, IInv, TypeOK
  <2>3. published[i].epoch \in Nat /\ published[k].epoch \in Nat
    BY <2>2 DEF Stamp
  <2> QED BY <2>1, <2>3 DEF Precedes
<1> QED BY <1>1, OrderInductive, PTL

(***************************************************************************)
(* The write path implements the series its readers are promised.  Where   *)
(* nothing takes the database back, the committed outcomes are a series    *)
(* that only grows, one numbered envelope at a time, under one epoch.      *)
(* Where it is taken back, they are that series rewound to an earlier end  *)
(* and continued, under no more new epochs than there were rewinds.        *)
(***************************************************************************)

NothingRewinds == {"pitr", "promotion", "counter_reset"} \cap Faults = {}

EpochInForce == IF row = NoRow THEN 1 ELSE row.epoch

\* A number is minted under the row in force, or under the first row of all.
MintedInForce == \A w \in Writer : pc[w] = "minted" =>
    pending[w].epoch = EpochInForce /\ pending[w].cluster = row.cluster

RowsHaveEpochs ==
    /\ row = NoRow \/ row.epoch >= 1
    /\ backup.row = NoRow \/ backup.row.epoch >= 1

\* What a restore would bring back is a beginning of the present journal.
BackupIsPrefix ==
    /\ Len(backup.journal) <= Len(journal)
    /\ \A i \in DOMAIN backup.journal : backup.journal[i] = journal[i]

MInv == IInv /\ MintedInForce /\ RowsHaveEpochs /\ BackupIsPrefix

\* Where they agree, a boot leaves the epoch alone.
SInv == MInv /\ Settled

\* Every epoch in use, or that a commit or a restore would put in use.
EpochsInUse ==
    {1} \union {published[i].epoch : i \in DOMAIN published}
        \union {r.epoch : r \in {row, backup.row} \ {NoRow}}

\* Each epoch in use is paid for by a rewind of its own, but the first; a rewind
\* no boot has noticed yet has paid for none.
Pays(f) ==
    /\ f \in [EpochsInUse -> 0..rewinds]
    /\ \A e, g \in EpochsInUse : e # g => f[e] # f[g]
    /\ ~Settled => \A e \in EpochsInUse : f[e] # rewinds

EpochsArePaid == \E f \in [EpochsInUse -> 0..rewinds] : Pays(f)

CInv == MInv /\ EpochsArePaid

(***************************************************************************)
(* What a boot makes of the row.                                           *)
(***************************************************************************)

LEMMA EnsuredFields ==
    ASSUME NEW r \in Row, NEW c \in Nat
    PROVE  /\ Ensured(r, c) \in Row /\ Ensured(r, c).seq = r.seq /\ Ensured(r, c).last = r.last
           /\ r = NoRow => Ensured(r, c).epoch = 1 /\ Ensured(r, c).cluster = c
           /\ r # NoRow => Ensured(r, c) = r
<1>1. CASE r = NoRow
  BY <1>1, EnsuredType DEF Ensured, NoRow
<1>2. CASE r # NoRow
  BY <1>2, EnsuredType DEF Ensured
<1> QED BY <1>1, <1>2

\* A rewind is noticed: the series goes on under a later epoch.
Renewed ==
    /\ ~Settled
    /\ row'.epoch > row.epoch
    /\ row'.cluster \in {Null, cluster}

\* The epoch in force stays in force.
Kept ==
    /\ row.seq = Len(journal)
    /\ row'.epoch = EpochInForce
    /\ row'.cluster = row.cluster \/ row'.cluster \in {Null, cluster}

LEMMA BootedRow ==
    ASSUME MInv, Reconcile
    PROVE  row'.seq = Len(journal) /\ row'.epoch >= 1 /\ (Renewed \/ Kept)
<1>1. PICK c \in Fingerprint : row' = Reconciled(Ensured(row, c), c)
  BY DEF Reconcile
<1> DEFINE r == Ensured(row, c)
<1>2. /\ c \in {Null, cluster} /\ c \in Nat /\ row \in Row
      /\ journal \in Seq(Stamp) /\ Len(journal) \in Nat
  BY <1>1 DEF Fingerprint, MInv, IInv, TypeOK, Null
<1>3. /\ r \in Row /\ r.seq = row.seq
      /\ row = NoRow => r.epoch = 1 /\ r.cluster = c
      /\ row # NoRow => r = row
  BY <1>2, EnsuredFields
<1>4. /\ r.seq \in Nat /\ r.epoch \in Nat /\ r.cluster \in Nat
      /\ row.seq \in Nat /\ row.epoch \in Nat /\ row.cluster \in Nat
  BY <1>2, <1>3 DEF Row
<1>5. r.epoch = EpochInForce /\ r.epoch >= 1 /\ row.epoch <= r.epoch
  BY <1>3, <1>4 DEF MInv, RowsHaveEpochs, EpochInForce, NoRow
<1>6. JournalSeq(journal) = Len(journal)
  BY <1>2, ContiguousHead DEF MInv, IInv, CountInv
<1>7. row'.seq = Len(journal)
  BY ReconcileCounts DEF MInv
<1>8. row.seq = Len(journal) \/ row.seq = 0
  BY DEF MInv, IInv, CountInv, CounterAgrees, NoRow
<1>9. CASE CounterBehind(r) \/ ClusterChanged(r, c)
  <2>1. ~Settled
    <3>1. CASE CounterBehind(r)
      BY <3>1, <1>3, <1>4, <1>6 DEF CounterBehind, Settled
    <3>2. CASE ClusterChanged(r, c)
      BY <3>2, <1>2, <1>3 DEF ClusterChanged, Settled
    <3> QED BY <1>9, <3>1, <3>2
  <2>2. NextEpoch(r) >= r.epoch + 1
    <3>1. JournalEpoch(journal) \in Nat /\ second \in Nat
      BY <1>2, JournalHeadType DEF MInv, IInv, TypeOK
    <3> QED BY <3>1, <1>4 DEF NextEpoch, Larger
  <2>3. row' = Bumped(r, c)
    BY <1>1, <1>9 DEF Reconciled
  <2>4. row'.epoch = NextEpoch(r) /\ row'.cluster = c
    BY <2>3, <1>3 DEF Bumped, Row
  <2>5. row'.epoch > row.epoch /\ row'.epoch >= 1
    <3>1. NextEpoch(r) \in Nat
      <4>1. JournalEpoch(journal) \in Nat /\ second \in Nat
        BY <1>2, JournalHeadType DEF MInv, IInv, TypeOK
      <4>2. \A a, b, m \in Nat : Larger(Larger(a, b) + 1, m) \in Nat
        BY DEF Larger
      <4> QED BY <4>1, <4>2, <1>4 DEF NextEpoch
    <3>2. \A a, b, n \in Nat : a <= b /\ n >= b + 1 => n > a /\ n >= 1
      OBVIOUS
    <3> QED BY <3>1, <3>2, <2>2, <2>4, <1>4, <1>5
  <2> QED BY <2>1, <2>4, <2>5, <1>2, <1>7 DEF Renewed
<1>10. CASE ~CounterBehind(r) /\ ~ClusterChanged(r, c)
  <2>1. row' = IF r.cluster = Null THEN [r EXCEPT !.cluster = c] ELSE r
    BY <1>1, <1>10 DEF Reconciled
  <2>2. row'.epoch = r.epoch /\ (row'.cluster = r.cluster \/ row'.cluster = c)
    BY <2>1, <1>3 DEF Row
  <2>3. row.seq = Len(journal)
    BY <1>10, <1>2, <1>3, <1>4, <1>6, <1>8 DEF CounterBehind
  <2>4. r.cluster = row.cluster \/ r.cluster \in {Null, cluster}
    BY <1>2, <1>3
  <2> QED BY <2>2, <2>3, <2>4, <1>2, <1>5, <1>7 DEF Kept
<1> QED BY <1>9, <1>10

(***************************************************************************)
(* What is minted is in force, and a backup is a beginning of the journal. *)
(***************************************************************************)

LEMMA ForceInit == Init => MInv
<1> SUFFICES ASSUME Init PROVE MInv
  OBVIOUS
<1>1. MintedInForce /\ RowsHaveEpochs /\ BackupIsPrefix
  BY DEF Init, MintedInForce, RowsHaveEpochs, BackupIsPrefix
<1> QED BY <1>1, CountInit DEF MInv

\* What a commit does, read off the invariant.
LEMMA CommittedRow ==
    ASSUME MInv, NEW w \in Writer, Committed(w)
    PROVE  /\ up /\ row.seq = Len(journal) /\ row'.seq = Len(journal) + 1
           /\ row'.epoch = EpochInForce /\ row'.epoch >= 1 /\ row'.epoch \in Nat
           /\ row'.cluster = row.cluster
           /\ StampOf(pending[w]) \in Stamp /\ StampOf(pending[w]).epoch = row'.epoch
           /\ journal \in Seq(Stamp) /\ journal' = Append(journal, StampOf(pending[w]))
           /\ published \in Seq(Stamp) /\ published' = Append(published, StampOf(pending[w]))
           /\ UNCHANGED <<cluster, backup, rewinds, up>>
<1>1. /\ pc[w] = "minted" /\ row' = pending[w] /\ pending[w] \in Row /\ row \in Row
      /\ journal' = Append(journal, StampOf(pending[w])) /\ journal \in Seq(Stamp)
      /\ published' = Append(published, StampOf(pending[w])) /\ published \in Seq(Stamp)
      /\ UNCHANGED <<cluster, backup, rewinds, up>>
  BY DEF Committed, envVars, MInv, IInv, TypeOK
<1>2. up /\ pending[w].seq = row.seq + 1 /\ row.seq = Len(journal)
  BY <1>1 DEF MInv, IInv, MintInv, CountInv, InSave
<1>3. pending[w].epoch = EpochInForce /\ pending[w].cluster = row.cluster
  BY <1>1 DEF MInv, MintedInForce
<1>4. EpochInForce \in Nat /\ EpochInForce >= 1
  BY <1>1 DEF EpochInForce, MInv, RowsHaveEpochs, Row
<1>5. StampOf(pending[w]) \in Stamp /\ StampOf(pending[w]).epoch = pending[w].epoch
  BY <1>1, StampOfType DEF StampOf
<1> QED BY <1>1, <1>2, <1>3, <1>4, <1>5

LEMMA ForceStep ==
    ASSUME SomeReconciliation, MInv, [Next]_vars
    PROVE  MInv'
<1>1. IInv'
  BY CountStep, TypeStep DEF MInv, IInv
<1>2. ASSUME UNCHANGED <<row, journal>>,
             \A v \in Writer : pc'[v] = "minted" => pc[v] = "minted" /\ pending'[v] = pending[v]
      PROVE  MintedInForce'
  BY <1>2 DEF MInv, MintedInForce, EpochInForce
<1>3. ASSUME UNCHANGED <<row, journal, backup>>
      PROVE  RowsHaveEpochs' /\ BackupIsPrefix'
  BY <1>3 DEF MInv, RowsHaveEpochs, BackupIsPrefix
<1>4. ASSUME NEW w \in Writer, BeginSave(w) \/ Rollback(w) PROVE MInv'
  BY <1>1, <1>2, <1>3, <1>4 DEF BeginSave, Rollback, EndSave, envVars, MInv, IInv, TypeOK
<1>5. ASSUME NEW w \in Writer, Mint(w) PROVE MInv'
  <2>1. /\ UNCHANGED <<row, journal, backup>>
        /\ \A v \in Writer : pc'[v] = "minted" => v = w
        /\ pending'[w] = Minted(Ensured(row, Null), now[w])
    BY <1>5 DEF Mint, LockFree, envVars, MInv, IInv, TypeOK
  <2> DEFINE r == Ensured(row, Null)
  <2>2. r \in Row /\ r.epoch = EpochInForce /\ r.cluster = row.cluster
    <3>1. row \in Row /\ Null \in Nat /\ NoRow.cluster = Null
      BY DEF MInv, IInv, TypeOK, Null, NoRow
    <3> QED BY <3>1, EnsuredFields DEF EpochInForce
  <2>3. Minted(r, now[w]).epoch = r.epoch /\ Minted(r, now[w]).cluster = r.cluster
    BY <2>2 DEF Minted, Row
  <2>4. MintedInForce'
    BY <2>1, <2>2, <2>3 DEF MintedInForce, EpochInForce
  <2> QED BY <1>1, <1>3, <2>1, <2>4 DEF MInv
<1>6. ASSUME NEW w \in Writer, Commit(w) \/ CommitUnacknowledged(w) PROVE MInv'
  <2>1. Committed(w) /\ \A v \in Writer : pc'[v] # "minted"
    BY <1>6 DEF Commit, CommitUnacknowledged, Committed, EndSave, MInv, IInv, MintInv, TypeOK
  <2>2. MintedInForce'
    BY <2>1 DEF MintedInForce
  <2>3. RowsHaveEpochs'
    BY <2>1, CommittedRow DEF RowsHaveEpochs, MInv
  <2>4. BackupIsPrefix'
    <3>1. /\ journal \in Seq(Stamp) /\ Len(journal) \in Nat
          /\ journal' = Append(journal, StampOf(pending[w])) /\ backup' = backup
          /\ backup.journal \in Seq(Stamp) /\ Len(backup.journal) \in Nat
      BY <2>1, CommittedRow DEF MInv, IInv, TypeOK
    <3>2. \A i \in 1..Len(journal) : journal'[i] = journal[i]
      BY <3>1
    <3>3. Len(journal') = Len(journal) + 1 /\ DOMAIN backup.journal \subseteq 1..Len(journal)
      BY <3>1 DEF MInv, BackupIsPrefix
    <3> QED BY <3>1, <3>2, <3>3 DEF MInv, BackupIsPrefix
  <2> QED BY <1>1, <2>2, <2>3, <2>4 DEF MInv
<1>7. CASE Boot \/ CliAssembles
  <2>1. Reconcile /\ UNCHANGED <<journal, backup, pc>> /\ \A w \in Writer : pc[w] # "minted"
    BY <1>7 DEF Boot, CliAssembles, Reconcile, LockFree, saveVars
  <2>2. RowsHaveEpochs' /\ BackupIsPrefix'
    BY <2>1, BootedRow DEF MInv, RowsHaveEpochs, BackupIsPrefix
  <2>3. MintedInForce'
    BY <2>1 DEF MintedInForce
  <2> QED BY <1>1, <2>2, <2>3 DEF MInv
<1>8. CASE BootUnreconciled \/ Tick \/ ClockStep \/ Crash \/ UNCHANGED vars
  BY <1>1, <1>2, <1>3, <1>8 DEF BootUnreconciled, Tick, ClockStep, Crash, vars, envVars,
                                saveVars, MInv
<1>9. CASE Backup
  <2>1. /\ UNCHANGED <<row, journal, pc, pending>>
        /\ backup'.row = row /\ backup'.journal = journal
    BY <1>9 DEF Backup, saveVars
  <2>2. Len(journal) \in Nat
    BY DEF MInv, IInv, TypeOK
  <2> QED BY <1>1, <1>2, <2>1, <2>2 DEF MInv, RowsHaveEpochs, BackupIsPrefix
<1>10. CASE RestoreBackup \/ Promote \/ LoseCounter
  <2>1. ~up /\ UNCHANGED <<backup, pc>>
    BY <1>10 DEF RestoreBackup, Promote, LoseCounter, Rewinding, saveVars
  <2>2. MintedInForce'
    BY <2>1 DEF MintedInForce, MInv, IInv, MintInv, InSave
  <2>3. \/ row' = backup.row /\ journal' = backup.journal
        \/ row' \in {row, NoRow} /\ journal' = journal
    BY <1>10 DEF RestoreBackup, Promote, LoseCounter
  <2>4. Len(backup.journal) \in Nat
    BY DEF MInv, IInv, TypeOK
  <2>5. RowsHaveEpochs' /\ BackupIsPrefix'
    BY <2>1, <2>3, <2>4 DEF MInv, RowsHaveEpochs, BackupIsPrefix
  <2> QED BY <1>1, <2>2, <2>5 DEF MInv
<1> QED BY <1>4, <1>5, <1>6, <1>7, <1>8, <1>9, <1>10 DEF Next

(***************************************************************************)
(* The refinement.                                                         *)
(***************************************************************************)

epochsOf(j) == [i \in DOMAIN j |-> j[i].epoch]
seriesOf == epochsOf(journal)
headOf == [seq |-> row.seq, epoch |-> row.epoch]

LEMMA EpochsOfType ==
    ASSUME NEW j \in Seq(Stamp)
    PROVE  epochsOf(j) \in Seq(Nat) /\ Len(epochsOf(j)) = Len(j) /\ Len(j) \in Nat
<1>1. \A i \in DOMAIN j : j[i] \in Stamp
  OBVIOUS
<1>2. \A i \in DOMAIN j : j[i].epoch \in Nat
  BY <1>1 DEF Stamp
<1> QED BY <1>2 DEF epochsOf

LEMMA SeriesType ==
    ASSUME MInv
    PROVE  /\ seriesOf \in Seq(Nat) /\ Len(seriesOf) = Len(journal) /\ Len(journal) \in Nat
           /\ headOf \in [seq : {0, Len(seriesOf)}, epoch : Nat]
           /\ headOf = Series!Cold <=> row = NoRow
<1>1. /\ journal \in Seq(Stamp) /\ Len(journal) \in Nat
      /\ row.seq \in Nat /\ row.epoch \in Nat
  BY DEF MInv, IInv, TypeOK, Row
<1>4. seriesOf \in Seq(Nat) /\ Len(seriesOf) = Len(journal)
  BY <1>1, EpochsOfType DEF seriesOf
<1>5. row.seq \in {0, Len(journal)}
  BY DEF MInv, IInv, CountInv, CounterAgrees, NoRow
<1>6. headOf = Series!Cold <=> row = NoRow
  BY <1>1 DEF MInv, RowsHaveEpochs, headOf, Series!Cold, NoRow
<1> QED BY <1>1, <1>4, <1>5, <1>6 DEF headOf

\* A committed envelope is one the series gains.
LEMMA CommittedPublishes ==
    ASSUME MInv, NEW w \in Writer, Committed(w)
    PROVE  Series!Publish
<1> DEFINE s == StampOf(pending[w])
           epoch == IF headOf = Series!Cold THEN 1 ELSE headOf.epoch
<1>1. /\ journal' = Append(journal, s) /\ journal \in Seq(Stamp) /\ s \in Stamp
      /\ row.seq = Len(journal) /\ row'.seq = Len(journal) + 1
      /\ row'.epoch = s.epoch /\ s.epoch = EpochInForce
  BY CommittedRow
<1>2. s.epoch = epoch
  BY <1>1, SeriesType DEF EpochInForce, headOf
<1> HIDE DEF s, epoch
<1>3. Len(seriesOf) = Len(journal) /\ seriesOf \in Seq(Nat) /\ Len(journal) \in Nat
  BY SeriesType
<1>4. seriesOf' = Append(seriesOf, epoch)
  <2>1. DOMAIN journal' = 1..(Len(journal) + 1) /\ DOMAIN seriesOf' = DOMAIN journal'
    BY <1>1 DEF seriesOf, epochsOf
  <2>2. \A i \in 1..Len(journal) : journal'[i] = journal[i]
    BY <1>1
  <2>3. journal'[Len(journal) + 1] = s
    BY <1>1
  <2>4. \A i \in DOMAIN journal' : seriesOf'[i] = Append(seriesOf, epoch)[i]
    BY <2>1, <2>2, <2>3, <1>1, <1>2, <1>3 DEF seriesOf, epochsOf
  <2> QED BY <2>1, <2>4, <1>3 DEF seriesOf, epochsOf
<1>5. headOf' = [seq |-> Len(seriesOf) + 1, epoch |-> epoch]
  BY <1>1, <1>2, <1>3 DEF headOf
<1> QED BY <1>1, <1>3, <1>4, <1>5 DEF Series!Publish, seriesOf, epochsOf, headOf, epoch

\* A boot seeds the series, goes on under a later epoch, or changes nothing.
LEMMA BootIsSeriesStep ==
    ASSUME MInv, Reconcile
    PROVE  \/ Series!Seed
           \/ ~Settled /\ Series!NewEpoch
           \/ UNCHANGED Series!seriesVars
<1>1. /\ journal' = journal /\ row'.seq = Len(journal) /\ row'.epoch >= 1
      /\ Renewed \/ Kept
  BY BootedRow DEF Reconcile
<1>2. row'.epoch \in Nat
  BY TypeStep, ReconcileType DEF MInv, IInv, TypeOK, Row
<1>3. CASE Renewed
  <2>1. ~Settled /\ headOf' \in [seq : {Len(seriesOf)}, epoch : Nat] /\ headOf'.epoch > headOf.epoch
    BY <1>1, <1>2, <1>3, SeriesType DEF Renewed, headOf
  <2> QED BY <1>1, <2>1 DEF Series!NewEpoch, seriesOf, epochsOf, headOf
<1>4. CASE Kept /\ row = NoRow
  <2>1. headOf = Series!Cold /\ headOf' = [seq |-> 0, epoch |-> 1]
    BY <1>1, <1>4 DEF Kept, EpochInForce, headOf, Series!Cold, NoRow
  <2> QED BY <1>1, <2>1 DEF Series!Seed, headOf
<1>5. CASE Kept /\ row # NoRow
  <2>1. row'.seq = row.seq /\ row'.epoch = row.epoch
    BY <1>1, <1>5 DEF Kept, EpochInForce
  <2> QED BY <1>1, <2>1 DEF Series!seriesVars
<1> QED BY <1>1, <1>3, <1>4, <1>5

\* A restore takes the series back to an earlier end, and a lost counter its head.
LEMMA RestoreIsRewind ==
    ASSUME MInv, MInv', RestoreBackup \/ LoseCounter
    PROVE  Series!Rewind
<1> DEFINE n == Len(seriesOf')
<1>1. \/ journal' = backup.journal
      \/ journal' = journal
  BY DEF RestoreBackup, LoseCounter
<1>2. /\ seriesOf \in Seq(Nat) /\ Len(seriesOf) = Len(journal) /\ Len(journal) \in Nat
      /\ seriesOf' \in Seq(Nat) /\ n = Len(journal') /\ n \in Nat
  <2>1. journal \in Seq(Stamp) /\ journal' \in Seq(Stamp)
    BY DEF MInv, IInv, TypeOK
  <2> QED BY <2>1, EpochsOfType DEF seriesOf
<1>7. headOf' \in [seq : {0, Len(seriesOf')}, epoch : Nat]
  <2>1. row'.seq \in {0, Len(journal')} /\ row' \in Row
    BY DEF MInv, IInv, TypeOK, CountInv, CounterAgrees, NoRow
  <2> QED BY <2>1, <1>2 DEF headOf, Row
<1>3. n <= Len(seriesOf) /\ \A i \in 1..n : journal'[i] = journal[i]
  <2>1. CASE journal' = backup.journal
    <3>1. DOMAIN backup.journal = 1..n
      BY <2>1, <1>2 DEF MInv, IInv, TypeOK
    <3> QED BY <2>1, <3>1, <1>2 DEF MInv, BackupIsPrefix
  <2>2. CASE journal' = journal
    BY <2>2, <1>2
  <2> QED BY <1>1, <2>1, <2>2
<1>4. \A i \in 1..n : seriesOf'[i] = seriesOf[i]
  <2>1. journal \in Seq(Stamp) /\ journal' \in Seq(Stamp)
    BY DEF MInv, IInv, TypeOK
  <2>2. DOMAIN journal = 1..Len(journal) /\ DOMAIN journal' = 1..n
    BY <2>1, <1>2
  <2> QED BY <2>2, <1>2, <1>3 DEF seriesOf, epochsOf
<1> HIDE DEF n
<1>5. seriesOf' = SubSeq(seriesOf, 1, n)
  BY <1>2, <1>3, <1>4 DEF n
<1>6. n \in 0..Len(seriesOf)
  BY <1>2, <1>3
<1> QED BY <1>7, <1>5, <1>6 DEF Series!Rewind, seriesOf, epochsOf, headOf

LEMMA StepIsSeriesStep ==
    ASSUME SomeReconciliation, MInv, [Next]_vars
    PROVE  /\ [Series!SeriesNext]_(Series!seriesVars)
           /\ NothingRewinds /\ Settled => [Series!StableNext]_(Series!seriesVars)
<1> USE DEF Series!seriesVars, Series!StableNext, Series!SeriesNext
<1>1. ASSUME UNCHANGED <<row, journal>> PROVE UNCHANGED Series!seriesVars
  BY <1>1
<1>2. ASSUME NEW w \in Writer, Commit(w) \/ CommitUnacknowledged(w)
      PROVE  Series!Publish
  BY <1>2, CommittedPublishes DEF Commit, CommitUnacknowledged
<1>3. CASE Boot \/ CliAssembles
  BY <1>3, BootIsSeriesStep DEF Boot, CliAssembles
<1>4. CASE RestoreBackup \/ LoseCounter
  BY <1>4, ForceStep, RestoreIsRewind DEF RestoreBackup, LoseCounter, NothingRewinds
<1>5. CASE \/ \E w \in Writer : BeginSave(w) \/ Mint(w) \/ Rollback(w)
           \/ BootUnreconciled \/ Crash \/ Tick \/ ClockStep \/ Backup \/ Promote
           \/ UNCHANGED vars
  BY <1>1, <1>5 DEF BeginSave, Mint, Rollback, BootUnreconciled, Crash, Tick, ClockStep,
                    Backup, Promote, vars
<1> QED BY <1>2, <1>3, <1>4, <1>5 DEF Next

\* Whatever takes the database back, what readers see is the abstract series: a
\* commit is one Publish, a restore or a lost counter is a Rewind, and the boot
\* that notices it continues under a later epoch (stream_sequencer.py reconcile).
THEOREM ImplementsRewoundSeries == SomeReconciliation => (Spec => RewoundSeries)
<1> SUFFICES ASSUME SomeReconciliation PROVE Spec => RewoundSeries
  OBVIOUS
<1>1. Init => Series!SeriesInit
  BY DEF Init, Series!SeriesInit, Series!Cold, NoRow
<1>2. MInv /\ [Next]_vars => MInv'
  BY ForceStep
<1>3. MInv /\ [Next]_vars => [Series!SeriesNext]_(Series!seriesVars)
  BY StepIsSeriesStep
<1> QED BY <1>1, <1>2, <1>3, ForceInit, PTL DEF Spec, RewoundSeries, Series!SeriesSpec

(***************************************************************************)
(* Where nothing takes the database back, no boot finds anything to renew. *)
(***************************************************************************)

LEMMA SettledStep ==
    ASSUME NothingRewinds, SInv, [Next]_vars
    PROVE  SInv'
<1>1. SomeReconciliation /\ MInv'
  <2>1. SomeReconciliation
    BY DEF NothingRewinds, SomeReconciliation
  <2> QED BY <2>1, ForceStep DEF SInv
<1>2. ASSUME UNCHANGED <<row, journal, cluster>> PROVE SInv'
  BY <1>1, <1>2 DEF SInv, Settled
<1>3. ASSUME NEW w \in Writer, Commit(w) \/ CommitUnacknowledged(w) PROVE SInv'
  <2>1. Committed(w)
    BY <1>3 DEF Commit, CommitUnacknowledged
  <2>2. row'.seq = Len(journal') /\ row'.cluster = row.cluster /\ cluster' = cluster
    BY <2>1, CommittedRow DEF SInv
  <2> QED BY <1>1, <2>2 DEF SInv, Settled
<1>4. CASE Boot \/ CliAssembles
  <2>1. Reconcile /\ UNCHANGED <<journal, cluster>>
    BY <1>4 DEF Boot, CliAssembles, Reconcile
  <2> QED BY <1>1, <2>1, BootedRow DEF SInv, Settled, Renewed, Kept
<1>5. CASE RestoreBackup \/ Promote \/ LoseCounter
  BY <1>5 DEF RestoreBackup, Promote, LoseCounter, NothingRewinds
<1>6. CASE \/ \E w \in Writer : BeginSave(w) \/ Mint(w) \/ Rollback(w)
           \/ BootUnreconciled \/ Crash \/ Tick \/ ClockStep \/ Backup
           \/ UNCHANGED vars
  BY <1>2, <1>6 DEF BeginSave, Mint, Rollback, BootUnreconciled, Crash, Tick, ClockStep,
                    Backup, vars, envVars
<1> QED BY <1>3, <1>4, <1>5, <1>6 DEF Next

\* Where nothing takes the database back, every behaviour of the write path is a
\* behaviour of the series that only grows: each commit is one Publish, the first
\* boot is Seed, and everything else is invisible to a reader.
THEOREM ImplementsStableSeries == NothingRewinds => (Spec => StableSeries)
<1> SUFFICES ASSUME NothingRewinds PROVE Spec => StableSeries
  OBVIOUS
<1>1. Init => Series!SeriesInit
  BY DEF Init, Series!SeriesInit, Series!Cold, NoRow
<1>2. Init => SInv
  <2>1. Init => Settled
    BY DEF Init, Settled, NoRow, Null
  <2> QED BY <2>1, ForceInit DEF SInv
<1>3. SInv /\ [Next]_vars => SInv'
  BY SettledStep
<1>4. SInv /\ [Next]_vars => [Series!StableNext]_(Series!seriesVars)
  BY StepIsSeriesStep DEF SInv, NothingRewinds, SomeReconciliation
<1> QED BY <1>1, <1>2, <1>3, <1>4, PTL DEF Spec, StableSeries, Series!StableSpec

(***************************************************************************)
(* Epochs are paid for.                                                    *)
(***************************************************************************)

\* The same epochs, or fewer, and no rewind that was paid out goes unpaid.
LEMMA StillPaid ==
    ASSUME EpochsArePaid, EpochsInUse' \subseteq EpochsInUse,
           rewinds \in Nat, rewinds' \in Nat,
           \/ rewinds' = rewinds /\ (Settled => Settled')
           \/ rewinds' = rewinds + 1
    PROVE  EpochsArePaid'
<1>1. PICK f \in [EpochsInUse -> 0..rewinds] : Pays(f)
  BY DEF EpochsArePaid
<1> DEFINE g == [e \in EpochsInUse' |-> f[e]]
<1>2. \A e \in EpochsInUse' : f[e] \in 0..rewinds /\ f[e] \in 0..rewinds'
  BY <1>1
<1>3. g \in [EpochsInUse' -> 0..rewinds']
  BY <1>2
<1>4. \A d, e \in EpochsInUse' : d # e => g[d] # g[e]
  BY <1>1 DEF Pays
<1>5. ~Settled' => \A e \in EpochsInUse' : g[e] # rewinds'
  <2>1. CASE rewinds' = rewinds /\ (Settled => Settled')
    BY <1>1, <2>1 DEF Pays
  <2>2. CASE rewinds' = rewinds + 1
    BY <1>2, <2>2
  <2> QED BY <2>1, <2>2
<1> HIDE DEF g
<1>6. \E h \in [EpochsInUse' -> 0..rewinds'] :
        /\ \A d, e \in EpochsInUse' : d # e => h[d] # h[e]
        /\ ~Settled' => \A e \in EpochsInUse' : h[e] # rewinds'
  BY <1>3, <1>4, <1>5
<1> QED BY <1>6 DEF EpochsArePaid, Pays

\* A boot renews the epoch once for the rewind it noticed.
LEMMA NewEpochIsPaid ==
    ASSUME EpochsArePaid, NEW new, EpochsInUse' \subseteq EpochsInUse \union {new},
           rewinds \in Nat, rewinds' = rewinds, ~Settled, Settled'
    PROVE  EpochsArePaid'
<1>1. PICK f \in [EpochsInUse -> 0..rewinds] : Pays(f)
  BY DEF EpochsArePaid
<1> DEFINE g == [e \in EpochsInUse' |-> IF e \in EpochsInUse THEN f[e] ELSE rewinds]
<1>2. \A e \in EpochsInUse' : g[e] \in 0..rewinds'
  BY <1>1
<1>3. g \in [EpochsInUse' -> 0..rewinds']
  BY <1>2
<1>4. \A d, e \in EpochsInUse' : d # e => g[d] # g[e]
  <2> SUFFICES ASSUME NEW d \in EpochsInUse', NEW e \in EpochsInUse', d # e PROVE g[d] # g[e]
    OBVIOUS
  <2>1. \A x \in EpochsInUse : f[x] # rewinds
    BY <1>1 DEF Pays
  <2>2. d \in EpochsInUse /\ e \in EpochsInUse => f[d] # f[e]
    BY <1>1 DEF Pays
  <2>3. d \in EpochsInUse \/ e \in EpochsInUse
    OBVIOUS
  <2> QED BY <2>1, <2>2, <2>3
<1> HIDE DEF g
<1>5. \E h \in [EpochsInUse' -> 0..rewinds'] :
        \A d, e \in EpochsInUse' : d # e => h[d] # h[e]
  BY <1>3, <1>4
<1> QED BY <1>5 DEF EpochsArePaid, Pays

LEMMA PaidInit == Init => CInv
<1> SUFFICES ASSUME Init PROVE CInv
  OBVIOUS
<1>1. EpochsInUse = {1} /\ Settled /\ rewinds = 0
  BY DEF Init, EpochsInUse, Settled, NoRow, Null
<1>2. [e \in {1} |-> 0] \in [EpochsInUse -> 0..rewinds] /\ Pays([e \in {1} |-> 0])
  BY <1>1 DEF Pays
<1> QED BY <1>2, ForceInit DEF CInv, EpochsArePaid

LEMMA PaidStep ==
    ASSUME SomeReconciliation, CInv, [Next]_vars
    PROVE  CInv'
<1>1. MInv' /\ rewinds \in Nat /\ rewinds' \in Nat
  BY ForceStep DEF CInv, MInv, IInv, TypeOK
<1>2. ASSUME EpochsInUse' \subseteq EpochsInUse, rewinds' = rewinds, Settled => Settled'
      PROVE  CInv'
  BY <1>1, <1>2, StillPaid DEF CInv
<1>3. ASSUME UNCHANGED <<row, journal, cluster, rewinds, published, backup>> PROVE CInv'
  BY <1>2, <1>3 DEF EpochsInUse, Settled
<1>4. ASSUME NEW w \in Writer, Commit(w) \/ CommitUnacknowledged(w) PROVE CInv'
  <2> DEFINE s == StampOf(pending[w])
  <2>1. Committed(w) /\ MInv
    BY <1>4 DEF Commit, CommitUnacknowledged, CInv
  <2>2. /\ row.seq = Len(journal) /\ row'.seq = Len(journal') /\ row'.cluster = row.cluster
        /\ row'.epoch = EpochInForce /\ s.epoch = EpochInForce
        /\ published \in Seq(Stamp) /\ published' = Append(published, s)
        /\ UNCHANGED <<cluster, backup, rewinds>>
    BY <2>1, CommittedRow
  <2> HIDE DEF s
  <2>3. EpochInForce \in EpochsInUse
    BY DEF EpochInForce, EpochsInUse
  <2>4. {published'[i].epoch : i \in DOMAIN published'}
            \subseteq {published[i].epoch : i \in DOMAIN published} \union {EpochInForce}
    BY <2>2
  <2>5. EpochsInUse' \subseteq EpochsInUse
    BY <2>2, <2>3, <2>4 DEF EpochsInUse
  <2>6. Settled => Settled'
    BY <2>2 DEF Settled
  <2> QED BY <1>2, <2>2, <2>5, <2>6
<1>5. CASE Boot \/ CliAssembles
  <2>1. Reconcile /\ UNCHANGED <<journal, cluster, published, backup, rewinds>> /\ MInv
    BY <1>5 DEF Boot, CliAssembles, Reconcile, CInv
  <2>2. row'.seq = Len(journal) /\ (Renewed \/ Kept)
    BY <2>1, BootedRow
  <2>3. EpochsInUse' \subseteq EpochsInUse \union {row'.epoch}
    BY <2>1 DEF EpochsInUse
  <2>4. CASE Renewed
    <3>1. ~Settled /\ Settled'
      BY <2>1, <2>2, <2>4 DEF Renewed, Settled
    <3> QED BY <3>1, <2>1, <2>3, <1>1, NewEpochIsPaid DEF CInv
  <2>5. CASE Kept
    <3>1. row'.epoch \in EpochsInUse
      BY <2>5 DEF Kept, EpochInForce, EpochsInUse
    <3>2. Settled => Settled'
      BY <2>1, <2>2, <2>5 DEF Kept, Settled
    <3> QED BY <1>2, <2>1, <2>3, <3>1, <3>2
  <2> QED BY <2>2, <2>4, <2>5
<1>6. CASE Backup
  <2>1. UNCHANGED <<row, journal, cluster, published, rewinds>> /\ backup'.row = row
    BY <1>6 DEF Backup
  <2> QED BY <1>2, <2>1 DEF EpochsInUse, Settled
<1>7. CASE RestoreBackup \/ Promote \/ LoseCounter
  <2>1. /\ rewinds' = rewinds + 1 /\ UNCHANGED <<published, backup>>
        /\ row' \in {row, backup.row, NoRow}
    BY <1>7 DEF RestoreBackup, Promote, LoseCounter, Rewinding
  <2>2. EpochsInUse' \subseteq EpochsInUse
    BY <2>1 DEF EpochsInUse
  <2> QED BY <1>1, <2>1, <2>2, StillPaid DEF CInv
<1>8. CASE \/ \E w \in Writer : BeginSave(w) \/ Mint(w) \/ Rollback(w)
           \/ BootUnreconciled \/ Crash \/ Tick \/ ClockStep \/ UNCHANGED vars
  BY <1>3, <1>8 DEF BeginSave, Mint, Rollback, BootUnreconciled, Crash, Tick, ClockStep,
                    vars, envVars
<1> QED BY <1>4, <1>5, <1>6, <1>7, <1>8 DEF Next

\* However often engines boot, crash and assemble, with or without a readable
\* fingerprint and over any number of rewinds, the stream spends at most one
\* epoch on each rewind beside its first (stream_sequencer.py _reconcile_one).
THEOREM EpochsAreNotWasted == SomeReconciliation => (Spec => []EpochsNeedRewinds)
<1> SUFFICES ASSUME SomeReconciliation PROVE Spec => []EpochsNeedRewinds
  OBVIOUS
<1>1. CInv /\ [Next]_vars => CInv'
  BY PaidStep
<1>2. CInv => EpochsNeedRewinds
  <2> SUFFICES ASSUME CInv PROVE EpochsNeedRewinds
    OBVIOUS
  <2> DEFINE S == {published[i].epoch : i \in DOMAIN published}
  <2>1. PICK f \in [EpochsInUse -> 0..rewinds] : Pays(f)
    BY DEF CInv, EpochsArePaid
  <2>2. S \subseteq EpochsInUse
    BY DEF EpochsInUse
  <2> DEFINE g == [e \in S |-> f[e]]
  <2>3. g \in [S -> 0..rewinds] /\ DOMAIN g = S
    BY <2>1, <2>2
  <2>4. \A d, e \in DOMAIN g : d # e => g[d] # g[e]
    BY <2>1, <2>2 DEF Pays
  <2> HIDE DEF g
  <2> QED BY <2>3, <2>4 DEF EpochsNeedRewinds
<1> QED BY <1>1, <1>2, PaidInit, PTL DEF Spec
=============================================================================
