--------------------------- MODULE OutcomeJournal ---------------------------
(***************************************************************************)
(* The write path of one signal stream: OutcomeStore.save stamping and     *)
(* inserting envelopes through StreamSequencer.mint, several passes at     *)
(* once, and StreamSequencer.reconcile deciding at boot whether the series *)
(* was taken back to an earlier state.                                     *)
(*                                                                         *)
(* The counter row is read and written under PostgreSQL's row lock, held   *)
(* from mint to COMMIT; a save whose transaction rolls back leaves the row *)
(* as it was.  Streams share nothing, so one stream is modelled.           *)
(***************************************************************************)
EXTENDS Integers, Sequences

CONSTANTS
    Writer,         \* threads that may persist a pass of this stream
    Faults,         \* what the environment may do, a subset of FaultKinds
    MaxPublished,   \* bound: envelopes ever committed
    MaxWall,        \* bound: the wall clock, in milliseconds
    MaxRewinds      \* bound: rewinds of the database

FaultKinds == {
    "clock_step",         \* the wall clock is corrected backwards
    "lost_ack",           \* COMMIT succeeds, the client sees an error
    "pitr",               \* restore to a backup on a new timeline or cluster
    "promotion",          \* a standby takes over: new timeline, same data
    "unreadable_cluster", \* pg_control_* is refused at some boots
    "counter_reset",      \* stream_seq is lost, the outcomes survive
    "early_backup",       \* a backup may predate the stream's counter row
    "reconcile_skipped"}  \* boot reconciliation failed and was logged only

ASSUME JournalAssumption ==
    /\ Writer # {}
    /\ Faults \subseteq FaultKinds
    /\ MaxPublished \in Nat /\ MaxWall \in Nat /\ MaxRewinds \in Nat

VARIABLES
    row,        \* the committed row of stream_seq, NoRow while there is none
    journal,    \* the committed rows of outcomes, in commit order
    pc,         \* where each writer stands in save()
    now,        \* the clock each writer sampled
    pending,    \* the row as each open transaction has updated it
    envelope,   \* the stamp on the envelope each writer holds in memory
    up,         \* an engine process is assembled and may mint
    cluster,    \* <system_identifier>/<timeline_id> of the database
    wall,       \* the wall clock, milliseconds
    second,     \* the same clock in whole seconds, which epochs are made of
    backup,     \* the state a restore would bring back
    rewinds,    \* how often the database was rewound
    published   \* history: every stamp ever committed, in commit order

saveVars == <<pc, now, pending, envelope>>
envVars == <<up, cluster, wall, second, backup, rewinds>>
vars == <<row, journal, saveVars, envVars, published>>

Larger(a, b) == IF a < b THEN b ELSE a
IsMaximum(m, S) == m \in S /\ \A n \in S : n <= m
MaxOrZero(S) == IF \E m \in S : IsMaximum(m, S) THEN CHOOSE m \in S : IsMaximum(m, S) ELSE 0

\* SQL NULL, for columns whose real values are positive.
Null == 0
NoRow == [seq |-> 0, epoch |-> 0, last |-> Null, resyncs |-> 0,
          correction |-> 0, cluster |-> Null]
NoStamp == [seq |-> 0, epoch |-> 0, avail |-> Null]

Row == [seq : Nat, epoch : Nat, last : Nat, resyncs : Nat,
        correction : Nat, cluster : Nat]
Stamp == [seq : Nat, epoch : Nat, avail : Nat]
Phase == {"idle", "sampled", "minted", "saved", "failed"}

(***************************************************************************)
(* The counter row.                                                        *)
(***************************************************************************)

\* INSERT ... ON CONFLICT (pipeline_id) DO NOTHING with the column defaults.
Ensured(r, c) == IF r = NoRow THEN [NoRow EXCEPT !.epoch = 1, !.cluster = c] ELSE r

\* Faulty variant of Minted: the correction is taken the wrong way round.
MintedSwapped(r, t) ==
    [r EXCEPT !.seq = r.seq + 1,
              !.last = Larger(t, r.last),
              !.correction = IF t < r.last THEN t - r.last ELSE r.correction]

\* Faulty variant of Minted: available_msc is the raw clock sample.
MintedUnclamped(r, t) == [r EXCEPT !.seq = r.seq + 1, !.last = t]

\* The UPDATE of mint: every SET expression reads the row's previous values.
Minted(r, t) ==
    LET held == r.last # Null /\ t < r.last
    IN  [r EXCEPT !.seq = r.seq + 1,
                  !.last = Larger(t, r.last),
                  !.resyncs = IF held THEN r.resyncs + 1 ELSE r.resyncs,
                  !.correction = IF held THEN Larger(r.correction, r.last - t)
                                         ELSE r.correction]

StampOf(r) == [seq |-> r.seq, epoch |-> r.epoch, avail |-> r.last]

\* _journal_head: the highest seq and epoch the outcomes carry, 0 and 0 if none.
JournalSeq(j) == MaxOrZero({j[i].seq : i \in DOMAIN j})
JournalEpoch(j) == MaxOrZero({j[i].epoch : i \in DOMAIN j})

CounterBehind(r) == JournalSeq(journal) > r.seq

\* Faulty variant of ClusterChanged: an unreadable fingerprint is another one.
ClusterDiffers(r, c) == c # r.cluster

ClusterChanged(r, c) == c # Null /\ r.cluster # Null /\ c # r.cluster

\* Faulty variant of NextEpoch: neither the journal nor the clock is asked.
NextEpochFromRow(r) == r.epoch + 1

\* The new epoch exceeds the stored one, every one in the journal, and is at
\* least the wall clock in seconds.
NextEpoch(r) == Larger(Larger(r.epoch, JournalEpoch(journal)) + 1, second)

\* Faulty variant of Bumped: the position is not taken from the journal.
BumpedInPlace(r, c) == [r EXCEPT !.epoch = NextEpoch(r), !.cluster = c, !.last = Null]

\* Faulty variant of Bumped: the new fingerprint is not recorded.
BumpedUnbound(r, c) == [r EXCEPT !.seq = Larger(r.seq, JournalSeq(journal)),
                                 !.epoch = NextEpoch(r),
                                 !.last = Null]

Bumped(r, c) == [r EXCEPT !.seq = Larger(r.seq, JournalSeq(journal)),
                          !.epoch = NextEpoch(r),
                          !.cluster = c,
                          !.last = Null]

\* _reconcile_one on the row r with the fingerprint c (Null when unreadable).
Reconciled(r, c) ==
    IF CounterBehind(r) \/ ClusterChanged(r, c) THEN Bumped(r, c)
    ELSE IF r.cluster = Null THEN [r EXCEPT !.cluster = c]
    ELSE r

(***************************************************************************)
(* Saving one envelope.                                                    *)
(***************************************************************************)

\* Faulty variant of LockFree: mint reads the counter without locking its row.
NoRowLock == TRUE

LockFree == \A w \in Writer : pc[w] # "minted"
InSave(w) == pc[w] \in {"sampled", "minted"}

\* The connection is up and now_msc is sampled, before the row lock is asked for.
BeginSave(w) ==
    /\ up
    /\ ~InSave(w)
    /\ Len(published) < MaxPublished
    /\ pc' = [pc EXCEPT ![w] = "sampled"]
    /\ now' = [now EXCEPT ![w] = wall]
    /\ envelope' = [envelope EXCEPT ![w] = NoStamp]
    /\ UNCHANGED <<row, journal, pending, envVars, published>>

\* mint: waits for the row lock, updates the row inside the transaction, and
\* save writes the stamp into the envelope before anything is inserted.
Mint(w) ==
    /\ pc[w] = "sampled"
    /\ LockFree
    /\ LET r == Minted(Ensured(row, Null), now[w])
       IN  /\ pending' = [pending EXCEPT ![w] = r]
           /\ envelope' = [envelope EXCEPT ![w] = StampOf(r)]
    /\ pc' = [pc EXCEPT ![w] = "minted"]
    /\ UNCHANGED <<row, journal, now, envVars, published>>

\* The transaction ends: writer w forgets its clock sample and pending row.
EndSave(w, outcome) ==
    /\ pc' = [pc EXCEPT ![w] = outcome]
    /\ now' = [now EXCEPT ![w] = Null]
    /\ pending' = [pending EXCEPT ![w] = NoRow]
    /\ UNCHANGED envelope

\* INSERT and COMMIT: the row, the outcome and the notification become visible
\* together.
Committed(w) ==
    /\ pc[w] = "minted"
    /\ row' = pending[w]
    /\ journal' = Append(journal, StampOf(pending[w]))
    /\ published' = Append(published, StampOf(pending[w]))
    /\ UNCHANGED envVars

Commit(w) == Committed(w) /\ EndSave(w, "saved")

\* The connection breaks after the server committed: save raises all the same.
CommitUnacknowledged(w) ==
    /\ "lost_ack" \in Faults
    /\ Committed(w)
    /\ EndSave(w, "failed")

\* Faulty variant of Rollback: a minted number is burnt, as a sequence burns it.
RollbackBurning(w) ==
    /\ InSave(w)
    /\ EndSave(w, "failed")
    /\ row' = IF pc[w] = "minted" THEN pending[w] ELSE row
    /\ UNCHANGED <<journal, envVars, published>>

\* Any psycopg.Error on the way rolls the transaction back; the runner serves
\* the envelope with a VECTOR_STORE_ERROR.
Rollback(w) ==
    /\ InSave(w)
    /\ EndSave(w, "failed")
    /\ UNCHANGED <<row, journal, envVars, published>>

(***************************************************************************)
(* The process: boot with reconciliation, and death.                       *)
(***************************************************************************)

\* _cluster_id: the fingerprint, or Null where the functions are refused.
Fingerprint == IF "unreadable_cluster" \in Faults THEN {cluster, Null} ELSE {cluster}

Reconcile ==
    /\ LockFree
    /\ \E c \in Fingerprint : row' = Reconciled(Ensured(row, c), c)
    /\ UNCHANGED <<journal, saveVars, cluster, wall, second, backup, rewinds, published>>

\* build_runner reconciles the stream before a runner exists to mint into it.
Boot ==
    /\ ~up
    /\ up' = TRUE
    /\ Reconcile

\* _reconcile_stream never refuses the boot: a failure is one warning.
BootUnreconciled ==
    /\ "reconcile_skipped" \in Faults
    /\ ~up
    /\ up' = TRUE
    /\ UNCHANGED <<row, journal, saveVars, cluster, wall, second, backup, rewinds, published>>

\* run_cli assembles a runner of its own beside a running engine.
CliAssembles ==
    /\ up
    /\ Reconcile
    /\ UNCHANGED up

\* Every open transaction of a dead process is rolled back by the server.
Crash ==
    /\ up
    /\ up' = FALSE
    /\ pc' = [w \in Writer |-> "idle"]
    /\ now' = [w \in Writer |-> Null]
    /\ pending' = [w \in Writer |-> NoRow]
    /\ envelope' = [w \in Writer |-> NoStamp]
    /\ UNCHANGED <<row, journal, cluster, wall, second, backup, rewinds, published>>

(***************************************************************************)
(* The environment: the clock, backups and rewinds of the database.        *)
(***************************************************************************)

Tick ==
    /\ wall < MaxWall
    /\ wall' = wall + 1
    /\ \/ UNCHANGED second
       \/ second <= MaxWall /\ second' = second + 1
    /\ UNCHANGED <<row, journal, saveVars, up, cluster, backup, rewinds, published>>

\* An NTP correction or a VM resume, of less than the second epochs are made of.
ClockStep ==
    /\ "clock_step" \in Faults
    /\ wall > 1
    /\ wall' = wall - 1
    /\ UNCHANGED <<row, journal, saveVars, up, cluster, second, backup, rewinds, published>>

\* A backup holds the committed state only.
Backup ==
    /\ rewinds < MaxRewinds
    /\ row.cluster # Null \/ "early_backup" \in Faults
    /\ backup' = [taken |-> TRUE, row |-> row, journal |-> journal]
    /\ UNCHANGED <<row, journal, saveVars, up, cluster, wall, second, rewinds, published>>

\* Rewinds happen with the engine stopped, and take longer than a second.
Rewinding ==
    /\ ~up
    /\ rewinds < MaxRewinds
    /\ rewinds' = rewinds + 1
    /\ second' = second + 1
    /\ UNCHANGED <<saveVars, up, wall, backup, published>>

\* Point-in-time recovery, or a restore into a fresh cluster.
RestoreBackup ==
    /\ "pitr" \in Faults
    /\ backup.taken
    /\ row' = backup.row
    /\ journal' = backup.journal
    /\ cluster' = cluster + 1
    /\ Rewinding

Promote ==
    /\ "promotion" \in Faults
    /\ cluster' = cluster + 1
    /\ Rewinding
    /\ UNCHANGED <<row, journal>>

LoseCounter ==
    /\ "counter_reset" \in Faults
    /\ journal # <<>>
    /\ row' = NoRow
    /\ Rewinding
    /\ UNCHANGED <<journal, cluster>>

(***************************************************************************)
(* The specification.                                                      *)
(***************************************************************************)

Init ==
    /\ row = NoRow
    /\ journal = <<>>
    /\ pc = [w \in Writer |-> "idle"]
    /\ now = [w \in Writer |-> Null]
    /\ pending = [w \in Writer |-> NoRow]
    /\ envelope = [w \in Writer |-> NoStamp]
    /\ up = FALSE
    /\ cluster = 1
    /\ wall = 1
    /\ second = 2
    /\ backup = [taken |-> FALSE, row |-> NoRow, journal |-> <<>>]
    /\ rewinds = 0
    /\ published = <<>>

Next ==
    \/ \E w \in Writer : BeginSave(w)
    \/ \E w \in Writer : Mint(w)
    \/ \E w \in Writer : Commit(w)
    \/ \E w \in Writer : CommitUnacknowledged(w)
    \/ \E w \in Writer : Rollback(w)
    \/ Boot \/ BootUnreconciled \/ CliAssembles \/ Crash
    \/ Tick \/ ClockStep
    \/ Backup \/ RestoreBackup \/ Promote \/ LoseCounter

Spec == Init /\ [][Next]_vars

(***************************************************************************)
(* Properties.                                                             *)
(***************************************************************************)

TypeOK ==
    /\ row \in Row
    /\ journal \in Seq(Stamp)
    /\ pc \in [Writer -> Phase]
    /\ now \in [Writer -> Nat]
    /\ pending \in [Writer -> Row]
    /\ envelope \in [Writer -> Stamp]
    /\ up \in BOOLEAN
    /\ cluster \in Nat /\ wall \in Nat /\ second \in Nat
    /\ backup \in [taken : BOOLEAN, row : Row, journal : Seq(Stamp)]
    /\ rewinds \in Nat
    /\ published \in Seq(Stamp)

\* The committed outcomes are numbered 1, 2, 3, ... in commit order whatever
\* saves overlap, roll back, die or lose their acknowledgement: a gap in seq
\* means a record that never arrived (mint inside the envelope's transaction).
Gapless == \A i \in DOMAIN journal : journal[i].seq = i

\* While an engine runs, the position stream_head() reads from the counter row
\* is the highest seq a reader can find in the journal: never ahead of it
\* because of an open or rolled-back save, never behind it after a rewind.
HeadIsJournalEnd == up => row.seq = JournalSeq(journal)

\* (stream_epoch, seq) orders everything ever published by the instant it was
\* committed, across restores, promotions and a lost counter: no two envelopes
\* share an archive key, and a later one never sorts below an earlier one.
KeysInCommitOrder ==
    \A i, j \in DOMAIN published : i < j =>
        \/ published[i].epoch < published[j].epoch
        \/ /\ published[i].epoch = published[j].epoch
           /\ published[i].seq < published[j].seq

\* Within one epoch available_msc never steps back from one envelope to a later
\* one, although saves overlap and the wall clock is corrected: the consumer
\* gates no-look-ahead on it.
AvailableNeverBackwards ==
    \A i, j \in DOMAIN published :
        i < j /\ published[i].epoch = published[j].epoch
            => published[i].avail <= published[j].avail

\* Boot reconciliation does not cry wolf: however often engines boot, crash and
\* assemble, with or without a readable fingerprint, the series runs under at
\* most one more epoch than the database was rewound.
EpochsNeedRewinds == JournalEpoch(published) # 0 =>
    \E f \in [{published[i].epoch : i \in DOMAIN published} -> 0..rewinds] :
        \A e, g \in DOMAIN f : e # g => f[e] # f[g]

(***************************************************************************)
(* The journal implements the series its readers are promised.             *)
(***************************************************************************)

Series == INSTANCE SignalSeries WITH
    Epoch <- Nat,
    series <- [i \in DOMAIN journal |-> journal[i].epoch],
    head <- [seq |-> row.seq, epoch |-> row.epoch]

\* Where nothing rewinds the database, the write path implements a series that
\* only grows, one numbered envelope at a time.
StableSeries == Series!StableSpec

\* With rewinds, what readers see is still the series, rewound and continued
\* under a later epoch.
RewoundSeries == Series!SeriesSpec
=============================================================================
