----------------------------- MODULE Migrations -----------------------------
(***************************************************************************)
(* Schema migrations (MigrationRunner): the pending files applied in       *)
(* version order, each with its row in the schema_migrations ledger, under *)
(* a session-level advisory lock, by runners that may be started together, *)
(* fail, or be killed anywhere.                                            *)
(***************************************************************************)
EXTENDS Integers, FiniteSets

CONSTANTS
    Runner,          \* processes that run the migrate CLI
    Version,         \* the versions on disk, 1 .. the newest
    Transactional,   \* those without the finiex:no-transaction marker
    MaxFaults        \* bound: kills, failing files, ended lock sessions, edits

Free == "free"     \* nobody holds the advisory lock

ASSUME MigrationsAssumption ==
    /\ Free \notin Runner /\ Version \subseteq Nat /\ Transactional \subseteq Version
    /\ MaxFaults \in Nat

VARIABLES
    runner,     \* each runner's [at, todo] : where it stands, what it read as pending
    lock,       \* the runner whose session holds the advisory lock, or Free
    ledger,     \* schema_migrations: the versions recorded
    ran,        \* how often each file's statements have taken effect, capped
    drifted,    \* versions whose file was edited after it was recorded
    faults      \* history

migrationVars == <<runner, lock, ledger, ran, drifted, faults>>

Off == [at |-> "off", todo |-> {}]
At(r, at) == runner' = [runner EXCEPT ![r].at = at]

Pending == Version \ ledger
Oldest(todo) == CHOOSE v \in todo : \A u \in todo : v <= u

(***************************************************************************)
(* apply.                                                                  *)
(***************************************************************************)

\* status: drift is refused, nothing pending is a no-op, else wait for the lock.
Start(r) ==
    /\ runner[r].at = "off" /\ drifted = {}
    /\ IF Pending = {} THEN UNCHANGED runner ELSE At(r, "waiting")
    /\ UNCHANGED <<lock, ledger, ran, drifted, faults>>

\* Faulty variant of TakeLock: what was pending before the wait is applied.
TakeLockUnread(r) ==
    /\ runner[r].at = "waiting" /\ lock = Free
    /\ lock' = r
    /\ \E read \in SUBSET Version :
        /\ Pending \subseteq read
        /\ runner' = [runner EXCEPT ![r] = [at |-> "applying", todo |-> read]]
    /\ UNCHANGED <<ledger, ran, drifted, faults>>

\* pg_advisory_lock returns; what is pending is read again under it.
TakeLock(r) ==
    /\ runner[r].at = "waiting" /\ lock = Free
    /\ lock' = r
    /\ runner' = [runner EXCEPT ![r] = [at |-> "applying", todo |-> Pending]]
    /\ UNCHANGED <<ledger, ran, drifted, faults>>

Effect(v) == ran' = [ran EXCEPT ![v] = IF @ < 2 THEN @ + 1 ELSE @]

Fail(r) == runner' = [runner EXCEPT ![r] = Off] /\ lock' = IF lock = r THEN Free ELSE lock

\* Statements and row commit together; a row that is there already is a unique
\* violation that rolls both back and ends the run, as a failing file does.
ApplyInTransaction(r) ==
    /\ runner[r].at = "applying" /\ runner[r].todo # {}
    /\ LET v == Oldest(runner[r].todo)
       IN  /\ v \in Transactional
           /\ IF v \notin ledger
              THEN /\ Effect(v) /\ ledger' = ledger \union {v}
                   /\ runner' = [runner EXCEPT ![r].todo = @ \ {v}]
                   /\ UNCHANGED lock
              ELSE Fail(r) /\ UNCHANGED <<ledger, ran>>
    /\ UNCHANGED <<drifted, faults>>

\* On an autocommit connection the one statement takes effect by itself ...
RunStatement(r) ==
    /\ runner[r].at = "applying" /\ runner[r].todo # {}
    /\ LET v == Oldest(runner[r].todo) IN v \notin Transactional /\ Effect(v)
    /\ At(r, "recording")
    /\ UNCHANGED <<lock, ledger, drifted, faults>>

\* ... and the row is written after it.
RecordStatement(r) ==
    /\ runner[r].at = "recording"
    /\ LET v == Oldest(runner[r].todo)
       IN  IF v \notin ledger
           THEN /\ ledger' = ledger \union {v}
                /\ runner' = [runner EXCEPT ![r] = [at |-> "applying", todo |-> @.todo \ {v}]]
                /\ UNCHANGED lock
           ELSE Fail(r) /\ UNCHANGED ledger
    /\ UNCHANGED <<ran, drifted, faults>>

Finish(r) ==
    /\ runner[r].at = "applying" /\ runner[r].todo = {}
    /\ Fail(r)
    /\ UNCHANGED <<ledger, ran, drifted, faults>>

(***************************************************************************)
(* What goes wrong.                                                        *)
(***************************************************************************)

Fault == faults < MaxFaults /\ faults' = faults + 1

\* Killed, or a file fails: the open transaction rolls back, the session ends.
\* A file without a transaction may have taken effect when it fails.
Dies(r) ==
    /\ Fault /\ runner[r].at # "off"
    /\ Fail(r)
    /\ UNCHANGED <<ledger, ran, drifted>>

\* The server ends the session that holds the lock; the runner does not notice.
LosesLock ==
    /\ Fault /\ lock # Free
    /\ lock' = Free
    /\ UNCHANGED <<runner, ledger, ran, drifted>>

Edit(v) ==
    /\ Fault /\ v \in ledger \ drifted
    /\ drifted' = drifted \union {v}
    /\ UNCHANGED <<runner, lock, ledger, ran>>

\* The edit is reverted, as the refusal says to.
Revert(v) ==
    /\ v \in drifted
    /\ drifted' = drifted \ {v}
    /\ UNCHANGED <<runner, lock, ledger, ran, faults>>

MigrationsInit ==
    /\ runner = [r \in Runner |-> Off]
    /\ lock = Free
    /\ ledger = {}
    /\ ran = [v \in Version |-> 0]
    /\ drifted = {}
    /\ faults = 0

MigrationsNext ==
    \/ \E r \in Runner :
        \/ Start(r) \/ TakeLock(r) \/ ApplyInTransaction(r) \/ RunStatement(r)
        \/ RecordStatement(r) \/ Finish(r) \/ Dies(r)
    \/ LosesLock
    \/ \E v \in Version : Edit(v) \/ Revert(v)

MigrationsSpec == MigrationsInit /\ [][MigrationsNext]_migrationVars

(***************************************************************************)
(* Properties.                                                             *)
(***************************************************************************)

\* Every variable has its type.
MigrationsTypeOK ==
    /\ runner \in [Runner -> [at : {"off", "waiting", "applying", "recording"},
                              todo : SUBSET Version]]
    /\ lock \in Runner \union {Free}
    /\ ledger \subseteq Version /\ drifted \subseteq ledger
    /\ ran \in [Version -> 0 .. 2]
    /\ faults \in 0 .. MaxFaults

\* A transactional file has taken effect exactly as often as the ledger says:
\* never halfway, never twice, whoever dies where and even when the lock is lost
\* under a runner (migration_runner.py _apply_in_transaction).
ApplyOnceEver ==
    \A v \in Transactional : ran[v] = IF v \in ledger THEN 1 ELSE 0

\* A file without a transaction may have taken effect unrecorded; unless a
\* runner died or lost its lock it too has taken effect once.
RecordedHasRun ==
    \A v \in Version :
        /\ v \in ledger => ran[v] > 0
        /\ faults = 0 => ran[v] <= 1

\* The schema is always some prefix of the files, and everything before it has
\* taken effect (migration_runner.py apply).
LedgerIsAPrefix ==
    \A v \in Version : ran[v] > 0 => \A u \in Version : u < v => u \in ledger

\* Runners that overlap, die or lose their lock leave a schema that one runner would
\* have made (migration_runner.py apply).
MigrationsApplyOnce == ApplyOnceEver /\ RecordedHasRun /\ LedgerIsAPrefix
=============================================================================
