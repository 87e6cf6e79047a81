---------------------------- MODULE ArchiveExport ----------------------------
(***************************************************************************)
(* The file archive of one stream (OutcomeArchiveExporter.export): one     *)
(* file for each day of the journal, rewritten in full, and a record in    *)
(* archive_export_log of the closed days that were handed over.  A weekly  *)
(* job and the command line may export at the same time.                   *)
(*                                                                         *)
(* The journal only grows, so what is read of a day is how many rows it    *)
(* had, and a file is the number of them it holds.                         *)
(***************************************************************************)
EXTENDS Integers

CONSTANTS
    Exporter,     \* exports that may run at the same time
    Weekly,       \* the one among them that runs again and again
    LastDay,      \* bound: days
    MaxRows,      \* bound: rows of a day
    MaxCrashes    \* bound: exports that are cut short

ASSUME ArchiveAssumption ==
    /\ Weekly \in Exporter /\ LastDay \in Nat \ {0}
    /\ MaxRows \in Nat /\ MaxCrashes \in Nat

VARIABLES
    today,       \* the day of the clock
    journal,     \* outcomes: rows of each day
    files,       \* the archive: rows in each day's file, or NoFile
    flags,       \* archive_export_log: days handed over
    export,      \* each export's [at, now, read, todo, written, mode]
    disturbed,   \* history: a day changed, or was peeked at, while it closed
    crashes      \* history

archiveVars == <<today, journal, files, flags, export, disturbed, crashes>>

Day == 1 .. LastDay
NoFile == -1
Mode == {"incremental", "scoped", "peek"}   \* --incremental, a selector, --include-open

NotRunning == [at |-> "idle", now |-> 0, read |-> [d \in Day |-> 0], todo |-> {},
               written |-> {}, mode |-> "scoped"]
Ended(e) == export' = [export EXCEPT ![e] = NotRunning]

(***************************************************************************)
(* The journal and the clock.                                              *)
(***************************************************************************)

\* A row carries the time of its analysis and commits a little later.
Commit ==
    /\ \E d \in {today, today - 1} \cap Day :
        /\ journal[d] < MaxRows
        /\ journal' = [journal EXCEPT ![d] = @ + 1]
        /\ disturbed' = (disturbed \/ d < today)
    /\ UNCHANGED <<today, files, flags, export, crashes>>

Peeking(e) == export[e].at # "idle" /\ export[e].mode = "peek"

Midnight ==
    /\ today <= LastDay
    /\ today' = today + 1
    /\ disturbed' = (disturbed \/ \E e \in Exporter : Peeking(e))
    /\ UNCHANGED <<journal, files, flags, export, crashes>>

(***************************************************************************)
(* export.                                                                 *)
(***************************************************************************)

\* The clock, then the journal: a midnight in between would leave the day that
\* closed for the next export, which the steps after this one do as well.
Begin(e) ==
    /\ export[e].at = "idle"
    /\ \E mode \in Mode :
        /\ e = Weekly => mode = "incremental"
        /\ export' = [export EXCEPT ![e] = [NotRunning EXCEPT !.at = "selecting", !.now = today,
                                                              !.read = journal, !.mode = mode]]
    /\ UNCHANGED <<today, journal, files, flags, disturbed, crashes>>

Closed(d, now) == d < now

\* The days to write: those with rows that the mode selects.
Selected(e) ==
    LET x == export[e]
        withRows == {d \in Day : x.read[d] > 0}
        closed == {d \in withRows : Closed(d, x.now)}
    IN  CASE x.mode = "incremental" -> {closed \ flags}
          [] x.mode = "scoped" -> SUBSET closed
          [] OTHER -> {days \union (withRows \ closed) : days \in SUBSET closed}

Select(e) ==
    /\ export[e].at = "selecting"
    /\ \E days \in Selected(e) : export' = [export EXCEPT ![e].todo = days, ![e].at = "writing"]
    /\ UNCHANGED <<today, journal, files, flags, disturbed, crashes>>

\* A whole file from the journal as it was read, in place by an atomic rename.
Content(e, d) == export[e].read[d]

WriteFile(e) ==
    /\ export[e].at = "writing"
    /\ \E d \in export[e].todo :
        /\ \A other \in export[e].todo : d <= other
        /\ files' = [files EXCEPT ![d] = Content(e, d)]
        /\ export' = [export EXCEPT ![e].todo = @ \ {d}, ![e].written = @ \union {d}]
    /\ UNCHANGED <<today, journal, flags, disturbed, crashes>>

ClosedOf(e, days) == {d \in days : Closed(d, export[e].now)}

\* Faulty variant of Flag: days are flagged before their files are written.
FlagFirst(e) ==
    /\ export[e].at = "writing"
    /\ flags' = flags \union ClosedOf(e, export[e].todo)
    /\ IF export[e].todo = {} THEN Ended(e) ELSE UNCHANGED export
    /\ UNCHANGED <<today, journal, files, disturbed, crashes>>

\* The closed days are flagged together, once every file is written.
Flag(e) ==
    /\ export[e].at = "writing" /\ export[e].todo = {}
    /\ flags' = flags \union ClosedOf(e, export[e].written)
    /\ Ended(e)
    /\ UNCHANGED <<today, journal, files, disturbed, crashes>>

\* Killed, a full disk, a lost connection.
CutShort(e) ==
    /\ crashes < MaxCrashes /\ export[e].at # "idle"
    /\ crashes' = crashes + 1
    /\ Ended(e)
    /\ UNCHANGED <<today, journal, files, flags, disturbed>>

ArchiveInit ==
    /\ today = 1
    /\ journal = [d \in Day |-> 0]
    /\ files = [d \in Day |-> NoFile]
    /\ flags = {}
    /\ export = [e \in Exporter |-> NotRunning]
    /\ disturbed = FALSE /\ crashes = 0

Exporting(e) == Begin(e) \/ Select(e) \/ WriteFile(e) \/ Flag(e)

ArchiveNext ==
    \/ Commit \/ Midnight
    \/ \E e \in Exporter : Exporting(e) \/ CutShort(e)

ArchiveSpec == ArchiveInit /\ [][ArchiveNext]_archiveVars

(***************************************************************************)
(* Properties.                                                             *)
(***************************************************************************)

\* Every variable has its type.
ArchiveTypeOK ==
    /\ today \in 1 .. LastDay + 1
    /\ journal \in [Day -> 0 .. MaxRows]
    /\ files \in [Day -> {NoFile} \union 0 .. MaxRows]
    /\ flags \subseteq Day
    /\ export \in [Exporter ->
            [at : {"idle", "selecting", "writing"}, now : 0 .. LastDay + 1,
             read : [Day -> 0 .. MaxRows], todo : SUBSET Day, written : SUBSET Day, mode : Mode]]
    /\ disturbed \in BOOLEAN /\ crashes \in 0 .. MaxCrashes

\* What was handed over is the whole day and stays so, whichever exports raced
\* for it or were cut short: as long as no row of a day commits after midnight
\* and no peek at a day is still being written then (outcome_exporter.py).
HandedOverIsWhole ==
    ~disturbed => \A d \in flags : files[d] = journal[d]

\* Every day that closed with rows is handed over by some export.
ClosedDaysAreHandedOver ==
    \A d \in Day : journal[d] > 0 /\ d < today ~> d \in flags
=============================================================================
