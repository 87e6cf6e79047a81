-------------------------- MODULE BreakingEpisodes --------------------------
(***************************************************************************)
(* The identity of a breaking story.  Every evaluation pass is folded into *)
(* the episode tracker (BreakingEpisodeTracker over BreakingEpisodeRule),  *)
(* which opens a story on a breaking verdict, keeps it open while the      *)
(* urgency holds, and closes it when Gap has passed without either.  Each  *)
(* pass inside a story is stamped with the story's id before its envelope  *)
(* is saved; the registry row is written in the same transaction.  The     *)
(* tracker is memory: a restart replays the last Window of the journal.    *)
(*                                                                         *)
(* One pipeline and one episode key: trackers and keys share nothing.  An  *)
(* id is <pipeline>:<key>:<start>, so its start stands for it; 0 is None.  *)
(***************************************************************************)
EXTENDS Integers, Sequences, FiniteSets

CONSTANTS
    Pass,       \* threads that run a pass; more than one lets passes overlap
    Gap,        \* breaking.episode_gap_minutes
    Window,     \* the seed window, max(2 * gap, episode_seed_hours)
    Faults,     \* what goes wrong, a subset of FaultKinds
    MaxLegacy,  \* bound: envelopes older than the episode fields
    MaxClock,   \* bound: the clock
    MaxRows     \* bound: envelopes in the journal

FaultKinds == {"crash", "save_fails", "seed_fails", "job_crash"}

ASSUME EpisodeAssumption ==
    /\ Pass # {}
    /\ Gap \in Nat /\ Window \in Nat
    /\ Faults \subseteq FaultKinds
    /\ MaxLegacy \in Nat /\ MaxClock \in Nat /\ MaxRows \in Nat

VARIABLES
    journal,    \* the committed envelopes, in commit order
    registry,   \* breaking_episodes: id -> row
    tracker,    \* the tracker of the running engine, for this key
    engine,     \* "down" or "up"
    pass,       \* where each pass stands and the envelope it holds
    clock,
    blind       \* history: an engine has started without its seed

vars == <<journal, registry, tracker, engine, pass, clock, blind>>

\* is_breaking; urgency at or above the exit threshold; below it; a pass that
\* evaluated nothing, whose HOLD rows count as a dip.
Verdict == {"breaking", "hold", "dip", "error"}
Holding == {"breaking", "hold"}
Row == [ts : Nat, verdict : Verdict, id : Nat, edge : BOOLEAN]
Entry == [started : Nat, last : Nat, passes : Nat]
Tracker == [open : BOOLEAN, started : Nat, last : Nat, id : Nat]
Envelope == [at : {"idle", "assembled", "stamped"}, row : Row, started : Nat]

Closed == [open |-> FALSE, started |-> 0, last |-> 0, id |-> 0]
Stamp(ts, verdict, id, edge) == [ts |-> ts, verdict |-> verdict, id |-> id, edge |-> edge]
Unstamped(ts, verdict) == Stamp(ts, verdict, 0, FALSE)
NoRow == Unstamped(0, "dip")
Idle == [at |-> "idle", row |-> NoRow, started |-> 0]

(***************************************************************************)
(* The rule and the tracker.                                               *)
(***************************************************************************)

\* Lazily closed: the gap ran out before this pass.
Lapsed(tr, ts) == tr.open /\ ts - tr.last > Gap

Opens(tr, row) == row.verdict = "breaking" /\ (~tr.open \/ Lapsed(tr, row.ts))

\* observe: a replayed opener keeps the id it carries, a live one is minted.
Observed(tr, row) ==
    IF Opens(tr, row)
    THEN [open |-> TRUE, started |-> row.ts, last |-> row.ts,
          id |-> IF row.id # 0 THEN row.id ELSE row.ts]
    ELSE IF ~tr.open \/ Lapsed(tr, row.ts) THEN Closed
    ELSE IF row.verdict \in Holding THEN [tr EXCEPT !.last = row.ts]
    ELSE tr

\* What observe writes onto the results: every pass inside a story has its id.
Stamped(tr, row) ==
    Stamp(row.ts, row.verdict, Observed(tr, row).id, Opens(tr, row))

Seen(started, last, passes) == [started |-> started, last |-> last, passes |-> passes]

\* Faulty variant of Upserted: a continuation overwrites last_seen_at.
UpsertedLatest(reg, row, started) ==
    IF row.id = 0 THEN reg
    ELSE [i \in DOMAIN reg \union {row.id} |->
            IF i # row.id THEN reg[i]
            ELSE IF i \notin DOMAIN reg THEN Seen(started, row.ts, 1)
            ELSE Seen(reg[i].started, row.ts, reg[i].passes + 1)]

\* INSERT ... ON CONFLICT (episode_id) DO UPDATE; passes counts newer ones only.
Upserted(reg, row, started) ==
    IF row.id = 0 THEN reg
    ELSE [i \in DOMAIN reg \union {row.id} |->
            IF i # row.id THEN reg[i]
            ELSE IF i \notin DOMAIN reg THEN Seen(started, row.ts, 1)
            ELSE IF row.ts > reg[i].last THEN Seen(reg[i].started, row.ts, reg[i].passes + 1)
            ELSE reg[i]]

(***************************************************************************)
(* One pass of the pipeline.                                               *)
(***************************************************************************)

\* The runner evaluates and takes the envelope's timestamp.
Assemble(p, v) ==
    /\ engine = "up" /\ pass[p].at = "idle" /\ clock < MaxClock
    /\ clock' = clock + 1
    /\ pass' = [pass EXCEPT ![p] = [at |-> "assembled", started |-> 0, row |-> Unstamped(clock', v)]]
    /\ UNCHANGED <<journal, registry, tracker, engine, blind>>

Observe(p) ==
    /\ engine = "up" /\ pass[p].at = "assembled"
    /\ tracker' = Observed(tracker, pass[p].row)
    /\ pass' = [pass EXCEPT ![p] = [at |-> "stamped", started |-> tracker'.started,
                                    row |-> Stamped(tracker, pass[p].row)]]
    /\ UNCHANGED <<journal, registry, engine, clock, blind>>

\* The journal row and the registry row commit together or not at all.
Persist(p) ==
    /\ engine = "up" /\ pass[p].at = "stamped" /\ Len(journal) < MaxRows
    /\ journal' = Append(journal, pass[p].row)
    /\ registry' = Upserted(registry, pass[p].row, pass[p].started)
    /\ pass' = [pass EXCEPT ![p] = Idle]
    /\ UNCHANGED <<tracker, engine, clock, blind>>

\* A failed save degrades the pass; the tracker has already moved on.
PersistFails(p) ==
    /\ "save_fails" \in Faults
    /\ engine = "up" /\ pass[p].at = "stamped"
    /\ pass' = [pass EXCEPT ![p] = Idle]
    /\ UNCHANGED <<journal, registry, tracker, engine, clock, blind>>

(***************************************************************************)
(* Restarts.                                                               *)
(***************************************************************************)

Crash ==
    /\ "crash" \in Faults /\ engine # "down"
    /\ engine' = "down"
    /\ tracker' = Closed
    /\ pass' = [p \in Pass |-> Idle]
    /\ UNCHANGED <<journal, registry, clock, blind>>

\* Faulty variant of SeedsBefore: the newest envelope is replayed first.
SeedsAfter(i, j) ==
    journal[i].ts > journal[j].ts \/ (journal[i].ts = journal[j].ts /\ i > j)

\* ORDER BY ts ASC, id ASC.
SeedsBefore(i, j) ==
    journal[i].ts < journal[j].ts \/ (journal[i].ts = journal[j].ts /\ i < j)

\* get_since: the envelopes of a window that evaluated anything, in one statement.
EvaluatedSince(ts) ==
    {i \in DOMAIN journal : journal[i].ts >= ts /\ journal[i].verdict # "error"}
Place(i, wanted) == Cardinality({j \in wanted : SeedsBefore(j, i)}) + 1
RowsSince(ts) ==
    LET wanted == EvaluatedSince(ts)
    IN  [n \in 1 .. Cardinality(wanted) |->
            LET i == CHOOSE j \in wanted : Place(j, wanted) = n
            IN  [index |-> i, row |-> journal[i]]]

\* seed: each envelope goes through the same observe; its stamp is dropped.
Seeded(rows) ==
    LET after[n \in 0 .. Len(rows)] ==
            IF n = 0 THEN Closed ELSE Observed(after[n - 1], rows[n].row)
    IN  after[Len(rows)]

\* The replay is over what one statement read, before the first pass is taken.
Boot ==
    /\ engine = "down"
    /\ engine' = "up"
    /\ tracker' = Seeded(RowsSince(clock - Window))
    /\ UNCHANGED <<journal, registry, pass, clock, blind>>

\* A store that cannot be read costs the seed, never the start.
BootUnseeded ==
    /\ "seed_fails" \in Faults /\ engine = "down"
    /\ engine' = "up" /\ blind' = TRUE
    /\ UNCHANGED <<journal, registry, tracker, pass, clock>>

\* Time passes without an evaluation.
Wait ==
    /\ clock < MaxClock
    /\ clock' = clock + 1
    /\ UNCHANGED <<journal, registry, tracker, engine, pass, blind>>

\* The archive may start with envelopes that predate the episode fields.
Init ==
    /\ \E n \in 0 .. MaxLegacy : \E v \in [1 .. n -> Verdict] :
        /\ journal = [i \in 1 .. n |-> Unstamped(i, v[i])]
        /\ clock = n
    /\ registry = [i \in {} |-> Seen(0, 0, 0)]
    /\ tracker = Closed
    /\ engine = "down"
    /\ pass = [p \in Pass |-> Idle]
    /\ blind = FALSE

Next ==
    \/ \E p \in Pass :
        \/ \E v \in Verdict : Assemble(p, v)
        \/ Observe(p) \/ Persist(p) \/ PersistFails(p)
    \/ Crash \/ Boot \/ BootUnseeded \/ Wait

Spec == Init /\ [][Next]_vars

(***************************************************************************)
(* Properties.                                                             *)
(***************************************************************************)

RowsOf(id) == {i \in DOMAIN journal : journal[i].id = id}

\* No dangling identity (outcome_store.py save, episode_registry.py upsert): an
\* id in the journal has a registry row; a registry row began at its identity,
\* was last seen at the newest envelope of its story, and never counts more
\* passes than the story has envelopes.
RegistryFollowsJournal ==
    /\ \A i \in DOMAIN journal : journal[i].id # 0 => journal[i].id \in DOMAIN registry
    /\ \A id \in DOMAIN registry :
        /\ registry[id].started = id
        /\ \E i \in RowsOf(id) : journal[i].ts = registry[id].last
        /\ \A i \in RowsOf(id) : journal[i].ts <= registry[id].last
        /\ registry[id].passes <= Cardinality(RowsOf(id))

Qualifies(row) == row.verdict \in Holding
Before(i, j) == journal[i].ts < journal[j].ts

\* The story of the breaking row i is still open when row j comes: no gap in between.
Reaches(i, j) ==
    /\ Before(i, j) /\ journal[i].verdict = "breaking"
    /\ \A k \in DOMAIN journal :
        Before(i, k) /\ ~Before(j, k) /\ (k = j \/ Qualifies(journal[k])) =>
            \E l \in DOMAIN journal :
                /\ ~Before(l, i) /\ Before(l, k) /\ Qualifies(journal[l])
                /\ journal[k].ts - journal[l].ts <= Gap

\* And row j holds it open.
Continues(i, j) == Reaches(i, j) /\ Qualifies(journal[j])

\* No stretch of it so long that a restart could find no breaking pass.
Seedable(i, j) ==
    \A k \in DOMAIN journal :
        Before(i, k) /\ ~Before(j, k) =>
            \E l \in DOMAIN journal :
                /\ ~Before(l, i) /\ Before(l, k) /\ journal[l].verdict = "breaking"
                /\ journal[k].ts - journal[l].ts <= Window

\* A story has one id, whatever was lost or restarted while it ran
\* (pipeline_assembler.py build_episode_tracker: a restart rejoins the open
\* story instead of opening it again).
OneIdPerStory ==
    ~blind => \A i, j \in DOMAIN journal :
        Continues(i, j) /\ Seedable(i, j) /\ journal[i].id # 0 /\ journal[j].id # 0
            => journal[i].id = journal[j].id

\* An id is given up for good: the ids of the journal never go back to an older
\* story (breaking_episode.py observe: the next episode on a key is minted).
IdsNeverReturn ==
    ~blind => \A i, j \in DOMAIN journal :
        Before(i, j) /\ journal[i].id # 0 /\ journal[j].id # 0
            => journal[i].id <= journal[j].id

\* The consumer's opening edge: at most one envelope of a story carries it, and
\* no envelope of the story is older (breaking_episode.py breaking_episode_start).
OneEdgePerStory ==
    \A i \in DOMAIN journal : journal[i].edge =>
        \A j \in RowsOf(journal[i].id) :
            j # i => ~journal[j].edge /\ Before(i, j)
=============================================================================
