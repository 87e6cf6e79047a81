--------------------------- MODULE EpisodeBackfill ---------------------------
(***************************************************************************)
(* The backfill of episode identities into envelopes that predate them.    *)
(* It replays a range of the journal through a tracker of its own, refuses *)
(* to write when a served identity differs from the computed one, and      *)
(* otherwise stamps the envelopes that carry none, one transaction each.   *)
(* The engine goes on running beside it.                                   *)
(***************************************************************************)
EXTENDS BreakingEpisodes

CONSTANTS
    Since       \* the starts of range an operator may ask for

ASSUME BackfillAssumption == Since \subseteq Nat

VARIABLES
    job,        \* the one backfill process
    filled      \* history: the envelopes a backfill stamped

bvars == <<vars, job, filled>>

Job(at, stamps, clashes) == [at |-> at, stamps |-> stamps, clashes |-> clashes]
NoJob == Job("off", <<>>, {})

\* Inside the range the served identity is stripped, so that it is computed.
Replayable(row, since) ==
    IF row.ts < since THEN row ELSE Unstamped(row.ts, row.verdict)

\* Faulty variant of Stamps: a row with an identity is stamped again.
StampsCarried(row, computed, since) == row.ts >= since /\ computed.id # 0

\* Written only where absent.
Stamps(row, computed, since) == row.ts >= since /\ row.id = 0 /\ computed.id # 0

\* The self-check over what the engine served.
Agrees(row, computed, since) ==
    row.ts < since \/ row.id = 0 \/ (row.id = computed.id /\ row.edge = computed.edge)

\* One envelope of the replay, with what it adds to the work.
ReplayedOne(done, entry, since) ==
    LET row      == entry.row
        input    == Replayable(row, since)
        computed == Stamped(done.tracker, input)
        after    == Observed(done.tracker, input)
        stamp    == [index |-> entry.index, row |-> computed, started |-> after.started]
    IN  [tracker |-> after,
         clashes |-> done.clashes \union
             (IF Agrees(row, computed, since) THEN {} ELSE {entry.index}),
         stamps |-> IF Stamps(row, computed, since)
                    THEN Append(done.stamps, stamp) ELSE done.stamps]

\* _read and the replay: the range, with a prologue as wide as the seed window.
Replay(since) ==
    LET rows == RowsSince(since - Window)
        done[n \in 0 .. Len(rows)] ==
            IF n = 0 THEN [tracker |-> Closed, clashes |-> {}, stamps |-> <<>>]
            ELSE ReplayedOne(done[n - 1], rows[n], since)
    IN  done[Len(rows)]

\* apply refuses on any disagreement, and has no override.
BeginBackfill(since) ==
    /\ job.at = "off"
    /\ LET done == Replay(since)
       IN  job' = IF done.clashes = {}
                  THEN Job("writing", done.stamps, {})
                  ELSE Job("refused", <<>>, done.clashes)
    /\ UNCHANGED <<vars, filled>>

\* One envelope and its registry rows, in one transaction.
WriteStamp ==
    /\ job.at = "writing" /\ job.stamps # <<>>
    /\ LET stamp == Head(job.stamps)
       IN  /\ journal' = [journal EXCEPT ![stamp.index] =
                    Stamp(@.ts, @.verdict, stamp.row.id, stamp.row.edge)]
           /\ registry' = Upserted(registry, stamp.row, stamp.started)
    /\ job' = Job("writing", Tail(job.stamps), {})
    /\ filled' = filled \union {Head(job.stamps).index}
    /\ UNCHANGED <<tracker, engine, pass, clock, blind>>

\* The process ends, or is interrupted between two transactions.
EndBackfill ==
    /\ \/ job.at = "refused"
       \/ job.at = "writing" /\ (job.stamps = <<>> \/ "job_crash" \in Faults)
    /\ job' = NoJob
    /\ UNCHANGED <<vars, filled>>

BackfillStep ==
    \/ \E since \in Since : BeginBackfill(since)
    \/ WriteStamp \/ EndBackfill

BInit == Init /\ job = NoJob /\ filled = {}

BNext == BackfillStep \/ (Next /\ UNCHANGED <<job, filled>>)

BSpec == BInit /\ [][BNext]_bvars

(***************************************************************************)
(* Properties.                                                             *)
(***************************************************************************)

\* Breaking envelopes the engine did not stamp: they predate the episode fields.
Old == filled \union {i \in DOMAIN journal : journal[i].verdict = "breaking"
                                            /\ journal[i].id = 0}

\* Every story ends before a seed, or the prologue of a range, forgets how it began.
StoriesFit == \A i, j \in DOMAIN journal :
    Reaches(i, j) => journal[j].ts - journal[i].ts <= Window

\* A backfill never argues with an earlier one, interrupted or of another range:
\* only what the engine itself served can make it refuse, where no story outlives
\* the prologue of a range (episode_backfill.py Disagreement: the comparison is
\* with what the engine served).
BackfillsAgree == ~blind /\ StoriesFit => job.clashes \intersect filled = {}

\* Every breaking envelope carries an identity.
FullyStamped == \A i \in DOMAIN journal : journal[i].verdict = "breaking" => journal[i].id # 0

\* An identity is one story's.  It is never given to a later story, and once an
\* archive is fully stamped, partly by passes and partly by backfills, a story is
\* not split by restarts and has one opening edge (episode_backfill.py: parity
\* with the live path).
IdentityHolds ==
    ~blind /\ (Old = {} \/ StoriesFit) =>
        /\ IdsNeverReturn
        /\ FullyStamped => OneIdPerStory /\ OneEdgePerStory
=============================================================================
