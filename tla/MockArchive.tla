------------------------------ MODULE MockArchive ------------------------------
(***************************************************************************)
(* The archives the mock generator hands the consumer to test against      *)
(* (experiments/mock_signal_data).  Every cycle draws one set of facts,    *)
(* each variant of the fan-out reads them at its own pace, and some cycles *)
(* hold a second, unscheduled pass.  A stream is then put in commit order, *)
(* numbered as the journal numbers its envelopes and cut into buckets.     *)
(***************************************************************************)
EXTENDS Integers, Sequences, FiniteSets

CONSTANTS
    Variant,    \* --variants: one stream for each
    Facts,      \* [partial, news, age, extras]: what a cycle may draw
    Interval,   \* INTERVAL
    FloorLag, TailLag,  \* PASS_FLOOR_S, PASS_TAIL_MAX_S
    TimeoutLag, \* what an LLM timeout burns
    WriteLag,   \* from the end of a pass to its availability
    Day,        \* --rotate daily
    MaxCycles   \* bound: --cycles

ASSUME MockAssumption ==
    /\ {Interval, FloorLag, TailLag, TimeoutLag, WriteLag, Day} \subseteq Nat \ {0}
    /\ FloorLag <= TailLag /\ TailLag <= Interval

VARIABLES
    cycles,     \* how many cycles have been drawn
    made     \* per stream, the envelopes in the order they were made

mockVars == <<cycles, made>>

NoEvidence == -1
BarClose == cycles * Interval

\* The news is as it was when the pass started: what it cites was fetched before.
Reading(facts, started, ended, reason) ==
    [cycle |-> cycles, started |-> started, at |-> ended, reason |-> reason,
     status |-> IF facts.partial THEN "partial" ELSE "success",
     evidence |-> IF facts.news THEN started - facts.age ELSE NoEvidence]

\* A timeout produced nothing and still says why it ran.
TimedOut ==
    [cycle |-> cycles, started |-> BarClose, at |-> BarClose + TimeoutLag,
     reason |-> "scheduled", status |-> "error", evidence |-> NoEvidence]

Scheduled(facts, lag) ==
    IF lag = 0 THEN TimedOut ELSE Reading(facts, BarClose, BarClose + lag, "scheduled")

\* Mechanism B: between the bars, and no timeout of the scheduled twin touches it.
Unscheduled(facts) ==
    [i \in DOMAIN facts.extras |->
        LET started == BarClose + facts.extras[i].start
        IN  Reading(facts, started, started + facts.extras[i].lasts, "breaking")]

\* One cycle: shared facts, a pace (or a timeout, 0) for each variant.
Cycle(facts, lag) ==
    /\ cycles < MaxCycles
    /\ cycles' = cycles + 1
    /\ made' = [v \in Variant |->
                    made[v] \o <<Scheduled(facts, lag[v])>> \o Unscheduled(facts)]

MockInit == cycles = 0 /\ made = [v \in Variant |-> <<>>]
MockNext == \E facts \in Facts, lag \in [Variant -> {0, FloorLag, TailLag}] : Cycle(facts, lag)
MockSpec == MockInit /\ [][MockNext]_mockVars

(***************************************************************************)
(* What is written.                                                        *)
(***************************************************************************)

\* Faulty variant of CommitsBefore: numbered as they were made.
MadeBefore(v, i, j) == i < j

\* envelopes.sort(key=timestamp), which keeps the order of equals.
CommitsBefore(v, i, j) ==
    made[v][i].at < made[v][j].at \/ (made[v][i].at = made[v][j].at /\ i < j)

\* The stream: seq is the position, one epoch, availability a write after the end.
SeqGiven(v, i) == 1 + Cardinality({j \in DOMAIN made[v] : CommitsBefore(v, j, i)})
Lines(v) ==
    [seq \in DOMAIN made[v] |-> made[v][CHOOSE i \in DOMAIN made[v] : SeqGiven(v, i) = seq]]
AvailableAt(line) == line.at + WriteLag
BucketOf(line) == line.at \div Day

\* Counted over the evidenced envelopes only, each against the one before it.
Evidenced(v) == SelectSeq(Lines(v), LAMBDA line : line.evidence # NoEvidence)
Inversions(v) ==
    LET told == Evidenced(v)
    IN  {k \in 2 .. Len(told) : told[k].evidence < told[k - 1].evidence}

(***************************************************************************)
(* Properties.                                                             *)
(***************************************************************************)

\* A consumer that flags envelopes more than two cadences apart flags nothing, whatever
\* is slow and whatever timed out; a line available earlier never has a higher seq, and
\* the lines of a bucket are consecutive (generate.py _pass_seconds, main).
SeriesIsWhole ==
    \A v \in Variant : LET line == Lines(v) IN
        \A k \in 2 .. Len(line) :
            /\ line[k].at - line[k - 1].at <= 2 * Interval
            /\ AvailableAt(line[k - 1]) <= AvailableAt(line[k])
            /\ BucketOf(line[k - 1]) <= BucketOf(line[k])

\* No line is ahead of its bar or behind its evidence, and a scheduled one is in the
\* bucket of its bar: only an unscheduled pass is filed under the next day
\* (generate.py _render_variant, "coverage ending 23:50").
NothingLooksAhead ==
    \A v \in Variant : \A k \in DOMAIN made[v] : LET line == made[v][k] IN
        /\ line.at > line.cycle * Interval /\ line.evidence < line.at
        /\ line.reason = "scheduled" /\ Interval <= Day /\ Day % Interval = 0 =>
            BucketOf(line) = (line.cycle * Interval) \div Day

\* Two variants differ in the reading alone: the twin of a line that did not time out
\* has its evidence, its outage and, between the bars, its time (generate.py
\* _cycle_facts).
VariantsReadTheSameNews ==
    \A v, w \in Variant : \A k \in DOMAIN made[v] : LET a == made[v][k] b == made[w][k] IN
        "error" \notin {a.status, b.status} =>
            /\ <<a.cycle, a.evidence, a.status, a.reason>> = <<b.cycle, b.evidence, b.status, b.reason>>
            /\ a.reason = "breaking" => a.at = b.at

\* With evidence of one age, an inversion is a pass that was overtaken, and one of the
\* two ran between the bars: scheduled passes alone never invert.
InversionsAreOvertaking ==
    \A v \in Variant : LET told == Evidenced(v) IN
        \A k \in Inversions(v) :
            \/ told[k].started < told[k - 1].started
                /\ "breaking" \in {told[k].reason, told[k - 1].reason}
            \/ told[k].started - told[k].evidence > told[k - 1].started - told[k - 1].evidence

MockIsASeries ==
    SeriesIsWhole /\ NothingLooksAhead /\ VariantsReadTheSameNews /\ InversionsAreOvertaking
=============================================================================
