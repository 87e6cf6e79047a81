----------------------------- MODULE SetupReports -----------------------------
(***************************************************************************)
(* What an operator compares across a change of setup.  prompt_drift and   *)
(* retrieval_drift set the passes of one configuration against those of    *)
(* the next, no_data follows the symbols that went silent,                 *)
(* source_contribution what the feeds put before the model, cost_report    *)
(* what it all cost.  One pipeline whose setup is changed and changed back *)
(* while articles are published, passes run and days go by.                *)
(***************************************************************************)
EXTENDS Integers, Sequences, FiniteSetsExt

CONSTANTS
    Leg,            \* the pipeline's symbols
    UnitOf,         \* leg -> analysis unit
    Setups,         \* [fingerprint, version, floor]
    PassReadings,   \* what a pass may read: leg -> "confirm", "hold", "calm", "mechanical"
    FeedName,       \* the feeds of the set
    DaysPerWeek,
    RecentPasses,   \* prediction.recent_passes
    MaxWork, MaxDay \* bounds

VARIABLES
    ledger,         \* the persisted envelopes
    articles,       \* the corpus: feed and day of publication
    bill,           \* cost_log: day, label, usd
    setup,          \* what the engine runs on
    day

setupVars == <<ledger, articles, bill, setup, day>>

Work == Len(ledger) + Len(articles)
PassUnits == {UnitOf[leg] : leg \in Leg}
Mechanical(reading, leg) == reading[leg] = "mechanical"

\* A pass over what retrieval found under today's floor.  An error produces no row; a
\* mechanical row is one whose nearest article lay beyond the floor.
PassRuns(reading, cited, status) ==
    /\ Work < MaxWork
    /\ ledger' = Append(ledger,
        [day |-> day, setup |-> setup, status |-> status, cited |-> cited, usd |-> Len(ledger) + 1,
         reading |-> reading,
         best |-> [leg \in Leg |-> IF Mechanical(reading, leg) THEN setup.floor + 1 ELSE setup.floor]])
    /\ bill' = Append(bill, [day |-> day, label |-> "pipeline", usd |-> Len(ledger) + 1])
    /\ UNCHANGED <<articles, setup, day>>

FeedPublishes(feed) ==
    /\ Work < MaxWork
    /\ articles' = Append(articles, [feed |-> feed, day |-> day])
    /\ bill' = Append(bill, [day |-> day, label |-> "source_set", usd |-> 1])
    /\ UNCHANGED <<ledger, setup, day>>

Reconfigured(to) == to # setup /\ setup' = to /\ UNCHANGED <<ledger, articles, bill, day>>
DayEnds == day < MaxDay /\ day' = day + 1 /\ UNCHANGED <<ledger, articles, bill, setup>>

SetupInit == ledger = <<>> /\ articles = <<>> /\ bill = <<>> /\ setup \in Setups /\ day = 1

SetupNext ==
    \/ \E reading \in PassReadings, cited \in {{}, DOMAIN articles} :
        /\ (\A leg \in Leg : Mechanical(reading, leg)) => cited = {}
        /\ PassRuns(reading, cited, "success")
    \/ PassRuns([leg \in Leg |-> "mechanical"], {}, "error")
    \/ \E feed \in FeedName : FeedPublishes(feed)
    \/ \E to \in Setups : Reconfigured(to)
    \/ DayEnds

(***************************************************************************)
(* The passes a report reads, and the units of each (_unit_samples).       *)
(***************************************************************************)

RealPasses(since) == {p \in DOMAIN ledger : ledger[p].day >= since /\ ledger[p].status # "error"}
Weekday(p) == ledger[p].day % DaysPerWeek
LegsOf(unit) == {leg \in Leg : UnitOf[leg] = unit}
LegReads(p, unit, reading) == \E leg \in LegsOf(unit) : ledger[p].reading[leg] = reading

\* The strongest leg speaks for the unit; one scored leg makes it a scored unit.
Confirms(p, unit) == LegReads(p, unit, "confirm")
HoldsOn(p, unit) == ~Confirms(p, unit) /\ LegReads(p, unit, "hold")
UnitScored(p, unit) == \E leg \in LegsOf(unit) : ~Mechanical(ledger[p].reading, leg)

\* Samples are pass and unit.
SamplesOf(of) == {s \in of \X PassUnits : UnitScored(s[1], s[2])}
Confirming(of) == {s \in SamplesOf(of) : Confirms(s[1], s[2])}
HoldBandOf(of) == {s \in SamplesOf(of) : HoldsOn(s[1], s[2])}
MechanicalOf(of) == (of \X PassUnits) \ SamplesOf(of)
ConfirmUnits(of) == {s[2] : s \in Confirming(of)}

\* The row of a version and the cell of a weekday.
VersionKey(p) == <<ledger[p].setup.version, ledger[p].setup.fingerprint>>
RowPasses(key, since) == {p \in RealPasses(since) : VersionKey(p) = key}
CellPasses(fingerprint, weekday, since) ==
    {p \in RealPasses(since) : ledger[p].setup.fingerprint = fingerprint /\ Weekday(p) = weekday}

CellsOn(weekday, since) ==
    {f \in {s.fingerprint : s \in Setups} : CellPasses(f, weekday, since) # {}}
FirstSeen(fingerprint, weekday, since) == Min(CellPasses(fingerprint, weekday, since))

\* Consecutive setups of one weekday, by first appearance.
WeekdayPairs(weekday, since) ==
    {pair \in CellsOn(weekday, since) \X CellsOn(weekday, since) :
        LET Seen(f) == FirstSeen(f, weekday, since)
        IN  /\ Seen(pair[1]) < Seen(pair[2])
            /\ ~ \E f \in CellsOn(weekday, since) : Seen(pair[1]) < Seen(f) /\ Seen(f) < Seen(pair[2])}

(***************************************************************************)
(* no_data_report, per symbol.                                             *)
(***************************************************************************)

Silent2(leg, since) == {p \in RealPasses(since) : Mechanical(ledger[p].reading, leg)}
LatestFloor(since) == ledger[Max(RealPasses(since))].setup.floor
NearestMiss(leg, since) == Min({ledger[p].best[leg] : p \in Silent2(leg, since)})

\* Half of its passes silent, the nearest miss within a hair of the floor.
Candidate(leg, since) ==
    /\ Silent2(leg, since) # {}
    /\ 2 * Cardinality(Silent2(leg, since)) >= Cardinality(RealPasses(since))
    /\ NearestMiss(leg, since) - LatestFloor(since) <= 1

(***************************************************************************)
(* source_contribution_report and cost_report.                             *)
(***************************************************************************)

\* collect_citations: once, however often a pass or a symbol reuses it.
CitedIn(since) == UNION {ledger[p].cited : p \in RealPasses(since)}
BreakingCited(since) ==
    UNION {ledger[p].cited : p \in {q \in RealPasses(since) : \E unit \in PassUnits : Confirms(q, unit)}}
OfFeed(feed, ids) == {a \in ids : articles[a].feed = feed}
PublishedBy(feed, since) == {a \in DOMAIN articles : articles[a].feed = feed /\ articles[a].day >= since}
NeverCited(feed, since) ==
    PublishedBy(feed, since) # {} /\ OfFeed(feed, CitedIn(since)) = {}

BillSince(since) == {e \in DOMAIN bill : bill[e].day >= since}
Usd(entries) == MapThenSumSet(LAMBDA e : bill[e].usd, entries)
Labels == {"pipeline", "source_set"}
OfLabel(label, entries) == {e \in entries : bill[e].label = label}

\* avg(c) over the most recent passes that were no error: the sum and the sample.
SampledPasses ==
    LET real == RealPasses(0) IN {p \in real : Cardinality({q \in real : q > p}) < RecentPasses}
SampledUsd == MapThenSumSet(LAMBDA p : ledger[p].usd, SampledPasses)

(***************************************************************************)
(* Properties.                                                             *)
(***************************************************************************)

Everything == 0
Windows == {Everything, day - 1}
Size(S) == Cardinality(S)
SumOver(S, Of(_)) == MapThenSumSet(Of, S)

\* Both sections of the drift report describe the same passes, whatever was changed and
\* changed back in the window: every unit of every pass is a sample of one row and of one
\* cell, scored or mechanical; a fanned pair counts once, so a confirm band with one unit
\* is named as one; the setups of a weekday are paired in one chain
\* (prompt_drift_report.py _aggregate_drift, _weekday_pairs; retrieval_drift_report.py
\* _deltas).
DriftIsTold ==
    \A since \in Windows :
        LET keys == {VersionKey(p) : p \in RealPasses(since)}
            days == {Weekday(p) : p \in RealPasses(since)}
            Scored2(key) == Size(SamplesOf(RowPasses(key, since)))
            Unscored2(key) == Size(MechanicalOf(RowPasses(key, since)))
            Confirmed2(key) == Size(Confirming(RowPasses(key, since)))
            Celled(w) == SumOver(CellsOn(w, since), LAMBDA f : Size(SamplesOf(CellPasses(f, w, since))))
            CelledConfirms(w) ==
                SumOver(CellsOn(w, since), LAMBDA f : Size(Confirming(CellPasses(f, w, since))))
        IN  /\ SumOver(keys, Scored2) = SumOver(days, Celled)
            /\ SumOver(keys, Confirmed2) = SumOver(days, CelledConfirms)
            /\ SumOver(keys, Scored2) + SumOver(keys, Unscored2) = Size(RealPasses(since)) * Size(PassUnits)
            /\ \A key \in keys : LET of == RowPasses(key, since) IN
                /\ Size(Confirming(of)) + Size(HoldBandOf(of)) <= Size(SamplesOf(of))
                /\ Size(ConfirmUnits(of)) <= 1 => Size(Confirming(of)) <= Size(of)
            /\ \A w \in days : Size(WeekdayPairs(w, since)) = Size(CellsOn(w, since)) - 1

\* A symbol that went silent was beyond its floor every time: a miss within the floor it
\* is judged against says that the floor was raised since, and the candidate it makes is
\* one the retune has answered (no_data_report.py _aggregate).
MissesAreBeyondTheirFloor ==
    \A since \in Windows, leg \in Leg :
        Silent2(leg, since) # {} /\ NearestMiss(leg, since) <= LatestFloor(since) =>
            \E p \in Silent2(leg, since) : ledger[p].setup.floor < LatestFloor(since)

\* What a feed is said to contribute was cited by a pass of the window, what counts as
\* breaking was cited, and a feed cited more often than it published is one whose older
\* articles still reach the prompt (source_contribution_report.py).
ContributionIsTrue ==
    \A since \in Windows, feed \in FeedName :
        LET cited == OfFeed(feed, CitedIn(since)) IN
        /\ BreakingCited(since) \subseteq CitedIn(since)
        /\ Size(cited) > Size(PublishedBy(feed, since)) => \E a \in cited : articles[a].day < since
        /\ NeverCited(feed, since) => \A p \in RealPasses(since) : PublishedBy(feed, since) \cap ledger[p].cited = {}

\* The bill adds up by label, a wider window never cost less, what is left of the credit
\* does not depend on the windows compared, and a projection rests on as many real
\* passes as there are, up to its sample (cost_report.py).
SpendAddsUp ==
    /\ \A since \in Windows :
        /\ Usd(BillSince(since)) = SumOver(Labels, LAMBDA label : Usd(OfLabel(label, BillSince(since))))
        /\ Usd(BillSince(since)) <= Usd(BillSince(Everything))
    /\ Size(SampledPasses) = Min({RecentPasses, Size(RealPasses(Everything))})
    /\ SampledUsd <= Usd(OfLabel("pipeline", BillSince(Everything)))

SetupsAreCompared == DriftIsTold /\ MissesAreBeyondTheirFloor /\ ContributionIsTrue /\ SpendAddsUp
=============================================================================
