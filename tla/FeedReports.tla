---------------------------- MODULE FeedReports ----------------------------
(***************************************************************************)
(* What the journals of the feeds say when they are read: the gap report   *)
(* finds outages in the distances between polls, the health report finds   *)
(* feeds that answer and deliver nothing, the quarantine history prices    *)
(* what a feed was held back for.  Polls, deliveries and episodes happen   *)
(* in any order; a report may be asked for any window, at any time.        *)
(***************************************************************************)
EXTENDS Integers, FiniteSets, FiniteSetsExt

CONSTANTS
    PolledFeed,
    GapFactor,      \* _GAP_FACTOR: medians that make an outage
    GapFloor,       \* _GAP_FLOOR_S
    Allowance,      \* each feed's expected_max_age_hours, or the shared window
    MaxNow,         \* bound: the clock
    MaxPolls,       \* bound: polls of each feed
    MaxHeld         \* bound: episodes of each feed, and of NoFeed

VARIABLES
    polls,      \* source_poll_log: when each feed was polled
    answered,   \* source_health: [ever, failing] of each feed
    delivered,  \* articles: when each feed last delivered, or Never
    journal,    \* source_quarantine_log: [kind, feed, from, to]; an outage has no feed
    hourNow

feedVars == <<polls, answered, delivered, journal, hourNow>>

Never == -1
Running == -2
NoFeed == "no feed"
Own(f) == {e \in journal : e.feed = f}
HeldBack(f) == \E e \in journal : e.to = Running /\ e.feed \in {f, NoFeed}

Polled(f, ok) ==
    /\ ~HeldBack(f) /\ hourNow \notin polls[f] /\ Cardinality(polls[f]) < MaxPolls[f]
    /\ polls' = [polls EXCEPT ![f] = @ \union {hourNow}]
    /\ answered' = [answered EXCEPT ![f] = [ever |-> @.ever \/ ok, failing |-> ~ok]]
    /\ delivered' \in {delivered, IF ok THEN [delivered EXCEPT ![f] = hourNow] ELSE delivered}
    /\ UNCHANGED <<journal, hourNow>>

Holds(kind, f) ==
    /\ Cardinality(Own(f)) < MaxHeld[f]
    /\ ~ \E e \in journal : e.to = Running /\ e.feed = f
    /\ journal' = journal \union {[kind |-> kind, feed |-> f, from |-> hourNow, to |-> Running]}
    /\ UNCHANGED <<polls, answered, delivered, hourNow>>

PollsAgain(e) ==
    /\ e \in journal /\ e.to = Running
    /\ journal' = (journal \ {e}) \union {[e EXCEPT !.to = hourNow]}
    /\ UNCHANGED <<polls, answered, delivered, hourNow>>

HourPasses ==
    /\ hourNow < MaxNow /\ hourNow' = hourNow + 1
    /\ UNCHANGED <<polls, answered, delivered, journal>>

FeedInit ==
    /\ polls = [f \in PolledFeed |-> {}]
    /\ answered = [f \in PolledFeed |-> [ever |-> FALSE, failing |-> FALSE]]
    /\ delivered = [f \in PolledFeed |-> Never]
    /\ journal = {}
    /\ hourNow = 1

FeedNext ==
    \/ \E f \in PolledFeed : (\E ok \in BOOLEAN : Polled(f, ok)) \/ Holds("quarantine", f)
    \/ Holds("correlated", NoFeed) \/ (\E e \in journal : PollsAgain(e)) \/ HourPasses

FeedSpec == FeedInit /\ [][FeedNext]_feedVars

(***************************************************************************)
(* The gap report.                                                         *)
(***************************************************************************)

In(f, since) == {t \in polls[f] : t >= since}
JournalStarts(since) == Min(UNION {In(f, since) : f \in PolledFeed})

\* lag(): a gap lies between a poll and the one before it in the window.
Gaps(f, since) ==
    {<<a, b>> \in In(f, since) \X In(f, since) : a < b /\ ~ \E t \in In(f, since) : a < t /\ t < b}
Length(gap) == gap[2] - gap[1]

\* percentile_cont(0.5), doubled so that it stays whole: the two in the middle.
Median2(gaps) ==
    LET n == Cardinality(gaps)
        below(g) == Cardinality({h \in gaps : Length(h) < Length(g)})
        upTo(g) == Cardinality({h \in gaps : Length(h) <= Length(g)})
        At(k) == Length(CHOOSE g \in gaps : below(g) < k /\ k <= upTo(g))
    IN  At((n + 1) \div 2) + At(n \div 2 + 1)

\* Twice the length from which on a gap is an outage.
Threshold2(f, since) ==
    LET scaled == GapFactor * Median2(Gaps(f, since))
    IN  IF scaled > 2 * GapFloor THEN scaled ELSE 2 * GapFloor

\* Before the first poll and after the last; the journal itself must have begun.
Edges(f, since) ==
    {<<JournalStarts(since), Min(In(f, since))>>, <<Max(In(f, since)), hourNow>>}

\* A feed with fewer than two polls in the window has no cadence, and no row.
HasCadence(f, since) == Cardinality(In(f, since)) > 1

Outages(f, since) ==
    IF ~HasCadence(f, since) THEN {}
    ELSE {gap \in Gaps(f, since) \union Edges(f, since) : 2 * Length(gap) > Threshold2(f, since)}

(***************************************************************************)
(* The health report and the quarantine history.                           *)
(***************************************************************************)

Quarantined(f) == \E e \in Own(f) : e.to = Running

\* Polls fine, delivers nothing, for longer than this feed may.
Silent(f) ==
    /\ ~Quarantined(f) /\ ~answered[f].failing /\ answered[f].ever
    /\ delivered[f] = Never \/ hourNow - delivered[f] > Allowance[f]

\* Of outages, only those of the set an own episode places the feed in.
History(f, since) ==
    {e \in journal : e.from >= since /\ (e.feed = f \/ (e.kind = "correlated" /\ Own(f) # {}))}

Took(e) == (IF e.to = Running THEN hourNow ELSE e.to) - e.from

\* In polls of an hour: what the policy cost, apart from what the outage cost.
Missed(f, since, kind) == MapThenSumSet(Took, {e \in History(f, since) : e.kind = kind})

(***************************************************************************)
(* Properties, of every feed and every window.                             *)
(***************************************************************************)

\* The hours nobody polled a feed, from the first sample of anybody on.
Unpolled(f, from, to) == \A t \in polls[f] : t <= from \/ t >= to

\* A stretch without polls is in the report if it is longer than an outage must
\* be, wherever in the window it lies, and no hour is counted twice
\* (source_latency_report.py build_source_latency_report, _edge_gaps).
OutagesAreFound == \A f \in PolledFeed, since \in 1 .. hourNow : HasCadence(f, since) =>
    /\ \A from \in JournalStarts(since) .. hourNow, to \in JournalStarts(since) .. hourNow :
        2 * (to - from) > Threshold2(f, since) /\ Unpolled(f, from, to) =>
            \E gap \in Outages(f, since) : gap[1] <= from /\ to <= gap[2]
    /\ \A g, h \in Outages(f, since) : g = h \/ g[2] <= h[1] \/ h[2] <= g[1]

\* A feed is called silent only while nothing else explains it, and one that has
\* answered without ever delivering is (source_health_report.py silent).
SilenceIsSaid == \A f \in PolledFeed :
    Silent(f) <=>
        /\ answered[f].ever /\ ~answered[f].failing
        /\ ~ \E e \in journal : e.feed = f /\ e.to = Running
        /\ \A t \in 0 .. hourNow : hourNow - t <= Allowance[f] => delivered[f] # t

\* What the policy cost a feed and what an outage cost it stay apart, and neither
\* is more than the hours there were (source_quarantine_report.py missed_to_policy).
CostsStayApart == \A f \in PolledFeed, since \in 1 .. hourNow :
    /\ Missed(f, since, "quarantine") <= hourNow - since
    /\ Missed(f, since, "correlated") <= hourNow - since
    /\ Missed(f, since, "quarantine") = Cardinality({t \in since .. hourNow - 1 :
            \E e \in Own(f) : e.from >= since /\ e.from <= t /\ (e.to = Running \/ t < e.to)})

\* What an operator reads of the feeds.
FeedsAreReported == OutagesAreFound /\ SilenceIsSaid /\ CostsStayApart
=============================================================================
