-------------------------- MODULE DetectionReports --------------------------
(***************************************************************************)
(* What the detector did, read back three ways: detection_quality folds    *)
(* the flags it recorded, detection_sweep and keyword_sweep replay the     *)
(* corpus as it would have seen it, keyword_impact follows each flag to    *)
(* the envelope it woke.  Articles arrive late or in order, are scored as  *)
(* they are stored, passes end and cite.                                   *)
(***************************************************************************)
EXTENDS Integers, Sequences, SequencesExt, FiniteSetsExt

CONSTANTS
    ArticleKinds,   \* [feed, terms, topic]: what a stored article is
    GatedFeeds,     \* feeds at or above keyword_source_weight
    Inside,         \* pairs of terms: the first is found inside the second
    Radii,          \* the grid; topics this close are neighbours
    LiveRadius,     \* 1 - cluster_similarity
    ClusterWindow, MidSize, HighSize,   \* the set's detection settings
    WakeWindow,     \* _WAKE_WINDOW
    MaxStored, MaxEvents, MaxClock   \* bounds

VARIABLES
    stored,     \* the corpus in the order it was stored: kind, published, stored, flag
    envelopes,  \* passes of the pipelines that read the set, by their timestamp
    clock

detectionReportVars == <<stored, envelopes, clock>>

Room == Len(stored) + Len(envelopes) < MaxEvents

NotFlagged == [path |-> "none"]
ArticleIds == DOMAIN stored
Nearby(i, j, radius) == LET d == stored[i].kind.topic - stored[j].kind.topic IN d \in -radius .. radius
FeedsAmong(ids) == {stored[i].kind.feed : i \in ids}
Sizes(ids) == [articles |-> Cardinality(ids), feeds |-> Cardinality(FeedsAmong(ids))]

\* findall over one alternation: a term found inside another does not count again.
Found(kind) == {t \in kind.terms : ~ \E u \in kind.terms : <<t, u>> \in Inside}

\* detect(), by feeds: what the corpus holds within the window before now, whatever
\* it was published after; the flag carries the evidence of the path that made it.
Judged(corpus, kind) ==
    LET near == {i \in DOMAIN corpus : corpus[i].published >= clock - ClusterWindow
                    /\ corpus[i].kind.topic - kind.topic \in -LiveRadius .. LiveRadius}
        feeds == Cardinality({corpus[i].kind.feed : i \in near})
        cluster == [path |-> "cluster", at |-> clock, high |-> feeds >= HighSize, terms |-> {},
                    articles |-> Cardinality(near), feeds |-> feeds]
    IN  IF feeds >= HighSize THEN cluster
        ELSE IF Found(kind) # {} /\ kind.feed \in GatedFeeds
        THEN [path |-> "keyword", at |-> clock, high |-> TRUE, terms |-> Found(kind)]
        ELSE IF feeds >= MidSize THEN cluster ELSE NotFlagged

\* An ingest pass stores an article, published now or earlier, and scores it.
Arrived(kind, published) ==
    /\ Len(stored) < MaxStored /\ Room
    /\ LET corpus == Append(stored, [kind |-> kind, published |-> published, flag |-> NotFlagged])
       IN  stored' = [corpus EXCEPT ![Len(corpus)].flag = Judged(corpus, kind)]
    /\ UNCHANGED <<envelopes, clock>>

FlaggedArticles == {i \in ArticleIds : stored[i].flag # NotFlagged}

\* A pass ends: woken or scheduled, on some evidence, breaking or not.
EnvelopeEnds(breaking, cited, confirmed) ==
    /\ Room
    /\ envelopes' = Append(envelopes, [at |-> clock, breaking |-> breaking, cited |-> cited,
                                       confirmed |-> confirmed])
    /\ UNCHANGED <<stored, clock>>

ClockGoes == clock < MaxClock /\ clock' = clock + 1 /\ UNCHANGED <<stored, envelopes>>

DetectionReportInit == stored = <<>> /\ envelopes = <<>> /\ clock = 1

DetectionReportNext ==
    \/ \E kind \in ArticleKinds, published \in {clock - 1, clock} : Arrived(kind, published)
    \* What a scheduled pass confirmed is read by none of the reports.
    \/ \E breaking \in BOOLEAN, cited \in SUBSET FlaggedArticles : \E confirmed \in {FALSE, breaking} :
        EnvelopeEnds(breaking, cited, confirmed)
    \/ ClockGoes

(***************************************************************************)
(* The replays.                                                            *)
(***************************************************************************)

\* _embedding_counts: nothing published after the seed.
Neighbourhood(seed, radius) ==
    {i \in ArticleIds : Nearby(i, seed, radius)
        /\ stored[i].published \in stored[seed].published - ClusterWindow .. stored[seed].published}

Reaches(seeds, radius, unit, size) ==
    Cardinality({s \in seeds : Sizes(Neighbourhood(s, radius))[unit] >= size})

\* keyword_sweep, of each term on its own: every match, and those the gate kept.
Hits(term, since) == {i \in ArticleIds : stored[i].published >= since /\ term \in stored[i].kind.terms}
Gated(term, since) == {i \in Hits(term, since) : stored[i].kind.feed \in GatedFeeds}

(***************************************************************************)
(* The record: detection_quality and keyword_impact.                       *)
(***************************************************************************)

FlaggedSince(since) == {i \in FlaggedArticles : stored[i].flag.at >= since}
OfPath(path, since) == {i \in FlaggedSince(since) : stored[i].flag.path = path}

\* Articles per feed of a path's neighbourhoods, each side summed over the window.
Pooled(path, since, unit) ==
    MapThenSumSet(LAMBDA i : stored[i].flag[unit], {i \in OfPath(path, since) : path = "cluster"})

\* Term rows of the quality report: after the path, before the neighbourhood.
FiredOn(term, since) == {i \in OfPath("keyword", since) : term \in stored[i].flag.terms}

\* The first woken envelope at or after the flag, if it is near enough.
WakeOf(i) ==
    {p \in DOMAIN envelopes :
        /\ envelopes[p].breaking
        /\ envelopes[p].at - stored[i].flag.at \in 0 .. WakeWindow
        /\ ~ \E q \in 1 .. p - 1 : envelopes[q].breaking /\ envelopes[q].at >= stored[i].flag.at}

Woke(term, since) == {i \in FiredOn(term, since) : WakeOf(i) # {}}
CitedBy(i) == \E p \in WakeOf(i) : i \in envelopes[p].cited
CitedOf(term, since) == {i \in Woke(term, since) : CitedBy(i)}
ConfirmedOf(term, since) ==
    {i \in CitedOf(term, since) : \E p \in WakeOf(i) : envelopes[p].confirmed}
Reached(since) ==
    {i \in OfPath("keyword", since) : \E p \in DOMAIN envelopes :
        envelopes[p].at >= since /\ i \in envelopes[p].cited}

(***************************************************************************)
(* Properties, of every window.                                            *)
(***************************************************************************)

\* Every article was stored as it was published, none late.
InOrder == \A i, j \in ArticleIds : i < j => stored[i].published <= stored[j].published
Prompt(i) == stored[i].flag # NotFlagged => stored[i].published = stored[i].flag.at
NewestOfAll(i) == \A j \in ArticleIds : j > i => stored[j].published > stored[i].published

\* Where nothing came late, the replay of the running setting counts for each
\* article what the detector wrote beside its flag; the columns of the grid never
\* contradict each other (detection_sweep_report.py _embedding_counts).
ReplayMeetsTheRecord ==
    /\ InOrder => \A i \in OfPath("cluster", 0) : Prompt(i) /\ NewestOfAll(i) =>
        Sizes(Neighbourhood(i, LiveRadius))
            = [articles |-> stored[i].flag.articles, feeds |-> stored[i].flag.feeds]
    /\ \A r \in Radii, size \in {MidSize, HighSize} :
        /\ Reaches(ArticleIds, r, "feeds", size) <= Reaches(ArticleIds, r, "articles", size)
        /\ \A wider \in Radii : r <= wider =>
            Reaches(ArticleIds, r, "feeds", size) <= Reaches(ArticleIds, wider, "feeds", size)

\* A term the detector acted on is never dead vocabulary in the sweep of a window
\* that holds its articles; the sweep may see more (keyword_sweep_report.py).
SweepCoversTheFlags == \A kind \in ArticleKinds : \A term \in kind.terms :
    FiredOn(term, 0) \subseteq Gated(term, 0) /\ Gated(term, 0) \subseteq Hits(term, 0)

\* Nothing cited before it was flagged, confirmed without being cited or woken by a
\* tick is credited to a term; a path's duplication is of neighbourhoods it really
\* consulted (keyword_impact_report.py _wake_for; detection_quality_report.py).
CreditIsEarned == \A since \in 0 .. clock :
    /\ \A kind \in ArticleKinds : \A term \in kind.terms :
        /\ CitedOf(term, since) \subseteq Reached(since)
        /\ \A i \in Woke(term, since) :
            \E p \in DOMAIN envelopes : /\ envelopes[p].breaking
                                        /\ envelopes[p].at - stored[i].flag.at \in 0 .. WakeWindow
                                        /\ i \in CitedOf(term, since) <=> i \in envelopes[p].cited
        /\ ConfirmedOf(term, since) # {} => \E p \in DOMAIN envelopes : envelopes[p].confirmed
    /\ Pooled("cluster", since, "articles") >= Pooled("cluster", since, "feeds")
    /\ Pooled("cluster", since, "feeds") >= MidSize * Cardinality(OfPath("cluster", since))

\* The reports agree with the detector and with each other.
DetectionIsReported == ReplayMeetsTheRecord /\ SweepCoversTheFlags /\ CreditIsEarned
=============================================================================
