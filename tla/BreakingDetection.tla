------------------------- MODULE BreakingDetection -------------------------
(***************************************************************************)
(* Breaking detection at ingest (BreakingDetector over PgVectorStore's     *)
(* count_neighbors and flag_candidates) beside the preflight that says     *)
(* what a set's thresholds can still do.  The articles of a pass are       *)
(* scored once, right after they were stored: a pass that stops in between *)
(* leaves articles no later pass scores.                                   *)
(*                                                                         *)
(* Two articles are near one another when they tell the same story.        *)
(***************************************************************************)
EXTENDS Integers, FiniteSets

CONSTANTS
    Article,
    Feed,
    FeedOf,       \* the feed an article came from
    StoryOf,      \* the story it tells
    Matching,     \* articles whose text has a configured keyword
    Weight,       \* each feed's weight
    Settings,     \* the detection blocks a set may be given
    Window,       \* cluster_window_minutes, in ticks
    MaxLost       \* bound: passes that stop before their articles are scored

ASSUME DetectionAssumption ==
    /\ IsFiniteSet(Article) /\ IsFiniteSet(Feed)
    /\ FeedOf \in [Article -> Feed] /\ Matching \subseteq Article
    /\ Weight \in [Feed -> Nat] /\ Window \in Nat /\ MaxLost \in Nat
    /\ Settings \subseteq [unit : {"feeds", "articles"}, enabled : BOOLEAN,
                           mid : Nat \ {0}, high : Nat \ {0}, gate : Nat]

VARIABLES
    detection,    \* the set's detection block
    active,       \* its active_sources
    age,          \* the corpus: ticks since an article was published, or NotStored
    flag,         \* the columns detection writes
    batch,        \* articles the running pass stored and has not scored
    scored,       \* history: what it scored
    maxTier,      \* result.max_tier
    lost          \* history: stored, never scored

detectionVars == <<detection, active, age, flag, batch, scored, maxTier, lost>>

NotStored == -1
Old == Window + 1
Untagged == 0
Mid == 2
High == 3
Null == "null"
NoCounts == [articles |-> 0, feeds |-> 0]
Evidence(tier, trigger, counts, terms) ==
    [tier |-> tier, trigger |-> trigger, counts |-> counts, terms |-> terms]
Unflagged == Evidence(Untagged, Null, NoCounts, FALSE)

(***************************************************************************)
(* The probe and the tiers.                                                *)
(***************************************************************************)

\* Faulty variant of Neighbours: the articles of the pass alone.
NeighboursOfThePass(a) ==
    {b \in batch \union scored : age[b] \in 0 .. Window /\ StoryOf[b] = StoryOf[a]}

\* What the corpus holds near an article in the window, itself included.
Neighbours(a) ==
    {b \in Article : age[b] \in 0 .. Window /\ FeedOf[b] \in active /\ StoryOf[b] = StoryOf[a]}

FeedsOf(articles) == {FeedOf[b] : b \in articles}

Counted(a) ==
    IF ~detection.enabled THEN NoCounts
    ELSE [articles |-> Cardinality(Neighbours(a)), feeds |-> Cardinality(FeedsOf(Neighbours(a)))]

ClusterSize(a) == IF detection.unit = "feeds" THEN Counted(a).feeds ELSE Counted(a).articles

Burst(a) == ClusterSize(a) >= detection.high
FastPath(a) == a \in Matching /\ Weight[FeedOf[a]] >= detection.gate
SmallBurst(a) == ClusterSize(a) >= detection.mid

\* The burst first, then the fast path, then the smaller burst.  A flag carries
\* the evidence of the path that made it and no other.
Verdict(a) ==
    CASE Burst(a) -> Evidence(High, "cluster", Counted(a), FALSE)
      [] ~Burst(a) /\ FastPath(a) -> Evidence(High, "keyword", NoCounts, TRUE)
      [] ~Burst(a) /\ ~FastPath(a) /\ SmallBurst(a) -> Evidence(Mid, "cluster", Counted(a), FALSE)
      [] OTHER -> Unflagged

(***************************************************************************)
(* The preflight: what the thresholds can still do, given the active feeds.*)
(***************************************************************************)

Proves == detection.enabled /\ detection.unit = "feeds"
HighOutOfReach == Proves /\ detection.high > Cardinality(active)
MidOutOfReach == Proves /\ detection.mid > Cardinality(active)
KeywordPathDead == \A f \in active : Weight[f] < detection.gate

(***************************************************************************)
(* The passes.                                                             *)
(***************************************************************************)

\* A pass has stored what is new of its feeds, published just now or long ago.
Stores ==
    /\ batch = {}
    /\ \E fresh \in SUBSET {a \in Article : age[a] = NotStored /\ FeedOf[a] \in active} :
        /\ fresh # {}
        /\ \E old \in SUBSET fresh :
            age' = [a \in Article |-> IF a \notin fresh THEN age[a] ELSE IF a \in old THEN Old ELSE 0]
        /\ batch' = fresh
    /\ scored' = {} /\ maxTier' = 0
    /\ UNCHANGED <<detection, active, flag, lost>>

\* Another set stores an article of one of its own feeds.
OtherSetStores ==
    /\ \E a \in Article :
        /\ age[a] = NotStored /\ FeedOf[a] \notin active
        /\ age' = [age EXCEPT ![a] = 0]
    /\ UNCHANGED <<detection, active, flag, batch, scored, maxTier, lost>>

Highest(tier) == IF tier > maxTier THEN tier ELSE maxTier

Scores(a) ==
    /\ a \in batch
    /\ flag' = [flag EXCEPT ![a] = IF Verdict(a).tier = Untagged THEN @ ELSE Verdict(a)]
    /\ batch' = batch \ {a}
    /\ scored' = scored \union {a}
    /\ maxTier' = Highest(Verdict(a).tier)
    /\ UNCHANGED <<detection, active, age, lost>>

\* A later feed of the pass fails, a flag cannot be written, the process dies.
PassStops ==
    /\ batch # {} /\ Cardinality(lost) < MaxLost
    /\ lost' = lost \union batch
    /\ batch' = {} /\ scored' = {} /\ maxTier' = 0
    /\ UNCHANGED <<detection, active, age, flag>>

\* The clock is read once for a pass.
TimeGoesBy ==
    /\ batch = {}
    /\ \E a \in Article : age[a] \in 0 .. Window
    /\ age' = [a \in Article |-> IF age[a] \in 0 .. Window THEN age[a] + 1 ELSE age[a]]
    /\ UNCHANGED <<detection, active, flag, batch, scored, maxTier, lost>>

DetectionInit ==
    /\ detection \in Settings /\ active \in SUBSET Feed
    /\ age = [a \in Article |-> NotStored]
    /\ flag = [a \in Article |-> Unflagged]
    /\ batch = {} /\ scored = {} /\ maxTier = 0 /\ lost = {}

DetectionNext ==
    \/ Stores \/ OtherSetStores \/ PassStops \/ TimeGoesBy
    \/ \E a \in Article : Scores(a)

DetectionSpec == DetectionInit /\ [][DetectionNext]_detectionVars

(***************************************************************************)
(* Properties.                                                             *)
(***************************************************************************)

\* What the boot log calls a proof is one: a tier that counts more distinct
\* feeds than run never fires, and a gate above every running feed is never
\* passed, whatever the other sets put into the shared corpus
\* (detection_preflight.py).
PreflightProofsHold == \A a \in Article :
    /\ HighOutOfReach => ~(flag[a].tier = High /\ flag[a].trigger = "cluster")
    /\ MidOutOfReach => flag[a].tier # Mid
    /\ KeywordPathDead => flag[a].trigger # "keyword"

\* A story that enough of the set's feeds carry inside the window has an article
\* flagged HIGH, though no single pass saw its articles together.  The exception
\* is what a pass stored and did not live to score.
Carried(story) ==
    {a \in Article : age[a] \in 0 .. Window /\ FeedOf[a] \in active /\ StoryOf[a] = story}
Corroborated(story) ==
    detection.enabled /\ detection.high <=
        Cardinality(IF detection.unit = "feeds" THEN FeedsOf(Carried(story)) ELSE Carried(story))
CorroboratedStoriesAreFlagged ==
    batch = {} /\ lost = {} => \A a \in Article :
        Corroborated(StoryOf[a]) => \E b \in Article : StoryOf[b] = StoryOf[a] /\ flag[b].tier = High

\* The tier that decides the wake is the highest one the pass wrote, in whatever
\* order its articles were scored.
WakeCarriesTheHighest ==
    \A a \in scored : flag[a].tier <= maxTier

\* What the detector flags, wakes with and proves about its setting.
DetectionHolds == CorroboratedStoriesAreFlagged /\ WakeCarriesTheHighest /\ PreflightProofsHold
=============================================================================
