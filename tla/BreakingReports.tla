-------------------------- MODULE BreakingReports --------------------------
(***************************************************************************)
(* What the archive says of breaking news when it is read again.  The      *)
(* breaking report drives the episode rule over the analyses of a window,  *)
(* the timeline drives it once more to lay the passes out on a strip, and  *)
(* the story measure joins episodes that tell the same news.  All of it is *)
(* derived at read time: the archive is the only state there is.           *)
(*                                                                         *)
(* One pipeline.  The similarity of two reasons is the overlap of what     *)
(* they are about.                                                         *)
(***************************************************************************)
EXTENDS Integers, Sequences, SequencesExt, FiniteSets

CONSTANTS
    Analyses,       \* what an analysis may be: [after, unit, verdict, news]
    EpisodeGap,     \* breaking.episode_gap_minutes
    StoryWindow,    \* breaking.story_window_hours
    Cells,          \* columns a strip may have
    MaxArchive      \* bound: analyses in the archive

ASSUME ReportsAssumption ==
    /\ EpisodeGap \in Nat /\ StoryWindow \in Nat /\ Cells \subseteq Nat \ {0}
    /\ MaxArchive \in Nat

VARIABLE archive    \* the persisted analyses, oldest first

Held == {"breaking", "hold"}            \* urgency at the exit threshold, or above
Scored == {"breaking", "hold", "dip"}   \* basis llm; not "mechanical", not "error"

LastTs == IF archive = <<>> THEN 0 ELSE archive[Len(archive)].ts

\* The engine has analysed a unit, some time after the last one.
Archives ==
    /\ Len(archive) < MaxArchive
    /\ \E a \in Analyses : archive' = Append(archive,
            [ts |-> LastTs + a.after, unit |-> a.unit, verdict |-> a.verdict, news |-> a.news])

ReportsInit == archive = <<>>
ReportsNext == Archives
ReportsSpec == ReportsInit /\ [][ReportsNext]_archive

(***************************************************************************)
(* The episodes of a window.                                               *)
(***************************************************************************)

NoEpisode == 0

\* Faulty variant of Read: the report looks at breaking analyses alone.
ReadBreaking(since) ==
    LET Reads(r) == r.ts >= since /\ r.verdict = "breaking" IN SelectSeq(archive, Reads)

\* ts >= since AND status <> 'error', in order.
Read(since) == LET Reads(r) == r.ts >= since /\ r.verdict # "error" IN SelectSeq(archive, Reads)

Units == {archive[i].unit : i \in DOMAIN archive}
Unread == [open |-> [u \in Units |-> NoEpisode], anchor |-> [u \in Units |-> 0], episodes |-> <<>>]

\* The episode of the row's unit is closed before it decides, if its gap ran out.
StillOpen(state, r) ==
    state.open[r.unit] # NoEpisode /\ r.ts - state.anchor[r.unit] <= EpisodeGap

\* _aggregate: the rule says opened, held or neither, the report lists and grows.
Aggregated(state, r) ==
    CASE ~StillOpen(state, r) /\ r.verdict = "breaking" ->
            [open |-> [state.open EXCEPT ![r.unit] = Len(state.episodes) + 1],
             anchor |-> [state.anchor EXCEPT ![r.unit] = r.ts],
             episodes |-> Append(state.episodes,
                [unit |-> r.unit, started |-> r.ts, last |-> r.ts, news |-> r.news])]
      [] ~StillOpen(state, r) /\ r.verdict # "breaking" ->
            [state EXCEPT !.open[r.unit] = NoEpisode]
      [] StillOpen(state, r) /\ r.verdict \in Held ->
            [state EXCEPT !.anchor[r.unit] = r.ts,
                          !.episodes[state.open[r.unit]].last = r.ts]
      [] OTHER -> state

Episodes(since) == FoldLeft(Aggregated, Unread, Read(since)).episodes

(***************************************************************************)
(* The stories behind them.                                                *)
(***************************************************************************)

Distance(a, b) == IF a > b THEN a - b ELSE b - a

Similar(a, b) ==
    a.unit = b.unit /\ Distance(a.started, b.started) <= StoryWindow /\ a.news \cap b.news # {}

\* The later root goes under the earlier one, with all it holds.
Union(root, i, j) ==
    LET first == IF root[i] < root[j] THEN root[i] ELSE root[j]
    IN  [k \in DOMAIN root |-> IF root[k] \in {root[i], root[j]} THEN first ELSE root[k]]

\* i < j, the outer loop over i.
PairsOf(n) ==
    FlattenSeq([i \in 1 .. n |-> [k \in 1 .. n - i |-> <<i, i + k>>]])

Roots(episodes) ==
    LET Joined(root, pair) ==
            IF Similar(episodes[pair[1]], episodes[pair[2]]) THEN Union(root, pair[1], pair[2])
            ELSE root
    IN  FoldLeft(Joined, [i \in DOMAIN episodes |-> i], PairsOf(Len(episodes)))

\* assign_stories: numbered in the order their first episodes are read.
StoryIds(episodes) ==
    LET root == Roots(episodes)
    IN  [i \in DOMAIN episodes |-> Cardinality({root[j] : j \in {k \in DOMAIN episodes : root[k] <= root[i]}})]

(***************************************************************************)
(* The timeline of a window.                                               *)
(***************************************************************************)

RowsOfUnit(since, unit) == LET Of(r) == r.unit = unit IN SelectSeq(Read(since), Of)

\* _PRECEDENCE: no pass, mechanical, below, held, breaking.
Precedence(verdict) ==
    CASE verdict = "breaking" -> 4 [] verdict = "hold" -> 3 [] verdict = "dip" -> 2 [] OTHER -> 1
NoPass == 0

Strongest(shown, verdict) ==
    IF Precedence(verdict) > shown THEN Precedence(verdict) ELSE shown

Bucket(ts, since, until, cells) ==
    LET index == ((ts - since) * cells) \div (until - since)
    IN  1 + IF index < cells THEN index ELSE cells - 1

\* _strip, in exactly that many cells, over the window and not over the passes.
Strip(since, until, unit, cells) ==
    LET Put(strip, r) == [strip EXCEPT ![Bucket(r.ts, since, until, cells)] = Strongest(@, r.verdict)]
    IN  FoldLeft(Put, [c \in 1 .. cells |-> NoPass], RowsOfUnit(since, unit))

\* A mechanical row carries the verdict before it forward.
Tallied(row, r) ==
    IF r.verdict \notin Scored THEN [row EXCEPT !.mechanical = @ + 1]
    ELSE LET breaking == r.verdict = "breaking"
         IN  [row EXCEPT !.passes = @ + 1, !.breaking = @ + (IF breaking THEN 1 ELSE 0),
                         !.flips = @ + (IF row.passes > 0 /\ row.was # breaking THEN 1 ELSE 0),
                         !.was = breaking]

Timeline(since, unit) ==
    FoldLeft(Tallied, [passes |-> 0, mechanical |-> 0, breaking |-> 0, flips |-> 0, was |-> FALSE],
             RowsOfUnit(since, unit))

(***************************************************************************)
(* Properties, of every window there is.                                   *)
(***************************************************************************)

InWindow(since) == {i \in DOMAIN archive : archive[i].ts >= since /\ archive[i].verdict # "error"}
Sinces == {archive[i].ts : i \in DOMAIN archive}     \* one for each window with other rows

\* Row j belongs to a story that the breaking row i is part of: from one to the
\* other nothing that keeps the story open is more than the gap away.
SameStory(since, i, j) ==
    LET of == {k \in InWindow(since) : k \in i .. j /\ archive[k].unit = archive[i].unit
                                       /\ archive[k].verdict \in Held}
    IN  /\ i <= j /\ archive[i].unit = archive[j].unit /\ archive[i].verdict = "breaking"
        /\ j \in of
        /\ \A k \in of \ {i} : \E l \in of : l < k /\ archive[k].ts - archive[l].ts <= EpisodeGap

Openers(since) == {i \in InWindow(since) : archive[i].verdict = "breaking"
                                           /\ ~ \E b \in 1 .. i - 1 : b \in InWindow(since) /\ SameStory(since, b, i)}

\* The report lists the episodes that a definition without a state would, each as
\* long as what kept it open; a narrower window changes them only where it
\* cuts one short (breaking_report.py _aggregate, breaking_episode_rule.py observe).
EpisodesAreTheStretches == \A since \in Sinces :
    LET listed == ToSet(Episodes(since))
        lifelong == ToSet(Episodes(0))
    IN  /\ listed = {[unit |-> archive[i].unit, started |-> archive[i].ts, news |-> archive[i].news,
                      last |-> archive[CHOOSE j \in InWindow(since) : SameStory(since, i, j)
                                /\ \A k \in InWindow(since) : SameStory(since, i, k) => k <= j].ts]
                     : i \in Openers(since)}
        /\ \A e \in listed : \E full \in lifelong :
                /\ full.unit = e.unit /\ full.last = e.last
                /\ full.started = e.started \/ full.started < since

\* Two episodes are one story exactly when a chain of similar ones joins them: no
\* division of the episodes that keeps similar ones together parts them.
\* Ids count the stories as they are met (breaking_story_rule.py assign_stories).
StoriesAreTheChains == \A since \in Sinces :
    LET e == Episodes(since)
        id == StoryIds(e)
        Undivided(part) == \A i \in part, j \in DOMAIN e \ part : ~Similar(e[i], e[j])
        parts == {part \in SUBSET DOMAIN e : Undivided(part)}
    IN  \A i, j \in DOMAIN e :
            /\ id[i] = id[j] <=> \A part \in parts : i \in part <=> j \in part
            /\ id[j] <= 1 + Cardinality({id[k] : k \in 1 .. j - 1})

\* The two reports agree, and the strip hides nothing: every pass is a scored or a
\* mechanical one, a cell shows the strongest pass in it and is empty only
\* without one (breaking_timeline_report.py _aggregate_timeline, _strip).
TimelinesAgree == \A since \in Sinces, unit \in Units :
    LET row == Timeline(since, unit)
        passes == {i \in InWindow(since) : archive[i].unit = unit}
        until == LastTs + 1
    IN  /\ row.passes + row.mechanical = Cardinality(passes)
        /\ row.breaking > 0 <=> \E e \in ToSet(Episodes(since)) : e.unit = unit
        /\ \A cells \in Cells : LET strip == Strip(since, until, unit, cells) IN
            /\ \A i \in passes : Precedence(archive[i].verdict) <= strip[Bucket(archive[i].ts, since, until, cells)]
            /\ \A c \in 1 .. cells : strip[c] # NoPass =>
                \E i \in passes : Bucket(archive[i].ts, since, until, cells) = c
                                  /\ Precedence(archive[i].verdict) = strip[c]

\* What a reader of the archive is told of breaking news.
ReportsTellTheNews == EpisodesAreTheStretches /\ StoriesAreTheChains /\ TimelinesAgree
=============================================================================
