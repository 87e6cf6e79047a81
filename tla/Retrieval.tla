----------------------------- MODULE Retrieval -----------------------------
(***************************************************************************)
(* What of the corpus reaches a prompt (Retriever.retrieve over            *)
(* PgVectorStore.query): two windows, a relevance floor, a ranking, and a  *)
(* squeeze that keeps one article of a story and top_k in all.             *)
(*                                                                         *)
(* The corpus is the order in which one query ranks it.  Articles are near *)
(* one another when they share a topic, which need not be transitive, as   *)
(* cosine similarity is not.                                               *)
(***************************************************************************)
EXTENDS Integers, Sequences, FiniteSets

CONSTANTS
    Kinds,        \* the articles there are: [topics, distance, age, importance, weight]
    Retrievals,   \* the retrieval blocks: [topK, floor, deep], deep the least importance or NoTier
    Overfetch,    \* Retriever._OVERFETCH
    MaxCorpus     \* bound

NoTier == 9               \* deep_tier is absent
AnyDistance == 99         \* floor_distance is absent
Recent == 0               \* the age of what the recency window holds
Deep == 1                 \* of what the deep window holds beside it
OutOfWindow == 2

\* A retrieval that asks for no article says nothing.
ASSUME RetrievalAssumption ==
    /\ Overfetch \in Nat \ {0} /\ MaxCorpus \in Nat
    /\ \A a \in Kinds :
        /\ a.distance \in 0 .. AnyDistance /\ a.age \in {Recent, Deep, OutOfWindow}
        /\ a.importance \in Int /\ a.weight \in Int
    /\ \A r \in Retrievals : r.topK \in Nat \ {0} /\ r.floor \in Nat /\ r.deep \in Int

VARIABLES corpus, retrieval

retrievalVars == <<corpus, retrieval>>

(***************************************************************************)
(* The candidates.                                                         *)
(***************************************************************************)

\* PgVectorStore.query: the nearest fetch_k of what a condition admits.  NULL
\* fails every comparison of importance.
FetchK == retrieval.topK * Overfetch
Nearest(admitted) == {i \in admitted : Cardinality({j \in admitted : j < i}) < FetchK}

InTheWindow == {i \in DOMAIN corpus : corpus[i].age = Recent}
InTheDeep == {i \in DOMAIN corpus :
                corpus[i].age # OutOfWindow /\ corpus[i].importance >= retrieval.deep}

RecentHits == Nearest(InTheWindow)
DeepHits == IF retrieval.deep = NoTier THEN {} ELSE Nearest(InTheDeep)

Candidates == [tier : {Recent}, article : RecentHits] \union [tier : {Deep}, article : DeepHits]

Relevant(hit) == corpus[hit.article].distance <= retrieval.floor
Survivors == {hit \in Candidates : Relevant(hit)}

\* Distances are ranked on four decimals: the finer difference is a tie.
Rounded(distance) == distance \div 2

\* The sort is stable: of equals the one its query ranked first is first.
RankKey(hit) == <<hit.tier, Rounded(corpus[hit.article].distance),
                  -corpus[hit.article].weight, -corpus[hit.article].importance, hit.article>>

Below(k, l) == \E n \in 1..5 : k[n] < l[n] /\ \A m \in 1..(n - 1) : k[m] = l[m]

RankOf(hit) == Cardinality({h \in Survivors : Below(RankKey(h), RankKey(hit))}) + 1
Ranked == [n \in 1 .. Cardinality(Survivors) |-> CHOOSE hit \in Survivors : RankOf(hit) = n]

(***************************************************************************)
(* The squeeze.                                                            *)
(***************************************************************************)

Near(a, b) == corpus[a].topics \cap corpus[b].topics # {}

Squeezed == [kept |-> <<>>, tierDuplicates |-> 0, nearDuplicates |-> 0]
Cites(state, article) == \E n \in DOMAIN state.kept : state.kept[n].article = article

\* Faulty variant of TellsAgain: only the article kept last is compared.
TellsAgainTheLast(state, hit) ==
    state.kept # <<>> /\ Near(hit.article, state.kept[Len(state.kept)].article)

TellsAgain(state, hit) == \E n \in DOMAIN state.kept : Near(hit.article, state.kept[n].article)

\* Once top_k are kept the loop breaks, and what is left is neither kept nor counted.
Squeeze(state, hit) ==
    IF Len(state.kept) = retrieval.topK THEN state
    ELSE IF Cites(state, hit.article) THEN [state EXCEPT !.tierDuplicates = @ + 1]
    ELSE IF TellsAgain(state, hit) THEN [state EXCEPT !.nearDuplicates = @ + 1]
    ELSE [state EXCEPT !.kept = Append(@, hit)]

Retrieved ==
    LET ranked == Ranked
        walk[n \in 0 .. Len(ranked)] ==
            IF n = 0 THEN Squeezed ELSE Squeeze(walk[n - 1], ranked[n])
    IN  walk[Len(ranked)]

Funnel(state) ==
    [inWindow |-> Cardinality(Candidates),
     floorDropped |-> Cardinality(Candidates) - Cardinality(Survivors),
     tierDuplicates |-> state.tierDuplicates, nearDuplicates |-> state.nearDuplicates,
     kept |-> Len(state.kept)]

(***************************************************************************)
(* What coverage and floor_profile measure of one query over the window,   *)
(* free of any pass.                                                       *)
(***************************************************************************)

\* The n-th nearest of the window, and the distances in that order.
NthRecent(n) == CHOOSE i \in InTheWindow : Cardinality({j \in InTheWindow : j <= i}) = n
Curve == [n \in 1 .. Cardinality(InTheWindow) |-> corpus[NthRecent(n)].distance]

InFloor == {n \in DOMAIN Curve : Curve[n] <= retrieval.floor}
Starved == Curve # <<>> /\ Curve[1] > retrieval.floor

\* percentile_cont(0.5), doubled.
Median == Curve[(Len(Curve) + 1) \div 2] + Curve[Len(Curve) \div 2 + 1]
Indiscriminate == Curve # <<>> /\ Median <= 2 * retrieval.floor

\* knee_of, within the median: the near side of the widest gap, the first of equals.
GapsInMedian == {n \in 1 .. Len(Curve) - 1 : 2 * Curve[n + 1] <= Median}
GapAfter(n) == Curve[n + 1] - Curve[n]
HasKnee == GapsInMedian # {}
Knee ==
    Curve[CHOOSE n \in GapsInMedian : \A m \in GapsInMedian :
            GapAfter(m) < GapAfter(n) \/ (GapAfter(m) = GapAfter(n) /\ n <= m)]

(***************************************************************************)
(* Every corpus, and every retrieval block over it.                        *)
(***************************************************************************)

RetrievalInit == corpus = <<>> /\ retrieval \in Retrievals

RetrievalNext ==
    /\ Len(corpus) < MaxCorpus
    /\ \E a \in Kinds :
        /\ corpus # <<>> => corpus[Len(corpus)].distance <= a.distance
        /\ corpus' = Append(corpus, a)
    /\ UNCHANGED retrieval

RetrievalSpec == RetrievalInit /\ [][RetrievalNext]_retrievalVars

(***************************************************************************)
(* Properties.                                                             *)
(***************************************************************************)

\* A prompt never reads a story twice or an article that is off topic, and never
\* more than top_k.
OneArticlePerStory(kept) ==
    /\ Len(kept) <= retrieval.topK
    /\ \A n \in DOMAIN kept : Relevant(kept[n])
    /\ \A m, n \in DOMAIN kept : m # n => ~Near(kept[m].article, kept[n].article)

\* An old story never costs today's news its place: beside anything retrospective,
\* everything the recency query found relevant is cited, or tells what a recent
\* article that is cited tells.
RecencyDominates(kept) ==
    (\E n \in DOMAIN kept : kept[n].tier = Deep) =>
        \A i \in RecentHits :
            corpus[i].distance <= retrieval.floor =>
                \E n \in DOMAIN kept :
                    kept[n].tier = Recent /\ (i = kept[n].article \/ Near(i, kept[n].article))

\* What is cited as retrospective is older than the recency window, unless that
\* window held more than one query fetches.
RetrospectiveIsOld(kept) == \A n \in DOMAIN kept :
    kept[n].tier = Deep /\ corpus[kept[n].article].age = Recent => Cardinality(RecentHits) = FetchK

\* The funnel explains the context it comes with: every candidate is in one of its
\* counters unless the cap cut the rest, and an empty context is one the floor
\* emptied.
FunnelAddsUp(funnel) ==
    LET told == funnel.floorDropped + funnel.tierDuplicates + funnel.nearDuplicates + funnel.kept
    IN  /\ told <= funnel.inWindow
        /\ funnel.kept # retrieval.topK => told = funnel.inWindow
        /\ funnel.kept = 0 <=> funnel.inWindow = funnel.floorDropped

\* The instruments for the floor foretell the prompt: no article within the floor is a
\* prompt without recent news and the other way round, what they call starved is scored
\* on nothing unless an older story is carried in, a query they call indiscriminate is
\* not starved, and a floor at the knee would starve nobody
\* (coverage_report.py window_in_floor, floor_profile_report.py).
InstrumentsForetell(kept) ==
    LET recent == {n \in DOMAIN kept : kept[n].tier = Recent}
    IN  /\ InFloor = {} <=> recent = {}
        /\ Cardinality(recent) <= Cardinality(InFloor)
        /\ Starved /\ retrieval.deep = NoTier => kept = <<>>
        /\ Indiscriminate => ~Starved
        /\ HasKnee => Curve[1] <= Knee

\* What the parts above promise of one retrieval.
ContextIsFair ==
    LET state == Retrieved
    IN  /\ OneArticlePerStory(state.kept) /\ RecencyDominates(state.kept)
        /\ RetrospectiveIsOld(state.kept) /\ FunnelAddsUp(Funnel(state))
        /\ InstrumentsForetell(state.kept)
=============================================================================
