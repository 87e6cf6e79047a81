---------------------------- MODULE EpisodeProofs ----------------------------
(***************************************************************************)
(* The registry of breaking stories follows the journal, for any number of *)
(* overlapping passes, every gap and seed window, every fault, and any     *)
(* backfill beside the running engine.                                     *)
(*                                                                         *)
(* A seed and a backfill fold the rule over what one statement read, so    *)
(* the argument starts with folds: what holds before the first envelope    *)
(* and is kept by each one holds after the last.                           *)
(*                                                                         *)
(* The middle part tells the stories of one pipeline apart: it compares    *)
(* seeds that start at different instants with each other, and with the    *)
(* tracker that never stopped.  Where an archive predates the episode      *)
(* fields, one fold of the whole journal names its stories, and engine,    *)
(* seeds and backfills are compared with that.                             *)
(*                                                                         *)
(* The last part is the other fold of the engine: the squeeze of a         *)
(* retrieval's ranking into the context of a prompt.                       *)
(***************************************************************************)
EXTENDS EpisodeBackfill, Retrieval, TLAPS, FiniteSetTheorems, SequenceTheorems, WellFoundedInduction

(***************************************************************************)
(* Folds.                                                                  *)
(***************************************************************************)

\* What holds at zero and is kept by every step up to N holds up to N.
LEMMA StepByStep ==
    ASSUME NEW N \in Nat, NEW P, 0 \in P, \A n \in 1 .. N : n - 1 \in P => n \in P
    PROVE  \A n \in 0 .. N : n \in P
<1> SUFFICES ASSUME NEW n \in 0 .. N, n \notin P PROVE FALSE
    OBVIOUS
<1> DEFINE Missing == {k \in 0 .. N : k \notin P}
<1>1. Missing \subseteq Nat /\ Missing # {}
    OBVIOUS
<1>2. \E x \in Missing : \A y \in Missing : ~ (<<y, x>> \in OpToRel(<, Nat))
  <2> HIDE DEF Missing
  <2> QED BY <1>1, NatLessThanWellFounded, WFMin
<1>3. PICK x \in Missing : \A y \in Missing : ~ (<<y, x>> \in OpToRel(<, Nat))
    BY <1>2
<1>a. x \in 0 .. N /\ x # 0
    BY <1>3
<1>4. x \in 1 .. N /\ x \in Nat /\ x - 1 \in Nat /\ x - 1 < x /\ x - 1 \in 0 .. N
    BY <1>a
<1>5. x - 1 \notin P
    BY <1>3, <1>4
<1>6. x - 1 \in Missing
    BY <1>4, <1>5
<1>7. <<x - 1, x>> \in OpToRel(<, Nat)
    BY <1>4 DEF OpToRel
<1> QED BY <1>3, <1>6, <1>7

\* f is the fold of step over the numbers up to N.
IsFold(f, N, start, step) == f[0] = start /\ \A n \in 1 .. N : f[n] = step[n][f[n - 1]]

\* A fold exists, and no step of it leaves a set the steps are closed over.
LEMMA FoldExists ==
    ASSUME NEW N \in Nat, NEW S, NEW start \in S, NEW step \in [1 .. N -> [S -> S]]
    PROVE  \E f \in [0 .. N -> S] : IsFold(f, N, start, step)
<1> USE DEF IsFold
<1> DEFINE Fold(k, f) == f[0] = start /\ \A n \in 1 .. k : f[n] = step[n][f[n - 1]]
           Reached == {k \in 0 .. N : \E f \in [0 .. k -> S] : Fold(k, f)}
<1>1. 0 \in Reached
  <2> DEFINE f == [i \in 0 .. 0 |-> start]
  <2>1. f \in [0 .. 0 -> S] /\ f[0] = start /\ 0 \in 0 .. N
      OBVIOUS
  <2> HIDE DEF f
  <2>2. Fold(0, f)
      BY <2>1
  <2> QED BY <2>1, <2>2
<1>2. ASSUME NEW n \in 1 .. N, n - 1 \in Reached PROVE n \in Reached
  <2>1. PICK f \in [0 .. n - 1 -> S] : Fold(n - 1, f)
      BY <1>2
  <2> DEFINE g == [i \in 0 .. n |-> IF i = n THEN step[n][f[n - 1]] ELSE f[i]]
  <2>2. f[n - 1] \in S
      OBVIOUS
  <2>3. step[n][f[n - 1]] \in S
      BY <2>2
  <2>4. g \in [0 .. n -> S]
    <3> SUFFICES ASSUME NEW i \in 0 .. n PROVE g[i] \in S
        OBVIOUS
    <3>1. CASE i = n
        BY <3>1, <2>3
    <3>2. CASE i # n
        BY <3>2
    <3> QED BY <3>1, <3>2
  <2>5. \A i \in 0 .. n - 1 : g[i] = f[i]
      OBVIOUS
  <2>6. g[n] = step[n][f[n - 1]]
      OBVIOUS
  <2>7. Fold(n, g)
    <3> HIDE DEF g
    <3>1. g[0] = start
        BY <2>1, <2>5
    <3>2. ASSUME NEW i \in 1 .. n PROVE g[i] = step[i][g[i - 1]]
      <4>1. CASE i = n
          BY <4>1, <2>5, <2>6
      <4>2. CASE i # n
        <5>1. i \in 1 .. n - 1 /\ i \in 0 .. n - 1 /\ i - 1 \in 0 .. n - 1
            BY <4>2
        <5> QED BY <5>1, <2>1, <2>5
      <4> QED BY <4>1, <4>2
    <3> QED BY <3>1, <3>2
  <2> HIDE DEF g, Fold
  <2> QED BY <2>4, <2>7
<1>3. \A n \in 0 .. N : n \in Reached
  <2> HIDE DEF Reached
  <2> QED BY <1>1, <1>2, StepByStep
<1> QED BY <1>3

(***************************************************************************)
(* What one statement reads.                                               *)
(***************************************************************************)

LEMMA SeedsBeforeIsTotal ==
    ASSUME journal \in Seq(Row), NEW i \in DOMAIN journal, NEW j \in DOMAIN journal
    PROVE  /\ ~SeedsBefore(i, i)
           /\ i # j => SeedsBefore(i, j) \/ SeedsBefore(j, i)
           /\ \A k \in DOMAIN journal : SeedsBefore(i, j) /\ SeedsBefore(j, k) => SeedsBefore(i, k)
<1>1. \A k \in DOMAIN journal : k \in Nat /\ journal[k].ts \in Nat
  <2> TAKE k \in DOMAIN journal
  <2>1. journal[k] \in Row
      OBVIOUS
  <2> QED BY <2>1 DEF Row
<1>2. ~SeedsBefore(i, i)
    BY <1>1 DEF SeedsBefore
<1>3. i # j => SeedsBefore(i, j) \/ SeedsBefore(j, i)
    BY <1>1 DEF SeedsBefore
<1>4. ASSUME NEW k \in DOMAIN journal, SeedsBefore(i, j), SeedsBefore(j, k)
      PROVE  SeedsBefore(i, k)
  <2>1. /\ i \in Nat /\ j \in Nat /\ k \in Nat
        /\ journal[i].ts \in Nat /\ journal[j].ts \in Nat /\ journal[k].ts \in Nat
      BY <1>1
  <2> QED BY <1>4, <2>1 DEF SeedsBefore
<1> QED BY <1>2, <1>3, <1>4

\* Places grow along the order, and none lies beyond what was read.
LEMMA PlacesGrow ==
    ASSUME journal \in Seq(Row), NEW W, W \subseteq DOMAIN journal
    PROVE  /\ IsFiniteSet(W) /\ Cardinality(W) \in Nat
           /\ \A i \in W : Place(i, W) \in 1 .. Cardinality(W)
           /\ \A i, k \in W : SeedsBefore(i, k) => Place(i, W) < Place(k, W)
<1> DEFINE Ahead(i) == {j \in W : SeedsBefore(j, i)}
<1>1. IsFiniteSet(W)
  <2>1. DOMAIN journal = 1 .. Len(journal) /\ Len(journal) \in Int
      OBVIOUS
  <2>2. IsFiniteSet(1 .. Len(journal))
      BY <2>1, FS_Interval
  <2> QED BY <2>1, <2>2, FS_Subset
<1>2. \A i \in W : IsFiniteSet(Ahead(i)) /\ Cardinality(Ahead(i)) \in Nat
  <2> TAKE i \in W
  <2>1. Ahead(i) \in SUBSET W
      OBVIOUS
  <2>2. IsFiniteSet(Ahead(i))
      BY <1>1, <2>1, FS_Subset
  <2> QED BY <2>2, FS_CardinalityType
<1>3. \A i \in W : IsFiniteSet(Ahead(i) \union {i}) /\ Cardinality(Ahead(i) \union {i}) = Place(i, W)
  <2> TAKE i \in W
  <2>1. i \notin Ahead(i)
      BY SeedsBeforeIsTotal
  <2>2. Place(i, W) = Cardinality(Ahead(i)) + 1
      BY DEF Place
  <2> HIDE DEF Ahead
  <2> QED BY <1>2, <2>1, <2>2, FS_AddElement
<1>4. Cardinality(W) \in Nat
    BY <1>1, FS_CardinalityType
<1>5. \A i \in W : Place(i, W) \in 1 .. Cardinality(W)
  <2> TAKE i \in W
  <2>1. Ahead(i) \union {i} \in SUBSET W
      OBVIOUS
  <2>2. Cardinality(Ahead(i) \union {i}) <= Cardinality(W)
      BY <1>1, <2>1, FS_Subset
  <2>3. Place(i, W) = Cardinality(Ahead(i)) + 1
      BY DEF Place
  <2>4. Place(i, W) = Cardinality(Ahead(i) \union {i})
      BY <1>3
  <2>5. Cardinality(Ahead(i)) \in Nat
      BY <1>2
  <2> HIDE DEF Ahead
  <2> QED BY <1>4, <2>2, <2>3, <2>4, <2>5
<1>6. \A i, k \in W : SeedsBefore(i, k) => Place(i, W) < Place(k, W)
  <2> SUFFICES ASSUME NEW i \in W, NEW k \in W, SeedsBefore(i, k)
               PROVE  Place(i, W) < Place(k, W)
      OBVIOUS
  <2>1. Ahead(i) \union {i} \in SUBSET Ahead(k)
    <3> SUFFICES ASSUME NEW j \in Ahead(i) PROVE j \in Ahead(k)
        OBVIOUS
    <3>1. j \in W /\ SeedsBefore(j, i)
        OBVIOUS
    <3>2. j \in DOMAIN journal /\ i \in DOMAIN journal /\ k \in DOMAIN journal
        BY <3>1
    <3> QED BY <3>1, <3>2, SeedsBeforeIsTotal
  <2>2. Cardinality(Ahead(i) \union {i}) <= Cardinality(Ahead(k))
      BY <1>2, <2>1, FS_Subset
  <2>3. Place(k, W) = Cardinality(Ahead(k)) + 1
      BY DEF Place
  <2>4. Place(i, W) = Cardinality(Ahead(i) \union {i})
      BY <1>3
  <2>5. Cardinality(Ahead(i)) \in Nat /\ Cardinality(Ahead(k)) \in Nat
      BY <1>2
  <2>6. Place(i, W) \in Nat
      BY <2>5 DEF Place
  <2> HIDE DEF Ahead
  <2> QED BY <2>2, <2>3, <2>4, <2>5, <2>6
<1> QED BY <1>1, <1>4, <1>5, <1>6

\* get_since reads each evaluated envelope of the window once, in its order.
LEMMA RowsAreRead ==
    ASSUME journal \in Seq(Row), NEW ts, NEW rows, rows = RowsSince(ts)
    PROVE  /\ rows \in Seq([index : DOMAIN journal, row : Row])
           /\ \A n \in 1 .. Len(rows) : rows[n].index \in EvaluatedSince(ts)
                                       /\ rows[n].row = journal[rows[n].index]
           /\ \A i \in EvaluatedSince(ts) : \E n \in 1 .. Len(rows) : rows[n].index = i
           /\ \A m, n \in 1 .. Len(rows) :
                m < n => SeedsBefore(rows[m].index, rows[n].index)
<1> DEFINE W == EvaluatedSince(ts)
           At(n) == CHOOSE j \in W : Place(j, W) = n
           N == Cardinality(W)
<1>1. W \subseteq DOMAIN journal
    BY DEF EvaluatedSince
<1>2. rows = [n \in 1 .. N |-> [index |-> At(n), row |-> journal[At(n)]]]
    BY DEF RowsSince
<1> HIDE DEF W, N
<1>3. /\ IsFiniteSet(W) /\ N \in Nat /\ \A i \in W : Place(i, W) \in 1 .. N
      /\ \A i, k \in W : SeedsBefore(i, k) => Place(i, W) < Place(k, W)
    BY <1>1, PlacesGrow DEF N
<1>4. ASSUME NEW i \in W, NEW k \in W, Place(i, W) < Place(k, W) PROVE SeedsBefore(i, k)
  <2>1. i # k
      BY <1>3, <1>4
  <2>2. ~SeedsBefore(k, i)
      BY <1>3, <1>4
  <2> QED BY <1>1, <2>1, <2>2, SeedsBeforeIsTotal
<1>5. ASSUME NEW i \in W, NEW k \in W, Place(i, W) = Place(k, W) PROVE i = k
  <2>1. ~SeedsBefore(i, k) /\ ~SeedsBefore(k, i)
      BY <1>3, <1>5
  <2> QED BY <1>1, <2>1, SeedsBeforeIsTotal
<1>6. \A n \in 1 .. N : \E i \in W : Place(i, W) = n
  <2> DEFINE place == [i \in W |-> Place(i, W)]
  <2>1. place \in Injection(W, 1 .. N)
    <3>1. place \in [W -> 1 .. N]
        BY <1>3
    <3>2. \A i, k \in W : place[i] = place[k] => i = k
        BY <1>5
    <3>3. DOMAIN place = W
        OBVIOUS
    <3> HIDE DEF place
    <3> QED BY <3>1, <3>2, <3>3 DEF Injection, IsInjective
  <2>2. IsFiniteSet(1 .. N) /\ Cardinality(1 .. N) = Cardinality(W)
    <3>1. 1 \in Int /\ N \in Int
        BY <1>3
    <3>2. Cardinality(1 .. N) = IF 1 > N THEN 0 ELSE N - 1 + 1
        BY <3>1, FS_Interval
    <3>3. Cardinality(1 .. N) = N
        BY <3>2, <1>3
    <3> QED BY <3>1, <3>3, FS_Interval DEF N
  <2>3. place \in Surjection(W, 1 .. N)
      BY <2>1, <2>2, FS_Injection
  <2>4. \A n \in 1 .. N : \E i \in W : place[i] = n
      BY <2>3 DEF Surjection
  <2> QED BY <2>4
<1>7. \A n \in 1 .. N : At(n) \in W /\ Place(At(n), W) = n
    BY <1>6
<1> HIDE DEF At
<1>8. \A n \in 1 .. N : rows[n].index = At(n) /\ rows[n].row = journal[At(n)]
    BY <1>2
<1>9. rows \in Seq([index : DOMAIN journal, row : Row]) /\ Len(rows) = N
  <2>1. \A n \in 1 .. N : journal[At(n)] \in Row /\ At(n) \in DOMAIN journal
      BY <1>1, <1>7
  <2>2. rows \in [1 .. N -> [index : DOMAIN journal, row : Row]]
      BY <1>2, <2>1
  <2> DEFINE Read == [index : DOMAIN journal, row : Row]
  <2> HIDE DEF Read
  <2>3. rows \in [1 .. N -> Read]
      BY <2>2 DEF Read
  <2>4. rows \in Seq(Read) /\ Len(rows) = N
      BY <2>3, <1>3
  <2> QED BY <2>4 DEF Read
<1>10. ASSUME NEW i \in W PROVE \E n \in 1 .. N : rows[n].index = i
  <2>1. Place(i, W) \in 1 .. N
      BY <1>3
  <2>2. At(Place(i, W)) = i
      BY <1>5, <1>7, <2>1
  <2> QED BY <1>8, <2>1, <2>2
<1>11. ASSUME NEW m \in 1 .. N, NEW n \in 1 .. N, m < n
       PROVE  SeedsBefore(rows[m].index, rows[n].index)
    BY <1>4, <1>7, <1>8, <1>11
<1> QED BY <1>7, <1>8, <1>9, <1>10, <1>11 DEF W

(***************************************************************************)
(* The rule, and the tracker it is folded into.                            *)
(***************************************************************************)

\* A story started at its identity, or the registry has it.
Known(started, id) == started = id \/ id \in DOMAIN registry

\* An envelope carries no identity, or one the registry has.
Carries(row) == row.id = 0 \/ row.id \in DOMAIN registry

LEMMA ObservedKeeps ==
    ASSUME NEW tr \in Tracker, NEW row \in Row, Known(tr.started, tr.id), Carries(row)
    PROVE  /\ Observed(tr, row) \in Tracker
           /\ Known(Observed(tr, row).started, Observed(tr, row).id)
<1>1. row.ts \in Nat /\ row.id \in Nat
    BY DEF Row
<1> DEFINE id == IF row.id # 0 THEN row.id ELSE row.ts
<1>2. id \in Nat /\ Known(row.ts, id)
    BY <1>1 DEF Known, Carries
<1>3. CASE Opens(tr, row)
  <2>1. Observed(tr, row) = [open |-> TRUE, started |-> row.ts, last |-> row.ts, id |-> id]
      BY <1>3 DEF Observed
  <2> HIDE DEF id
  <2> QED BY <1>1, <1>2, <2>1 DEF Tracker
<1>4. CASE ~Opens(tr, row) /\ (~tr.open \/ Lapsed(tr, row.ts))
  <2>1. Observed(tr, row) = Closed
      BY <1>4 DEF Observed
  <2> QED BY <2>1 DEF Closed, Tracker, Known
<1>5. CASE ~Opens(tr, row) /\ ~(~tr.open \/ Lapsed(tr, row.ts))
  <2>1. Observed(tr, row) \in {tr, [tr EXCEPT !.last = row.ts]}
      BY <1>5 DEF Observed
  <2> QED BY <1>1, <2>1 DEF Tracker
<1> QED BY <1>3, <1>4, <1>5

LEMMA StampedIsTyped ==
    ASSUME NEW tr, NEW row \in Row, Observed(tr, row) \in Tracker
    PROVE  /\ Stamped(tr, row) \in Row
           /\ Stamped(tr, row).ts = row.ts
           /\ Stamped(tr, row).id = Observed(tr, row).id
<1>1. row.ts \in Nat /\ row.verdict \in Verdict /\ Observed(tr, row).id \in Nat
    BY DEF Row, Tracker
<1>2. Opens(tr, row) \in BOOLEAN
    BY DEF Opens
<1> HIDE DEF Opens
<1> QED BY <1>1, <1>2 DEF Stamped, Stamp, Row

KnownTracker == {tr \in Tracker : Known(tr.started, tr.id)}

\* A seed is one fold of the rule over what was read.
LEMMA SeedIsKnown ==
    ASSUME journal \in Seq(Row), \A i \in DOMAIN journal : Carries(journal[i]),
           NEW ts
    PROVE  /\ Seeded(RowsSince(ts)) \in Tracker
           /\ Known(Seeded(RowsSince(ts)).started, Seeded(RowsSince(ts)).id)
<1> DEFINE rows == RowsSince(ts)
           N == Len(rows)
           T == KnownTracker
           step == [n \in 1 .. N |-> [tr \in T |-> Observed(tr, rows[n].row)]]
           after == CHOOSE g : g = [n \in 0 .. N |->
                        IF n = 0 THEN Closed ELSE Observed(g[n - 1], rows[n].row)]
<1>1. N \in Nat /\ \A n \in 1 .. N : rows[n].row \in Row /\ Carries(rows[n].row)
  <2>1. rows \in Seq([index : DOMAIN journal, row : Row])
      BY RowsAreRead
  <2>2. \A n \in 1 .. N : rows[n].index \in EvaluatedSince(ts) /\ rows[n].row = journal[rows[n].index]
      BY RowsAreRead
  <2>3. EvaluatedSince(ts) \subseteq DOMAIN journal
      BY DEF EvaluatedSince
  <2> HIDE DEF rows
  <2> QED BY <2>1, <2>2, <2>3
<1>2. Seeded(rows) = after[N]
    BY DEF Seeded
<1> HIDE DEF rows, N, after
<1>3. Closed \in T
    BY DEF Closed, Tracker, Known, KnownTracker
<1>4. step \in [1 .. N -> [T -> T]]
    BY <1>1, ObservedKeeps DEF KnownTracker
<1>5. PICK f \in [0 .. N -> T] : IsFold(f, N, Closed, step)
  <2> HIDE DEF T, step
  <2> QED BY <1>1, <1>3, <1>4, FoldExists
<1>6. \A n \in 1 .. N : f[n - 1] \in T /\ f[n] = Observed(f[n - 1], rows[n].row)
  <2> TAKE n \in 1 .. N
  <2>1. n - 1 \in 0 .. N
      BY <1>1
  <2> HIDE DEF T
  <2>2. f[n - 1] \in T
      BY <1>5, <2>1
  <2>3. step[n][f[n - 1]] = Observed(f[n - 1], rows[n].row)
      BY <2>2
  <2> HIDE DEF step
  <2> QED BY <1>5, <2>2, <2>3 DEF IsFold
<1> HIDE DEF T
<1>7. f = [n \in 0 .. N |-> IF n = 0 THEN Closed ELSE Observed(f[n - 1], rows[n].row)]
    BY <1>1, <1>5, <1>6 DEF IsFold
<1>8. after = [n \in 0 .. N |-> IF n = 0 THEN Closed ELSE Observed(after[n - 1], rows[n].row)]
    BY <1>7 DEF after
<1>9. \A n \in 0 .. N : n \in {m \in 0 .. N : after[m] = f[m]}
  <2> DEFINE Same == {m \in 0 .. N : after[m] = f[m]}
  <2>1. 0 \in Same
      BY <1>1, <1>5, <1>8 DEF IsFold
  <2>2. ASSUME NEW n \in 1 .. N, n - 1 \in Same PROVE n \in Same
    <3>1. n \in 0 .. N /\ n # 0
        OBVIOUS
    <3>2. after[n] = Observed(after[n - 1], rows[n].row)
        BY <1>8, <3>1
    <3>3. after[n - 1] = f[n - 1]
        BY <2>2
    <3> QED BY <1>6, <3>1, <3>2, <3>3
  <2> HIDE DEF Same
  <2>3. \A n \in 0 .. N : n \in Same
      BY <1>1, <2>1, <2>2, StepByStep
  <2> QED BY <2>3 DEF Same
<1>10. after[N] = f[N] /\ f[N] \in T
    BY <1>1, <1>5, <1>9
<1> QED BY <1>2, <1>10 DEF T, rows, KnownTracker

(***************************************************************************)
(* The backfill.                                                           *)
(***************************************************************************)

StampRecord == [index : Nat, row : Row, started : Nat]

\* What a backfill is about to write belongs to an envelope without identity.
Fits(s) ==
    /\ s.index \in DOMAIN journal /\ journal[s.index].id = 0
    /\ s.row.id # 0 /\ s.row.ts = journal[s.index].ts
    /\ Known(s.started, s.row.id)
Fitting == {s \in StampRecord : Fits(s)}
OncePerEnvelope(stamps) ==
    \A k, l \in 1 .. Len(stamps) : stamps[k].index = stamps[l].index => k = l

\* What a replay has gathered.
Work == [tracker : KnownTracker, clashes : SUBSET Nat, stamps : Seq(Fitting)]

LEMMA ReplayedOneKeeps ==
    ASSUME journal \in Seq(Row), \A i \in DOMAIN journal : Carries(journal[i]),
           NEW done \in Work, NEW entry, entry.index \in DOMAIN journal,
           entry.row = journal[entry.index], NEW since \in Nat
    PROVE  /\ ReplayedOne(done, entry, since) \in Work
           /\ \/ ReplayedOne(done, entry, since).stamps = done.stamps
              \/ \E s \in Fitting : /\ s.index = entry.index
                                  /\ ReplayedOne(done, entry, since).stamps = Append(done.stamps, s)
<1> DEFINE row == entry.row
           input == Replayable(row, since)
           computed == Stamped(done.tracker, input)
           after == Observed(done.tracker, input)
           stamp == [index |-> entry.index, row |-> computed, started |-> after.started]
           clashes == done.clashes \union (IF Agrees(row, computed, since) THEN {} ELSE {entry.index})
           stamps == IF Stamps(row, computed, since) THEN Append(done.stamps, stamp) ELSE done.stamps
<1>1. ReplayedOne(done, entry, since) = [tracker |-> after, clashes |-> clashes, stamps |-> stamps]
    BY DEF ReplayedOne
<1>2. row \in Row /\ Carries(row) /\ entry.index \in Nat
    OBVIOUS
<1>3. done.tracker \in KnownTracker /\ done.clashes \in SUBSET Nat /\ done.stamps \in Seq(Fitting)
    BY DEF Work
<1>4. input \in Row /\ Carries(input) /\ input.ts = row.ts
  <2>1. row.ts \in Nat /\ row.verdict \in Verdict
      BY <1>2 DEF Row
  <2>2. Unstamped(row.ts, row.verdict) \in Row /\ Carries(Unstamped(row.ts, row.verdict))
        /\ Unstamped(row.ts, row.verdict).ts = row.ts
      BY <2>1 DEF Unstamped, Stamp, Row, Carries
  <2> QED BY <1>2, <2>2 DEF Replayable
<1>5. after \in KnownTracker
    BY <1>3, <1>4, ObservedKeeps DEF KnownTracker
<1>6. computed \in Row /\ computed.ts = row.ts /\ computed.id = after.id
    BY <1>4, <1>5, StampedIsTyped DEF KnownTracker
<1> HIDE DEF input, computed, after
<1>7. ASSUME Stamps(row, computed, since) PROVE stamp \in Fitting
  <2>1. after.started \in Nat /\ Known(after.started, after.id)
      BY <1>5 DEF KnownTracker, Tracker
  <2>2. stamp \in StampRecord
      BY <1>2, <1>6, <2>1 DEF StampRecord
  <2>3. Fits(stamp)
      BY <1>6, <1>7, <2>1 DEF Fits, Stamps
  <2> QED BY <2>2, <2>3 DEF Fitting
<1>8. stamp.index = entry.index
    OBVIOUS
<1> HIDE DEF stamp
<1>9. stamps \in Seq(Fitting)
    BY <1>3, <1>7
<1>10. clashes \in SUBSET Nat
    BY <1>2, <1>3
<1>11. stamps = done.stamps \/ (stamps = Append(done.stamps, stamp) /\ stamp \in Fitting)
    BY <1>7
<1> HIDE DEF stamps, clashes
<1>12. [tracker |-> after, clashes |-> clashes, stamps |-> stamps] \in Work
    BY <1>5, <1>9, <1>10 DEF Work
<1> QED BY <1>1, <1>8, <1>11, <1>12

\* A replay is one fold of the range.
Unfolds(f, rows, since) ==
    /\ f[0] = [tracker |-> Closed, clashes |-> {}, stamps |-> <<>>]
    /\ \A n \in 1 .. Len(rows) : f[n] = ReplayedOne(f[n - 1], rows[n], since)

LEMMA ReplayUnfolds ==
    ASSUME journal \in Seq(Row), \A i \in DOMAIN journal : Carries(journal[i]),
           NEW since \in Nat, NEW rows, rows = RowsSince(since - Window)
    PROVE  /\ Len(rows) \in Nat
           /\ \A n \in 1 .. Len(rows) :
                rows[n].index \in DOMAIN journal /\ rows[n].row = journal[rows[n].index]
           /\ \A m, n \in 1 .. Len(rows) : m < n => SeedsBefore(rows[m].index, rows[n].index)
           /\ \E f \in [0 .. Len(rows) -> Work] :
                Unfolds(f, rows, since) /\ Replay(since) = f[Len(rows)]
<1> DEFINE N == Len(rows)
           nothing == [tracker |-> Closed, clashes |-> {}, stamps |-> <<>>]
           step == [n \in 1 .. N |-> [w \in Work |-> ReplayedOne(w, rows[n], since)]]
           done == CHOOSE g : g = [n \in 0 .. N |->
                        IF n = 0 THEN [tracker |-> Closed, clashes |-> {}, stamps |-> <<>>]
                        ELSE ReplayedOne(g[n - 1], rows[n], since)]
<1>1. /\ N \in Nat
      /\ \A n \in 1 .. N : rows[n].index \in DOMAIN journal /\ rows[n].row = journal[rows[n].index]
      /\ \A m, n \in 1 .. N : m < n => SeedsBefore(rows[m].index, rows[n].index)
  <2>1. rows \in Seq([index : DOMAIN journal, row : Row])
      BY RowsAreRead
  <2>2. /\ \A n \in 1 .. N : rows[n].index \in EvaluatedSince(since - Window)
                            /\ rows[n].row = journal[rows[n].index]
        /\ \A m, n \in 1 .. N : m < n => SeedsBefore(rows[m].index, rows[n].index)
      BY RowsAreRead
  <2>3. EvaluatedSince(since - Window) \subseteq DOMAIN journal
      BY DEF EvaluatedSince
  <2> QED BY <2>1, <2>2, <2>3
<1>2. Replay(since) = done[N]
    BY DEF Replay
<1> HIDE DEF N, done
<1>3. nothing \in Work
  <2>1. Closed \in KnownTracker
      BY DEF Closed, Tracker, Known, KnownTracker
  <2> QED BY <2>1 DEF Work
<1> HIDE DEF nothing
<1>4. step \in [1 .. N -> [Work -> Work]]
    BY <1>1, ReplayedOneKeeps
<1>5. PICK f \in [0 .. N -> Work] : IsFold(f, N, nothing, step)
  <2> HIDE DEF step
  <2> QED BY <1>1, <1>3, <1>4, FoldExists
<1>6. \A n \in 1 .. N : f[n - 1] \in Work /\ f[n] = ReplayedOne(f[n - 1], rows[n], since)
  <2> TAKE n \in 1 .. N
  <2>1. n - 1 \in 0 .. N
      BY <1>1
  <2>2. f[n - 1] \in Work
      BY <1>5, <2>1
  <2>3. step[n][f[n - 1]] = ReplayedOne(f[n - 1], rows[n], since)
      BY <2>2
  <2> HIDE DEF step
  <2> QED BY <1>5, <2>2, <2>3 DEF IsFold
<1>7. f[0] = nothing
    BY <1>5 DEF IsFold
<1> HIDE DEF step
<1>8. f = [n \in 0 .. N |-> IF n = 0 THEN nothing ELSE ReplayedOne(f[n - 1], rows[n], since)]
    BY <1>1, <1>5, <1>6, <1>7
<1>9. done = [n \in 0 .. N |-> IF n = 0 THEN nothing ELSE ReplayedOne(done[n - 1], rows[n], since)]
    BY <1>8 DEF done, nothing
<1> DEFINE Same == {n \in 0 .. N : done[n] = f[n]}
<1>10. 0 \in Same
    BY <1>1, <1>7, <1>9
<1>11. ASSUME NEW n \in 1 .. N, n - 1 \in Same PROVE n \in Same
  <2>1. n \in 0 .. N /\ n # 0
      OBVIOUS
  <2>2. done[n] = ReplayedOne(done[n - 1], rows[n], since)
      BY <1>9, <2>1
  <2> QED BY <1>6, <1>11, <2>1, <2>2
<1>12. \A n \in 0 .. N : n \in Same
  <2> HIDE DEF Same
  <2> QED BY <1>1, <1>10, <1>11, StepByStep
<1>13. Replay(since) = f[N]
  <2>1. N \in 0 .. N
      BY <1>1
  <2> QED BY <1>2, <1>12, <2>1
<1>14. Unfolds(f, rows, since)
    BY <1>6, <1>7 DEF Unfolds, nothing, N
<1> QED BY <1>1, <1>5, <1>13, <1>14 DEF N

\* It stamps no envelope twice, and none that has an identity.
LEMMA ReplayFits ==
    ASSUME journal \in Seq(Row), \A i \in DOMAIN journal : Carries(journal[i]),
           NEW since \in Nat
    PROVE  Replay(since) \in Work /\ OncePerEnvelope(Replay(since).stamps)
<1> DEFINE rows == RowsSince(since - Window)
           N == Len(rows)
<1>1. /\ N \in Nat
      /\ \A n \in 1 .. N : rows[n].index \in DOMAIN journal /\ rows[n].row = journal[rows[n].index]
      /\ \A m, n \in 1 .. N : m < n => SeedsBefore(rows[m].index, rows[n].index)
    BY ReplayUnfolds
<1>2. PICK f \in [0 .. N -> Work] : Unfolds(f, rows, since) /\ Replay(since) = f[N]
    BY ReplayUnfolds
<1> HIDE DEF rows, N
<1>6. \A n \in 1 .. N : f[n - 1] \in Work /\ f[n] = ReplayedOne(f[n - 1], rows[n], since)
  <2> TAKE n \in 1 .. N
  <2>1. n - 1 \in 0 .. N
      BY <1>1
  <2> QED BY <1>2, <2>1 DEF Unfolds, N
<1>7. f[0].stamps = <<>>
    BY <1>2 DEF Unfolds
<1> DEFINE Good == {n \in 0 .. N : /\ OncePerEnvelope(f[n].stamps)
                                   /\ \A k \in 1 .. Len(f[n].stamps) :
                                        \E m \in 1 .. n : f[n].stamps[k].index = rows[m].index}
<1>10. 0 \in Good
  <2>1. Len(f[0].stamps) = 0 /\ 0 \in 0 .. N
      BY <1>1, <1>7
  <2> QED BY <2>1 DEF OncePerEnvelope
<1>11. ASSUME NEW n \in 1 .. N, n - 1 \in Good PROVE n \in Good
  <2> DEFINE old == f[n - 1].stamps
             new == f[n].stamps
  <2>1. n \in 0 .. N /\ n # 0 /\ n \in Nat
      OBVIOUS
  <2>3. /\ OncePerEnvelope(old)
        /\ \A k \in 1 .. Len(old) : \E m \in 1 .. n - 1 : old[k].index = rows[m].index
      BY <1>11
  <2>4. old \in Seq(Fitting)
      BY <1>6 DEF Work
  <2>5. new = old \/ \E s \in Fitting : s.index = rows[n].index /\ new = Append(old, s)
    <3> DEFINE w == f[n - 1]
               e == rows[n]
    <3>1. w \in Work /\ e.index \in DOMAIN journal /\ e.row = journal[e.index]
        BY <1>1, <1>6
    <3>2. f[n] = ReplayedOne(w, e, since)
        BY <1>6
    <3> HIDE DEF w, e
    <3>3. \/ ReplayedOne(w, e, since).stamps = w.stamps
          \/ \E s \in Fitting : /\ s.index = e.index
                              /\ ReplayedOne(w, e, since).stamps = Append(w.stamps, s)
        BY <3>1, ReplayedOneKeeps
    <3> QED BY <3>2, <3>3 DEF w, e
  <2> HIDE DEF old, new
  <2>6. CASE new = old
    <3>1. \A k \in 1 .. Len(new) : \E m \in 1 .. n : new[k].index = rows[m].index
        BY <2>3, <2>6
    <3> QED BY <2>1, <2>3, <2>6, <3>1 DEF old, new
  <2>7. ASSUME NEW s \in Fitting, s.index = rows[n].index, new = Append(old, s)
        PROVE  n \in Good
    <3>1. /\ Len(new) = Len(old) + 1 /\ Len(old) \in Nat /\ new[Len(old) + 1] = s
          /\ \A k \in 1 .. Len(old) : new[k] = old[k]
        BY <2>4, <2>7
    <3>2. \A m \in 1 .. n - 1 : rows[m].index # rows[n].index
      <4> TAKE m \in 1 .. n - 1
      <4>1. m \in 1 .. N /\ m < n
          BY <1>1
      <4>2. SeedsBefore(rows[m].index, rows[n].index)
          BY <1>1, <4>1
      <4>3. ~SeedsBefore(rows[n].index, rows[n].index)
          BY <1>1, SeedsBeforeIsTotal
      <4> QED BY <4>2, <4>3
    <3>3. \A k \in 1 .. Len(old) : new[k].index # rows[n].index
        BY <2>3, <3>1, <3>2
    <3>4. OncePerEnvelope(new)
      <4> SUFFICES ASSUME NEW k \in 1 .. Len(new), NEW l \in 1 .. Len(new),
                          new[k].index = new[l].index
                   PROVE  k = l
          BY DEF OncePerEnvelope
      <4>1. \A j \in 1 .. Len(new) : j \in 1 .. Len(old) \/ j = Len(old) + 1
          BY <3>1
      <4>2. CASE k \in 1 .. Len(old) /\ l \in 1 .. Len(old)
          BY <4>2, <2>3, <3>1 DEF OncePerEnvelope
      <4>3. CASE k = Len(old) + 1 /\ l \in 1 .. Len(old)
          BY <4>3, <2>7, <3>1, <3>3
      <4>4. CASE l = Len(old) + 1 /\ k \in 1 .. Len(old)
          BY <4>4, <2>7, <3>1, <3>3
      <4> QED BY <4>1, <4>2, <4>3, <4>4
    <3>5. \A k \in 1 .. Len(new) : \E m \in 1 .. n : new[k].index = rows[m].index
      <4> TAKE k \in 1 .. Len(new)
      <4>1. CASE k \in 1 .. Len(old)
        <5>1. PICK m \in 1 .. n - 1 : old[k].index = rows[m].index
            BY <4>1, <2>3
        <5> QED BY <4>1, <5>1, <3>1
      <4>2. CASE k = Len(old) + 1
          BY <4>2, <2>7, <3>1
      <4> QED BY <4>1, <4>2, <3>1
    <3> QED BY <2>1, <3>4, <3>5 DEF new
  <2> QED BY <2>5, <2>6, <2>7
<1>12. \A n \in 0 .. N : n \in Good
  <2> HIDE DEF Good
  <2> QED BY <1>1, <1>10, <1>11, StepByStep
<1>13. N \in 0 .. N
    BY <1>1
<1> QED BY <1>2, <1>12, <1>13

(***************************************************************************)
(* The registry.                                                           *)
(***************************************************************************)

RegistryTypeOK ==
    DOMAIN registry \subseteq Nat \ {0} /\ \A id \in DOMAIN registry : registry[id] \in Entry

LEMMA RowsAreFinite ==
    ASSUME journal \in Seq(Row), NEW id
    PROVE  IsFiniteSet(RowsOf(id)) /\ Cardinality(RowsOf(id)) \in Nat
<1>1. DOMAIN journal = 1 .. Len(journal) /\ Len(journal) \in Int
    OBVIOUS
<1>2. IsFiniteSet(1 .. Len(journal))
    BY <1>1, FS_Interval
<1>3. RowsOf(id) \in SUBSET (1 .. Len(journal))
    BY <1>1 DEF RowsOf
<1> QED BY <1>2, <1>3, FS_Subset, FS_CardinalityType

\* One transaction gives one envelope an identity and registers it.
LEMMA UpsertFollows ==
    ASSUME journal \in Seq(Row), journal' \in Seq(Row), RegistryTypeOK, RegistryFollowsJournal,
           NEW row \in Row, NEW started \in Nat, row.id # 0, Known(started, row.id),
           NEW at \in DOMAIN journal', at \in DOMAIN journal => journal[at].id = 0,
           DOMAIN journal' = DOMAIN journal \union {at},
           journal'[at].id = row.id, journal'[at].ts = row.ts,
           \A i \in DOMAIN journal \ {at} : journal'[i] = journal[i],
           registry' = Upserted(registry, row, started)
    PROVE  /\ RegistryTypeOK' /\ RegistryFollowsJournal'
           /\ DOMAIN registry' = DOMAIN registry \union {row.id}
<1>1. /\ DOMAIN registry' = DOMAIN registry \union {row.id}
      /\ \A id \in DOMAIN registry : id # row.id => registry'[id] = registry[id]
      /\ row.id \notin DOMAIN registry => registry'[row.id] = Seen(started, row.ts, 1)
      /\ row.id \in DOMAIN registry =>
            registry'[row.id] = IF row.ts > registry[row.id].last
                                THEN Seen(registry[row.id].started, row.ts, registry[row.id].passes + 1)
                                ELSE registry[row.id]
    BY DEF Upserted
<1>2. row.id \in Nat /\ row.ts \in Nat
    BY DEF Row
<1>3. \A id \in DOMAIN registry :
        /\ id \in Nat /\ id # 0 /\ registry[id].started \in Nat /\ registry[id].last \in Nat
        /\ registry[id].passes \in Nat
    BY DEF RegistryTypeOK, Entry
<1>4. RegistryTypeOK'
  <2> SUFFICES ASSUME NEW id \in DOMAIN registry' PROVE id \in Nat \ {0} /\ registry'[id] \in Entry
      BY DEF RegistryTypeOK
  <2>1. CASE id # row.id
    <3>1. id \in DOMAIN registry /\ registry'[id] = registry[id]
        BY <2>1, <1>1
    <3> QED BY <3>1 DEF RegistryTypeOK
  <2>2. CASE id = row.id /\ row.id \notin DOMAIN registry
      BY <2>2, <1>1, <1>2 DEF Seen, Entry
  <2>3. CASE id = row.id /\ row.id \in DOMAIN registry
    <3>1. registry[row.id] \in Entry
        BY <2>3 DEF RegistryTypeOK
    <3>2. Seen(registry[row.id].started, row.ts, registry[row.id].passes + 1) \in Entry
        BY <2>3, <1>2, <1>3 DEF Seen, Entry
    <3> QED BY <2>3, <1>1, <1>2, <3>1, <3>2
  <2> QED BY <2>1, <2>2, <2>3
<1>5. /\ \A id : id # 0 /\ id # row.id => RowsOf(id)' = RowsOf(id)
      /\ RowsOf(row.id)' = RowsOf(row.id) \union {at} /\ at \notin RowsOf(row.id)
    BY DEF RowsOf
<1>6. \A i \in DOMAIN journal : journal'[i].ts = journal[i].ts \/ i = at
    OBVIOUS
<1>7. ASSUME NEW i \in DOMAIN journal', journal'[i].id # 0 PROVE journal'[i].id \in DOMAIN registry'
  <2>1. CASE i = at
      BY <2>1, <1>1
  <2>2. CASE i # at
      BY <2>2, <1>1, <1>7 DEF RegistryFollowsJournal
  <2> QED BY <2>1, <2>2
<1> DEFINE Follows(id) ==
             /\ registry[id].started = id
             /\ \E i \in RowsOf(id) : journal[i].ts = registry[id].last
             /\ \A i \in RowsOf(id) : journal[i].ts <= registry[id].last
             /\ registry[id].passes <= Cardinality(RowsOf(id))
<1>8. ASSUME NEW id \in DOMAIN registry', id # row.id PROVE Follows(id)'
  <2>1. id \in DOMAIN registry /\ registry'[id] = registry[id] /\ id # 0
      BY <1>1, <1>3, <1>8
  <2>2. Follows(id)
      BY <2>1 DEF RegistryFollowsJournal
  <2>3. RowsOf(id)' = RowsOf(id)
      BY <1>5, <1>8, <2>1
  <2>4. \A i \in RowsOf(id) : journal'[i].ts = journal[i].ts
    <3> TAKE i \in RowsOf(id)
    <3>1. i \in DOMAIN journal /\ i # at
        BY <2>1 DEF RowsOf
    <3> QED BY <3>1, <1>6
  <2> QED BY <2>1, <2>2, <2>3, <2>4
<1>9. \A i \in RowsOf(row.id) : i # at /\ journal'[i].ts = journal[i].ts /\ journal[i].ts \in Nat
  <2> TAKE i \in RowsOf(row.id)
  <2>1. i \in DOMAIN journal /\ i # at
      BY DEF RowsOf
  <2>2. journal[i] \in Row
      BY <2>1
  <2> QED BY <1>6, <2>1, <2>2 DEF Row
<1>10. /\ Cardinality(RowsOf(row.id)) \in Nat
       /\ Cardinality(RowsOf(row.id)') = Cardinality(RowsOf(row.id)) + 1
  <2>1. IsFiniteSet(RowsOf(row.id)) /\ Cardinality(RowsOf(row.id)) \in Nat
      BY RowsAreFinite
  <2>2. Cardinality(RowsOf(row.id) \union {at}) = Cardinality(RowsOf(row.id)) + 1
      BY <1>5, <2>1, FS_AddElement
  <2> QED BY <1>5, <2>1, <2>2
<1>11. ASSUME row.id \notin DOMAIN registry PROVE Follows(row.id)'
  <2>1. RowsOf(row.id) = {}
    <3> SUFFICES ASSUME NEW i \in RowsOf(row.id) PROVE FALSE
        OBVIOUS
    <3> QED BY <1>11 DEF RowsOf, RegistryFollowsJournal
  <2>2. started = row.id
      BY <1>11 DEF Known
  <2>3. registry'[row.id] = [started |-> row.id, last |-> row.ts, passes |-> 1]
      BY <1>1, <1>11, <2>2 DEF Seen
  <2>4. RowsOf(row.id)' = {at}
      BY <1>5, <2>1
  <2> QED BY <1>2, <1>10, <2>3, <2>4
<1>12. ASSUME row.id \in DOMAIN registry PROVE Follows(row.id)'
  <2>1. Follows(row.id)
      BY <1>12 DEF RegistryFollowsJournal
  <2> DEFINE old == registry[row.id]
  <2>2. old.started \in Nat /\ old.last \in Nat /\ old.passes \in Nat
      BY <1>3, <1>12
  <2>3. CASE row.ts > old.last
    <3>1. /\ registry'[row.id].started = old.started /\ registry'[row.id].last = row.ts
          /\ registry'[row.id].passes = old.passes + 1
        BY <1>1, <1>12, <2>3 DEF Seen
    <3>2. \A i \in RowsOf(row.id)' : journal'[i].ts <= row.ts
      <4> TAKE i \in RowsOf(row.id)'
      <4>1. CASE i = at
          BY <4>1, <1>2
      <4>2. CASE i \in RowsOf(row.id)
        <5>1. journal[i].ts <= old.last
            BY <4>2, <2>1
        <5> QED BY <4>2, <5>1, <1>2, <1>9, <2>2, <2>3
      <4> QED BY <4>1, <4>2, <1>5
    <3>3. at \in RowsOf(row.id)' /\ journal'[at].ts = row.ts
        BY <1>5
    <3>4. old.passes + 1 <= Cardinality(RowsOf(row.id)')
        BY <1>10, <2>1, <2>2
    <3> QED BY <3>1, <3>2, <3>3, <3>4, <2>1
  <2>4. CASE ~(row.ts > old.last)
    <3>1. registry'[row.id] = old
        BY <1>1, <1>12, <2>4
    <3>2. \A i \in RowsOf(row.id)' : journal'[i].ts <= old.last
      <4> TAKE i \in RowsOf(row.id)'
      <4>1. CASE i = at
          BY <4>1, <1>2, <2>2, <2>4
      <4>2. CASE i \in RowsOf(row.id)
          BY <4>2, <1>9, <2>1
      <4> QED BY <4>1, <4>2, <1>5
    <3>3. \E i \in RowsOf(row.id)' : journal'[i].ts = old.last
      <4>1. PICK i \in RowsOf(row.id) : journal[i].ts = old.last
          BY <2>1
      <4> QED BY <4>1, <1>5, <1>9
    <3>4. old.passes <= Cardinality(RowsOf(row.id)')
        BY <1>10, <2>1, <2>2
    <3> QED BY <3>1, <3>2, <3>3, <3>4, <2>1
  <2> QED BY <2>3, <2>4
<1>13. RegistryFollowsJournal'
  <2>1. \A id \in DOMAIN registry' : Follows(id)'
      BY <1>8, <1>11, <1>12
  <2> QED BY <1>7, <2>1 DEF RegistryFollowsJournal
<1> QED BY <1>1, <1>4, <1>13

(***************************************************************************)
(* The invariant.                                                          *)
(***************************************************************************)

EpisodeTypeOK ==
    /\ journal \in Seq(Row) /\ RegistryTypeOK /\ clock \in Nat
    /\ tracker \in Tracker /\ pass \in [Pass -> Envelope]

\* Whoever holds an identity the registry has not, holds its start.
StoriesAreKnown ==
    /\ Known(tracker.started, tracker.id)
    /\ \A p \in Pass : /\ Known(pass[p].started, pass[p].row.id)
                       /\ pass[p].at = "assembled" => pass[p].row.id = 0

StampsFit == job.stamps \in Seq(Fitting) /\ OncePerEnvelope(job.stamps)

EpisodeInv == EpisodeTypeOK /\ StoriesAreKnown /\ StampsFit /\ RegistryFollowsJournal

LEMMA JournalCarries ==
    ASSUME EpisodeInv
    PROVE  \A i \in DOMAIN journal : Carries(journal[i])
BY DEF EpisodeInv, RegistryFollowsJournal, Carries

LEMMA NothingIsKnown == Closed \in Tracker /\ Idle \in Envelope /\ Known(0, 0)
BY DEF Closed, Tracker, Idle, NoRow, Unstamped, Stamp, Envelope, Row, Verdict, Known

LEMMA EpisodesStart == BInit => EpisodeInv
<1> SUFFICES ASSUME BInit PROVE EpisodeInv
    OBVIOUS
<1>1. PICK n \in 0 .. MaxLegacy : \E v \in [1 .. n -> Verdict] :
        journal = [i \in 1 .. n |-> Unstamped(i, v[i])] /\ clock = n
    BY DEF BInit, Init
<1>2. PICK v \in [1 .. n -> Verdict] :
        journal = [i \in 1 .. n |-> Unstamped(i, v[i])] /\ clock = n
    BY <1>1
<1>3. n \in Nat /\ \A i \in 1 .. n : Unstamped(i, v[i]) \in Row /\ Unstamped(i, v[i]).id = 0
  <2>1. n \in Nat
      BY EpisodeAssumption
  <2>2. ASSUME NEW i \in 1 .. n PROVE Unstamped(i, v[i]) \in Row /\ Unstamped(i, v[i]).id = 0
    <3>1. i \in Nat /\ v[i] \in Verdict
        BY DEF Verdict
    <3> QED BY <3>1 DEF Unstamped, Stamp, Row
  <2> QED BY <2>1, <2>2
<1>4. journal \in Seq(Row) /\ \A i \in DOMAIN journal : journal[i].id = 0
  <2>1. journal \in [1 .. n -> Row]
      BY <1>2, <1>3
  <2> HIDE DEF Row
  <2>2. journal \in Seq(Row)
      BY <1>3, <2>1
  <2> QED BY <1>2, <1>3, <2>2
<1>5. DOMAIN registry = {}
    BY DEF BInit, Init
<1>6. EpisodeTypeOK
    BY <1>2, <1>3, <1>4, <1>5, NothingIsKnown DEF BInit, Init, EpisodeTypeOK, RegistryTypeOK
<1>7. StoriesAreKnown
  <2>1. tracker = Closed /\ \A p \in Pass : pass[p] = Idle
      BY DEF BInit, Init
  <2> QED BY <2>1 DEF StoriesAreKnown, Closed, Idle, NoRow, Unstamped, Stamp, Known
<1>8. StampsFit
  <2>1. job.stamps = <<>>
      BY DEF BInit, NoJob, Job
  <2> QED BY <2>1 DEF StampsFit, OncePerEnvelope
<1>9. RegistryFollowsJournal
    BY <1>4, <1>5 DEF RegistryFollowsJournal
<1> QED BY <1>6, <1>7, <1>8, <1>9 DEF EpisodeInv

\* What is committed only ever adds to what is known, and what fits an envelope
\* goes on to fit it until it is written.
LEMMA KnownStays ==
    ASSUME DOMAIN registry \subseteq DOMAIN registry'
    PROVE  \A started, id : Known(started, id) => Known(started, id)'
BY DEF Known

LEMMA FitsStays ==
    ASSUME DOMAIN registry \subseteq DOMAIN registry', DOMAIN journal \subseteq DOMAIN journal',
           NEW stamps \in Seq(Fitting),
           \A k \in 1 .. Len(stamps) :
              journal'[stamps[k].index].id = journal[stamps[k].index].id
              /\ journal'[stamps[k].index].ts = journal[stamps[k].index].ts
    PROVE  stamps \in Seq(Fitting')
<1>1. \A k \in 1 .. Len(stamps) : stamps[k] \in Fitting'
  <2> TAKE k \in 1 .. Len(stamps)
  <2>1. stamps[k] \in StampRecord /\ Fits(stamps[k])
      BY DEF Fitting
  <2>2. Fits(stamps[k])'
      BY <2>1, KnownStays DEF Fits
  <2> QED BY <2>1, <2>2 DEF Fitting, StampRecord
<1>2. DOMAIN stamps = 1 .. Len(stamps) /\ Len(stamps) \in Nat
    OBVIOUS
<1> HIDE DEF Fitting
<1> QED BY <1>1, <1>2

LEMMA ObserveKeeps == ASSUME NEW p \in Pass, EpisodeInv, Observe(p), UNCHANGED <<job, filled>>
                      PROVE  EpisodeInv'
<1> DEFINE row == pass[p].row
           after == Observed(tracker, row)
           out == [at |-> "stamped", started |-> after.started, row |-> Stamped(tracker, row)]
<1>1. /\ tracker' = after /\ pass' = [pass EXCEPT ![p] = out]
      /\ UNCHANGED <<journal, registry, clock, job>> /\ pass[p].at = "assembled"
    BY DEF Observe
<1>2. tracker \in Tracker /\ Known(tracker.started, tracker.id) /\ pass \in [Pass -> Envelope]
      /\ row \in Row /\ row.id = 0
    BY <1>1 DEF EpisodeInv, EpisodeTypeOK, StoriesAreKnown, Envelope
<1>3. after \in Tracker /\ Known(after.started, after.id)
    BY <1>2, ObservedKeeps DEF Carries
<1>4. Stamped(tracker, row) \in Row /\ Stamped(tracker, row).id = after.id
    BY <1>2, <1>3, StampedIsTyped
<1>5. out \in Envelope /\ out.at = "stamped" /\ Known(out.started, out.row.id)
  <2>1. after.started \in Nat
      BY <1>3 DEF Tracker
  <2> HIDE DEF after, row
  <2> QED BY <1>3, <1>4, <2>1 DEF Envelope
<1> HIDE DEF out, after
<1>6. EpisodeTypeOK'
    BY <1>1, <1>2, <1>3, <1>5 DEF EpisodeInv, EpisodeTypeOK, RegistryTypeOK
<1>7. StoriesAreKnown'
  <2>1. \A q \in Pass : pass'[q] = IF q = p THEN out ELSE pass[q]
      BY <1>1, <1>2
  <2> QED BY <1>1, <1>3, <1>5, <2>1 DEF EpisodeInv, StoriesAreKnown, Known
<1>8. StampsFit' /\ RegistryFollowsJournal'
    BY <1>1 DEF EpisodeInv, StampsFit, RegistryFollowsJournal, RowsOf, Fitting, Fits, Known
<1> QED BY <1>6, <1>7, <1>8 DEF EpisodeInv

LEMMA PersistKeeps == ASSUME NEW p \in Pass, EpisodeInv, Persist(p), UNCHANGED <<job, filled>>
                      PROVE  EpisodeInv'
<1> DEFINE row == pass[p].row
           started == pass[p].started
           at == Len(journal) + 1
<1>1. /\ journal' = Append(journal, row) /\ registry' = Upserted(registry, row, started)
      /\ pass' = [pass EXCEPT ![p] = Idle] /\ UNCHANGED <<tracker, clock, job>>
    BY DEF Persist
<1>2. /\ journal \in Seq(Row) /\ row \in Row /\ started \in Nat /\ Known(started, row.id)
      /\ pass \in [Pass -> Envelope] /\ RegistryTypeOK /\ RegistryFollowsJournal
      /\ tracker \in Tracker /\ clock \in Nat
    BY DEF EpisodeInv, EpisodeTypeOK, StoriesAreKnown, Envelope
<1> HIDE DEF row, started
<1>3. /\ journal' \in Seq(Row) /\ Len(journal) \in Nat /\ DOMAIN journal = 1 .. Len(journal)
      /\ DOMAIN journal' = 1 .. at /\ at \notin DOMAIN journal
      /\ journal'[at] = row /\ \A i \in DOMAIN journal : journal'[i] = journal[i]
    BY <1>1, <1>2
<1>4. at \in DOMAIN journal' /\ DOMAIN journal' = DOMAIN journal \union {at}
    BY <1>3
<1> HIDE DEF at
<1>5. RegistryTypeOK' /\ RegistryFollowsJournal' /\ DOMAIN registry \subseteq DOMAIN registry'
  <2>1. CASE row.id = 0
    <3>1. registry' = registry
        BY <1>1, <2>1 DEF Upserted
    <3>2. \A id : id # 0 => RowsOf(id)' = RowsOf(id)
        BY <1>3, <1>4, <2>1 DEF RowsOf
    <3>3. \A id \in DOMAIN registry :
            id # 0 /\ \A i \in RowsOf(id) : journal'[i].ts = journal[i].ts
        BY <1>2, <1>3 DEF RegistryTypeOK, RowsOf
    <3>4. \A i \in DOMAIN journal' : journal'[i].id # 0 => journal'[i].id \in DOMAIN registry
        BY <1>2, <1>3, <1>4, <2>1 DEF RegistryFollowsJournal
    <3> QED BY <1>2, <3>1, <3>2, <3>3, <3>4 DEF RegistryTypeOK, RegistryFollowsJournal
  <2>2. CASE row.id # 0
      BY <1>1, <1>2, <1>3, <1>4, <2>2, UpsertFollows
  <2> QED BY <2>1, <2>2
<1>6. EpisodeTypeOK'
    BY <1>1, <1>2, <1>3, <1>5, NothingIsKnown DEF EpisodeTypeOK
<1>7. StoriesAreKnown'
  <2>1. \A q \in Pass : pass'[q] = IF q = p THEN Idle ELSE pass[q]
      BY <1>1, <1>2
  <2>2. Idle.started = 0 /\ Idle.row.id = 0
      BY DEF Idle, NoRow, Unstamped, Stamp
  <2>3. ASSUME NEW q \in Pass
        PROVE  /\ Known(pass[q].started, pass[q].row.id)'
               /\ pass'[q].at = "assembled" => pass'[q].row.id = 0
    <3>1. CASE q = p
        BY <3>1, <2>1, <2>2 DEF Known
    <3>2. CASE q # p
        BY <3>2, <2>1, <1>5, KnownStays DEF EpisodeInv, StoriesAreKnown
    <3> QED BY <3>1, <3>2
  <2>4. Known(tracker.started, tracker.id)'
      BY <1>1, <1>5, KnownStays DEF EpisodeInv, StoriesAreKnown, Known
  <2> QED BY <2>3, <2>4 DEF StoriesAreKnown, Known
<1>8. StampsFit'
  <2>1. job.stamps \in Seq(Fitting) /\ OncePerEnvelope(job.stamps) /\ job' = job
      BY <1>1 DEF EpisodeInv, StampsFit
  <2>2. \A k \in 1 .. Len(job.stamps) : job.stamps[k].index \in DOMAIN journal
    <3> TAKE k \in 1 .. Len(job.stamps)
    <3>1. job.stamps[k] \in Fitting
        BY <2>1
    <3> QED BY <3>1 DEF Fitting, Fits
  <2>3. job.stamps \in Seq(Fitting')
      BY <1>3, <1>4, <1>5, <2>1, <2>2, FitsStays
  <2> QED BY <2>1, <2>3 DEF StampsFit, OncePerEnvelope
<1> QED BY <1>5, <1>6, <1>7, <1>8 DEF EpisodeInv

\* A step that commits nothing: what the tracker and the passes hold is all it can
\* change, and a pass that goes away holds nothing.
LEMMA NothingCommitted ==
    ASSUME EpisodeInv, UNCHANGED <<journal, registry, job>>, clock' \in Nat,
           tracker' \in Tracker, Known(tracker'.started, tracker'.id),
           \/ UNCHANGED pass
           \/ pass' = [p \in Pass |-> Idle]
           \/ \E p \in Pass : \E to \in Envelope :
                pass' = [pass EXCEPT ![p] = to] /\ to.row.id = 0 /\ to.started = 0
    PROVE  EpisodeInv'
<1>1. /\ journal \in Seq(Row) /\ RegistryTypeOK /\ pass \in [Pass -> Envelope]
    BY DEF EpisodeInv, EpisodeTypeOK
<1>2. pass' \in [Pass -> Envelope] /\ \A p \in Pass :
        pass'[p] = pass[p] \/ (pass'[p].row.id = 0 /\ pass'[p].started = 0)
  <2>1. CASE UNCHANGED pass
      BY <2>1, <1>1
  <2>2. CASE pass' = [p \in Pass |-> Idle]
    <3>1. Idle.row.id = 0 /\ Idle.started = 0
        BY DEF Idle, NoRow, Unstamped, Stamp
    <3> QED BY <2>2, <3>1, NothingIsKnown
  <2>3. ASSUME NEW p \in Pass, NEW to \in Envelope, pass' = [pass EXCEPT ![p] = to],
               to.row.id = 0, to.started = 0
        PROVE  pass' \in [Pass -> Envelope] /\ \A q \in Pass :
                 pass'[q] = pass[q] \/ (pass'[q].row.id = 0 /\ pass'[q].started = 0)
      BY <2>3, <1>1
  <2> QED BY <2>1, <2>2, <2>3
<1>3. EpisodeTypeOK'
    BY <1>1, <1>2 DEF EpisodeTypeOK, RegistryTypeOK
<1>4. StoriesAreKnown'
  <2>1. \A p \in Pass : /\ Known(pass[p].started, pass[p].row.id)
                        /\ pass[p].at = "assembled" => pass[p].row.id = 0
      BY DEF EpisodeInv, StoriesAreKnown
  <2>2. ASSUME NEW p \in Pass
        PROVE  /\ Known(pass'[p].started, pass'[p].row.id)
               /\ pass'[p].at = "assembled" => pass'[p].row.id = 0
    <3>1. CASE pass'[p] = pass[p]
        BY <3>1, <2>1
    <3>2. CASE pass'[p].row.id = 0 /\ pass'[p].started = 0
        BY <3>2 DEF Known
    <3> QED BY <3>1, <3>2, <1>2
  <2> QED BY <2>2 DEF StoriesAreKnown, Known
<1>5. StampsFit' /\ RegistryFollowsJournal'
    BY DEF EpisodeInv, StampsFit, RegistryFollowsJournal, RowsOf, Fitting, Fits, Known
<1> QED BY <1>3, <1>4, <1>5 DEF EpisodeInv

LEMMA EnginesKeep ==
    ASSUME EpisodeInv, UNCHANGED <<job, filled>>,
           \/ Crash \/ Boot \/ BootUnseeded \/ Wait
           \/ \E p \in Pass : PersistFails(p) \/ \E v \in Verdict : Assemble(p, v)
    PROVE  EpisodeInv'
<1>1. /\ journal \in Seq(Row) /\ clock \in Nat /\ tracker \in Tracker
      /\ Known(tracker.started, tracker.id)
    BY DEF EpisodeInv, EpisodeTypeOK, StoriesAreKnown
<1>2. CASE Crash
  <2>1. tracker' = Closed /\ pass' = [p \in Pass |-> Idle] /\ UNCHANGED <<journal, registry, clock>>
      BY <1>2 DEF Crash
  <2>2. Known(tracker'.started, tracker'.id)
      BY <2>1 DEF Closed, Known
  <2> QED BY <1>1, <2>1, <2>2, NothingIsKnown, NothingCommitted
<1>3. CASE Boot
  <2>1. tracker' = Seeded(RowsSince(clock - Window)) /\ UNCHANGED <<journal, registry, pass, clock>>
      BY <1>3 DEF Boot
  <2>2. tracker' \in Tracker /\ Known(tracker'.started, tracker'.id)
      BY <1>1, <2>1, JournalCarries, SeedIsKnown
  <2> QED BY <1>1, <2>1, <2>2, NothingCommitted
<1>4. CASE BootUnseeded \/ Wait
  <2>1. clock' \in Nat /\ UNCHANGED <<journal, registry, tracker, pass>>
      BY <1>1, <1>4 DEF BootUnseeded, Wait
  <2> QED BY <1>1, <2>1, NothingCommitted
<1>5. ASSUME NEW p \in Pass, PersistFails(p) PROVE EpisodeInv'
  <2>1. pass' = [pass EXCEPT ![p] = Idle] /\ UNCHANGED <<journal, registry, tracker, clock>>
      BY <1>5 DEF PersistFails
  <2>2. Idle.row.id = 0 /\ Idle.started = 0
      BY DEF Idle, NoRow, Unstamped, Stamp
  <2> QED BY <1>1, <2>1, <2>2, NothingIsKnown, NothingCommitted
<1>6. ASSUME NEW p \in Pass, NEW v \in Verdict, Assemble(p, v) PROVE EpisodeInv'
  <2> DEFINE to == [at |-> "assembled", started |-> 0, row |-> Unstamped(clock', v)]
  <2>1. /\ pass' = [pass EXCEPT ![p] = to] /\ clock' \in Nat
        /\ UNCHANGED <<journal, registry, tracker>>
      BY <1>1, <1>6 DEF Assemble
  <2>2. to \in Envelope /\ to.row.id = 0 /\ to.started = 0
    <3>1. Unstamped(clock', v) \in Row /\ Unstamped(clock', v).id = 0
        BY <2>1 DEF Unstamped, Stamp, Row
    <3> QED BY <3>1 DEF Envelope
  <2> HIDE DEF to
  <2> QED BY <1>1, <2>1, <2>2, NothingCommitted
<1> QED BY <1>2, <1>3, <1>4, <1>5, <1>6

LEMMA BackfillKeeps ==
    ASSUME EpisodeInv, NEW since \in Since, BeginBackfill(since)
    PROVE  EpisodeInv'
<1> DEFINE done == Replay(since)
<1>1. journal \in Seq(Row) /\ since \in Nat
    BY BackfillAssumption DEF EpisodeInv, EpisodeTypeOK
<1>2. done \in Work /\ OncePerEnvelope(done.stamps)
    BY <1>1, JournalCarries, ReplayFits
<1>3. job'.stamps \in {done.stamps, <<>>} /\ UNCHANGED vars
    BY DEF BeginBackfill, Job
<1> HIDE DEF done
<1>4. job'.stamps \in Seq(Fitting) /\ OncePerEnvelope(job'.stamps)
  <2>1. done.stamps \in Seq(Fitting)
      BY <1>2 DEF Work
  <2>2. OncePerEnvelope(<<>>)
      BY DEF OncePerEnvelope
  <2>3. <<>> \in Seq(Fitting)
      OBVIOUS
  <2>4. CASE job'.stamps = done.stamps
      BY <1>2, <2>1, <2>4
  <2>5. CASE job'.stamps = <<>>
      BY <2>2, <2>3, <2>5
  <2> QED BY <1>3, <2>4, <2>5
<1>5. StampsFit'
    BY <1>3, <1>4 DEF StampsFit, OncePerEnvelope, Fitting, Fits, Known, vars
<1>6. EpisodeTypeOK'
    BY <1>3 DEF EpisodeInv, EpisodeTypeOK, RegistryTypeOK, vars
<1>7. StoriesAreKnown'
    BY <1>3 DEF EpisodeInv, StoriesAreKnown, Known, vars
<1>8. RegistryFollowsJournal'
    BY <1>3 DEF EpisodeInv, RegistryFollowsJournal, RowsOf, vars
<1> QED BY <1>5, <1>6, <1>7, <1>8 DEF EpisodeInv

LEMMA EndingKeeps == ASSUME EpisodeInv, EndBackfill PROVE EpisodeInv'
<1>1. job'.stamps = <<>> /\ UNCHANGED vars
    BY DEF EndBackfill, NoJob, Job
<1>2. StampsFit'
    BY <1>1 DEF StampsFit, OncePerEnvelope
<1>3. EpisodeTypeOK'
    BY <1>1 DEF EpisodeInv, EpisodeTypeOK, RegistryTypeOK, vars
<1>4. StoriesAreKnown'
    BY <1>1 DEF EpisodeInv, StoriesAreKnown, Known, vars
<1>5. RegistryFollowsJournal'
    BY <1>1 DEF EpisodeInv, RegistryFollowsJournal, RowsOf, vars
<1> QED BY <1>2, <1>3, <1>4, <1>5 DEF EpisodeInv

LEMMA StampKeeps == ASSUME EpisodeInv, WriteStamp PROVE EpisodeInv'
<1> DEFINE stamps == job.stamps
           stamp == Head(stamps)
           at == stamp.index
           rest == Tail(stamps)
           written == Stamp(journal[at].ts, journal[at].verdict, stamp.row.id, stamp.row.edge)
<1>1. /\ stamps # <<>> /\ job'.stamps = rest
      /\ journal' = [journal EXCEPT ![at] = written]
      /\ registry' = Upserted(registry, stamp.row, stamp.started)
      /\ UNCHANGED <<tracker, engine, pass, clock>>
    BY DEF WriteStamp, Job
<1>2. /\ journal \in Seq(Row) /\ RegistryTypeOK /\ RegistryFollowsJournal /\ clock \in Nat
      /\ tracker \in Tracker /\ pass \in [Pass -> Envelope]
      /\ stamps \in Seq(Fitting) /\ OncePerEnvelope(stamps)
    BY DEF EpisodeInv, EpisodeTypeOK, StampsFit
<1>3. /\ rest \in Seq(Fitting) /\ Len(stamps) \in Nat \ {0} /\ Len(rest) = Len(stamps) - 1
      /\ stamp = stamps[1] /\ \A k \in 1 .. Len(rest) : rest[k] = stamps[k + 1]
    BY <1>1, <1>2
<1>4. stamp \in Fitting
    BY <1>2, <1>3
<1>5. \A k \in 1 .. Len(rest) : rest[k].index # at /\ rest[k].index \in DOMAIN journal
  <2> TAKE k \in 1 .. Len(rest)
  <2>1. k + 1 \in 1 .. Len(stamps) /\ 1 \in 1 .. Len(stamps) /\ k + 1 # 1
      BY <1>3
  <2>2. stamps[k + 1].index # stamps[1].index
      BY <1>2, <2>1 DEF OncePerEnvelope
  <2>3. stamps[k + 1] \in Fitting
      BY <1>2, <2>1
  <2> QED BY <1>3, <2>2, <2>3 DEF Fitting, Fits
<1>6. OncePerEnvelope(rest)
  <2> SUFFICES ASSUME NEW k \in 1 .. Len(rest), NEW l \in 1 .. Len(rest), rest[k].index = rest[l].index
               PROVE  k = l
      BY DEF OncePerEnvelope
  <2>1. k + 1 \in 1 .. Len(stamps) /\ l + 1 \in 1 .. Len(stamps)
      BY <1>3
  <2>2. stamps[k + 1].index = stamps[l + 1].index
      BY <1>3
  <2>3. k + 1 = l + 1
      BY <1>2, <2>1, <2>2 DEF OncePerEnvelope
  <2> QED BY <2>3
<1> HIDE DEF stamps, stamp, rest
<1>7. /\ at \in DOMAIN journal /\ journal[at].id = 0 /\ stamp.row \in Row /\ stamp.row.id # 0
      /\ stamp.row.ts = journal[at].ts /\ stamp.started \in Nat /\ Known(stamp.started, stamp.row.id)
    BY <1>4 DEF Fitting, Fits, StampRecord
<1>8. journal[at] \in Row
    BY <1>2, <1>7
<1>9. written \in Row /\ written.id = stamp.row.id /\ written.ts = stamp.row.ts
    BY <1>7, <1>8 DEF Stamp, Row
<1> HIDE DEF written, at
<1>10. /\ journal' \in Seq(Row) /\ DOMAIN journal' = DOMAIN journal /\ journal'[at] = written
       /\ \A i \in DOMAIN journal \ {at} : journal'[i] = journal[i]
    BY <1>1, <1>2, <1>7, <1>9
<1>11. /\ RegistryTypeOK' /\ RegistryFollowsJournal'
       /\ DOMAIN registry' = DOMAIN registry \union {stamp.row.id}
  <2>1. DOMAIN journal' = DOMAIN journal \union {at} /\ at \in DOMAIN journal'
      BY <1>7, <1>10
  <2> QED BY <1>1, <1>2, <1>7, <1>9, <1>10, <2>1, UpsertFollows
<1>12. EpisodeTypeOK'
    BY <1>1, <1>2, <1>10, <1>11 DEF EpisodeTypeOK
<1>13. StoriesAreKnown'
    BY <1>1, <1>11 DEF EpisodeInv, StoriesAreKnown, Known
<1>14. StampsFit'
  <2>1. rest \in Seq(Fitting')
      BY <1>3, <1>5, <1>10, <1>11, FitsStays
  <2> QED BY <1>1, <1>6, <2>1 DEF StampsFit, OncePerEnvelope
<1> QED BY <1>11, <1>12, <1>13, <1>14 DEF EpisodeInv

LEMMA EpisodesStep == EpisodeInv /\ [BNext]_bvars => EpisodeInv'
<1> SUFFICES ASSUME EpisodeInv, [BNext]_bvars PROVE EpisodeInv'
    OBVIOUS
<1>1. CASE BackfillStep
    BY <1>1, BackfillKeeps, StampKeeps, EndingKeeps DEF BackfillStep
<1>2. CASE Next /\ UNCHANGED <<job, filled>>
  <2>1. ASSUME NEW p \in Pass, Observe(p) PROVE EpisodeInv'
      BY <1>2, <2>1, ObserveKeeps
  <2>2. ASSUME NEW p \in Pass, Persist(p) PROVE EpisodeInv'
      BY <1>2, <2>2, PersistKeeps
  <2>3. ASSUME \/ Crash \/ Boot \/ BootUnseeded \/ Wait
               \/ \E p \in Pass : PersistFails(p) \/ \E v \in Verdict : Assemble(p, v)
        PROVE  EpisodeInv'
      BY <1>2, <2>3, EnginesKeep
  <2>4. \/ \E p \in Pass : Observe(p) \/ Persist(p)
        \/ Crash \/ Boot \/ BootUnseeded \/ Wait
        \/ \E p \in Pass : PersistFails(p) \/ \E v \in Verdict : Assemble(p, v)
      BY <1>2, Zenon DEF Next
  <2>5. CASE \E p \in Pass : Observe(p) \/ Persist(p)
      BY <2>1, <2>2, <2>5
  <2> QED BY <2>3, <2>4, <2>5
<1>3. CASE UNCHANGED bvars
  <2>1. UNCHANGED <<journal, registry, job>> /\ UNCHANGED <<clock, tracker, pass>>
      BY <1>3 DEF bvars, vars
  <2>2. clock \in Nat /\ tracker \in Tracker /\ Known(tracker.started, tracker.id)
      BY DEF EpisodeInv, EpisodeTypeOK, StoriesAreKnown
  <2> QED BY <2>1, <2>2, NothingCommitted
<1> QED BY <1>1, <1>2, <1>3 DEF BNext

\* No dangling identity, however passes overlap, engines restart, saves and seeds
\* fail and backfills of any range are begun and cut short beside the engine: an
\* id in the journal has its registry row, which began at the identity, was last
\* seen at the story's newest envelope and counts no pass twice
\* (outcome_store.py save, episode_registry.py upsert, episode_backfill.py apply).
THEOREM RegistryIsTrue == BSpec => []RegistryFollowsJournal
<1>1. EpisodeInv => RegistryFollowsJournal
    BY DEF EpisodeInv
<1> QED BY <1>1, EpisodesStart, EpisodesStep, PTL DEF BSpec

(***************************************************************************)
(* One pipeline's stories, told apart.  A seed that starts at s folds the  *)
(* rule over the envelopes not older than s; the argument compares such    *)
(* folds with each other and with the tracker of the running engine.       *)
(***************************************************************************)

\* What observe makes of a tracker: a story is opened, closed, or goes on.
Follows(tr, row, next) ==
    \/ /\ row.verdict = "breaking" /\ (tr.open => row.ts - tr.last > Gap)
       /\ next.open /\ next.last = row.ts /\ next.id = IF row.id # 0 THEN row.id ELSE row.ts
    \/ /\ row.verdict # "breaking" /\ (tr.open => row.ts - tr.last > Gap)
       /\ ~next.open /\ next.id = 0
    \/ /\ tr.open /\ row.ts - tr.last <= Gap
       /\ next.open /\ next.id = tr.id
       /\ next.last = IF row.verdict \in Holding THEN row.ts ELSE tr.last

LEMMA ObservedFollows ==
    ASSUME NEW tr \in Tracker, NEW row \in Row
    PROVE  /\ Observed(tr, row) \in Tracker /\ Follows(tr, row, Observed(tr, row))
           /\ Opens(tr, row) => row.verdict = "breaking" /\ (tr.open => row.ts - tr.last > Gap)
<1>1. /\ row.ts \in Nat /\ row.id \in Nat /\ tr.last \in Nat /\ tr.open \in BOOLEAN
      /\ Gap \in Nat
    BY EpisodeAssumption DEF Row, Tracker
<1>2. tr.open => (Lapsed(tr, row.ts) <=> row.ts - tr.last > Gap)
    BY DEF Lapsed
<1>3. tr.open => (~Lapsed(tr, row.ts) <=> row.ts - tr.last <= Gap)
    BY <1>1, <1>2
<1>4. CASE Opens(tr, row)
  <2> DEFINE id == IF row.id # 0 THEN row.id ELSE row.ts
  <2>1. /\ row.verdict = "breaking" /\ (tr.open => row.ts - tr.last > Gap) /\ id \in Nat
        /\ Observed(tr, row) = [open |-> TRUE, started |-> row.ts, last |-> row.ts, id |-> id]
      BY <1>1, <1>2, <1>4 DEF Observed, Opens
  <2> HIDE DEF id
  <2>2. Observed(tr, row) \in Tracker
      BY <1>1, <2>1 DEF Tracker
  <2> QED BY <2>1, <2>2 DEF Follows, id
<1>5. CASE ~Opens(tr, row) /\ (~tr.open \/ Lapsed(tr, row.ts))
  <2>1. Observed(tr, row) = Closed
      BY <1>5 DEF Observed
  <2>2. row.verdict # "breaking" /\ (tr.open => row.ts - tr.last > Gap)
      BY <1>2, <1>5 DEF Opens
  <2> QED BY <2>1, <2>2, <1>5, NothingIsKnown DEF Follows, Closed
<1>6. CASE ~Opens(tr, row) /\ ~(~tr.open \/ Lapsed(tr, row.ts))
  <2>1. tr.open /\ row.ts - tr.last <= Gap
      BY <1>3, <1>6
  <2>2. CASE row.verdict \in Holding
    <3>1. Observed(tr, row) = [tr EXCEPT !.last = row.ts]
        BY <1>6, <2>2 DEF Observed
    <3>2. /\ Observed(tr, row) \in Tracker /\ Observed(tr, row).open = tr.open
          /\ Observed(tr, row).id = tr.id /\ Observed(tr, row).last = row.ts
        BY <1>1, <3>1 DEF Tracker
    <3> QED BY <1>6, <2>1, <2>2, <3>2 DEF Follows
  <2>3. CASE row.verdict \notin Holding
    <3>1. Observed(tr, row) = tr
        BY <1>6, <2>3 DEF Observed
    <3> QED BY <1>6, <2>1, <2>3, <3>1 DEF Follows
  <2> QED BY <2>2, <2>3
<1> QED BY <1>4, <1>5, <1>6

\* One envelope as a seed that starts at s reads it.
Unread(s, row) == row.ts < s \/ row.verdict = "error"
SeedStep(s, row, tr) == IF Unread(s, row) THEN tr ELSE Observed(tr, row)

\* f is the seed that starts at s, up to the n-th envelope.
Replays(f, s, n) ==
    f[0] = Closed /\ \A m \in 1 .. n : f[m] = SeedStep(s, journal[m], f[m - 1])

InTime ==
    /\ \A i, j \in DOMAIN journal : i < j => journal[i].ts < journal[j].ts
    /\ \A i \in DOMAIN journal : journal[i].ts >= 1 /\ journal[i].id <= journal[i].ts

LEMMA SeedStepFollows ==
    ASSUME NEW s \in Int, NEW row \in Row, NEW tr \in Tracker, NEW next,
           next = SeedStep(s, row, tr)
    PROVE  /\ next \in Tracker
           /\ \/ Unread(s, row) /\ next = tr
              \/ ~Unread(s, row) /\ row.ts >= s /\ row.verdict # "error" /\ Follows(tr, row, next)
<1>1. CASE Unread(s, row)
    BY <1>1 DEF SeedStep
<1>2. CASE ~Unread(s, row)
  <2>1. next = Observed(tr, row) /\ row.ts \in Nat
      BY <1>2 DEF SeedStep, Row
  <2>2. row.ts >= s /\ row.verdict # "error"
      BY <1>2, <2>1 DEF Unread
  <2> QED BY <1>2, <2>1, <2>2, ObservedFollows
<1> QED BY <1>1, <1>2

LEMMA JournalRows ==
    ASSUME journal \in Seq(Row)
    PROVE  /\ Len(journal) \in Nat /\ DOMAIN journal = 1 .. Len(journal)
           /\ \A n \in 1 .. Len(journal) :
                /\ journal[n] \in Row /\ journal[n].ts \in Nat /\ journal[n].id \in Nat
                /\ journal[n].verdict \in Verdict
<1>1. ASSUME NEW n \in 1 .. Len(journal)
      PROVE  /\ journal[n] \in Row /\ journal[n].ts \in Nat /\ journal[n].id \in Nat
             /\ journal[n].verdict \in Verdict
  <2>1. journal[n] \in Row
      BY <1>1, ElementOfSeq
  <2> QED BY <2>1 DEF Row
<1> QED BY <1>1

\* A story open in a replay was last held by an envelope the replay has read.
LEMMA ReplayIsTyped ==
    ASSUME journal \in Seq(Row), InTime, NEW s \in Int, NEW N \in 0 .. Len(journal), NEW f,
           Replays(f, s, N)
    PROVE  \A n \in 0 .. N :
                /\ f[n] \in Tracker
                /\ f[n].open => /\ n >= 1 /\ f[n].last >= s /\ f[n].last <= journal[n].ts
                                /\ f[n].id >= 1 /\ f[n].id <= journal[n].ts
                /\ ~f[n].open => f[n].id = 0
<1> DEFINE Good(n) ==
        /\ f[n] \in Tracker
        /\ f[n].open => /\ n >= 1 /\ f[n].last >= s /\ f[n].last <= journal[n].ts
                        /\ f[n].id >= 1 /\ f[n].id <= journal[n].ts
        /\ ~f[n].open => f[n].id = 0
           Goods == {n \in 0 .. N : Good(n)}
<1>1. 0 \in Goods
  <2>1. f[0] = Closed /\ 0 \in 0 .. N
      BY JournalRows DEF Replays
  <2>2. f[0] \in Tracker /\ ~f[0].open /\ f[0].id = 0
      BY <2>1, NothingIsKnown DEF Closed
  <2> QED BY <2>1, <2>2
<1>2. ASSUME NEW n \in 1 .. N, n - 1 \in Goods PROVE n \in Goods
  <2> DEFINE row == journal[n]
             tr == f[n - 1]
             next == f[n]
  <2>1. /\ n \in Nat /\ n - 1 \in Nat /\ n \in 1 .. Len(journal) /\ n \in 0 .. N
        /\ n - 1 >= 1 => n - 1 \in 1 .. Len(journal)
      BY JournalRows
  <2>2. /\ row \in Row /\ row.ts \in Nat /\ row.id \in Nat /\ row.ts >= 1
        /\ row.id <= row.ts
      BY <2>1, JournalRows DEF InTime
  <2>3. /\ tr \in Tracker /\ (~tr.open => tr.id = 0)
        /\ tr.open => /\ n - 1 >= 1 /\ tr.last >= s /\ tr.last <= journal[n - 1].ts
                      /\ tr.id >= 1 /\ tr.id <= journal[n - 1].ts
      BY <1>2
  <2>4. next = SeedStep(s, row, tr)
      BY DEF Replays
  <2>5. tr.open => tr.last <= row.ts /\ tr.id <= row.ts
    <3> SUFFICES ASSUME tr.open PROVE tr.last <= row.ts /\ tr.id <= row.ts
        OBVIOUS
    <3>1. n - 1 < n
        BY <2>1
    <3>2. journal[n - 1].ts < journal[n].ts
        BY <2>1, <2>3, <3>1, JournalRows DEF InTime
    <3>3. journal[n - 1].ts \in Nat
        BY <2>1, <2>3, JournalRows
    <3>4. /\ tr.last \in Nat /\ tr.last <= journal[n - 1].ts
          /\ tr.id \in Nat /\ tr.id <= journal[n - 1].ts
        BY <2>3 DEF Tracker
    <3> QED BY <2>2, <3>2, <3>3, <3>4
  <2> HIDE DEF row, tr, next
  <2>6. next \in Tracker
      BY <2>2, <2>3, <2>4, SeedStepFollows
  <2>7. /\ next.open => /\ next.last >= s /\ next.last <= row.ts
                        /\ next.id >= 1 /\ next.id <= row.ts
        /\ ~next.open => next.id = 0
    <3>1. CASE Unread(s, row) /\ next = tr
        BY <3>1, <2>3, <2>5
    <3>2. CASE row.ts >= s /\ Follows(tr, row, next)
      <4>1. CASE tr.open /\ next.open /\ next.id = tr.id /\ next.last \in {row.ts, tr.last}
          BY <4>1, <3>2, <2>2, <2>3, <2>5
      <4>2. CASE next.open /\ next.last = row.ts /\ next.id \in {row.id, row.ts} /\ next.id # 0
          BY <4>2, <3>2, <2>2
      <4>3. CASE ~next.open /\ next.id = 0
          BY <4>3
      <4> QED BY <4>1, <4>2, <4>3, <3>2, <2>2 DEF Follows
    <3> QED BY <3>1, <3>2, <2>2, <2>3, <2>4, SeedStepFollows
  <2> QED BY <2>1, <2>6, <2>7 DEF next, row
<1>3. \A n \in 0 .. N : n \in Goods
  <2>1. N \in Nat
      BY JournalRows
  <2> HIDE DEF Goods
  <2> QED BY <1>1, <1>2, <2>1, StepByStep
<1> QED BY <1>3

LEMMA ReplayExists ==
    ASSUME journal \in Seq(Row), NEW s \in Int
    PROVE  \E f : Replays(f, s, Len(journal))
<1> DEFINE N == Len(journal)
           step == [n \in 1 .. N |-> [tr \in Tracker |-> SeedStep(s, journal[n], tr)]]
<1>1. N \in Nat /\ Closed \in Tracker
    BY JournalRows, NothingIsKnown
<1>2. ASSUME NEW n \in 1 .. N, NEW tr \in Tracker PROVE SeedStep(s, journal[n], tr) \in Tracker
    BY JournalRows, SeedStepFollows
<1>3. step \in [1 .. N -> [Tracker -> Tracker]]
    BY <1>2
<1>4. PICK f \in [0 .. N -> Tracker] : IsFold(f, N, Closed, step)
  <2> HIDE DEF step, N
  <2> QED BY <1>1, <1>3, FoldExists
<1>5. ASSUME NEW n \in 1 .. N PROVE f[n] = SeedStep(s, journal[n], f[n - 1])
  <2>1. n - 1 \in 0 .. N
      BY <1>1
  <2>2. f[n - 1] \in Tracker
      BY <1>4, <2>1
  <2>3. f[n] = step[n][f[n - 1]]
      BY <1>4 DEF IsFold
  <2> QED BY <2>2, <2>3
<1>6. f[0] = Closed
    BY <1>4 DEF IsFold
<1> QED BY <1>5, <1>6 DEF Replays

\* The identities a replay finds in the journal are the ones its story has.
IdIsFound(f, n) ==
    f[n].open /\ journal[n].ts - f[n].last <= Gap => journal[n].id = f[n].id

\* Of two replays over the same journal, the one that starts earlier has every story
\* the other has open, with the same identity.
LEMMA ReplaysMerge ==
    ASSUME journal \in Seq(Row), InTime, NEW w \in Int, NEW s \in Int, w <= s,
           \A i \in DOMAIN journal : journal[i].verdict = "breaking" => journal[i].id # 0,
           NEW N \in 0 .. Len(journal), NEW f, NEW g, Replays(f, w, N), Replays(g, s, N),
           \A n \in 1 .. N : IdIsFound(f, n)
    PROVE  \A n \in 0 .. N :
                g[n].open => f[n].open /\ f[n].last = g[n].last /\ f[n].id = g[n].id
<1> DEFINE Good(n) == g[n].open => f[n].open /\ f[n].last = g[n].last /\ f[n].id = g[n].id
           Goods == {n \in 0 .. N : Good(n)}
<1>1. 0 \in Goods
  <2>1. g[0] = Closed /\ 0 \in 0 .. N
      BY JournalRows DEF Replays
  <2> QED BY <2>1 DEF Closed
<1>2. ASSUME NEW n \in 1 .. N, n - 1 \in Goods PROVE n \in Goods
  <2> DEFINE row == journal[n]
             a == f[n - 1]
             b == g[n - 1]
             c == f[n]
             d == g[n]
  <2>1. /\ n \in 0 .. N /\ n - 1 \in 0 .. N /\ n \in 1 .. Len(journal)
        /\ n - 1 >= 1 => n - 1 \in 1 .. Len(journal)
      BY JournalRows
  <2>2. row \in Row /\ row.ts \in Nat /\ row.id \in Nat
      BY <2>1, JournalRows
  <2>3. row.verdict = "breaking" => row.id # 0
      BY <2>1, JournalRows
  <2>4. a \in Tracker /\ b \in Tracker
      BY <2>1, ReplayIsTyped
  <2>5. c = SeedStep(w, row, a) /\ d = SeedStep(s, row, b)
      BY DEF Replays
  <2>6. b.open => a.open /\ a.last = b.last /\ a.id = b.id
      BY <1>2
  <2>7. b.open => row.ts >= s
    <3> SUFFICES ASSUME b.open PROVE row.ts >= s
        OBVIOUS
    <3>1. n - 1 >= 1 /\ b.last >= s /\ b.last <= journal[n - 1].ts
        BY <2>1, ReplayIsTyped
    <3>2. n - 1 \in DOMAIN journal /\ n \in DOMAIN journal /\ n - 1 < n
        BY <2>1, <3>1, JournalRows
    <3>3. journal[n - 1].ts < row.ts
        BY <3>2 DEF InTime
    <3>4. journal[n - 1].ts \in Nat /\ b.last \in Nat
        BY <2>1, <2>4, <3>1, JournalRows DEF Tracker
    <3> QED BY <2>2, <3>1, <3>3, <3>4
  <2>8. c.open /\ row.ts - c.last <= Gap => row.id = c.id
      BY DEF IdIsFound
  <2>9. a.last \in Nat /\ b.last \in Nat /\ Gap \in Nat
      BY <2>4, EpisodeAssumption DEF Tracker
  <2> HIDE DEF row, a, b, c, d
  <2>10. ~Unread(s, row) => ~Unread(w, row)
      BY <2>2 DEF Unread
  <2>11. \/ Unread(s, row) /\ d = b
         \/ ~Unread(s, row) /\ row.ts >= s /\ row.verdict # "error" /\ Follows(b, row, d)
      BY <2>2, <2>4, <2>5, SeedStepFollows
  <2>12. \/ Unread(w, row) /\ c = a
         \/ ~Unread(w, row) /\ row.ts >= w /\ row.verdict # "error" /\ Follows(a, row, c)
      BY <2>2, <2>4, <2>5, SeedStepFollows
  <2>13. d.open => c.open /\ c.last = d.last /\ c.id = d.id
    <3> SUFFICES ASSUME d.open PROVE c.open /\ c.last = d.last /\ c.id = d.id
        OBVIOUS
    <3>1. CASE Unread(s, row)
      <4>1. d = b /\ row.ts >= s
          BY <3>1, <2>7, <2>11
      <4>2. row.verdict = "error"
          BY <4>1, <3>1, <2>2 DEF Unread
      <4>3. c = a
          BY <4>2, <2>12
      <4> QED BY <4>1, <4>3, <2>6
    <3>2. CASE ~Unread(s, row)
      <4>1. Follows(b, row, d) /\ Follows(a, row, c)
          BY <3>2, <2>10, <2>11, <2>12
      <4>2. CASE b.open /\ row.ts - b.last <= Gap
        <5>1. ~(row.ts - b.last > Gap)
            BY <4>2, <2>2, <2>9
        <5>2. /\ d.id = b.id /\ d.last = IF row.verdict \in Holding THEN row.ts ELSE b.last
            BY <4>1, <4>2, <5>1 DEF Follows
        <5>3. a.open /\ row.ts - a.last <= Gap /\ ~(row.ts - a.last > Gap)
            BY <4>2, <5>1, <2>6
        <5>4. /\ c.open /\ c.id = a.id /\ c.last = IF row.verdict \in Holding THEN row.ts ELSE a.last
            BY <4>1, <5>3 DEF Follows
        <5> QED BY <4>2, <5>2, <5>4, <2>6
      <4>3. CASE ~(b.open /\ row.ts - b.last <= Gap)
        <5>1. /\ row.verdict = "breaking" /\ d.last = row.ts
              /\ d.id = IF row.id # 0 THEN row.id ELSE row.ts
            BY <4>1, <4>3 DEF Follows
        <5>2. d.id = row.id /\ row.id # 0 /\ row.verdict \in Holding
            BY <5>1, <2>3 DEF Holding
        <5>3. c.open /\ c.last = row.ts
            BY <4>1, <5>1, <5>2 DEF Follows
        <5>4. row.ts - c.last <= Gap
            BY <5>3, <2>2, <2>9
        <5> QED BY <5>1, <5>2, <5>3, <5>4, <2>8
      <4> QED BY <4>2, <4>3
    <3> QED BY <3>1, <3>2
  <2> QED BY <2>1, <2>13 DEF c, d
<1>3. \A n \in 0 .. N : n \in Goods
  <2>1. N \in Nat
      BY JournalRows
  <2> HIDE DEF Goods
  <2> QED BY <1>1, <1>2, <2>1, StepByStep
<1> QED BY <1>3

LEMMA SeedIsFold ==
    ASSUME NEW rows, Len(rows) \in Nat, \A n \in 1 .. Len(rows) : rows[n].row \in Row
    PROVE  \E g : /\ g[0] = Closed /\ Seeded(rows) = g[Len(rows)]
                  /\ \A n \in 1 .. Len(rows) : g[n] = Observed(g[n - 1], rows[n].row)
<1> DEFINE N == Len(rows)
           step == [n \in 1 .. N |-> [tr \in Tracker |-> Observed(tr, rows[n].row)]]
           after == CHOOSE g : g = [n \in 0 .. N |->
                        IF n = 0 THEN Closed ELSE Observed(g[n - 1], rows[n].row)]
<1>1. Seeded(rows) = after[N]
    BY DEF Seeded
<1>2. step \in [1 .. N -> [Tracker -> Tracker]]
    BY ObservedFollows
<1>3. Closed \in Tracker /\ N \in Nat
    BY NothingIsKnown
<1> HIDE DEF N, after
<1>4. PICK f \in [0 .. N -> Tracker] : IsFold(f, N, Closed, step)
  <2> HIDE DEF step
  <2> QED BY <1>2, <1>3, FoldExists
<1>5. ASSUME NEW n \in 1 .. N PROVE f[n] = Observed(f[n - 1], rows[n].row)
  <2>1. n - 1 \in 0 .. N
      BY <1>3
  <2>2. f[n - 1] \in Tracker
      BY <1>4, <2>1
  <2>3. f[n] = step[n][f[n - 1]]
      BY <1>4 DEF IsFold
  <2> QED BY <2>2, <2>3
<1>6. f[0] = Closed
    BY <1>4 DEF IsFold
<1>7. f = [n \in 0 .. N |-> IF n = 0 THEN Closed ELSE Observed(f[n - 1], rows[n].row)]
    BY <1>3, <1>4, <1>5, <1>6
<1>8. after = [n \in 0 .. N |-> IF n = 0 THEN Closed ELSE Observed(after[n - 1], rows[n].row)]
    BY <1>7 DEF after
<1>9. after[0] = Closed
    BY <1>3, <1>8
<1>10. ASSUME NEW n \in 1 .. N PROVE after[n] = Observed(after[n - 1], rows[n].row)
  <2>1. n \in 0 .. N /\ n # 0
      BY <1>3
  <2> QED BY <1>8, <2>1
<1> QED BY <1>1, <1>9, <1>10 DEF N

\* How many of the rows of a window lie at or before an envelope.
ReadUpTo(W, n) == Cardinality({j \in W : j <= n})

LEMMA ReadUpToCounts ==
    ASSUME journal \in Seq(Row), NEW W, W \subseteq DOMAIN journal, NEW n \in DOMAIN journal
    PROVE  /\ ReadUpTo(W, n - 1) \in Nat /\ ReadUpTo(W, 0) = 0
           /\ n \in W => ReadUpTo(W, n) = ReadUpTo(W, n - 1) + 1
           /\ n \notin W => ReadUpTo(W, n) = ReadUpTo(W, n - 1)
           /\ ReadUpTo(W, Len(journal)) = Cardinality(W)
<1> DEFINE Upto == {j \in W : j <= n}
           Less == {j \in W : j <= n - 1}
<1>1. /\ n \in Nat /\ n >= 1 /\ \A j \in W : j \in Nat /\ j >= 1 /\ j <= Len(journal)
      /\ Len(journal) \in Nat
    BY JournalRows
<1>2. IsFiniteSet(W)
    BY PlacesGrow
<1>3. Less \subseteq W /\ n \notin Less
    BY <1>1
<1>4. IsFiniteSet(Less) /\ Cardinality(Less) \in Nat
    BY <1>2, <1>3, FS_Subset, FS_CardinalityType
<1>5. {j \in W : j <= 0} = {}
    BY <1>1
<1>6. {j \in W : j <= Len(journal)} = W
    BY <1>1
<1>7. n \in W => Upto = Less \union {n}
  <2> SUFFICES ASSUME n \in W PROVE Upto = Less \union {n}
      OBVIOUS
  <2>1. \A j \in W : j <= n <=> j <= n - 1 \/ j = n
      BY <1>1
  <2> QED BY <2>1
<1>8. n \notin W => Upto = Less
  <2> SUFFICES ASSUME n \notin W PROVE Upto = Less
      OBVIOUS
  <2>1. \A j \in W : j # n
      OBVIOUS
  <2>2. \A j \in W : j <= n <=> j <= n - 1
      BY <1>1, <2>1
  <2> QED BY <2>2
<1>9. ReadUpTo(W, n) = Cardinality(Upto) /\ ReadUpTo(W, n - 1) = Cardinality(Less)
    BY DEF ReadUpTo
<1> HIDE DEF Upto, Less
<1>10. n \in W => Cardinality(Upto) = Cardinality(Less) + 1
    BY <1>3, <1>4, <1>7, FS_AddElement
<1>11. ReadUpTo(W, 0) = 0
    BY <1>5, FS_EmptySet DEF ReadUpTo
<1>12. ReadUpTo(W, Len(journal)) = Cardinality(W)
    BY <1>6 DEF ReadUpTo
<1> QED BY <1>4, <1>8, <1>9, <1>10, <1>11, <1>12

\* Where the journal is in the order of time, the rows of a window are read in its order.
LEMMA RowsInOrder ==
    ASSUME journal \in Seq(Row), InTime, NEW w \in Int, NEW rows, rows = RowsSince(w),
           NEW W, W = EvaluatedSince(w)
    PROVE  /\ W \subseteq DOMAIN journal /\ Len(rows) \in Nat
           /\ \A n \in DOMAIN journal : n \in W <=> ~Unread(w, journal[n])
           /\ \A n \in 1 .. Len(rows) : rows[n].row \in Row
           /\ ReadUpTo(W, 0) = 0 /\ ReadUpTo(W, Len(journal)) = Len(rows)
           /\ \A n \in W :
                /\ ReadUpTo(W, n) \in 1 .. Len(rows) /\ ReadUpTo(W, n - 1) = ReadUpTo(W, n) - 1
                /\ rows[ReadUpTo(W, n)].index = n /\ rows[ReadUpTo(W, n)].row = journal[n]
           /\ \A n \in DOMAIN journal : n \notin W => ReadUpTo(W, n - 1) = ReadUpTo(W, n)
<1> DEFINE At(n) == CHOOSE j \in W : Place(j, W) = n
<1>1. W \subseteq DOMAIN journal /\ \A n \in DOMAIN journal : n \in W <=> ~Unread(w, journal[n])
  <2>1. \A n \in DOMAIN journal : journal[n].ts >= w <=> ~(journal[n].ts < w)
      BY JournalRows
  <2> QED BY <2>1 DEF EvaluatedSince, Unread
<1>2. rows = [n \in 1 .. Cardinality(W) |-> [index |-> At(n), row |-> journal[At(n)]]]
    BY DEF RowsSince
<1>3. \A n \in 1 .. Len(rows) : rows[n].row \in Row
  <2>1. rows \in Seq([index : DOMAIN journal, row : Row])
      BY RowsAreRead
  <2>2. \A n \in 1 .. Len(rows) : rows[n] \in [index : DOMAIN journal, row : Row]
      BY <2>1, ElementOfSeq
  <2> QED BY <2>2
<1>4. /\ IsFiniteSet(W) /\ Cardinality(W) \in Nat /\ \A i \in W : Place(i, W) \in 1 .. Cardinality(W)
      /\ \A i, k \in W : SeedsBefore(i, k) => Place(i, W) < Place(k, W)
    BY <1>1, PlacesGrow
<1>5. Len(rows) = Cardinality(W)
  <2>1. DOMAIN rows = 1 .. Cardinality(W)
      BY <1>2
  <2>2. rows \in Seq([index : DOMAIN journal, row : Row])
      BY RowsAreRead
  <2> QED BY <1>4, <2>1, <2>2, LenProperties
<1>6. ASSUME NEW i \in W, NEW k \in W, Place(i, W) = Place(k, W) PROVE i = k
  <2>1. ~SeedsBefore(i, k) /\ ~SeedsBefore(k, i)
      BY <1>4, <1>6
  <2> QED BY <1>1, <2>1, SeedsBeforeIsTotal
<1>7. ASSUME NEW n \in W PROVE Place(n, W) = ReadUpTo(W, n)
  <2>1. n \in DOMAIN journal /\ n \in Nat
      BY <1>1, JournalRows
  <2>2. ASSUME NEW j \in W PROVE SeedsBefore(j, n) <=> j <= n - 1
    <3>1. j \in DOMAIN journal /\ j \in Nat /\ journal[j].ts \in Nat /\ journal[n].ts \in Nat
        BY <1>1, <2>1, JournalRows
    <3>2. j < n => journal[j].ts < journal[n].ts
        BY <2>1, <3>1 DEF InTime
    <3>3. n < j => journal[n].ts < journal[j].ts
        BY <2>1, <3>1 DEF InTime
    <3>4. j < n <=> j <= n - 1
        BY <2>1, <3>1
    <3>5. j < n \/ j = n \/ n < j
        BY <2>1, <3>1
    <3>6. j < n => SeedsBefore(j, n)
        BY <3>2 DEF SeedsBefore
    <3>7. ASSUME SeedsBefore(j, n) PROVE j < n
      <4>1. journal[j].ts < journal[n].ts \/ j < n
          BY <3>7 DEF SeedsBefore
      <4>2. j # n /\ ~(n < j)
          BY <4>1, <3>1, <3>3, <2>1
      <4> QED BY <4>2, <3>5
    <3> QED BY <3>4, <3>6, <3>7
  <2>3. {j \in W : SeedsBefore(j, n)} = {j \in W : j <= n - 1}
      BY <2>2
  <2>4. Place(n, W) = ReadUpTo(W, n - 1) + 1
      BY <2>3 DEF Place, ReadUpTo
  <2> QED BY <1>1, <2>1, <2>4, ReadUpToCounts
<1>8. ASSUME NEW n \in W
      PROVE  /\ ReadUpTo(W, n) \in 1 .. Len(rows)
             /\ rows[ReadUpTo(W, n)].index = n /\ rows[ReadUpTo(W, n)].row = journal[n]
  <2> DEFINE k == ReadUpTo(W, n)
  <2>1. Place(n, W) = k /\ k \in 1 .. Cardinality(W)
      BY <1>4, <1>7
  <2>2. At(k) \in W /\ Place(At(k), W) = k
      BY <2>1
  <2> HIDE DEF At, k
  <2>3. At(k) = n
      BY <1>6, <2>1, <2>2
  <2>4. rows[k].index = At(k) /\ rows[k].row = journal[At(k)]
      BY <1>2, <2>1
  <2> QED BY <1>5, <2>1, <2>3, <2>4 DEF k
<1>10. ReadUpTo(W, 0) = 0 /\ ReadUpTo(W, Len(journal)) = Cardinality(W)
  <2>1. CASE DOMAIN journal = {}
    <3>1. W = {} /\ Len(journal) = 0
        BY <1>1, <2>1, JournalRows
    <3>2. {j \in W : j <= 0} = {}
        BY <3>1
    <3> QED BY <3>1, <3>2, FS_EmptySet DEF ReadUpTo
  <2>2. CASE DOMAIN journal # {}
      BY <1>1, <2>2, ReadUpToCounts
  <2> QED BY <2>1, <2>2
<1>11. ASSUME NEW n \in W PROVE ReadUpTo(W, n - 1) = ReadUpTo(W, n) - 1
  <2>1. ReadUpTo(W, n) = ReadUpTo(W, n - 1) + 1 /\ ReadUpTo(W, n - 1) \in Nat
      BY <1>1, ReadUpToCounts
  <2> QED BY <2>1
<1>12. \A n \in DOMAIN journal : n \notin W => ReadUpTo(W, n - 1) = ReadUpTo(W, n)
    BY <1>1, ReadUpToCounts
<1> QED BY <1>1, <1>3, <1>4, <1>5, <1>8, <1>10, <1>11, <1>12

\* A seed is a replay of it.
LEMMA SeedIsReplay ==
    ASSUME journal \in Seq(Row), InTime, NEW w \in Int
    PROVE  \E f : Replays(f, w, Len(journal)) /\ Seeded(RowsSince(w)) = f[Len(journal)]
<1> DEFINE W == EvaluatedSince(w)
           rows == RowsSince(w)
<1>1. /\ W \subseteq DOMAIN journal /\ Len(rows) \in Nat
      /\ \A n \in DOMAIN journal : n \in W <=> ~Unread(w, journal[n])
      /\ \A n \in 1 .. Len(rows) : rows[n].row \in Row
      /\ ReadUpTo(W, 0) = 0 /\ ReadUpTo(W, Len(journal)) = Len(rows)
      /\ \A n \in W :
            /\ ReadUpTo(W, n) \in 1 .. Len(rows) /\ ReadUpTo(W, n - 1) = ReadUpTo(W, n) - 1
            /\ rows[ReadUpTo(W, n)].index = n /\ rows[ReadUpTo(W, n)].row = journal[n]
      /\ \A n \in DOMAIN journal : n \notin W => ReadUpTo(W, n - 1) = ReadUpTo(W, n)
    BY RowsInOrder
<1> HIDE DEF W, rows
<1>9. PICK g : /\ g[0] = Closed /\ Seeded(rows) = g[Len(rows)]
               /\ \A n \in 1 .. Len(rows) : g[n] = Observed(g[n - 1], rows[n].row)
    BY <1>1, SeedIsFold
<1> DEFINE f == [n \in 0 .. Len(journal) |-> g[ReadUpTo(W, n)]]
<1>11. f[0] = Closed /\ f[Len(journal)] = Seeded(rows)
  <2>1. 0 \in 0 .. Len(journal) /\ Len(journal) \in 0 .. Len(journal)
      BY JournalRows
  <2> QED BY <1>1, <1>9, <2>1
<1>12. ASSUME NEW n \in 1 .. Len(journal) PROVE f[n] = SeedStep(w, journal[n], f[n - 1])
  <2>1. n \in DOMAIN journal /\ n \in 0 .. Len(journal) /\ n - 1 \in 0 .. Len(journal)
      BY JournalRows
  <2>2. f[n] = g[ReadUpTo(W, n)] /\ f[n - 1] = g[ReadUpTo(W, n - 1)]
      BY <2>1
  <2> HIDE DEF f
  <2>3. CASE n \in W
    <3>1. g[ReadUpTo(W, n)] = Observed(g[ReadUpTo(W, n) - 1], rows[ReadUpTo(W, n)].row)
        BY <1>1, <1>9, <2>3
    <3>2. g[ReadUpTo(W, n)] = Observed(f[n - 1], journal[n])
        BY <1>1, <2>2, <2>3, <3>1
    <3> QED BY <1>1, <2>1, <2>2, <2>3, <3>2 DEF SeedStep
  <2>4. CASE n \notin W
    <3>1. f[n] = f[n - 1] /\ Unread(w, journal[n])
        BY <1>1, <2>1, <2>2, <2>4
    <3> QED BY <3>1 DEF SeedStep
  <2> QED BY <2>3, <2>4
<1> HIDE DEF f
<1>13. Replays(f, w, Len(journal))
    BY <1>11, <1>12 DEF Replays
<1> QED BY <1>11, <1>13 DEF rows

(***************************************************************************)
(* The invariant of one pipeline.                                          *)
(***************************************************************************)

\* One pass of a pipeline at a time.
OnePass == \A p, q \in Pass : p = q

Turn == CHOOSE p \in Pass : TRUE

\* No envelope still to come is older.
Horizon == IF pass[Turn].at = "idle" THEN clock ELSE pass[Turn].row.ts

RowsInTime ==
    /\ InTime
    /\ \A i \in DOMAIN journal :
        /\ journal[i].ts <= Horizon /\ (pass[Turn].at # "idle" => journal[i].ts < Horizon)
        /\ journal[i].edge => journal[i].id = journal[i].ts
    /\ Horizon <= clock
    /\ pass[Turn].at # "idle" => Horizon >= 1 /\ engine = "up"
    /\ engine = "down" => tracker = Closed

TrackerIsNewest ==
    /\ tracker.open => tracker.id >= 1 /\ tracker.id <= Horizon /\ tracker.last <= Horizon
    /\ ~tracker.open => tracker.id = 0
    /\ tracker.open /\ Horizon - tracker.last <= Gap =>
        \A i \in DOMAIN journal : journal[i].id <= tracker.id

PassIsStamped == pass[Turn].at = "stamped" =>
    LET row == pass[Turn].row
    IN  /\ row.id = tracker.id
        /\ row.verdict = "breaking" => tracker.open
        /\ row.verdict \in Holding /\ tracker.open => tracker.last = row.ts
        /\ row.edge => row.id = row.ts
        /\ tracker.open => row.ts - tracker.last <= Gap

PassesInTime == RowsInTime /\ TrackerIsNewest /\ PassIsStamped /\ IdsNeverReturn

\* What a step that commits nothing leaves a running engine: its live story, or a
\* new one.
Onward ==
    /\ UNCHANGED <<journal, blind>> /\ Horizon' >= Horizon
    /\ tracker'.open /\ Horizon' - tracker'.last <= Gap =>
            \/ tracker.open /\ Horizon - tracker.last <= Gap /\ tracker'.id = tracker.id
            \/ tracker'.id = Horizon'
    /\ \/ engine' = "down"
       \/ /\ UNCHANGED engine
          /\ tracker.open /\ Horizon' - tracker.last <= Gap =>
                tracker'.open /\ tracker'.id = tracker.id /\ tracker'.last >= tracker.last

LEMMA TurnIsTheOne == ASSUME OnePass PROVE Turn \in Pass /\ \A p \in Pass : p = Turn
BY EpisodeAssumption DEF OnePass, Turn

LEMMA HorizonIsTyped ==
    ASSUME OnePass, EpisodeTypeOK
    PROVE  /\ Horizon \in Nat /\ clock \in Nat /\ Gap \in Nat /\ Window \in Nat
           /\ pass[Turn] \in Envelope /\ pass[Turn].row \in Row /\ pass[Turn].row.ts \in Nat
           /\ pass[Turn].row.id \in Nat /\ tracker \in Tracker /\ tracker.last \in Nat
           /\ tracker.id \in Nat /\ journal \in Seq(Row)
<1>1. pass[Turn] \in Envelope
    BY TurnIsTheOne DEF EpisodeTypeOK
<1>2. pass[Turn].row \in Row
    BY <1>1 DEF Envelope
<1>3. pass[Turn].row.ts \in Nat /\ pass[Turn].row.id \in Nat
    BY <1>2 DEF Row
<1>4. tracker \in Tracker
    BY DEF EpisodeTypeOK
<1>5. tracker.last \in Nat /\ tracker.id \in Nat
    BY <1>4 DEF Tracker
<1> QED BY <1>1, <1>2, <1>3, <1>4, <1>5, EpisodeAssumption DEF Horizon, EpisodeTypeOK

LEMMA NextHorizonIsTyped ==
    ASSUME OnePass, EpisodeTypeOK'
    PROVE  /\ Horizon' \in Nat /\ clock' \in Nat
           /\ pass'[Turn] \in Envelope /\ pass'[Turn].row \in Row /\ pass'[Turn].row.ts \in Nat
           /\ tracker' \in Tracker /\ tracker'.last \in Nat /\ tracker'.id \in Nat
           /\ journal' \in Seq(Row)
<1>1. pass'[Turn] \in Envelope
    BY TurnIsTheOne DEF EpisodeTypeOK
<1>2. pass'[Turn].row \in Row
    BY <1>1 DEF Envelope
<1>3. pass'[Turn].row.ts \in Nat
    BY <1>2 DEF Row
<1>4. tracker' \in Tracker
    BY DEF EpisodeTypeOK
<1>5. tracker'.last \in Nat /\ tracker'.id \in Nat
    BY <1>4 DEF Tracker
<1> QED BY <1>1, <1>2, <1>3, <1>4, <1>5 DEF Horizon, EpisodeTypeOK

\* As time goes on, fewer stories are recent.
LEMMA LaterIsLater ==
    ASSUME OnePass, EpisodeTypeOK, EpisodeTypeOK', Horizon' >= Horizon
    PROVE  /\ \A s \in Int : s >= Horizon' - Window => s >= Horizon - Window
           /\ \A n \in Nat : Horizon - n > Gap => Horizon' - n > Gap
           /\ \A n \in Nat : Horizon' - n <= Gap => Horizon - n <= Gap
           /\ \A n \in Nat : Horizon - n > Window => Horizon' - n > Window
           /\ \A n \in Nat : n <= Horizon => n <= Horizon'
<1> DEFINE h == Horizon
           k == Horizon'
<1>1. h \in Nat /\ k \in Nat /\ Gap \in Nat /\ Window \in Nat /\ k >= h
    BY HorizonIsTyped, NextHorizonIsTyped
<1> HIDE DEF h, k
<1>2. \A s \in Int : s >= k - Window => s >= h - Window
    BY <1>1
<1>3. \A n \in Nat : h - n > Gap => k - n > Gap
    BY <1>1
<1>4. \A n \in Nat : k - n <= Gap => h - n <= Gap
    BY <1>1
<1>5. \A n \in Nat : n <= h => n <= k
    BY <1>1
<1>6. \A n \in Nat : h - n > Window => k - n > Window
    BY <1>1
<1> QED BY <1>2, <1>3, <1>4, <1>5, <1>6 DEF h, k

LEMMA PassAtRest ==
    ASSUME OnePass, EpisodeTypeOK, PassesInTime
    PROVE  Horizon <= clock /\ (pass[Turn].at = "idle" => Horizon = clock)
           /\ (pass[Turn].at # "idle" => Horizon = pass[Turn].row.ts)
BY DEF PassesInTime, RowsInTime, Horizon

(***************************************************************************)
(* The steps of the engine that commit nothing.                            *)
(***************************************************************************)

\* The rows of a journal that stays are in time as it goes on.
LEMMA RowsStayInTime ==
    ASSUME OnePass, EpisodeTypeOK, EpisodeTypeOK', PassesInTime, UNCHANGED <<journal, blind>>,
           Horizon' >= Horizon, Horizon' <= clock',
           pass'[Turn].at # "idle" => /\ Horizon' >= 1 /\ engine' = "up"
                                      /\ pass[Turn].at = "idle" => Horizon' > Horizon,
           engine' = "down" => tracker' = Closed
    PROVE  RowsInTime' /\ IdsNeverReturn'
<1> DEFINE h == Horizon
           k == Horizon'
<1>1. h \in Nat /\ k \in Nat /\ k >= h /\ journal \in Seq(Row)
    BY HorizonIsTyped, NextHorizonIsTyped
<1>2. RowsInTime /\ InTime
    BY DEF PassesInTime, RowsInTime
<1>3. ASSUME NEW i \in DOMAIN journal
      PROVE  journal[i].ts <= k /\ (pass'[Turn].at # "idle" => journal[i].ts < k)
  <2>1. journal[i].ts \in Nat
      BY <1>1, JournalRows
  <2>2. journal[i].ts <= h /\ (pass[Turn].at # "idle" => journal[i].ts < h)
      BY <1>2 DEF RowsInTime
  <2>3. pass'[Turn].at # "idle" => pass[Turn].at # "idle" \/ k > h
      OBVIOUS
  <2> HIDE DEF h, k
  <2> QED BY <1>1, <2>1, <2>2, <2>3
<1>4. \A i \in DOMAIN journal : journal[i].edge => journal[i].id = journal[i].ts
    BY <1>2 DEF RowsInTime
<1>5. InTime'
    BY <1>2 DEF InTime
<1>6. IdsNeverReturn'
    BY DEF PassesInTime, IdsNeverReturn, Before
<1> QED BY <1>3, <1>4, <1>5, <1>6 DEF RowsInTime

LEMMA TrackerRests ==
    ASSUME OnePass, EpisodeTypeOK, EpisodeTypeOK', TrackerIsNewest,
           UNCHANGED <<journal, blind, tracker, engine>>, Horizon' >= Horizon
    PROVE  TrackerIsNewest' /\ Onward
<1>1. tracker.last \in Nat /\ tracker.id \in Nat
    BY HorizonIsTyped
<1>2. tracker.open /\ Horizon' - tracker.last <= Gap => Horizon - tracker.last <= Gap
    BY <1>1, LaterIsLater
<1>3. tracker.open => tracker.id <= Horizon' /\ tracker.last <= Horizon'
    BY <1>1, LaterIsLater DEF TrackerIsNewest
<1>4. TrackerIsNewest'
    BY <1>2, <1>3 DEF TrackerIsNewest
<1>5. tracker.last >= tracker.last
    BY <1>1
<1>6. Onward
    BY <1>2, <1>5 DEF Onward
<1> QED BY <1>4, <1>6

LEMMA AssemblingKeeps ==
    ASSUME OnePass, NEW p \in Pass, NEW v \in Verdict, EpisodeTypeOK, EpisodeTypeOK',
           PassesInTime, Assemble(p, v)
    PROVE  PassesInTime' /\ Onward
<1>1. p = Turn /\ Turn \in Pass
    BY TurnIsTheOne
<1>2. /\ pass[Turn].at = "idle" /\ engine = "up" /\ clock' = clock + 1
      /\ UNCHANGED <<journal, tracker, engine, blind>>
    BY <1>1 DEF Assemble
<1>3. pass'[Turn] = [at |-> "assembled", started |-> 0, row |-> Unstamped(clock', v)]
    BY <1>1 DEF Assemble, EpisodeTypeOK
<1>4. Horizon = clock /\ Horizon' = clock'
    BY <1>2, <1>3 DEF Horizon, Unstamped, Stamp
<1>5. Horizon' > Horizon /\ Horizon' >= 1 /\ Horizon' >= Horizon /\ Horizon' <= clock'
    BY <1>2, <1>4, HorizonIsTyped
<1>6. RowsInTime' /\ IdsNeverReturn'
  <2>1. RowsInTime
      BY DEF PassesInTime
  <2> QED BY <1>2, <1>5, <2>1, RowsStayInTime DEF RowsInTime
<1>7. TrackerIsNewest' /\ Onward
    BY <1>2, <1>5, TrackerRests DEF PassesInTime
<1>8. PassIsStamped'
    BY <1>3 DEF PassIsStamped, Unstamped, Stamp
<1> QED BY <1>6, <1>7, <1>8 DEF PassesInTime

LEMMA WaitingKeeps ==
    ASSUME OnePass, EpisodeTypeOK, EpisodeTypeOK', PassesInTime,
           UNCHANGED <<journal, tracker, engine, pass, blind>>, clock' >= clock
    PROVE  PassesInTime' /\ Onward
<1>1. Horizon' >= Horizon /\ Horizon' <= clock'
  <2> DEFINE h == pass[Turn].row.ts
  <2>1. h \in Nat /\ clock \in Nat /\ clock' \in Nat
      BY HorizonIsTyped, NextHorizonIsTyped
  <2>2. CASE pass[Turn].at = "idle"
      BY <2>1, <2>2 DEF Horizon
  <2>3. CASE pass[Turn].at # "idle"
    <3>1. Horizon = h /\ Horizon' = h /\ h <= clock
        BY <2>3 DEF Horizon, PassesInTime, RowsInTime
    <3> HIDE DEF h
    <3> QED BY <2>1, <3>1
  <2> QED BY <2>2, <2>3
<1>2. RowsInTime /\ TrackerIsNewest /\ PassIsStamped
    BY DEF PassesInTime
<1>3. RowsInTime' /\ IdsNeverReturn'
  <2>1. pass'[Turn].at # "idle" => Horizon' >= 1 /\ engine' = "up"
    <3>1. pass[Turn].at # "idle" => Horizon' = Horizon
        BY DEF Horizon
    <3> QED BY <1>2, <3>1 DEF RowsInTime
  <2>2. engine' = "down" => tracker' = Closed
      BY <1>2 DEF RowsInTime
  <2> QED BY <1>1, <2>1, <2>2, RowsStayInTime
<1>4. TrackerIsNewest' /\ Onward
    BY <1>1, <1>2, TrackerRests
<1>5. PassIsStamped'
    BY <1>2 DEF PassIsStamped
<1> QED BY <1>3, <1>4, <1>5 DEF PassesInTime

LEMMA LosingKeeps ==
    ASSUME OnePass, NEW p \in Pass, EpisodeTypeOK, EpisodeTypeOK', PassesInTime, PersistFails(p)
    PROVE  PassesInTime' /\ Onward
<1>1. p = Turn /\ Turn \in Pass
    BY TurnIsTheOne
<1>2. UNCHANGED <<journal, tracker, engine, clock, blind>> /\ pass'[Turn].at = "idle"
      /\ engine = "up"
    BY <1>1 DEF PersistFails, EpisodeTypeOK, Idle
<1>3. Horizon' >= Horizon /\ Horizon' <= clock'
  <2>1. Horizon' = clock /\ Horizon <= clock
      BY <1>2 DEF Horizon, PassesInTime, RowsInTime
  <2>2. clock \in Nat
      BY HorizonIsTyped
  <2> QED BY <1>2, <2>1, <2>2
<1>4. RowsInTime' /\ IdsNeverReturn'
    BY <1>2, <1>3, RowsStayInTime
<1>5. TrackerIsNewest' /\ Onward
    BY <1>2, <1>3, TrackerRests DEF PassesInTime
<1>6. PassIsStamped'
    BY <1>2 DEF PassIsStamped
<1> QED BY <1>4, <1>5, <1>6 DEF PassesInTime

LEMMA CrashingKeeps ==
    ASSUME OnePass, EpisodeTypeOK, EpisodeTypeOK', PassesInTime, Crash
    PROVE  PassesInTime' /\ Onward
<1>1. /\ UNCHANGED <<journal, clock, blind>> /\ pass'[Turn].at = "idle"
      /\ engine' = "down" /\ tracker' = Closed
    BY TurnIsTheOne DEF Crash, Idle
<1>2. Horizon' >= Horizon /\ Horizon' <= clock'
  <2>1. Horizon' = clock /\ Horizon <= clock
      BY <1>1 DEF Horizon, PassesInTime, RowsInTime
  <2>2. clock \in Nat
      BY HorizonIsTyped
  <2> QED BY <1>1, <2>1, <2>2
<1>3. RowsInTime' /\ IdsNeverReturn'
    BY <1>1, <1>2, RowsStayInTime
<1>4. TrackerIsNewest' /\ PassIsStamped'
    BY <1>1 DEF TrackerIsNewest, PassIsStamped, Closed
<1>5. Onward
    BY <1>1, <1>2 DEF Onward, Closed
<1> QED BY <1>3, <1>4, <1>5 DEF PassesInTime

(***************************************************************************)
(* A pass is folded into the tracker; a restart seeds it.                  *)
(***************************************************************************)

LEMMA ObservingKeeps ==
    ASSUME OnePass, NEW p \in Pass, EpisodeTypeOK, EpisodeTypeOK', StoriesAreKnown,
           PassesInTime, Observe(p)
    PROVE  PassesInTime' /\ Onward
<1> DEFINE row == pass[Turn].row
           tr == tracker
           next == tracker'
           h == Horizon
<1>1. p = Turn /\ Turn \in Pass
    BY TurnIsTheOne
<1>2. /\ pass[Turn].at = "assembled" /\ engine = "up" /\ next = Observed(tr, row)
      /\ UNCHANGED <<journal, engine, clock, blind>>
    BY <1>1 DEF Observe
<1>3. pass'[Turn].at = "stamped" /\ pass'[Turn].row = Stamped(tr, row)
    BY <1>1 DEF Observe, EpisodeTypeOK
<1>4. /\ row \in Row /\ row.ts \in Nat /\ row.id = 0 /\ tr \in Tracker /\ next \in Tracker
      /\ tr.last \in Nat /\ tr.id \in Nat /\ next.last \in Nat /\ Gap \in Nat
      /\ journal \in Seq(Row) /\ h = row.ts
    BY <1>1, <1>2, HorizonIsTyped, NextHorizonIsTyped DEF Horizon, StoriesAreKnown
<1>5. Follows(tr, row, next) /\ (Opens(tr, row) => row.verdict = "breaking" /\ (tr.open => row.ts - tr.last > Gap))
    BY <1>2, <1>4, ObservedFollows
<1>6. /\ pass'[Turn].row.ts = row.ts /\ pass'[Turn].row.verdict = row.verdict
      /\ pass'[Turn].row.id = next.id /\ pass'[Turn].row.edge = Opens(tr, row)
    BY <1>2, <1>3 DEF Stamped, Stamp
<1>7. Horizon' = h /\ Horizon' >= Horizon
    BY <1>2, <1>3, <1>4, <1>6 DEF Horizon
<1>8. RowsInTime /\ TrackerIsNewest /\ InTime
    BY DEF PassesInTime, RowsInTime
<1>9. /\ tr.open => tr.id >= 1 /\ tr.id <= h /\ tr.last <= h
      /\ ~tr.open => tr.id = 0
      /\ tr.open /\ h - tr.last <= Gap => \A i \in DOMAIN journal : journal[i].id <= tr.id
    BY <1>8 DEF TrackerIsNewest
<1>10. h >= 1 /\ h <= clock /\ \A i \in DOMAIN journal : journal[i].ts < h /\ journal[i].id <= journal[i].ts
    BY <1>2, <1>8 DEF RowsInTime, InTime
<1>11. \A i \in DOMAIN journal : journal[i].ts \in Nat /\ journal[i].id \in Nat
    BY <1>4, JournalRows
<1>12. RowsInTime' /\ IdsNeverReturn'
    BY <1>2, <1>7, <1>10, RowsStayInTime
<1> HIDE DEF h, row, tr, next
\* The three things the rule can do, without the arithmetic of its conditions.
<1>14. \/ /\ row.verdict = "breaking" /\ ~(tr.open /\ h - tr.last <= Gap)
          /\ next.open /\ next.last = h /\ next.id = h
       \/ ~(tr.open /\ h - tr.last <= Gap) /\ ~next.open /\ next.id = 0 /\ row.verdict # "breaking"
       \/ /\ tr.open /\ h - tr.last <= Gap /\ next.open /\ next.id = tr.id
          /\ next.last = IF row.verdict \in Holding THEN h ELSE tr.last
    BY <1>4, <1>5 DEF Follows
<1>15. next.open => next.id >= 1 /\ next.id <= h /\ next.last <= h /\ h - next.last <= Gap
    BY <1>4, <1>9, <1>10, <1>14
<1>16. ASSUME next.open, NEW i \in DOMAIN journal PROVE journal[i].id <= next.id
  <2>1. CASE tr.open /\ h - tr.last <= Gap
      BY <1>9, <1>14, <1>16, <2>1
  <2>2. CASE ~(tr.open /\ h - tr.last <= Gap)
    <3>1. next.id = h
        BY <1>14, <1>16, <2>2
    <3> QED BY <1>4, <1>10, <1>11, <3>1
  <2> QED BY <2>1, <2>2
<1>17. TrackerIsNewest'
    BY <1>2, <1>7, <1>14, <1>15, <1>16 DEF TrackerIsNewest, next
<1>18. Onward
  <2>1. tr.open /\ h - tr.last <= Gap => next.open /\ next.id = tr.id /\ next.last >= tr.last
      BY <1>4, <1>9, <1>14
  <2>2. next.open /\ h - next.last <= Gap =>
            (tr.open /\ h - tr.last <= Gap /\ next.id = tr.id) \/ next.id = h
      BY <1>4, <1>14
  <2> QED BY <1>2, <1>7, <2>1, <2>2 DEF Onward, tr, next, h
<1>19. Opens(tr, row) => next.id = h
    BY <1>4, <1>5, <1>14
<1>20. PassIsStamped'
  <2>1. row.verdict = "breaking" => next.open
      BY <1>14
  <2>2. row.verdict \in Holding /\ next.open => next.last = row.ts
      BY <1>4, <1>14
  <2> QED BY <1>3, <1>4, <1>6, <1>15, <1>19, <2>1, <2>2 DEF PassIsStamped, next
<1> QED BY <1>12, <1>17, <1>18, <1>20 DEF PassesInTime

\* The seed of a restart is the replay of the last Window.
LEMMA BootingReads ==
    ASSUME OnePass, EpisodeTypeOK, EpisodeTypeOK', PassesInTime, Boot
    PROVE  /\ UNCHANGED <<journal, blind>> /\ Horizon' = Horizon /\ engine' = "up"
           /\ \E g : Replays(g, Horizon - Window, Len(journal)) /\ tracker' = g[Len(journal)]
           /\ (tracker'.open /\ Horizon - tracker'.last <= Gap =>
                    \A i \in DOMAIN journal : journal[i].id <= tracker'.id) => PassesInTime'
<1> DEFINE N == Len(journal)
           w == Horizon - Window
           next == tracker'
<1>1. RowsInTime /\ InTime
    BY DEF PassesInTime, RowsInTime
<1>2. /\ engine = "down" /\ engine' = "up" /\ next = Seeded(RowsSince(clock - Window))
      /\ UNCHANGED <<journal, pass, clock, blind>>
    BY DEF Boot
<1>3. pass[Turn].at = "idle" /\ Horizon = clock /\ Horizon' = Horizon
    BY <1>1, <1>2 DEF RowsInTime, Horizon
<1>4. /\ journal \in Seq(Row) /\ Horizon \in Nat /\ Window \in Nat /\ Gap \in Nat
      /\ next.last \in Nat /\ next.id \in Nat /\ next \in Tracker
    BY HorizonIsTyped, NextHorizonIsTyped
<1>5. Horizon' >= Horizon /\ Horizon' <= clock'
    BY <1>2, <1>3, <1>4
<1>6. RowsInTime' /\ IdsNeverReturn'
    BY <1>2, <1>3, <1>5, RowsStayInTime
<1>7. w \in Int
    BY <1>4
<1>8. PICK g : Replays(g, w, N) /\ next = g[N]
    BY <1>1, <1>2, <1>3, <1>4, <1>7, SeedIsReplay
<1>9. N \in Nat /\ N \in 0 .. N /\ DOMAIN journal = 1 .. N
    BY <1>4, JournalRows
<1> HIDE DEF w, N
<1>10. /\ next.open => /\ N >= 1 /\ next.last <= journal[N].ts
                       /\ next.id >= 1 /\ next.id <= journal[N].ts
       /\ ~next.open => next.id = 0
    BY <1>1, <1>4, <1>7, <1>8, <1>9, ReplayIsTyped DEF N
<1>11. ASSUME next.open PROVE journal[N].ts <= Horizon /\ journal[N].ts \in Nat /\ N \in DOMAIN journal
    BY <1>1, <1>4, <1>9, <1>10, <1>11, JournalRows DEF RowsInTime
<1>12. next.open => next.id <= Horizon /\ next.last <= Horizon
    BY <1>4, <1>10, <1>11
<1>13. ASSUME next.open /\ Horizon - next.last <= Gap =>
                \A i \in DOMAIN journal : journal[i].id <= next.id
       PROVE  PassesInTime'
  <2>1. TrackerIsNewest'
      BY <1>2, <1>3, <1>10, <1>12, <1>13 DEF TrackerIsNewest
  <2>2. PassIsStamped'
      BY <1>2, <1>3 DEF PassIsStamped
  <2> QED BY <1>6, <2>1, <2>2 DEF PassesInTime
<1> QED BY <1>2, <1>3, <1>8, <1>13 DEF w, N

(***************************************************************************)
(* An envelope is committed.                                               *)
(***************************************************************************)

LEMMA CommittingKeeps ==
    ASSUME OnePass, NEW p \in Pass, EpisodeTypeOK, EpisodeTypeOK', PassesInTime, Persist(p)
    PROVE  /\ pass[Turn].at = "stamped" /\ engine = "up" /\ journal' = Append(journal, pass[Turn].row)
           /\ UNCHANGED <<tracker, engine, clock, blind>> /\ Horizon' >= Horizon
           /\ PassesInTime'
           /\ \A i \in DOMAIN journal : journal[i].ts < pass[Turn].row.ts
           /\ pass[Turn].row.id # 0 =>
                /\ \A i \in DOMAIN journal : journal[i].id <= pass[Turn].row.id
                /\ tracker.open /\ Horizon - tracker.last <= Gap
<1> DEFINE row == pass[Turn].row
           J == journal'
           h == Horizon
<1>1. p = Turn /\ Turn \in Pass
    BY TurnIsTheOne
<1>2. /\ pass[Turn].at = "stamped" /\ engine = "up" /\ J = Append(journal, row)
      /\ UNCHANGED <<tracker, engine, clock, blind>>
    BY <1>1 DEF Persist
<1>3. pass'[Turn].at = "idle"
    BY <1>1 DEF Persist, EpisodeTypeOK, Idle
<1>4. /\ row \in Row /\ row.ts \in Nat /\ row.id \in Nat /\ tracker.last \in Nat /\ tracker.id \in Nat
      /\ h = row.ts /\ Gap \in Nat /\ journal \in Seq(Row) /\ h \in Nat /\ clock \in Nat
      /\ h <= clock
    BY <1>2, HorizonIsTyped, PassAtRest
<1>5. Horizon' = clock /\ Horizon' >= Horizon
    BY <1>2, <1>3, <1>4 DEF Horizon
<1>6. RowsInTime /\ InTime /\ TrackerIsNewest /\ PassIsStamped /\ IdsNeverReturn
    BY DEF PassesInTime, RowsInTime
<1>a. PICK N \in Nat : N = Len(journal)
    BY <1>4, JournalRows
<1>7. /\ N \in Nat /\ DOMAIN journal = 1 .. N /\ DOMAIN J = 1 .. N + 1 /\ Len(J) = N + 1
      /\ J[N + 1] = row /\ \A k \in 1 .. N : J[k] = journal[k]
    BY <1>2, <1>4, <1>a, JournalRows, AppendProperties
<1>8. \A k \in 1 .. N : journal[k].ts \in Nat /\ journal[k].id \in Nat /\ journal[k].ts < h
                        /\ journal[k].ts >= 1 /\ journal[k].id <= journal[k].ts
    BY <1>2, <1>4, <1>6, <1>7, JournalRows DEF RowsInTime, InTime
<1>9. /\ row.id = tracker.id
      /\ row.edge => row.id = row.ts
      /\ tracker.open => row.ts - tracker.last <= Gap
    BY <1>2, <1>6 DEF PassIsStamped
<1>10. /\ tracker.open => tracker.id >= 1 /\ tracker.id <= h
       /\ ~tracker.open => tracker.id = 0
       /\ tracker.open /\ h - tracker.last <= Gap => \A i \in 1 .. N : journal[i].id <= tracker.id
    BY <1>6, <1>7 DEF TrackerIsNewest
<1>11. h >= 1 /\ row.id <= h
    BY <1>2, <1>4, <1>6, <1>9, <1>10 DEF RowsInTime
<1>12. row.id # 0 => /\ \A i \in 1 .. N : journal[i].id <= row.id
                     /\ tracker.open /\ h - tracker.last <= Gap
    BY <1>4, <1>9, <1>10
<1> HIDE DEF J, row, h
<1>13. \A k \in 1 .. N + 1 : k \in 1 .. N \/ k = N + 1
    BY <1>7
<1>14. \A k, l \in 1 .. N + 1 : k < l => J[k].ts < J[l].ts
  <2> TAKE k, l \in 1 .. N + 1
  <2> SUFFICES ASSUME k < l PROVE J[k].ts < J[l].ts
      OBVIOUS
  <2>1. k \in 1 .. N
      BY <1>7
  <2>2. CASE l \in 1 .. N
      BY <1>6, <1>7, <2>1, <2>2 DEF InTime
  <2>3. CASE l = N + 1
      BY <1>4, <1>7, <1>8, <2>1, <2>3
  <2> QED BY <1>13, <2>2, <2>3
<1>15. RowsInTime'
  <2>1. InTime'
    <3>1. \A i \in 1 .. N + 1 : J[i].ts >= 1 /\ J[i].id <= J[i].ts
        BY <1>4, <1>7, <1>8, <1>11, <1>13
    <3> QED BY <1>7, <1>14, <3>1 DEF InTime, J
  <2>2. ASSUME NEW i \in 1 .. N + 1
        PROVE  J[i].ts <= Horizon' /\ (J[i].edge => J[i].id = J[i].ts)
    <3>1. CASE i \in 1 .. N
      <4>1. J[i] = journal[i] /\ journal[i].ts \in Nat /\ journal[i].ts < h
          BY <1>7, <1>8, <3>1
      <4>2. journal[i].ts <= clock
          BY <1>4, <4>1
      <4> QED BY <1>5, <1>6, <1>7, <3>1, <4>1, <4>2 DEF RowsInTime
    <3>2. CASE i = N + 1
        BY <1>4, <1>5, <1>7, <1>9, <3>2
    <3> QED BY <1>13, <3>1, <3>2
  <2>3. Horizon' <= clock'
      BY <1>2, <1>4, <1>5
  <2> QED BY <1>2, <1>3, <1>7, <2>1, <2>2, <2>3 DEF RowsInTime, J
<1>16. TrackerIsNewest'
  <2>1. tracker.open => \A i \in 1 .. N + 1 : J[i].id <= tracker.id
      BY <1>4, <1>7, <1>9, <1>10, <1>13
  <2>2. tracker.open => tracker.id <= Horizon' /\ tracker.last <= Horizon'
      BY <1>4, <1>5, <1>6, LaterIsLater DEF TrackerIsNewest
  <2> QED BY <1>2, <1>7, <1>10, <2>1, <2>2 DEF TrackerIsNewest, J
<1>17. PassIsStamped'
    BY <1>3 DEF PassIsStamped
<1>18. IdsNeverReturn'
  <2> SUFFICES ASSUME ~blind', NEW i \in 1 .. N + 1, NEW j \in 1 .. N + 1, J[i].ts < J[j].ts,
                      J[i].id # 0, J[j].id # 0
               PROVE  J[i].id <= J[j].id
      BY <1>7 DEF IdsNeverReturn, Before, J
  <2>1. CASE i \in 1 .. N /\ j \in 1 .. N
      BY <1>2, <1>6, <1>7, <2>1 DEF IdsNeverReturn, Before
  <2>2. CASE i \in 1 .. N /\ j = N + 1
      BY <1>7, <1>12, <2>2
  <2>3. CASE i = N + 1
    <3>1. J[j].ts <= J[i].ts /\ J[i].ts \in Nat /\ J[j].ts \in Nat
        BY <1>4, <1>7, <1>8, <1>13, <2>3
    <3> QED BY <3>1
  <2> QED BY <1>13, <2>1, <2>2, <2>3
<1>19. PassesInTime'
    BY <1>15, <1>16, <1>17, <1>18 DEF PassesInTime
<1>20. \A i \in 1 .. N : journal[i].ts < row.ts
    BY <1>4, <1>8
<1> QED BY <1>2, <1>5, <1>7, <1>12, <1>19, <1>20 DEF J, row, h

(***************************************************************************)
(* An archive the engine wrote itself.                                     *)
(***************************************************************************)

\* A seed of a restart to come reads no story under another identity than the
\* envelopes of it carry.
SeedsAgree == \A s \in Int : s >= Horizon - Window =>
    \A n \in DOMAIN journal : \A f : Replays(f, s, n) => IdIsFound(f, n)

\* What such a seed would find open, the tracker of the running engine has open.
Covered(t) == t.open =>
    (tracker.open /\ tracker.id = t.id /\ tracker.last >= t.last) \/ Horizon - t.last > Gap
TrackerCovers == engine = "up" => \A s \in Int : s >= Horizon - Window =>
    \A f : Replays(f, s, Len(journal)) => Covered(f[Len(journal)])

StoriesAreApart == PassesInTime /\ SeedsAgree /\ TrackerCovers /\ OneIdPerStory

LEMMA OnwardKeeps ==
    ASSUME OnePass, EpisodeTypeOK, EpisodeTypeOK', StoriesAreApart, PassesInTime', Onward
    PROVE  StoriesAreApart'
<1>1. /\ InTime /\ SeedsAgree /\ TrackerCovers /\ OneIdPerStory
      /\ UNCHANGED <<journal, blind>> /\ Horizon' >= Horizon
    BY DEF StoriesAreApart, PassesInTime, RowsInTime, Onward
<1>2. SeedsAgree'
  <2> SUFFICES ASSUME NEW s \in Int, s >= Horizon' - Window, NEW n \in DOMAIN journal,
                      NEW f, Replays(f, s, n)'
               PROVE  IdIsFound(f, n)'
      BY <1>1 DEF SeedsAgree
  <2>1. s >= Horizon - Window
      BY <1>1, LaterIsLater
  <2>2. Replays(f, s, n)
      BY <1>1 DEF Replays
  <2>3. IdIsFound(f, n)
      BY <1>1, <2>1, <2>2 DEF SeedsAgree
  <2> QED BY <1>1, <2>3 DEF IdIsFound
<1>3. TrackerCovers'
  <2> SUFFICES ASSUME engine' = "up", NEW s \in Int, s >= Horizon' - Window, NEW f,
                      Replays(f, s, Len(journal))'
               PROVE  Covered(f[Len(journal)])'
      BY DEF TrackerCovers
  <2> DEFINE t == f[Len(journal)]
             h == Horizon
             k == Horizon'
             tr == tracker
             next == tracker'
  <2>1. s >= Horizon - Window /\ engine = "up"
      BY <1>1, LaterIsLater DEF Onward
  <2>2. Replays(f, s, Len(journal))
      BY <1>1 DEF Replays
  <2>3. Covered(t)
      BY <1>1, <2>1, <2>2 DEF TrackerCovers
  <2>4. t.last \in Nat
    <3>1. journal \in Seq(Row)
        BY HorizonIsTyped
    <3>2. Len(journal) \in 0 .. Len(journal)
        BY <3>1, JournalRows
    <3> QED BY <1>1, <2>2, <3>1, <3>2, ReplayIsTyped DEF Tracker
  <2>5. h \in Nat /\ k \in Nat /\ tr.last \in Nat /\ next.last \in Nat /\ Gap \in Nat
      BY HorizonIsTyped, NextHorizonIsTyped
  <2>6. k >= h /\ (tr.open /\ k - tr.last <= Gap =>
                        next.open /\ next.id = tr.id /\ next.last >= tr.last)
      BY <2>1 DEF Onward
  <2>7. t.open => (tr.open /\ tr.id = t.id /\ tr.last >= t.last) \/ h - t.last > Gap
      BY <2>3 DEF Covered
  <2>8. t' = t
      BY <1>1
  <2> HIDE DEF t, h, k, tr, next
  <2>9. t.open => (next.open /\ next.id = t.id /\ next.last >= t.last) \/ k - t.last > Gap
    <3> SUFFICES ASSUME t.open, ~(k - t.last > Gap)
                 PROVE  next.open /\ next.id = t.id /\ next.last >= t.last
        OBVIOUS
    <3>1. tr.open /\ tr.id = t.id /\ tr.last >= t.last /\ k - tr.last <= Gap
        BY <2>4, <2>5, <2>6, <2>7
    <3> QED BY <2>4, <2>5, <2>6, <3>1
  <2> QED BY <2>8, <2>9 DEF Covered, k, next, t
<1>4. OneIdPerStory'
    BY <1>1 DEF OneIdPerStory, Continues, Reaches, Seedable, Before, Qualifies
<1> QED BY <1>2, <1>3, <1>4 DEF StoriesAreApart

LEMMA BootingCovers ==
    ASSUME OnePass, EpisodeTypeOK, EpisodeTypeOK', StoriesAreApart, FullyStamped, ~blind, Boot
    PROVE  StoriesAreApart'
<1> DEFINE N == Len(journal)
           w == Horizon - Window
           next == tracker'
<1>1. PassesInTime /\ SeedsAgree /\ InTime /\ IdsNeverReturn /\ RowsInTime /\ OneIdPerStory
    BY DEF StoriesAreApart, PassesInTime, RowsInTime
<1>2. UNCHANGED <<journal, blind>> /\ Horizon' = Horizon /\ engine' = "up"
    BY <1>1, BootingReads
<1>4. /\ journal \in Seq(Row) /\ Horizon \in Nat /\ Window \in Nat /\ Gap \in Nat
      /\ next.last \in Nat /\ next.id \in Nat /\ next \in Tracker
    BY HorizonIsTyped, NextHorizonIsTyped
<1>8. w \in Int /\ w >= Horizon - Window
    BY <1>4
<1>9. PICK g : Replays(g, w, N) /\ next = g[N]
    BY <1>1, BootingReads
<1>10. N \in Nat /\ N \in 0 .. N /\ DOMAIN journal = 1 .. N
    BY <1>4, JournalRows
<1>11. \A n \in 1 .. N : IdIsFound(g, n)
  <2> TAKE n \in 1 .. N
  <2>1. Replays(g, w, n)
      BY <1>9, <1>10 DEF Replays
  <2> QED BY <1>1, <1>8, <1>10, <2>1 DEF SeedsAgree
<1> HIDE DEF w, N
<1>12. TrackerCovers'
  <2> SUFFICES ASSUME NEW s \in Int, s >= w, NEW f, Replays(f, s, N) PROVE Covered(f[N])'
      BY <1>2 DEF TrackerCovers, Replays, N, w
  <2>1. \A i \in DOMAIN journal : journal[i].verdict = "breaking" => journal[i].id # 0
      BY DEF FullyStamped
  <2>2. f[N].open => g[N].open /\ g[N].last = f[N].last /\ g[N].id = f[N].id
    <3>1. w \in Int /\ w <= s /\ N \in 0 .. Len(journal) /\ Replays(g, w, N)
        BY <1>4, <1>8, <1>9, <1>10 DEF N
    <3>2. \A n \in 0 .. N :
                f[n].open => g[n].open /\ g[n].last = f[n].last /\ g[n].id = f[n].id
        BY <1>1, <1>4, <1>11, <2>1, <3>1, ReplaysMerge, SMTT(30)
    <3> QED BY <1>10, <3>2
  <2>3. f[N].open => next.last >= f[N].last
      BY <1>4, <1>9, <2>2
  <2>4. N' = N
      BY <1>2 DEF N
  <2> QED BY <1>9, <2>2, <2>3, <2>4 DEF Covered
<1>13. next.open => N >= 1 /\ next.last <= journal[N].ts /\ next.id >= 1
    BY <1>1, <1>4, <1>8, <1>9, <1>10, ReplayIsTyped DEF N
<1>14. ASSUME next.open PROVE journal[N].ts <= Horizon /\ journal[N].ts \in Nat /\ N \in DOMAIN journal
    BY <1>1, <1>4, <1>10, <1>13, <1>14, JournalRows DEF RowsInTime
<1>16. ASSUME next.open, Horizon - next.last <= Gap, NEW i \in DOMAIN journal
       PROVE  journal[i].id <= next.id
  <2> DEFINE h == Horizon
             t == journal[N].ts
  <2>1. h \in Nat /\ t \in Nat /\ t <= h /\ h - next.last <= Gap
      BY <1>4, <1>14, <1>16
  <2> HIDE DEF h, t
  <2>2. t - next.last <= Gap
      BY <1>4, <2>1
  <2>3. journal[N].id = next.id
      BY <1>9, <1>11, <1>14, <1>10, <1>16, <2>2 DEF IdIsFound, t
  <2>4. journal[i].id \in Nat /\ i \in Nat /\ i <= N
      BY <1>4, <1>10, <1>16, JournalRows
  <2>5. CASE i = N
      BY <2>3, <2>4, <2>5
  <2>6. CASE i < N
    <3>1. i \in DOMAIN journal /\ N \in DOMAIN journal
        BY <1>14, <1>16
    <3>2. Before(i, N)
        BY <1>1, <2>6, <3>1 DEF InTime, Before
    <3>3. journal[i].id # 0 => journal[i].id <= journal[N].id
        BY <1>1, <1>13, <1>14, <1>16, <2>3, <3>1, <3>2 DEF IdsNeverReturn
    <3> QED BY <1>13, <1>16, <1>4, <2>3, <2>4, <3>3
  <2> QED BY <1>10, <2>4, <2>5, <2>6
<1>17. PassesInTime'
    BY <1>1, <1>16, BootingReads
<1>18. SeedsAgree'
    BY <1>1, <1>2 DEF SeedsAgree, Replays, IdIsFound
<1>19. OneIdPerStory'
    BY <1>1, <1>2 DEF OneIdPerStory, Continues, Reaches, Seedable, Before, Qualifies
<1> QED BY <1>12, <1>17, <1>18, <1>19 DEF StoriesAreApart

LEMMA LeastOf ==
    ASSUME NEW S \in SUBSET Nat, S # {}
    PROVE  \E x \in S : \A y \in S : x <= y
<1>1. \E x \in S : \A y \in S : ~ (<<y, x>> \in OpToRel(<, Nat))
    BY NatLessThanWellFounded, WFMin
<1>2. PICK x \in S : \A y \in S : ~ (<<y, x>> \in OpToRel(<, Nat))
    BY <1>1
<1>3. \A y \in S : y \in Nat /\ ~(y < x) /\ x \in Nat
    BY <1>2 DEF OpToRel
<1>4. \A y \in S : x <= y
    BY <1>3
<1> QED BY <1>4

\* A seed that reaches back to a breaking envelope has its story open, wherever no
\* qualifying envelope of it is further than the gap from the one before.
LEMMA StoryIsHeld ==
    ASSUME journal \in Seq(Row), InTime, NEW b \in 1 .. Len(journal),
           journal[b].verdict = "breaking", journal[b].id # 0,
           \A n \in b + 1 .. Len(journal) : \E l \in b .. n - 1 :
                Qualifies(journal[l]) /\ journal[n].ts - journal[l].ts <= Gap,
           NEW f, Replays(f, journal[b].ts, Len(journal))
    PROVE  LET t == f[Len(journal)]
           IN  /\ t.open /\ t.id = journal[b].id /\ t.last \in Nat
               /\ \A m \in b .. Len(journal) : Qualifies(journal[m]) => journal[m].ts <= t.last
<1> DEFINE N == Len(journal)
           s == journal[b].ts
           Good(n) == /\ f[n].open /\ f[n].id = journal[b].id
                      /\ \A m \in b .. n : Qualifies(journal[m]) => journal[m].ts <= f[n].last
           Goods == {n \in 0 .. N : n >= b => Good(n)}
<1>1. /\ N \in Nat /\ b \in Nat /\ b >= 1 /\ b <= N /\ DOMAIN journal = 1 .. N /\ s \in Nat /\ s \in Int
      /\ N \in 0 .. N
    BY JournalRows
<1>2. \A n \in 0 .. N :
        f[n] \in Tracker /\ f[n].last \in Nat
        /\ (f[n].open => n >= 1 /\ f[n].last >= s /\ f[n].last <= journal[n].ts)
    BY <1>1, ReplayIsTyped DEF Tracker
<1>3. \A n \in 1 .. N : /\ journal[n] \in Row /\ journal[n].ts \in Nat
                        /\ f[n] = SeedStep(s, journal[n], f[n - 1])
    BY <1>1, JournalRows DEF Replays
<1>4. ASSUME NEW n \in 1 .. N, n - 1 \in Goods PROVE n \in Goods
  <2> SUFFICES ASSUME n >= b PROVE Good(n)
      OBVIOUS
  <2> DEFINE row == journal[n]
             tr == f[n - 1]
             next == f[n]
  <2>1. n \in Nat /\ n - 1 \in Nat /\ n - 1 \in 0 .. N /\ (n > b => n - 1 >= b) /\ n \in 0 .. N
      BY <1>1
  <2>2. row \in Row /\ row.ts \in Nat /\ tr \in Tracker /\ tr.last \in Nat /\ next = SeedStep(s, row, tr)
        /\ next.last \in Nat /\ Gap \in Nat
      BY <1>2, <1>3, <2>1, EpisodeAssumption
  <2>3. row.ts >= s
    <3>1. b < n => s < row.ts
        BY <1>1 DEF InTime
    <3> QED BY <1>1, <2>1, <2>2, <3>1
  <2>4. \A m \in b .. n : m # n => m \in b .. n - 1 /\ m \in DOMAIN journal /\ m < n
      BY <1>1, <2>1
  <2>5. \A m \in b .. n : journal[m].ts <= row.ts
    <3> TAKE m \in b .. n
    <3>1. m # n => journal[m].ts < row.ts
        BY <1>1, <2>1, <2>4 DEF InTime
    <3>2. m \in 1 .. N
        BY <1>1, <2>1
    <3>3. journal[m].ts \in Nat
        BY <1>3, <3>2
    <3> DEFINE e == journal[m].ts
               r == row.ts
    <3>4. (m = n => e = r) /\ (m # n => e < r) /\ e \in Nat /\ r \in Nat
        BY <2>2, <3>1, <3>3
    <3> HIDE DEF e, r
    <3>5. e <= r
        BY <3>4
    <3> QED BY <3>5 DEF e, r
  <2>6. CASE n = b
    <3>1. ~tr.open
      <4> SUFFICES ASSUME tr.open PROVE FALSE
          OBVIOUS
      <4>1. n - 1 >= 1 /\ tr.last >= s /\ tr.last <= journal[n - 1].ts
          BY <1>2, <2>1
      <4>2. n - 1 \in 1 .. N /\ n - 1 < b
          BY <1>1, <2>1, <2>6, <4>1
      <4>3. journal[n - 1].ts < s /\ journal[n - 1].ts \in Nat
          BY <1>1, <1>3, <4>2 DEF InTime
      <4> QED BY <1>1, <2>2, <4>1, <4>3
    <3>2. ~Unread(s, row)
        BY <1>1, <2>6 DEF Unread
    <3>3. Follows(tr, row, next)
        BY <1>1, <2>2, <3>2, SeedStepFollows
    <3>4. next.open /\ next.last = row.ts /\ next.id = row.id
        BY <2>6, <3>1, <3>3 DEF Follows
    <3> QED BY <2>5, <2>6, <3>4
  <2>7. CASE n # b
    <3>1. n > b /\ n \in b + 1 .. N /\ n - 1 >= b
        BY <1>1, <2>1, <2>7
    <3>2. tr.open /\ tr.id = journal[b].id
          /\ \A m \in b .. n - 1 : Qualifies(journal[m]) => journal[m].ts <= tr.last
        BY <1>4, <3>1
    <3>3. PICK l \in b .. n - 1 : Qualifies(journal[l]) /\ row.ts - journal[l].ts <= Gap
        BY <3>1
    <3>4. journal[l].ts <= tr.last /\ journal[l].ts \in Nat
      <4>1. l \in 1 .. N
          BY <1>1, <2>1
      <4> QED BY <1>3, <3>2, <3>3, <4>1
    <3> DEFINE e == journal[l].ts
    <3>5. row.ts - e <= Gap /\ e <= tr.last /\ e \in Nat
        BY <3>3, <3>4
    <3> HIDE DEF e, row, tr, next
    <3>6. row.ts - tr.last <= Gap
        BY <2>2, <3>5
    <3>7. ~(row.ts - tr.last > Gap)
        BY <2>2, <3>6
    <3>8. /\ next.open /\ next.id = tr.id
          /\ (next.last = tr.last /\ row.verdict \notin Holding) \/ next.last = row.ts
      <4>1. CASE Unread(s, row)
        <5>1. row.verdict = "error" /\ next = tr
            BY <1>1, <2>2, <2>3, <4>1, SeedStepFollows DEF Unread
        <5> QED BY <3>2, <5>1 DEF Holding, tr
      <4>2. CASE ~Unread(s, row)
        <5>1. Follows(tr, row, next)
            BY <1>1, <2>2, <4>2, SeedStepFollows
        <5>2. tr.open
            BY <3>2 DEF tr
        <5> QED BY <3>7, <5>1, <5>2 DEF Follows
      <4> QED BY <4>1, <4>2
    <3>9. ASSUME NEW m \in b .. n, Qualifies(journal[m]) PROVE journal[m].ts <= next.last
      <4>1. CASE next.last = row.ts
          BY <2>5, <4>1
      <4>2. CASE next.last = tr.last /\ row.verdict \notin Holding
        <5>1. m # n
            BY <3>9, <4>2 DEF Qualifies, row
        <5> QED BY <2>4, <3>2, <3>9, <4>2, <5>1 DEF tr
      <4> QED BY <3>8, <4>1, <4>2
    <3> QED BY <3>2, <3>8, <3>9 DEF next, tr
  <2> QED BY <2>6, <2>7
<1>5. 0 \in Goods
    BY <1>1
<1>6. \A n \in 0 .. N : n \in Goods
  <2> HIDE DEF Goods
  <2> QED BY <1>1, <1>4, <1>5, StepByStep
<1>7. Good(N) /\ f[N].last \in Nat
    BY <1>1, <1>2, <1>6
<1> QED BY <1>7

\* What Continues and Seedable say where the order of time is that of the journal.
Spans(rows, i, j) ==
    /\ i < j /\ rows[i].verdict = "breaking" /\ Qualifies(rows[j])
    /\ \A k \in i + 1 .. j : Qualifies(rows[k]) =>
        \E l \in i .. k - 1 : Qualifies(rows[l]) /\ rows[k].ts - rows[l].ts <= Gap
    /\ \A k \in i + 1 .. j :
        \E l \in i .. k - 1 : rows[l].verdict = "breaking" /\ rows[k].ts - rows[l].ts <= Window

LEMMA SpansJoin ==
    ASSUME journal \in Seq(Row), InTime, NEW i \in DOMAIN journal, NEW j \in DOMAIN journal,
           Spans(journal, i, j)
    PROVE  Continues(i, j) /\ Seedable(i, j)
<1>1. DOMAIN journal = 1 .. Len(journal) /\ Len(journal) \in Nat
    BY JournalRows
<1>2. \A k, l \in DOMAIN journal : Before(k, l) <=> k < l
  <2> TAKE k, l \in DOMAIN journal
  <2>1. journal[k].ts \in Nat /\ journal[l].ts \in Nat /\ k \in Nat /\ l \in Nat
      BY <1>1, JournalRows
  <2>2. k < l => journal[k].ts < journal[l].ts
      BY DEF InTime
  <2>3. l < k => journal[l].ts < journal[k].ts
      BY DEF InTime
  <2>4. k < l \/ k = l \/ l < k
      BY <2>1
  <2> QED BY <2>1, <2>2, <2>3, <2>4 DEF Before
<1>3. \A k \in DOMAIN journal : Before(i, k) /\ ~Before(j, k) =>
        /\ k \in i + 1 .. j
        /\ \A l \in i .. k - 1 : l \in DOMAIN journal /\ ~Before(l, i) /\ Before(l, k)
  <2> SUFFICES ASSUME NEW k \in DOMAIN journal, Before(i, k), ~Before(j, k)
               PROVE  /\ k \in i + 1 .. j
                      /\ \A l \in i .. k - 1 : l \in DOMAIN journal /\ ~Before(l, i) /\ Before(l, k)
      OBVIOUS
  <2>1. i < k /\ ~(j < k) /\ i \in 1 .. Len(journal) /\ j \in 1 .. Len(journal) /\ k \in 1 .. Len(journal)
      BY <1>1, <1>2
  <2>2. k \in i + 1 .. j
      BY <1>1, <2>1
  <2>3. \A l \in i .. k - 1 : l \in 1 .. Len(journal) /\ ~(l < i) /\ l < k
      BY <1>1, <2>1
  <2> QED BY <1>1, <1>2, <2>2, <2>3
<1>4. Continues(i, j)
  <2>1. Before(i, j)
      BY <1>2 DEF Spans
  <2> QED BY <1>3, <2>1 DEF Spans, Continues, Reaches
<1>5. Seedable(i, j)
    BY <1>3 DEF Spans, Seedable
<1> QED BY <1>4, <1>5

LEMMA StorySpans ==
    ASSUME journal' \in Seq(Row),
           \A k, l \in DOMAIN journal' : k < l => journal'[k].ts < journal'[l].ts,
           NEW i \in DOMAIN journal', NEW j \in DOMAIN journal',
           Continues(i, j)', Seedable(i, j)'
    PROVE  Spans(journal', i, j)
<1> DEFINE J == journal'
           N == Len(J)
<1>1. DOMAIN J = 1 .. N /\ N \in Nat
    OBVIOUS
<1>2. \A k, l \in DOMAIN J : Before(k, l)' <=> k < l
  <2> TAKE k, l \in DOMAIN J
  <2>1. J[k] \in Row /\ J[l] \in Row /\ k \in Nat /\ l \in Nat
      BY <1>1, ElementOfSeq
  <2>2. J[k].ts \in Nat /\ J[l].ts \in Nat
      BY <2>1 DEF Row
  <2>3. (k < l => J[k].ts < J[l].ts) /\ (l < k => J[l].ts < J[k].ts)
      OBVIOUS
  <2>4. k < l \/ k = l \/ l < k
      BY <2>1
  <2> QED BY <2>2, <2>3, <2>4 DEF Before
<1>3. /\ Before(i, j)' /\ J[i].verdict = "breaking" /\ Qualifies(J[j])
      /\ \A k \in DOMAIN J : Before(i, k)' /\ ~Before(j, k)' /\ Qualifies(J[k]) =>
            \E l \in DOMAIN J : /\ ~Before(l, i)' /\ Before(l, k)' /\ Qualifies(J[l])
                                /\ J[k].ts - J[l].ts <= Gap
      /\ \A k \in DOMAIN J : Before(i, k)' /\ ~Before(j, k)' =>
            \E l \in DOMAIN J : /\ ~Before(l, i)' /\ Before(l, k)' /\ J[l].verdict = "breaking"
                                /\ J[k].ts - J[l].ts <= Window
    BY DEF Continues, Reaches, Seedable
<1>4. \A k \in i + 1 .. j :
        /\ k \in DOMAIN J /\ Before(i, k)' /\ ~Before(j, k)'
        /\ \A l \in DOMAIN J : ~Before(l, i)' /\ Before(l, k)' => l \in i .. k - 1
  <2> TAKE k \in i + 1 .. j
  <2>1. k \in 1 .. N /\ i < k /\ ~(j < k) /\ i \in Nat /\ k \in Nat
      BY <1>1
  <2>2. \A l \in 1 .. N : ~(l < i) /\ l < k => l \in i .. k - 1
      BY <2>1
  <2> HIDE DEF J
  <2> QED BY <1>1, <1>2, <2>1, <2>2 DEF J
<1>5. i < j
    BY <1>2, <1>3
<1>6. ASSUME NEW k \in i + 1 .. j, Qualifies(J[k])
      PROVE  \E l \in i .. k - 1 : Qualifies(J[l]) /\ J[k].ts - J[l].ts <= Gap
    BY <1>3, <1>4, <1>6
<1>7. ASSUME NEW k \in i + 1 .. j
      PROVE  \E l \in i .. k - 1 : J[l].verdict = "breaking" /\ J[k].ts - J[l].ts <= Window
    BY <1>3, <1>4, <1>7
<1> QED BY <1>3, <1>5, <1>6, <1>7 DEF Spans

\* What joins the story of an envelope, as the seed of a restart would see it.
LEMMA OneIdStays ==
    ASSUME journal \in Seq(Row), InTime, NEW row \in Row, journal' = Append(journal, row),
           \A i \in DOMAIN journal : journal[i].ts < row.ts,
           \A i \in DOMAIN journal : journal[i].verdict = "breaking" => journal[i].id # 0,
           ~blind, OneIdPerStory,
           \A s \in Int : s >= row.ts - Window => \A f :
                Replays(f, s, Len(journal)) /\ f[Len(journal)].open
                    /\ row.ts - f[Len(journal)].last <= Gap => row.id = f[Len(journal)].id
    PROVE  OneIdPerStory'
<1> DEFINE N == Len(journal)
           J == journal'
<1>1. /\ N \in Nat /\ DOMAIN journal = 1 .. N /\ J \in Seq(Row) /\ DOMAIN J = 1 .. N + 1
      /\ J[N + 1] = row /\ \A k \in 1 .. N : J[k] = journal[k]
    BY JournalRows, AppendProperties
<1>2. \A k \in 1 .. N : journal[k] \in Row /\ journal[k].ts \in Nat
    BY JournalRows
<1>3. \A k, l \in DOMAIN J : k < l => J[k].ts < J[l].ts
  <2> SUFFICES ASSUME NEW k \in 1 .. N + 1, NEW l \in 1 .. N + 1, k < l PROVE J[k].ts < J[l].ts
      BY <1>1
  <2> HIDE DEF N, J
  <2>1. N \in Nat
      BY <1>1
  <2>2. k \in 1 .. N /\ (l \in 1 .. N \/ l = N + 1)
      BY <2>1
  <2>3. CASE l \in 1 .. N
      BY <1>1, <2>2, <2>3 DEF InTime
  <2>4. CASE l = N + 1
      BY <1>1, <2>2, <2>4
  <2> QED BY <2>2, <2>3, <2>4
<1> SUFFICES ASSUME NEW i \in DOMAIN J, NEW j \in DOMAIN J, Continues(i, j)', Seedable(i, j)',
                    J[i].id # 0, J[j].id # 0
             PROVE  J[i].id = J[j].id
    BY DEF OneIdPerStory
<1>4. Spans(J, i, j)
    BY <1>1, <1>3, StorySpans
<1>5. i < j /\ i \in 1 .. N /\ i \in Nat /\ (j \in 1 .. N \/ j = N + 1)
    BY <1>1, <1>4 DEF Spans
<1> HIDE DEF J
\* A stretch of the new journal that ends before the new envelope is one of the old.
<1>6. ASSUME NEW b \in 1 .. N, b <= j, i < b, Qualifies(journal[b]), journal[b].id # 0
      PROVE  journal[i].id = journal[b].id
  <2>1. \A k \in i + 1 .. b : k \in i + 1 .. j /\ k \in 1 .. N /\ J[k] = journal[k]
                              /\ \A l \in i .. k - 1 : l \in 1 .. N /\ J[l] = journal[l]
      BY <1>1, <1>5, <1>6
  <2>2. journal[i].verdict = "breaking" /\ journal[i].id # 0 /\ J[i] = journal[i]
      BY <1>1, <1>4, <1>5 DEF Spans
  <2>3. ASSUME NEW k \in i + 1 .. b, Qualifies(journal[k])
        PROVE  \E l \in i .. k - 1 : Qualifies(journal[l]) /\ journal[k].ts - journal[l].ts <= Gap
    <3>1. PICK l \in i .. k - 1 : Qualifies(J[l]) /\ J[k].ts - J[l].ts <= Gap
        BY <1>4, <2>1, <2>3 DEF Spans
    <3> QED BY <2>1, <3>1
  <2>4. ASSUME NEW k \in i + 1 .. b
        PROVE  \E l \in i .. k - 1 : journal[l].verdict = "breaking" /\ journal[k].ts - journal[l].ts <= Window
    <3>1. PICK l \in i .. k - 1 : J[l].verdict = "breaking" /\ J[k].ts - J[l].ts <= Window
        BY <1>4, <2>1, <2>4 DEF Spans
    <3> QED BY <2>1, <3>1
  <2>5. Spans(journal, i, b)
      BY <1>6, <2>2, <2>3, <2>4 DEF Spans
  <2>6. Continues(i, b) /\ Seedable(i, b)
      BY <1>1, <1>5, <2>5, SpansJoin
  <2>7. i \in DOMAIN journal /\ b \in DOMAIN journal
      BY <1>1, <1>5
  <2>8. \A k, l \in DOMAIN journal :
            Continues(k, l) /\ Seedable(k, l) /\ journal[k].id # 0 /\ journal[l].id # 0
                => journal[k].id = journal[l].id
      BY DEF OneIdPerStory
  <2> QED BY <2>2, <2>6, <2>7, <2>8, <1>6
<1>7. CASE j \in 1 .. N
  <2>1. Qualifies(journal[j]) /\ journal[j].id # 0
      BY <1>1, <1>4, <1>7 DEF Spans
  <2>2. journal[i].id = journal[j].id
      BY <1>1, <1>5, <1>6, <1>7, <2>1
  <2> QED BY <1>1, <1>5, <1>7, <2>2
<1>8. CASE j = N + 1
  <2>1. j \in i + 1 .. j /\ \A l \in i .. j - 1 : l \in 1 .. N /\ J[l] = journal[l]
      BY <1>1, <1>5, <1>8
  <2>2. PICK b \in i .. j - 1 : J[b].verdict = "breaking" /\ J[j].ts - J[b].ts <= Window
      BY <1>4, <2>1 DEF Spans
  <2>3. b \in 1 .. N /\ b \in Nat /\ i <= b /\ b < j /\ J[b] = journal[b] /\ (i = b \/ i < b)
      BY <1>1, <1>5, <1>8, <2>1
  <2>4. journal[b].verdict = "breaking" /\ journal[b].id # 0 /\ Qualifies(journal[b])
      BY <1>1, <2>2, <2>3 DEF Qualifies, Holding
  <2>5. journal[i].id = journal[b].id
    <3>1. b <= j
        BY <1>1, <1>8, <2>3
    <3>2. CASE i = b
        BY <3>2
    <3>3. CASE i < b
        BY <1>6, <2>3, <2>4, <3>1, <3>3
    <3> QED BY <2>3, <3>2, <3>3
  <2>6. \A n \in b + 1 .. j : \E l \in b .. n - 1 : Qualifies(J[l]) /\ J[n].ts - J[l].ts <= Gap
    <3> TAKE n \in b + 1 .. j
    <3> DEFINE Q == {k \in n .. j : Qualifies(J[k])}
    <3>1. n \in Nat /\ j \in Nat /\ n <= j /\ b < n /\ n \in 1 .. N + 1
        BY <1>1, <1>8, <2>3
    <3>2. Q \in SUBSET Nat /\ j \in Q
        BY <1>4, <3>1 DEF Spans
    <3>3. PICK k \in Q : \A m \in Q : k <= m
      <4> HIDE DEF Q
      <4> QED BY <3>2, LeastOf
    <3>4. k \in i + 1 .. j /\ Qualifies(J[k]) /\ k \in Nat /\ n <= k /\ k <= j
        BY <1>5, <2>3, <3>1
    <3>5. PICK l \in i .. k - 1 : Qualifies(J[l]) /\ J[k].ts - J[l].ts <= Gap
        BY <1>4, <3>4 DEF Spans
    <3>6. l < n
      <4> SUFFICES ASSUME ~(l < n) PROVE FALSE
          OBVIOUS
      <4>1. l \in n .. j /\ l < k
          BY <1>5, <3>1, <3>4
      <4>2. k <= l
          BY <3>3, <3>5, <4>1
      <4> QED BY <1>5, <3>4, <4>1, <4>2
    <3>7. /\ l \in 1 .. N + 1 /\ l <= n - 1 /\ l \in Nat /\ k \in 1 .. N + 1
        BY <1>1, <1>5, <1>8, <3>1, <3>4, <3>6
    <3> DEFINE later == J[k].ts
               now == J[n].ts
               held == J[l].ts
               first == J[b].ts
    <3>8. \A m \in 1 .. N + 1 : J[m].ts \in Nat
      <4> TAKE m \in 1 .. N + 1
      <4>1. J[m] \in Row
          BY <1>1, ElementOfSeq
      <4> QED BY <4>1 DEF Row
    <3>9. /\ later \in Nat /\ now \in Nat /\ held \in Nat /\ first \in Nat /\ later - held <= Gap
          /\ now <= later
      <4>1. n = k \/ n < k
          BY <3>1, <3>4
      <4>2. later \in Nat /\ now \in Nat /\ held \in Nat /\ first \in Nat
          BY <2>3, <3>1, <3>7, <3>8, <1>1
      <4>3. n < k => now < later
          BY <1>1, <1>3, <3>1, <3>7
      <4>4. now <= later
        <5> HIDE DEF now, later
        <5>1. n = k => now = later
            BY DEF now, later
        <5> QED BY <4>1, <4>2, <4>3, <5>1
      <4> QED BY <3>5, <4>2, <4>4
    <3>10. Gap \in Nat
        BY EpisodeAssumption
    <3>11. CASE l >= b
      <4>1. l \in b .. n - 1
          BY <2>3, <3>1, <3>7, <3>11
      <4> HIDE DEF later, now, held, first
      <4>2. now - held <= Gap
          BY <3>9, <3>10
      <4> QED BY <3>5, <4>1, <4>2 DEF now, held
    <3>12. CASE l < b
      <4>1. b \in b .. n - 1 /\ b \in 1 .. N + 1
          BY <1>1, <2>3, <3>1
      <4>2. held < first
          BY <1>1, <1>3, <3>7, <3>12, <4>1
      <4> HIDE DEF later, now, held, first
      <4>3. now - first <= Gap
          BY <3>9, <3>10, <4>2
      <4> QED BY <2>3, <2>4, <4>1, <4>3 DEF now, first
    <3> QED BY <2>3, <3>7, <3>11, <3>12
  <2>7. \A n \in b + 1 .. N : \E l \in b .. n - 1 :
            Qualifies(journal[l]) /\ journal[n].ts - journal[l].ts <= Gap
    <3> TAKE n \in b + 1 .. N
    <3>1. n \in b + 1 .. j /\ n \in 1 .. N /\ \A l \in b .. n - 1 : l \in 1 .. N
        BY <1>1, <1>8, <2>3
    <3>2. PICK l \in b .. n - 1 : Qualifies(J[l]) /\ J[n].ts - J[l].ts <= Gap
        BY <2>6, <3>1
    <3>3. J[l] = journal[l] /\ J[n] = journal[n]
        BY <1>1, <3>1
    <3> QED BY <3>2, <3>3
  <2> DEFINE s == journal[b].ts
  <2>8. s \in Int
      BY <1>2, <2>3
  <2>9. PICK f : Replays(f, s, N)
      BY <2>8, ReplayExists
  <2> DEFINE t == f[N]
  <2>10. /\ t.open /\ t.id = journal[b].id /\ t.last \in Nat
         /\ \A m \in b .. N : Qualifies(journal[m]) => journal[m].ts <= t.last
      BY <2>3, <2>4, <2>7, <2>9, StoryIsHeld
  <2>11. row.ts \in Nat /\ Gap \in Nat /\ Window \in Nat /\ row = J[j]
      BY <1>1, <1>8, EpisodeAssumption DEF Row
  <2>12. row.ts - t.last <= Gap
    <3>1. j \in b + 1 .. j /\ \A l \in b .. j - 1 : l \in b .. N /\ l \in 1 .. N
        BY <1>1, <1>8, <2>3
    <3>2. PICK l \in b .. j - 1 : Qualifies(J[l]) /\ J[j].ts - J[l].ts <= Gap
        BY <2>6, <3>1
    <3> DEFINE held == journal[l].ts
    <3>3. held \in Nat /\ held <= t.last /\ row.ts - held <= Gap
        BY <1>1, <1>2, <2>10, <2>11, <3>1, <3>2
    <3> HIDE DEF held, t
    <3> QED BY <2>10, <2>11, <3>3
  <2>13. s >= row.ts - Window
    <3>1. row.ts - s <= Window /\ s \in Nat
        BY <1>2, <2>2, <2>3, <2>11
    <3> HIDE DEF s
    <3> QED BY <2>11, <3>1
  <2>14. row.id = t.id
      BY <2>8, <2>9, <2>10, <2>12, <2>13
  <2> QED BY <1>1, <1>5, <2>5, <2>10, <2>11, <2>14
<1> QED BY <1>5, <1>7, <1>8

\* One more envelope of a replay, and the one the engine commits.
LEMMA RowIsCovered ==
    ASSUME OnePass, EpisodeTypeOK, StoriesAreApart, pass[Turn].at = "stamped", engine = "up",
           NEW s \in Int, s >= Horizon - Window, NEW f, Replays(f, s, Len(journal)),
           NEW next, next = SeedStep(s, pass[Turn].row, f[Len(journal)])
    PROVE  LET row == pass[Turn].row
               t == f[Len(journal)]
           IN  /\ t.open /\ row.ts - t.last <= Gap => row.id = t.id
               /\ next.open /\ row.ts - next.last <= Gap => row.id = next.id
               /\ Covered(next) /\ next.last \in Nat
<1> DEFINE row == pass[Turn].row
           t == f[Len(journal)]
           h == Horizon
<1>1. /\ row \in Row /\ row.ts \in Nat /\ row.id \in Nat /\ tracker.last \in Nat /\ tracker.id \in Nat
      /\ h = row.ts /\ Gap \in Nat /\ journal \in Seq(Row)
    BY HorizonIsTyped, PassAtRest DEF StoriesAreApart
<1>2. RowsInTime /\ InTime /\ Covered(t) /\ TrackerIsNewest /\ PassIsStamped
    BY DEF StoriesAreApart, PassesInTime, RowsInTime, TrackerCovers
<1>3. Len(journal) \in 0 .. Len(journal)
    BY <1>1, JournalRows
<1>4. t \in Tracker /\ t.last \in Nat
    BY <1>1, <1>2, <1>3, ReplayIsTyped DEF Tracker
<1>5. /\ row.id = tracker.id
      /\ row.verdict = "breaking" => tracker.open /\ tracker.last = h /\ row.id # 0
      /\ row.verdict \in Holding /\ tracker.open => tracker.last = h
    BY <1>1, <1>2 DEF PassIsStamped, TrackerIsNewest, Holding
<1>6. t.open => (tracker.open /\ tracker.id = t.id /\ tracker.last >= t.last) \/ h - t.last > Gap
    BY <1>2 DEF Covered
<1>0. next = SeedStep(s, row, t)
    OBVIOUS
<1> HIDE DEF t, h, row
<1>7. /\ next \in Tracker
      /\ \/ Unread(s, row) /\ next = t
         \/ ~Unread(s, row) /\ row.ts >= s /\ row.verdict # "error" /\ Follows(t, row, next)
    BY <1>1, <1>4, <1>0, SeedStepFollows
<1>8. next.last \in Nat
    BY <1>7 DEF Tracker
<1>9. t.open /\ h - t.last <= Gap => tracker.open /\ tracker.id = t.id /\ tracker.last >= t.last
    BY <1>1, <1>4, <1>6
<1>10. \/ next = t
       \/ /\ next.open /\ next.last = h /\ row.verdict = "breaking"
          /\ next.id = IF row.id # 0 THEN row.id ELSE row.ts
       \/ ~next.open
       \/ /\ t.open /\ h - t.last <= Gap /\ next.open /\ next.id = t.id
          /\ next.last = IF row.verdict \in Holding THEN h ELSE t.last
    BY <1>1, <1>7 DEF Follows
<1>11. next.open /\ h - next.last <= Gap =>
            tracker.open /\ tracker.id = next.id /\ tracker.last >= next.last
  <2>1. CASE next = t
      BY <1>9, <2>1
  <2>2. CASE /\ next.open /\ next.last = h /\ row.verdict = "breaking"
             /\ next.id = IF row.id # 0 THEN row.id ELSE row.ts
      BY <1>1, <1>5, <2>2
  <2>3. CASE ~next.open
      BY <2>3
  <2>4. CASE /\ t.open /\ h - t.last <= Gap /\ next.open /\ next.id = t.id
             /\ next.last = IF row.verdict \in Holding THEN h ELSE t.last
      BY <1>1, <1>5, <1>9, <2>4
  <2> QED BY <1>10, <2>1, <2>2, <2>3, <2>4
<1>12. Covered(next)
  <2>1. h - next.last <= Gap \/ h - next.last > Gap
      BY <1>1, <1>8
  <2> QED BY <1>11, <2>1 DEF Covered, h
<1> QED BY <1>1, <1>5, <1>8, <1>9, <1>11, <1>12 DEF row, t

LEMMA CommittingCovers ==
    ASSUME OnePass, NEW p \in Pass, EpisodeTypeOK, EpisodeTypeOK', StoriesAreApart, FullyStamped,
           ~blind, Persist(p)
    PROVE  StoriesAreApart'
<1> DEFINE row == pass[Turn].row
           J == journal'
<1>1. PassesInTime /\ InTime /\ SeedsAgree /\ TrackerCovers /\ OneIdPerStory
    BY DEF StoriesAreApart, PassesInTime, RowsInTime
<1>2. /\ pass[Turn].at = "stamped" /\ engine = "up" /\ J = Append(journal, row)
      /\ UNCHANGED <<tracker, engine, clock, blind>> /\ Horizon' >= Horizon /\ PassesInTime'
      /\ \A i \in DOMAIN journal : journal[i].ts < row.ts
    BY <1>1, CommittingKeeps
<1>4. row \in Row /\ journal \in Seq(Row) /\ Horizon = row.ts
    BY <1>1, <1>2, HorizonIsTyped, PassAtRest
<1>a. PICK N \in Nat : N = Len(journal)
    BY <1>4, JournalRows
<1>7. /\ N \in Nat /\ DOMAIN journal = 1 .. N /\ DOMAIN J = 1 .. N + 1 /\ Len(J) = N + 1
      /\ J[N + 1] = row /\ \A k \in 1 .. N : J[k] = journal[k]
    BY <1>2, <1>4, <1>a, JournalRows, AppendProperties
<1> HIDE DEF J, row
<1>13. \A k \in 1 .. N + 1 : k \in 1 .. N \/ k = N + 1
    BY <1>7
\* A replay of the new journal is one of the old, and one envelope more.
<1>16. ASSUME NEW s \in Int, s >= Horizon' - Window, NEW n \in 1 .. N + 1, NEW f, Replays(f, s, n)'
       PROVE  /\ n \in 1 .. N => Replays(f, s, n)
              /\ n = N + 1 => Replays(f, s, N) /\ f[n] = SeedStep(s, row, f[N])
  <2>1. f[0] = Closed /\ \A m \in 1 .. n : f[m] = SeedStep(s, J[m], f[m - 1])
      BY <1>16 DEF Replays, J
  <2>2. n \in 1 .. N => \A m \in 1 .. n : m \in 1 .. N /\ J[m] = journal[m]
      BY <1>7
  <2>3. n = N + 1 => (\A m \in 1 .. N : m \in 1 .. n) /\ n \in 1 .. n /\ n - 1 = N
      BY <1>7
  <2>4. n \in 1 .. N => Replays(f, s, n)
      BY <2>1, <2>2 DEF Replays
  <2>5. n = N + 1 => Replays(f, s, N)
      BY <1>7, <2>1, <2>3 DEF Replays
  <2>6. n = N + 1 => f[n] = SeedStep(s, row, f[N])
      BY <1>7, <2>1, <2>3
  <2> QED BY <2>4, <2>5, <2>6
<1>17. \A s \in Int : s >= Horizon' - Window => s >= Horizon - Window
    BY <1>2, LaterIsLater
<1>18. SeedsAgree'
  <2> SUFFICES ASSUME NEW s \in Int, s >= Horizon' - Window, NEW n \in 1 .. N + 1,
                      NEW f, Replays(f, s, n)'
               PROVE  IdIsFound(f, n)'
      BY <1>7 DEF SeedsAgree, J
  <2>1. s >= Horizon - Window
      BY <1>17
  <2>2. CASE n \in 1 .. N
    <3>1. IdIsFound(f, n)
        BY <1>1, <1>7, <1>16, <2>1, <2>2 DEF SeedsAgree
    <3> QED BY <1>7, <2>2, <3>1 DEF IdIsFound, J
  <2>3. CASE n = N + 1
    <3>1. Replays(f, s, N) /\ f[n] = SeedStep(s, row, f[N])
        BY <1>16, <2>3
    <3>2. f[n].open /\ row.ts - f[n].last <= Gap => row.id = f[n].id
        BY <1>2, <2>1, <3>1, RowIsCovered, <1>a DEF row
    <3> QED BY <1>7, <2>3, <3>2 DEF IdIsFound, J
  <2> QED BY <1>13, <2>2, <2>3
<1>19. TrackerCovers'
  <2> SUFFICES ASSUME NEW s \in Int, s >= Horizon' - Window, NEW f, Replays(f, s, N + 1)'
               PROVE  Covered(f[N + 1])'
      BY <1>7 DEF TrackerCovers, J
  <2> DEFINE next == f[N + 1]
  <2>1. s >= Horizon - Window /\ N + 1 \in 1 .. N + 1
      BY <1>7, <1>17
  <2>2. Replays(f, s, N) /\ next = SeedStep(s, row, f[N])
      BY <1>16, <2>1
  <2>3. Covered(next) /\ next.last \in Nat
      BY <1>2, <2>1, <2>2, RowIsCovered, <1>a DEF row
  <2> HIDE DEF next
  <2>4. Horizon - next.last > Gap => Horizon' - next.last > Gap
      BY <1>2, <2>3, LaterIsLater
  <2>5. Covered(next)' <=>
            (next'.open => (tracker'.open /\ tracker'.id = next'.id /\ tracker'.last >= next'.last)
                           \/ Horizon' - next'.last > Gap)
      BY DEF Covered
  <2> QED BY <1>2, <2>3, <2>4, <2>5 DEF Covered, next
<1>23. OneIdPerStory'
  <2>1. ASSUME NEW s \in Int, s >= row.ts - Window, NEW f, Replays(f, s, Len(journal)),
               f[Len(journal)].open, row.ts - f[Len(journal)].last <= Gap
        PROVE  row.id = f[Len(journal)].id
    <3>1. s >= Horizon - Window
        BY <1>4, <2>1
    <3> QED BY <1>2, <2>1, <3>1, RowIsCovered, <1>a DEF row
  <2>2. \A i \in DOMAIN journal : journal[i].ts < row.ts
      BY <1>2 DEF row
  <2>3. \A i \in DOMAIN journal : journal[i].verdict = "breaking" => journal[i].id # 0
      BY DEF FullyStamped
  <2>4. journal' = Append(journal, row)
      BY <1>2 DEF J
  <2> QED BY <1>1, <1>4, <2>1, <2>2, <2>3, <2>4, OneIdStays
<1> QED BY <1>2, <1>18, <1>19, <1>23 DEF StoriesAreApart

(***************************************************************************)
(* The theorems about one pipeline's stories.                              *)
(***************************************************************************)

\* The rule has no story to open in rows without a breaking verdict.
LEMMA NothingOpens ==
    ASSUME journal \in Seq(Row), InTime, \A i \in DOMAIN journal : journal[i].verdict # "breaking",
           NEW s \in Int, NEW N \in 0 .. Len(journal), NEW f, Replays(f, s, N)
    PROVE  \A n \in 0 .. N : ~f[n].open
<1> DEFINE Shut == {n \in 0 .. N : ~f[n].open}
<1>1. N \in Nat /\ Len(journal) \in Nat /\ DOMAIN journal = 1 .. Len(journal) /\ 0 \in 0 .. N
    BY JournalRows
<1>2. 0 \in Shut
    BY <1>1 DEF Replays, Closed
<1>3. ASSUME NEW n \in 1 .. N, n - 1 \in Shut PROVE n \in Shut
  <2> DEFINE row == journal[n]
             tr == f[n - 1]
             next == f[n]
  <2>1. n \in DOMAIN journal /\ n - 1 \in 0 .. N /\ n \in 0 .. N
      BY <1>1
  <2>2. row \in Row /\ row.verdict # "breaking" /\ tr \in Tracker /\ ~tr.open
      BY <1>3, <2>1, JournalRows, ReplayIsTyped
  <2>3. next = SeedStep(s, row, tr)
      BY DEF Replays
  <2> HIDE DEF row, tr, next
  <2>4. (Unread(s, row) /\ next = tr) \/ Follows(tr, row, next)
      BY <2>2, <2>3, SeedStepFollows
  <2>5. ~next.open
      BY <2>2, <2>4 DEF Follows
  <2> QED BY <2>1, <2>5 DEF next
<1>4. \A n \in 0 .. N : n \in Shut
  <2> HIDE DEF Shut
  <2> QED BY <1>1, <1>2, <1>3, StepByStep
<1> QED BY <1>4

StoryInv == ~blind /\ Old = {} => StoriesAreApart

\* The archive there is at the start.
LEMMA ArchiveIsInTime ==
    ASSUME OnePass, BInit
    PROVE  /\ EpisodeTypeOK /\ PassesInTime /\ tracker = Closed /\ engine = "down"
           /\ job = NoJob /\ filled = {}
           /\ \A i \in DOMAIN journal : journal[i].id = 0
<1>1. /\ job = NoJob /\ filled = {} /\ engine = "down" /\ tracker = Closed
      /\ pass = [p \in Pass |-> Idle]
    BY DEF BInit, Init
<1>2. EpisodeTypeOK
    BY EpisodesStart DEF EpisodeInv
<1>3. PICK n \in 0 .. MaxLegacy : \E v \in [1 .. n -> Verdict] :
            journal = [i \in 1 .. n |-> Unstamped(i, v[i])] /\ clock = n
    BY DEF BInit, Init
<1>4. n \in Nat /\ DOMAIN journal = 1 .. n /\ clock = n
    BY <1>3, EpisodeAssumption
<1>5. \A i \in DOMAIN journal : journal[i].ts = i /\ journal[i].id = 0 /\ ~journal[i].edge
    BY <1>3, <1>4 DEF Unstamped, Stamp
<1>6. pass[Turn].at = "idle" /\ Horizon = n
    BY <1>1, <1>4, TurnIsTheOne DEF Idle, Horizon
<1>7. \A i \in 1 .. n : i \in Nat /\ i >= 1 /\ i <= n /\ 0 <= i
    BY <1>4
<1>8. InTime
    BY <1>4, <1>5, <1>7 DEF InTime
<1>9. RowsInTime
  <2>1. n <= clock
      BY <1>4
  <2> QED BY <1>1, <1>4, <1>5, <1>6, <1>7, <1>8, <2>1 DEF RowsInTime
<1>10. TrackerIsNewest /\ PassIsStamped /\ IdsNeverReturn
    BY <1>1, <1>5, <1>6 DEF TrackerIsNewest, PassIsStamped, IdsNeverReturn, Closed
<1> QED BY <1>1, <1>2, <1>5, <1>9, <1>10 DEF PassesInTime

LEMMA StoriesStart == ASSUME OnePass, BInit PROVE StoryInv
<1> SUFFICES ASSUME Old = {} PROVE StoriesAreApart
    BY DEF StoryInv
<1>1. /\ PassesInTime /\ InTime /\ engine = "down" /\ journal \in Seq(Row)
      /\ \A i \in DOMAIN journal : journal[i].id = 0
    BY ArchiveIsInTime DEF PassesInTime, RowsInTime, EpisodeTypeOK
<1>2. \A i \in DOMAIN journal : journal[i].verdict # "breaking"
    BY <1>1 DEF Old
<1>3. SeedsAgree
  <2> SUFFICES ASSUME NEW s \in Int, NEW n \in DOMAIN journal, NEW f, Replays(f, s, n)
               PROVE  ~f[n].open
      BY DEF SeedsAgree, IdIsFound
  <2>1. n \in 0 .. Len(journal) /\ n \in 0 .. n
      BY <1>1, JournalRows
  <2> QED BY <1>1, <1>2, <2>1, NothingOpens
<1>4. TrackerCovers /\ OneIdPerStory
    BY <1>1 DEF TrackerCovers, OneIdPerStory
<1> QED BY <1>1, <1>3, <1>4 DEF StoriesAreApart

\* No step takes an envelope away from the old ones.
LEMMA OldStays ==
    ASSUME EpisodeTypeOK, EpisodeTypeOK', [BNext]_bvars, Old' = {}
    PROVE  Old = {} /\ ~WriteStamp
<1>1. \A i \in DOMAIN journal' : journal'[i].verdict = "breaking" => journal'[i].id # 0
    BY DEF Old
<1>2. filled' = {}
    BY DEF Old
<1>3. ~WriteStamp
    BY <1>2 DEF WriteStamp
<1>4. filled' = filled
    BY <1>3 DEF BNext, BackfillStep, BeginBackfill, EndBackfill, bvars
<1>5. journal' = journal \/ \E p \in Pass : Persist(p)
    BY <1>3 DEF BNext, BackfillStep, BeginBackfill, EndBackfill, bvars, vars, Next, Assemble,
                Observe, PersistFails, Crash, Boot, BootUnseeded, Wait
<1>6. CASE journal' = journal
    BY <1>1, <1>2, <1>3, <1>4, <1>6 DEF Old
<1>7. CASE \E p \in Pass : Persist(p)
  <2>1. PICK p \in Pass : Persist(p)
      BY <1>7
  <2>2. journal' = Append(journal, pass[p].row) /\ journal \in Seq(Row) /\ pass[p].row \in Row
    <3>1. pass[p] \in Envelope
        BY DEF EpisodeTypeOK
    <3> QED BY <2>1, <3>1 DEF Persist, EpisodeTypeOK, Envelope
  <2>3. \A i \in DOMAIN journal : i \in DOMAIN journal' /\ journal'[i] = journal[i]
      BY <2>2, AppendProperties
  <2> QED BY <1>1, <1>2, <1>3, <1>4, <2>3 DEF Old
<1> QED BY <1>5, <1>6, <1>7

\* Every step but the commit of an envelope, a restart and a write of a backfill goes
\* onward; a blind start is not one of them.
LEMMA OtherStepsKeep ==
    ASSUME OnePass, EpisodeTypeOK, EpisodeTypeOK', StoriesAreKnown, PassesInTime, [BNext]_bvars,
           ~blind', ~WriteStamp, ~Boot, \A p \in Pass : ~Persist(p)
    PROVE  PassesInTime' /\ Onward
<1>1. ASSUME NEW p \in Pass, NEW v \in Verdict, Assemble(p, v) PROVE PassesInTime' /\ Onward
    BY <1>1, AssemblingKeeps
<1>2. ASSUME NEW p \in Pass, Observe(p) PROVE PassesInTime' /\ Onward
    BY <1>2, ObservingKeeps
<1>3. ASSUME NEW p \in Pass, PersistFails(p) PROVE PassesInTime' /\ Onward
    BY <1>3, LosingKeeps
<1>4. CASE Crash
    BY <1>4, CrashingKeeps
<1>5. CASE Wait \/ UNCHANGED vars
  <2>1. clock' >= clock /\ UNCHANGED <<journal, tracker, engine, pass, blind>>
      BY <1>5 DEF Wait, vars, EpisodeTypeOK
  <2> QED BY <2>1, WaitingKeeps
<1>6. ~BootUnseeded
    BY DEF BootUnseeded
<1>7. Next \/ UNCHANGED vars
    BY DEF BNext, BackfillStep, BeginBackfill, EndBackfill, bvars
<1> QED BY <1>1, <1>2, <1>3, <1>4, <1>5, <1>6, <1>7 DEF Next

LEMMA BlindStays == [BNext]_bvars /\ ~blind' => ~blind
BY DEF BNext, BackfillStep, BeginBackfill, EndBackfill, WriteStamp, bvars, vars, Next, Assemble,
       Observe, Persist, PersistFails, Crash, Boot, BootUnseeded, Wait

LEMMA StoriesStep ==
    ASSUME OnePass, EpisodeInv, EpisodeInv', StoryInv, [BNext]_bvars
    PROVE  StoryInv'
<1>1. EpisodeTypeOK /\ EpisodeTypeOK' /\ StoriesAreKnown
    BY DEF EpisodeInv
<1> SUFFICES ASSUME ~blind', Old' = {} PROVE StoriesAreApart'
    BY DEF StoryInv
<1>2. ~blind /\ Old = {} /\ ~WriteStamp
    BY <1>1, OldStays, BlindStays
<1>3. StoriesAreApart /\ PassesInTime /\ FullyStamped
    BY <1>2 DEF StoryInv, StoriesAreApart, Old, FullyStamped
<1>4. ASSUME NEW p \in Pass, Persist(p) PROVE StoriesAreApart'
    BY <1>1, <1>2, <1>3, <1>4, CommittingCovers
<1>5. CASE Boot
    BY <1>1, <1>2, <1>3, <1>5, BootingCovers
<1>6. CASE ~Boot /\ \A p \in Pass : ~Persist(p)
  <2>1. PassesInTime' /\ Onward
      BY <1>1, <1>2, <1>3, <1>6, OtherStepsKeep
  <2> QED BY <1>1, <1>3, <2>1, OnwardKeeps
<1> QED BY <1>4, <1>5, <1>6

\* An opening edge is the envelope its identity is named for.
LEMMA EdgeIsFirst == ASSUME EpisodeTypeOK, PassesInTime PROVE OneEdgePerStory
<1>1. RowsInTime /\ InTime
    BY DEF PassesInTime, RowsInTime
<1>2. \A i \in DOMAIN journal :
        /\ journal[i].ts \in Nat /\ journal[i].id \in Nat /\ journal[i].id <= journal[i].ts /\ i \in Nat
        /\ journal[i].edge => journal[i].id = journal[i].ts
    BY <1>1, JournalRows DEF EpisodeTypeOK, InTime, RowsInTime
<1>3. ASSUME NEW i \in DOMAIN journal, journal[i].edge, NEW j \in RowsOf(journal[i].id), j # i
      PROVE  ~journal[j].edge /\ Before(i, j)
  <2>1. j \in DOMAIN journal /\ journal[j].id = journal[i].ts
      BY <1>2, <1>3 DEF RowsOf
  <2>2. journal[i].ts <= journal[j].ts /\ (i < j \/ j < i)
      BY <1>2, <1>3, <2>1
  <2>3. journal[i].ts < journal[j].ts
    <3>1. (i < j => journal[i].ts < journal[j].ts) /\ (j < i => journal[j].ts < journal[i].ts)
        BY <1>1, <2>1 DEF InTime
    <3> QED BY <1>2, <2>1, <2>2, <3>1
  <2> QED BY <1>2, <2>1, <2>3 DEF Before
<1> QED BY <1>3 DEF OneEdgePerStory

(***************************************************************************)
(* The fold of a whole journal.  An archive that predates the fields has   *)
(* no identities to compare; what its stories are is what the fold of the  *)
(* rule over all of it says.                                               *)
(***************************************************************************)

\* f is the fold of the rule over the first n rows, from the instant s on.
Folds(f, rows, s, n) ==
    f[0] = Closed /\ \A m \in 1 .. n : f[m] = SeedStep(s, rows[m], f[m - 1])

Ordered(rows) ==
    /\ rows \in Seq(Row)
    /\ \A i, j \in 1 .. Len(rows) : i < j => rows[i].ts < rows[j].ts

\* A story no gap has closed yet.
Live(tr, ts) == tr.open /\ ts - tr.last <= Gap

\* What observe makes of a tracker, with the start of the story.
Becomes(tr, row, next) ==
    \/ /\ row.verdict = "breaking" /\ ~Live(tr, row.ts)
       /\ next.open /\ next.started = row.ts /\ next.last = row.ts
       /\ next.id = IF row.id # 0 THEN row.id ELSE row.ts
    \/ row.verdict # "breaking" /\ ~Live(tr, row.ts) /\ ~next.open /\ next.id = 0
    \/ /\ Live(tr, row.ts) /\ next.open /\ next.started = tr.started /\ next.id = tr.id
       /\ next.last = IF row.verdict \in Holding THEN row.ts ELSE tr.last

LEMMA ObservedTells ==
    ASSUME NEW tr \in Tracker, NEW row \in Row
    PROVE  /\ Observed(tr, row) \in Tracker /\ Becomes(tr, row, Observed(tr, row))
           /\ Opens(tr, row) <=> row.verdict = "breaking" /\ ~Live(tr, row.ts)
<1>1. /\ row.ts \in Nat /\ row.id \in Nat /\ tr.last \in Nat /\ tr.open \in BOOLEAN
      /\ Gap \in Nat
    BY EpisodeAssumption DEF Row, Tracker
<1>2. ~tr.open \/ Lapsed(tr, row.ts) <=> ~Live(tr, row.ts)
  <2>1. row.ts - tr.last > Gap <=> ~(row.ts - tr.last <= Gap)
      BY <1>1
  <2> QED BY <1>1, <2>1 DEF Lapsed, Live
<1>3. Opens(tr, row) <=> row.verdict = "breaking" /\ ~Live(tr, row.ts)
    BY <1>2 DEF Opens
<1>4. CASE Opens(tr, row)
  <2> DEFINE id == IF row.id # 0 THEN row.id ELSE row.ts
  <2>1. Observed(tr, row) = [open |-> TRUE, started |-> row.ts, last |-> row.ts, id |-> id]
      BY <1>4 DEF Observed
  <2>2. id = (IF row.id # 0 THEN row.id ELSE row.ts)
      OBVIOUS
  <2> HIDE DEF id
  <2>3. /\ Observed(tr, row).open /\ Observed(tr, row).started = row.ts
        /\ Observed(tr, row).last = row.ts /\ Observed(tr, row).id = id
      BY <2>1
  <2> QED BY <1>3, <1>4, <2>2, <2>3, ObservedFollows DEF Becomes
<1>5. CASE ~Opens(tr, row) /\ ~Live(tr, row.ts)
  <2>1. Observed(tr, row) = Closed
      BY <1>2, <1>5 DEF Observed
  <2>2. ~Observed(tr, row).open /\ Observed(tr, row).id = 0
      BY <2>1 DEF Closed
  <2>3. row.verdict # "breaking"
      BY <1>3, <1>5
  <2> QED BY <1>3, <1>5, <2>2, <2>3, ObservedFollows DEF Becomes
<1>6. CASE ~Opens(tr, row) /\ Live(tr, row.ts)
  <2>1. CASE row.verdict \in Holding
    <3>1. Observed(tr, row) = [tr EXCEPT !.last = row.ts]
        BY <1>2, <1>6, <2>1 DEF Observed
    <3>2. /\ Observed(tr, row).open = tr.open /\ Observed(tr, row).started = tr.started
          /\ Observed(tr, row).id = tr.id /\ Observed(tr, row).last = row.ts
        BY <3>1 DEF Tracker
    <3> QED BY <1>3, <1>6, <2>1, <3>2, ObservedFollows DEF Becomes, Live
  <2>2. CASE row.verdict \notin Holding
    <3>1. Observed(tr, row) = tr
        BY <1>2, <1>6, <2>2 DEF Observed
    <3> QED BY <1>3, <1>6, <2>2, <3>1, ObservedFollows DEF Becomes, Live
  <2> QED BY <2>1, <2>2
<1> QED BY <1>4, <1>5, <1>6

LEMMA StepTells ==
    ASSUME NEW s \in Int, NEW row \in Row, NEW tr \in Tracker, NEW next,
           next = SeedStep(s, row, tr)
    PROVE  /\ next \in Tracker
           /\ \/ Unread(s, row) /\ next = tr
              \/ ~Unread(s, row) /\ row.ts >= s /\ row.verdict # "error" /\ Becomes(tr, row, next)
<1>1. CASE Unread(s, row)
    BY <1>1 DEF SeedStep
<1>2. CASE ~Unread(s, row)
  <2>1. next = Observed(tr, row) /\ row.ts \in Nat
      BY <1>2 DEF SeedStep, Row
  <2>2. row.ts >= s /\ row.verdict # "error"
      BY <1>2, <2>1 DEF Unread
  <2> QED BY <1>2, <2>1, <2>2, ObservedTells
<1> QED BY <1>1, <1>2

LEMMA RowsAreOrdered ==
    ASSUME NEW rows, Ordered(rows)
    PROVE  /\ Len(rows) \in Nat /\ DOMAIN rows = 1 .. Len(rows)
           /\ \A n \in 1 .. Len(rows) :
                /\ rows[n] \in Row /\ rows[n].ts \in Nat /\ rows[n].id \in Nat
                /\ rows[n].verdict \in Verdict /\ n \in Nat
           /\ \A i, j \in 1 .. Len(rows) : i <= j => rows[i].ts <= rows[j].ts
           /\ \A i, j \in 1 .. Len(rows) : i < j <=> rows[i].ts < rows[j].ts
<1>1. rows \in Seq(Row) /\ Len(rows) \in Nat /\ DOMAIN rows = 1 .. Len(rows)
    BY DEF Ordered
<1>2. ASSUME NEW n \in 1 .. Len(rows)
      PROVE  /\ rows[n] \in Row /\ rows[n].ts \in Nat /\ rows[n].id \in Nat
             /\ rows[n].verdict \in Verdict /\ n \in Nat
  <2>1. rows[n] \in Row
      BY <1>1, ElementOfSeq
  <2> QED BY <1>1, <2>1 DEF Row
<1>3. ASSUME NEW i \in 1 .. Len(rows), NEW j \in 1 .. Len(rows)
      PROVE  (i <= j => rows[i].ts <= rows[j].ts) /\ (i < j <=> rows[i].ts < rows[j].ts)
  <2> DEFINE a == rows[i].ts
             b == rows[j].ts
  <2>1. a \in Nat /\ b \in Nat /\ i \in Nat /\ j \in Nat
      BY <1>2
  <2>2. (i < j => a < b) /\ (j < i => b < a) /\ (i = j => a = b)
      BY DEF Ordered
  <2> HIDE DEF a, b
  <2>3. (i <= j => a <= b) /\ (i < j <=> a < b)
      BY <2>1, <2>2
  <2> QED BY <2>3 DEF a, b
<1>4. \A i, j \in 1 .. Len(rows) : i <= j => rows[i].ts <= rows[j].ts
    BY <1>3
<1>5. \A i, j \in 1 .. Len(rows) : i < j <=> rows[i].ts < rows[j].ts
    BY <1>3
<1> QED BY <1>1, <1>2, <1>4, <1>5

\* The rows of an open story: the one that opened it, at b, and those that held it,
\* each within the gap of one before.
HoldsOn(rows, b, k) == Qualifies(rows[k]) =>
    \E m \in b .. k - 1 : Qualifies(rows[m]) /\ rows[k].ts - rows[m].ts <= Gap
SameStory(f, rows, k, n) ==
    /\ f[k].open /\ f[k].started = f[n].started /\ f[k].id = f[n].id
    /\ Live(f[k], rows[k].ts) \/ f[k].last = f[n].last
OpenedAt(f, rows, s, b, n) ==
    /\ b \in 1 .. n /\ rows[b].verdict = "breaking" /\ rows[b].ts >= s
    /\ f[n].started = rows[b].ts
    /\ f[n].id = IF rows[b].id # 0 THEN rows[b].id ELSE rows[b].ts
    /\ \E l \in b .. n : Qualifies(rows[l]) /\ rows[l].ts = f[n].last
    /\ \A k \in b .. n : SameStory(f, rows, k, n)
    /\ \A k \in b + 1 .. n : HoldsOn(rows, b, k)

LEMMA OpenStory ==
    ASSUME NEW rows, Ordered(rows), NEW s \in Int, NEW N \in 0 .. Len(rows), NEW f,
           Folds(f, rows, s, N)
    PROVE  \A n \in 0 .. N : f[n] \in Tracker /\ (f[n].open => \E b : OpenedAt(f, rows, s, b, n))
<1> DEFINE Good(n) == f[n] \in Tracker /\ (f[n].open => \E b : OpenedAt(f, rows, s, b, n))
           Goods == {n \in 0 .. N : Good(n)}
<1>1. N \in Nat /\ Len(rows) \in Nat /\ 0 \in 0 .. N /\ Gap \in Nat
    BY RowsAreOrdered, EpisodeAssumption
<1>2. 0 \in Goods
    BY <1>1, NothingIsKnown DEF Folds, Closed
<1>3. ASSUME NEW n \in 1 .. N, n - 1 \in Goods PROVE n \in Goods
  <2> DEFINE row == rows[n]
             tr == f[n - 1]
             next == f[n]
  <2>1. n \in Nat /\ n \in 1 .. Len(rows) /\ n \in 0 .. N /\ n - 1 \in Nat
      BY <1>1
  <2>2. row \in Row /\ row.ts \in Nat
      BY <2>1, RowsAreOrdered
  <2>3. tr \in Tracker /\ (tr.open => \E b : OpenedAt(f, rows, s, b, n - 1))
      BY <1>3
  <2>4. next = SeedStep(s, row, tr)
      BY DEF Folds
  <2> HIDE DEF row, tr, next
  <2>5. /\ next \in Tracker
        /\ \/ Unread(s, row) /\ next = tr
           \/ ~Unread(s, row) /\ row.ts >= s /\ row.verdict # "error" /\ Becomes(tr, row, next)
      BY <2>2, <2>3, <2>4, StepTells
  <2>6. next.last \in Nat /\ tr.last \in Nat
      BY <2>3, <2>5 DEF Tracker
  <2> SUFFICES ASSUME next.open PROVE \E b : OpenedAt(f, rows, s, b, n)
      BY <2>1, <2>5 DEF next
  \* It goes on with the row, or the row only leaves it open.
  <2>7. ASSUME tr.open, next.started = tr.started, next.id = tr.id,
               \/ next.last = tr.last /\ ~Qualifies(row)
               \/ Live(tr, row.ts) /\ next.last = tr.last
               \/ Live(tr, row.ts) /\ next.last = row.ts /\ Qualifies(row),
               Qualifies(row) => Live(tr, row.ts)
        PROVE  \E b : OpenedAt(f, rows, s, b, n)
    <3>1. PICK b : OpenedAt(f, rows, s, b, n - 1)
        BY <2>3, <2>7
    <3>2. b \in 1 .. n - 1
        BY <3>1 DEF OpenedAt
    <3>a. b \in Nat /\ b >= 1 /\ b < n /\ b \in 1 .. n
        BY <2>1, <3>2
    <3>3. PICK l \in b .. n - 1 : Qualifies(rows[l]) /\ rows[l].ts = tr.last
        BY <3>1 DEF OpenedAt, tr
    <3>4. l \in b .. n /\ n \in b .. n
        BY <2>1, <3>a
    <3>5. \E k \in b .. n : Qualifies(rows[k]) /\ rows[k].ts = next.last
      <4>1. CASE next.last = tr.last
          BY <3>3, <3>4, <4>1
      <4>2. CASE next.last # tr.last
          BY <2>7, <3>4, <4>2 DEF row
      <4> QED BY <4>1, <4>2
    <3>6. ASSUME NEW k \in b + 1 .. n PROVE HoldsOn(rows, b, k)
      <4>1. CASE k \in b + 1 .. n - 1
          BY <3>1, <4>1 DEF OpenedAt
      <4>2. CASE k = n
        <5>1. Qualifies(row) => row.ts - rows[l].ts <= Gap
            BY <2>7, <3>3 DEF Live
        <5> QED BY <3>3, <4>2, <5>1 DEF HoldsOn, row
      <4> QED BY <2>1, <3>a, <4>1, <4>2
    <3>7. ASSUME NEW k \in b .. n PROVE SameStory(f, rows, k, n)
      <4>1. CASE k = n
          BY <4>1 DEF SameStory, next
      <4>2. CASE k \in b .. n - 1
        <5>1. SameStory(f, rows, k, n - 1)
            BY <3>1, <4>2 DEF OpenedAt
        <5>2. /\ f[k].open /\ f[k].started = next.started /\ f[k].id = next.id
              /\ Live(f[k], rows[k].ts) \/ f[k].last = tr.last
            BY <2>7, <5>1 DEF SameStory, tr
        <5>3. ASSUME f[k].last = tr.last, next.last # tr.last PROVE Live(f[k], rows[k].ts)
          <6>1. row.ts - tr.last <= Gap
              BY <2>7, <5>3 DEF Live
          <6>2. k \in 1 .. Len(rows) /\ k < n
              BY <2>1, <3>a, <4>2
          <6>3. rows[k].ts < row.ts /\ rows[k].ts \in Nat
              BY <2>1, <6>2, RowsAreOrdered DEF row
          <6> DEFINE e == rows[k].ts
                     r == row.ts
                     t == tr.last
          <6>4. e \in Nat /\ r \in Nat /\ t \in Nat /\ e < r /\ r - t <= Gap
              BY <2>2, <2>6, <6>1, <6>3
          <6> HIDE DEF e, r, t
          <6>5. e - t <= Gap
              BY <1>1, <6>4
          <6> QED BY <5>2, <5>3, <6>5 DEF Live, e, t
        <5> QED BY <5>2, <5>3 DEF SameStory, next
      <4> QED BY <2>1, <3>a, <4>1, <4>2
    <3>8. /\ rows[b].verdict = "breaking" /\ rows[b].ts >= s /\ next.started = rows[b].ts
          /\ next.id = IF rows[b].id # 0 THEN rows[b].id ELSE rows[b].ts
        BY <2>7, <3>1 DEF OpenedAt, tr
    <3> QED BY <3>a, <3>5, <3>6, <3>7, <3>8 DEF OpenedAt, next
  <2>8. CASE Unread(s, row) /\ next = tr
    <3>1. tr.open
        BY <2>8
    <3>2. PICK b : OpenedAt(f, rows, s, b, n - 1)
        BY <2>3, <3>1
    <3>3. b \in 1 .. n - 1 /\ rows[b].ts >= s
        BY <3>2 DEF OpenedAt
    <3>4. b \in 1 .. Len(rows) /\ b < n
        BY <2>1, <3>3
    <3>5. rows[b].ts < row.ts /\ rows[b].ts \in Nat
        BY <2>1, <3>4, RowsAreOrdered DEF row
    <3>6. ~(row.ts < s)
      <4> DEFINE e == rows[b].ts
      <4>1. e < row.ts /\ e \in Nat /\ e >= s
          BY <3>3, <3>5
      <4> HIDE DEF e
      <4> QED BY <2>2, <4>1
    <3>7. row.verdict = "error"
        BY <2>8, <3>6 DEF Unread
    <3>8. ~Qualifies(row)
        BY <3>7 DEF Qualifies, Holding
    <3> QED BY <2>7, <2>8, <3>1, <3>8
  <2>9. CASE row.ts >= s /\ Becomes(tr, row, next)
    <3>1. CASE Live(tr, row.ts)
      <4>1. /\ next.started = tr.started /\ next.id = tr.id /\ tr.open
            /\ next.last = IF row.verdict \in Holding THEN row.ts ELSE tr.last
          BY <2>9, <3>1 DEF Becomes, Live
      <4>2. \/ Live(tr, row.ts) /\ next.last = tr.last
            \/ Live(tr, row.ts) /\ next.last = row.ts /\ Qualifies(row)
          BY <3>1, <4>1 DEF Qualifies
      <4> QED BY <2>7, <3>1, <4>1, <4>2
    <3>2. CASE ~Live(tr, row.ts)
      <4>1. /\ row.verdict = "breaking" /\ next.started = row.ts /\ next.last = row.ts
            /\ next.id = IF row.id # 0 THEN row.id ELSE row.ts
          BY <2>9, <3>2 DEF Becomes
      <4>2. Qualifies(row)
          BY <4>1 DEF Qualifies, Holding
      <4>3. n \in 1 .. n /\ n \in n .. n /\ (\A k \in n .. n : k = n) /\ \A k \in n + 1 .. n : FALSE
          BY <2>1
      <4>4. SameStory(f, rows, n, n)
          BY DEF SameStory, next
      <4> QED BY <2>9, <4>1, <4>2, <4>3, <4>4 DEF OpenedAt, next, row
    <3> QED BY <3>1, <3>2
  <2> QED BY <2>5, <2>8, <2>9
<1>4. \A n \in 0 .. N : n \in Goods
  <2> HIDE DEF Goods
  <2> QED BY <1>1, <1>2, <1>3, StepByStep
<1> QED BY <1>4

\* Reaches, of any rows; and what it says where the rows are in order.
ReachesIn(rows, i, j) ==
    /\ rows[i].ts < rows[j].ts /\ rows[i].verdict = "breaking"
    /\ \A k \in DOMAIN rows :
        rows[i].ts < rows[k].ts /\ ~(rows[j].ts < rows[k].ts) /\ (k = j \/ Qualifies(rows[k])) =>
            \E l \in DOMAIN rows :
                /\ ~(rows[l].ts < rows[i].ts) /\ rows[l].ts < rows[k].ts /\ Qualifies(rows[l])
                /\ rows[k].ts - rows[l].ts <= Gap
FitIn(rows) ==
    \A i, j \in DOMAIN rows : ReachesIn(rows, i, j) => rows[j].ts - rows[i].ts <= Window

IsNear(rows, i, k) == \E l \in i .. k - 1 : Qualifies(rows[l]) /\ rows[k].ts - rows[l].ts <= Gap
Stretches(rows, i, j) ==
    /\ i < j /\ rows[i].verdict = "breaking"
    /\ \A k \in i + 1 .. j : k = j \/ Qualifies(rows[k]) => IsNear(rows, i, k)

LEMMA ReachesStretches ==
    ASSUME NEW rows, Ordered(rows), NEW i \in DOMAIN rows, NEW j \in DOMAIN rows
    PROVE  ReachesIn(rows, i, j) <=> Stretches(rows, i, j)
<1> DEFINE N == Len(rows)
<1>1. N \in Nat /\ DOMAIN rows = 1 .. N /\ i \in 1 .. N /\ j \in 1 .. N
    BY RowsAreOrdered
<1>2. \A k, l \in 1 .. N : k < l <=> rows[k].ts < rows[l].ts
    BY RowsAreOrdered
<1> HIDE DEF N
<1>3. \A k \in 1 .. N : rows[i].ts < rows[k].ts /\ ~(rows[j].ts < rows[k].ts) <=> k \in i + 1 .. j
  <2> TAKE k \in 1 .. N
  <2>1. i < k /\ ~(j < k) <=> k \in i + 1 .. j
      BY <1>1
  <2> QED BY <1>1, <1>2, <2>1
<1>4. \A k, l \in 1 .. N : ~(rows[l].ts < rows[i].ts) /\ rows[l].ts < rows[k].ts <=> l \in i .. k - 1
  <2> TAKE k, l \in 1 .. N
  <2>1. ~(l < i) /\ l < k <=> l \in i .. k - 1
      BY <1>1
  <2> QED BY <1>1, <1>2, <2>1
<1>5. \A k \in 1 .. N : i .. k - 1 \subseteq 1 .. N
    BY <1>1
<1>6. \A k \in 1 .. N :
        IsNear(rows, i, k) <=>
            \E l \in DOMAIN rows :
                /\ ~(rows[l].ts < rows[i].ts) /\ rows[l].ts < rows[k].ts /\ Qualifies(rows[l])
                /\ rows[k].ts - rows[l].ts <= Gap
    BY <1>1, <1>4, <1>5 DEF IsNear
<1>7. i + 1 .. j \subseteq 1 .. N
    BY <1>1
<1>8. i < j <=> rows[i].ts < rows[j].ts
    BY <1>1, <1>2
<1> QED BY <1>1, <1>3, <1>6, <1>7, <1>8 DEF ReachesIn, Stretches

\* Where every story fits, no live one is older than the window.
LEMMA StoryFits ==
    ASSUME NEW rows, Ordered(rows), FitIn(rows), NEW s \in Int, NEW n \in 1 .. Len(rows), NEW f,
           Folds(f, rows, s, n - 1), Live(f[n - 1], rows[n].ts)
    PROVE  rows[n].ts - f[n - 1].started <= Window
<1> DEFINE N == n - 1
           tr == f[N]
<1>1. N \in 0 .. Len(rows) /\ N \in 0 .. N /\ n \in Nat /\ Len(rows) \in Nat /\ DOMAIN rows = 1 .. Len(rows)
    BY RowsAreOrdered
<1>2. PICK b : OpenedAt(f, rows, s, b, N)
    BY <1>1, OpenStory DEF Live
<1>3. b \in 1 .. N /\ b \in DOMAIN rows /\ n \in DOMAIN rows /\ b < n /\ rows[b].verdict = "breaking"
      /\ tr.started = rows[b].ts
    BY <1>1, <1>2 DEF OpenedAt
<1>4. ASSUME NEW k \in b + 1 .. n, k = n \/ Qualifies(rows[k]) PROVE IsNear(rows, b, k)
  <2>1. CASE k = n
    <3>1. PICK l \in b .. N : Qualifies(rows[l]) /\ rows[l].ts = tr.last
        BY <1>2 DEF OpenedAt
    <3> QED BY <2>1, <3>1 DEF Live, IsNear
  <2>2. CASE k # n
    <3>1. k \in b + 1 .. N
        BY <1>1, <1>3, <2>2
    <3> QED BY <1>2, <1>4, <2>2, <3>1 DEF OpenedAt, HoldsOn, IsNear
  <2> QED BY <2>1, <2>2
<1>5. Stretches(rows, b, n)
    BY <1>3, <1>4 DEF Stretches
<1>6. ReachesIn(rows, b, n)
    BY <1>3, <1>5, ReachesStretches
<1>7. rows[n].ts - rows[b].ts <= Window
    BY <1>3, <1>6 DEF FitIn
<1> QED BY <1>3, <1>7

LEMMA StoryFitsNow ==
    ASSUME NEW rows, Ordered(rows), FitIn(rows), NEW s \in Int, NEW n \in 1 .. Len(rows), NEW f,
           Folds(f, rows, s, n), Live(f[n], rows[n].ts)
    PROVE  rows[n].ts - f[n].started <= Window
<1> DEFINE row == rows[n]
           tr == f[n - 1]
           next == f[n]
<1>1. /\ row \in Row /\ row.ts \in Nat /\ n \in 1 .. n /\ n - 1 \in 0 .. n /\ n \in 0 .. Len(rows)
      /\ n - 1 \in 0 .. n - 1 /\ n - 1 \in 0 .. Len(rows) /\ Gap \in Nat /\ Window \in Nat
    BY RowsAreOrdered, EpisodeAssumption
<1>2. tr \in Tracker /\ next \in Tracker /\ next = SeedStep(s, row, tr)
  <2>1. \A m \in 0 .. n : f[m] \in Tracker
      BY <1>1, OpenStory
  <2>2. f[n] = SeedStep(s, rows[n], f[n - 1]) /\ n \in 0 .. n
      BY <1>1 DEF Folds
  <2> QED BY <1>1, <2>1, <2>2
<1>3. Folds(f, rows, s, n - 1)
    BY <1>1 DEF Folds
<1>4. Live(tr, row.ts) => row.ts - tr.started <= Window
    BY <1>3, StoryFits
<1> HIDE DEF row, tr, next
<1>5. next = tr \/ Becomes(tr, row, next)
    BY <1>1, <1>2, StepTells
<1>6. next.open
    BY DEF Live, next
<1>7. CASE next = tr
    BY <1>4, <1>7 DEF next, row
<1>8. CASE Becomes(tr, row, next) /\ Live(tr, row.ts)
  <2>1. next.started = tr.started
      BY <1>8 DEF Becomes
  <2> QED BY <1>4, <1>8, <2>1 DEF next, row
<1>9. CASE Becomes(tr, row, next) /\ ~Live(tr, row.ts)
  <2>1. next.started = row.ts
      BY <1>6, <1>9 DEF Becomes
  <2>2. row.ts - next.started <= Window
      BY <1>1, <2>1
  <2> QED BY <2>2 DEF next, row
<1> QED BY <1>5, <1>7, <1>8, <1>9

\* The rows of a stretch that is held have one story of the fold.
LEMMA StretchIsOneStory ==
    ASSUME NEW rows, Ordered(rows), NEW i \in 1 .. Len(rows), NEW j \in 1 .. Len(rows),
           Stretches(rows, i, j), Qualifies(rows[j]), NEW f, Folds(f, rows, 0, Len(rows))
    PROVE  /\ Live(f[i], rows[i].ts) /\ Live(f[j], rows[j].ts)
           /\ f[i].id = f[j].id
<1> DEFINE N == Len(rows)
           Alive(n) == /\ f[n].open /\ f[n].id = f[i].id
                       /\ \A k \in i .. n : Qualifies(rows[k]) => rows[k].ts <= f[n].last
           Dead(n) == \A k \in i .. n : Qualifies(rows[k]) => rows[n].ts - rows[k].ts > Gap
           Goods == {n \in 0 .. j : n >= i => Alive(n) \/ Dead(n)}
<1>1. /\ N \in Nat /\ i \in Nat /\ j \in Nat /\ i >= 1 /\ j <= N /\ i < j /\ Gap \in Nat
      /\ DOMAIN rows = 1 .. N /\ i \in i .. i
    BY RowsAreOrdered, EpisodeAssumption DEF Stretches
<1>2. \A n \in 1 .. N : rows[n] \in Row /\ rows[n].ts \in Nat /\ f[n] = SeedStep(0, rows[n], f[n - 1])
    BY <1>1, RowsAreOrdered DEF Folds
<1>3. \A n \in 0 .. N : f[n] \in Tracker /\ f[n].last \in Nat
  <2>1. N \in 0 .. Len(rows) /\ 0 \in Int
      BY <1>1
  <2> QED BY <2>1, OpenStory DEF Tracker
<1>4. \A k, l \in 1 .. N : k < l => rows[k].ts < rows[l].ts
    BY DEF Ordered
<1> HIDE DEF N
<1>5. ASSUME NEW n \in 1 .. N
      PROVE  \/ rows[n].verdict = "error" /\ f[n] = f[n - 1]
             \/ Becomes(f[n - 1], rows[n], f[n])
  <2>1. n - 1 \in 0 .. N /\ ~(rows[n].ts < 0) /\ 0 \in Int
      BY <1>1, <1>2
  <2>2. rows[n] \in Row /\ f[n - 1] \in Tracker /\ f[n] = SeedStep(0, rows[n], f[n - 1])
      BY <1>2, <1>3, <2>1
  <2>3. \/ Unread(0, rows[n]) /\ f[n] = f[n - 1]
        \/ ~Unread(0, rows[n]) /\ Becomes(f[n - 1], rows[n], f[n])
      BY <2>1, <2>2, StepTells
  <2> QED BY <2>1, <2>3 DEF Unread
<1>6. Alive(i) /\ f[i].last = rows[i].ts
  <2>1. i \in 1 .. N
      BY <1>1
  <2>2. rows[i].verdict = "breaking"
      BY DEF Stretches
  <2>3. Becomes(f[i - 1], rows[i], f[i])
      BY <1>5, <2>1, <2>2
  <2>4. f[i].open /\ f[i].last = rows[i].ts
      BY <2>2, <2>3 DEF Becomes, Holding
  <2>5. rows[i].ts <= rows[i].ts /\ \A k \in i .. i : k = i
      BY <1>1, <1>2, <2>1
  <2> QED BY <2>4, <2>5
<1>7. ASSUME NEW n \in 1 .. j, n - 1 \in Goods PROVE n \in Goods
  <2> SUFFICES ASSUME n >= i PROVE Alive(n) \/ Dead(n)
      BY <1>1
  <2>1. CASE n = i
      BY <1>6, <2>1
  <2>2. CASE n # i
    <3> DEFINE row == rows[n]
               tr == f[n - 1]
               next == f[n]
               here == row.ts
               far == tr.last
    <3>1. /\ n \in Nat /\ n - 1 >= i /\ n \in 1 .. N /\ n - 1 \in 1 .. N /\ n - 1 \in 0 .. N /\ n \in 0 .. N
          /\ n \in i + 1 .. j
          /\ \A k \in i .. n : (k \in i .. n - 1 \/ k = n)
          /\ \A k \in i .. n - 1 : k \in 1 .. N /\ k < n
        BY <1>1, <2>2
    <3>2. /\ here \in Nat /\ far \in Nat
          /\ \A k \in i .. n - 1 : rows[k].ts \in Nat /\ rows[k].ts < here
        BY <1>2, <1>3, <1>4, <3>1
    <3>3. Qualifies(row) => \E l \in i .. n - 1 : Qualifies(rows[l]) /\ here - rows[l].ts <= Gap
        BY <3>1 DEF Stretches, IsNear
    <3>4. Alive(n - 1) \/ Dead(n - 1)
        BY <1>7, <3>1
    <3>5. (row.verdict = "error" /\ next = tr) \/ Becomes(tr, row, next)
        BY <1>5, <3>1
    <3>6. CASE Dead(n - 1)
      <4>1. \A k \in i .. n - 1 : Qualifies(rows[k]) => here - rows[k].ts > Gap
        <5> TAKE k \in i .. n - 1
        <5> SUFFICES ASSUME Qualifies(rows[k]) PROVE here - rows[k].ts > Gap
            OBVIOUS
        <5> DEFINE e == rows[k].ts
                   p == rows[n - 1].ts
        <5>1. p - e > Gap /\ p < here /\ p \in Nat /\ e \in Nat
            BY <1>2, <1>4, <3>1, <3>2, <3>6
        <5> HIDE DEF e, p, here
        <5>2. here - e > Gap
            BY <1>1, <3>2, <5>1
        <5> QED BY <5>2 DEF e, here
      <4>2. ~Qualifies(row)
        <5> SUFFICES ASSUME Qualifies(row) PROVE FALSE
            OBVIOUS
        <5>1. PICK l \in i .. n - 1 : Qualifies(rows[l]) /\ here - rows[l].ts <= Gap
            BY <3>3
        <5>2. here - rows[l].ts > Gap
            BY <4>1, <5>1
        <5>3. rows[l].ts \in Nat
            BY <3>2
        <5> HIDE DEF here
        <5> QED BY <1>1, <3>2, <5>1, <5>2, <5>3
      <4> QED BY <3>1, <4>1, <4>2
    <3>7. CASE Alive(n - 1) /\ (Live(tr, here) \/ (row.verdict = "error" /\ next = tr))
      <4>1. /\ next.open /\ next.id = tr.id
            /\ (next.last = tr.last /\ ~Qualifies(row)) \/ next.last = here
          BY <3>5, <3>7 DEF Becomes, Qualifies, Holding
      <4>2. tr.id = f[i].id /\ \A k \in i .. n - 1 : Qualifies(rows[k]) => rows[k].ts <= tr.last
          BY <3>7
      <4>3. ASSUME NEW k \in i .. n, Qualifies(rows[k]) PROVE rows[k].ts <= next.last
        <5>1. CASE next.last = here
          <6>1. k = n \/ (rows[k].ts < here /\ rows[k].ts \in Nat)
              BY <3>1, <3>2
          <6>2. here <= here
              BY <3>2
          <6>3. k # n => rows[k].ts <= here
            <7> DEFINE e == rows[k].ts
            <7>1. k # n => e < here /\ e \in Nat
                BY <6>1
            <7> HIDE DEF e, here
            <7>2. k # n => e <= here
                BY <3>2, <7>1
            <7> QED BY <7>2 DEF e
          <6> QED BY <5>1, <6>2, <6>3
        <5>2. CASE next.last = tr.last /\ ~Qualifies(row)
            BY <3>1, <4>2, <4>3, <5>2
        <5> QED BY <4>1, <5>1, <5>2
      <4> QED BY <4>1, <4>2, <4>3
    <3>8. CASE Alive(n - 1) /\ ~Live(tr, here)
      <4>1. here - far > Gap
        <5>1. ~(here - far <= Gap)
            BY <3>8 DEF Live
        <5> HIDE DEF here, far
        <5> QED BY <1>1, <3>2, <5>1
      <4>2. \A k \in i .. n - 1 : Qualifies(rows[k]) => here - rows[k].ts > Gap
        <5> TAKE k \in i .. n - 1
        <5> SUFFICES ASSUME Qualifies(rows[k]) PROVE here - rows[k].ts > Gap
            OBVIOUS
        <5> DEFINE e == rows[k].ts
        <5>1. e <= far /\ e \in Nat
            BY <3>2, <3>8
        <5> HIDE DEF e, here, far
        <5>2. here - e > Gap
            BY <1>1, <3>2, <4>1, <5>1
        <5> QED BY <5>2 DEF e, here
      <4>3. ~Qualifies(row)
        <5> SUFFICES ASSUME Qualifies(row) PROVE FALSE
            OBVIOUS
        <5>1. PICK l \in i .. n - 1 : Qualifies(rows[l]) /\ here - rows[l].ts <= Gap
            BY <3>3
        <5>2. here - rows[l].ts > Gap
            BY <4>2, <5>1
        <5>3. rows[l].ts \in Nat
            BY <3>2
        <5> HIDE DEF here
        <5> QED BY <1>1, <3>2, <5>1, <5>2, <5>3
      <4> QED BY <3>1, <4>2, <4>3
    <3> QED BY <3>4, <3>6, <3>7, <3>8
  <2> QED BY <2>1, <2>2
<1>8. \A n \in 0 .. j : n \in Goods
  <2>1. 0 \in Goods
      BY <1>1
  <2> HIDE DEF Goods
  <2> QED BY <1>1, <1>7, <2>1, StepByStep
<1>9. Alive(j)
  <2>1. Alive(j) \/ Dead(j)
      BY <1>1, <1>8
  <2>2. ~Dead(j)
    <3>1. j \in i .. j /\ rows[j].ts \in Nat
        BY <1>1, <1>2
    <3>2. ~(rows[j].ts - rows[j].ts > Gap)
      <4> DEFINE e == rows[j].ts
      <4>1. e \in Nat
          BY <3>1
      <4> HIDE DEF e
      <4>2. ~(e - e > Gap)
          BY <1>1, <4>1
      <4> QED BY <4>2 DEF e
    <3> QED BY <3>1, <3>2
  <2> QED BY <2>1, <2>2
<1>10. rows[i].ts - f[i].last <= Gap /\ rows[j].ts - f[j].last <= Gap
  <2> DEFINE a == rows[i].ts
             b == f[i].last
             c == rows[j].ts
             d == f[j].last
  <2>1. /\ a \in Nat /\ b = a /\ c \in Nat /\ d \in Nat /\ c <= d
    <3>1. j \in i .. j /\ i \in 1 .. N /\ j \in 1 .. N /\ j \in 0 .. N
        BY <1>1
    <3> QED BY <1>2, <1>3, <1>6, <1>9, <3>1
  <2> HIDE DEF a, b, c, d
  <2>2. a - b <= Gap /\ c - d <= Gap
      BY <1>1, <2>1
  <2> QED BY <2>2 DEF a, b, c, d
<1> QED BY <1>6, <1>9, <1>10 DEF Live

\* A replay that starts late has, where it has a story open, the one the whole journal
\* has; and it has the whole journal's whenever that began within its range.
SameRules(rows, other) ==
    /\ Len(other) = Len(rows)
    /\ \A n \in 1 .. Len(rows) : other[n].ts = rows[n].ts /\ other[n].verdict = rows[n].verdict

FoundLate(f, g, s, n) ==
    /\ g[n].open => f[n].open /\ g[n].last = f[n].last /\ f[n].started <= g[n].started
    /\ f[n].open /\ f[n].started >= s =>
            g[n].open /\ g[n].last = f[n].last /\ g[n].started = f[n].started

LEMMA FoldsMerge ==
    ASSUME NEW rows, Ordered(rows), NEW other, Ordered(other), SameRules(rows, other),
           NEW s \in Int, NEW N \in 0 .. Len(rows), NEW f, Folds(f, rows, 0, N),
           NEW g, Folds(g, other, s, N)
    PROVE  \A n \in 0 .. N : FoundLate(f, g, s, n)
<1> DEFINE Found == {n \in 0 .. N : FoundLate(f, g, s, n)}
<1>1. N \in Nat /\ Len(rows) \in Nat /\ 0 \in 0 .. N /\ Gap \in Nat /\ 0 \in Int
      /\ N \in 0 .. Len(other)
    BY RowsAreOrdered, EpisodeAssumption DEF SameRules
<1>2. /\ \A n \in 0 .. N : f[n] \in Tracker /\ (f[n].open => \E b : OpenedAt(f, rows, 0, b, n))
      /\ \A n \in 0 .. N : g[n] \in Tracker /\ (g[n].open => \E b : OpenedAt(g, other, s, b, n))
    BY <1>1, OpenStory
<1>3. 0 \in Found
    BY <1>1 DEF Folds, Closed, FoundLate
<1>4. ASSUME NEW n \in 1 .. N, n - 1 \in Found PROVE n \in Found
  <2> DEFINE row == rows[n]
             also == other[n]
             f0 == f[n - 1]
             f1 == f[n]
             g0 == g[n - 1]
             g1 == g[n]
             e == rows[n].ts
  <2>1. n \in Nat /\ n \in 1 .. Len(rows) /\ n \in 0 .. N /\ n - 1 \in 0 .. N /\ n \in 1 .. Len(other)
      BY <1>1 DEF SameRules
  <2>2. /\ row \in Row /\ also \in Row /\ row.ts = e /\ also.ts = e /\ e \in Nat
        /\ also.verdict = row.verdict
      BY <2>1, RowsAreOrdered DEF SameRules
  <2>3. f0 \in Tracker /\ f1 \in Tracker /\ g0 \in Tracker /\ g1 \in Tracker
      BY <1>2, <2>1
  <2>4. /\ f0.started \in Nat /\ f1.started \in Nat /\ g0.started \in Nat /\ g1.started \in Nat
        /\ f0.last \in Nat /\ f1.last \in Nat /\ g0.last \in Nat /\ g1.last \in Nat
      BY <2>3 DEF Tracker
  <2>5. f1 = SeedStep(0, row, f0) /\ g1 = SeedStep(s, also, g0)
      BY DEF Folds
  <2>6. \/ Unread(0, row) /\ f1 = f0
        \/ ~Unread(0, row) /\ row.verdict # "error" /\ Becomes(f0, row, f1)
      BY <1>1, <2>2, <2>3, <2>5, StepTells
  <2>7. \/ Unread(s, also) /\ g1 = g0
        \/ ~Unread(s, also) /\ also.ts >= s /\ also.verdict # "error" /\ Becomes(g0, also, g1)
      BY <2>2, <2>3, <2>5, StepTells
  <2>8. /\ g0.open => f0.open /\ g0.last = f0.last /\ f0.started <= g0.started
        /\ f0.open /\ f0.started >= s =>
                g0.open /\ g0.last = f0.last /\ g0.started = f0.started
      BY <1>4 DEF FoundLate
  \* Before the range there is no story of it, and the journal's began before it.
  <2>9. ASSUME NEW k \in {n - 1, n}, e < s PROVE ~g[k].open /\ (f[k].open => ~(f[k].started >= s))
    <3>1. k \in 0 .. N /\ k <= n /\ k \in Nat
        BY <2>1
    <3>2. \A b \in 1 .. k : b \in 1 .. Len(rows) /\ b <= n
        BY <1>1, <2>1, <3>1
    <3>3. \A b \in 1 .. k : rows[b].ts <= e /\ rows[b].ts \in Nat /\ other[b].ts = rows[b].ts
        BY <2>1, <3>2, RowsAreOrdered DEF SameRules
    <3>4. \A b \in 1 .. k : ~(rows[b].ts >= s)
      <4> TAKE b \in 1 .. k
      <4> DEFINE d == rows[b].ts
      <4>1. d <= e /\ d \in Nat
          BY <3>3
      <4> HIDE DEF d, e
      <4>2. ~(d >= s)
          BY <2>2, <2>9, <4>1
      <4> QED BY <4>2 DEF d
    <3>5. ~g[k].open
      <4> SUFFICES ASSUME g[k].open PROVE FALSE
          OBVIOUS
      <4>1. PICK b : OpenedAt(g, other, s, b, k)
          BY <1>2, <3>1
      <4> QED BY <3>3, <3>4, <4>1 DEF OpenedAt
    <3>6. f[k].open => ~(f[k].started >= s)
      <4> SUFFICES ASSUME f[k].open PROVE ~(f[k].started >= s)
          OBVIOUS
      <4>1. PICK b : OpenedAt(f, rows, 0, b, k)
          BY <1>2, <3>1
      <4> QED BY <3>4, <4>1 DEF OpenedAt
    <3> QED BY <3>5, <3>6
  <2>10. n \in {n - 1, n}
      OBVIOUS
  <2>11. Live(g0, e) => Live(f0, e)
      BY <2>8 DEF Live
  <2>12. f0.open /\ f0.started >= s => (Live(f0, e) <=> Live(g0, e))
      BY <2>8 DEF Live
  <2> SUFFICES FoundLate(f, g, s, n)
      BY <2>1
  <2> SUFFICES /\ g1.open => f1.open /\ g1.last = f1.last /\ f1.started <= g1.started
               /\ f1.open /\ f1.started >= s =>
                        g1.open /\ g1.last = f1.last /\ g1.started = f1.started
      BY DEF FoundLate
  <2>13. CASE e < s
      BY <2>9, <2>10, <2>13
  <2> HIDE DEF row, also, f0, f1, g0, g1, e
  <2>14. CASE row.verdict = "error"
    <3>1. f1 = f0 /\ g1 = g0
        BY <2>2, <2>6, <2>7, <2>14
    <3> QED BY <2>8, <3>1
  <2>15. CASE ~(e < s) /\ row.verdict # "error"
    <3>1. ~(e < 0) /\ e >= s
        BY <2>2, <2>15
    <3>2. Becomes(f0, row, f1) /\ Becomes(g0, also, g1)
        BY <2>2, <2>6, <2>7, <2>15, <3>1 DEF Unread
    <3>3. CASE Live(g0, e)
      <4>1. /\ f1.open /\ f1.started = f0.started
            /\ f1.last = IF row.verdict \in Holding THEN e ELSE f0.last
          BY <2>2, <2>11, <3>2, <3>3 DEF Becomes
      <4>2. /\ g1.open /\ g1.started = g0.started
            /\ g1.last = IF row.verdict \in Holding THEN e ELSE g0.last
          BY <2>2, <3>2, <3>3 DEF Becomes
      <4>3. g0.open /\ f0.open
          BY <2>11, <3>3 DEF Live
      <4> QED BY <2>8, <4>1, <4>2, <4>3
    <3>4. CASE ~Live(g0, e) /\ Live(f0, e)
      <4>1. /\ f1.open /\ f1.started = f0.started
            /\ f1.last = IF row.verdict \in Holding THEN e ELSE f0.last
          BY <2>2, <3>2, <3>4 DEF Becomes
      <4>2. ~(f0.started >= s)
          BY <2>12, <3>4 DEF Live
      <4>3. \/ row.verdict = "breaking" /\ g1.open /\ g1.started = e /\ g1.last = e
            \/ ~g1.open
          BY <2>2, <3>2, <3>4 DEF Becomes
      <4>4. f0.started <= e
          BY <2>2, <2>4, <3>1, <4>2
      <4> QED BY <4>1, <4>2, <4>3, <4>4 DEF Holding
    <3>5. CASE ~Live(g0, e) /\ ~Live(f0, e)
      <4>1. \/ row.verdict = "breaking" /\ g1.open /\ g1.started = e /\ g1.last = e
            \/ row.verdict # "breaking" /\ ~g1.open
          BY <2>2, <3>2, <3>5 DEF Becomes
      <4>2. \/ row.verdict = "breaking" /\ f1.open /\ f1.started = e /\ f1.last = e
            \/ row.verdict # "breaking" /\ ~f1.open
          BY <2>2, <3>2, <3>5 DEF Becomes
      <4>3. e <= e
          BY <2>2
      <4> QED BY <4>1, <4>2, <4>3
    <3>6. CASE ~Live(g0, e)
      <4>1. CASE Live(f0, e)
          BY <3>4, <3>6, <4>1
      <4>2. CASE ~Live(f0, e)
          BY <3>5, <3>6, <4>2
      <4> QED BY <4>1, <4>2
    <3> QED BY <3>3, <3>6
  <2> QED BY <2>13, <2>14, <2>15
<1>5. \A n \in 0 .. N : n \in Found
  <2> HIDE DEF Found
  <2> QED BY <1>1, <1>3, <1>4, StepByStep
<1> QED BY <1>5

\* Stories follow each other.
LEMMA StartsRise ==
    ASSUME NEW rows, Ordered(rows), NEW s \in Int, NEW N \in 0 .. Len(rows), NEW f,
           Folds(f, rows, s, N), NEW n \in 0 .. N, NEW m \in 0 .. n, f[m].open, f[n].open
    PROVE  f[m].started <= f[n].started
<1>1. N \in Nat /\ Len(rows) \in Nat /\ m \in 0 .. N /\ m \in Nat /\ n \in Nat
    BY RowsAreOrdered
<1>2. PICK a : OpenedAt(f, rows, s, a, m)
    BY <1>1, OpenStory
<1>3. PICK b : OpenedAt(f, rows, s, b, n)
    BY <1>1, OpenStory
<1>4. a \in 1 .. m /\ b \in 1 .. n /\ f[m].started = rows[a].ts /\ f[n].started = rows[b].ts
    BY <1>2, <1>3 DEF OpenedAt
<1>5. a \in 1 .. Len(rows) /\ b \in 1 .. Len(rows) /\ a <= m
    BY <1>1, <1>4
<1>6. rows[a].ts \in Nat /\ rows[b].ts \in Nat
    BY <1>5, RowsAreOrdered
<1>7. CASE m < b
  <2>1. a <= b
      BY <1>1, <1>5, <1>7
  <2> QED BY <1>4, <1>5, <2>1, RowsAreOrdered
<1>8. CASE b <= m
  <2>1. m \in b .. n
      BY <1>1, <1>5, <1>8
  <2>2. f[m].started = f[n].started
      BY <1>3, <2>1 DEF OpenedAt, SameStory
  <2>3. f[n].started <= f[n].started
    <3> DEFINE d == rows[b].ts
    <3>1. f[n].started = d /\ d \in Nat
        BY <1>4, <1>6
    <3> HIDE DEF d
    <3> QED BY <3>1
  <2> QED BY <2>2, <2>3
<1> QED BY <1>1, <1>5, <1>7, <1>8
\* What an archive's identities tell of its stories: up to L the envelopes predate the
\* fields, and what was filled in is named for the story; after it the engine served them.
ServedId(rows, f, n) == Live(f[n], rows[n].ts) => rows[n].id = f[n].id
FilledId(rows, f, n) == rows[n].id # 0 =>
    f[n].open /\ rows[n].id = f[n].started /\ (rows[n].edge <=> rows[n].id = rows[n].ts)
IdsAreTold(rows, f, L) ==
    /\ \A n \in 1 .. L : FilledId(rows, f, n)
    /\ \A n \in L + 1 .. Len(rows) : ServedId(rows, f, n)
    /\ \A n \in L + 1 .. Len(rows) : \A m \in 1 .. L :
        rows[n].id # 0 /\ f[m].open => f[m].started <= rows[n].id

\* The identities of rows in order are no later than the rows, and rise.
Dated(rows) ==
    /\ \A i \in 1 .. Len(rows) : rows[i].ts >= 1 /\ rows[i].id <= rows[i].ts
    /\ \A i, j \in 1 .. Len(rows) :
        i < j /\ rows[i].id # 0 /\ rows[j].id # 0 => rows[i].id <= rows[j].id

LEMMA FilledStory ==
    ASSUME NEW rows, Ordered(rows), Dated(rows), NEW f, Folds(f, rows, 0, Len(rows)),
           NEW L \in 0 .. Len(rows), IdsAreTold(rows, f, L), NEW n \in 0 .. Len(rows), f[n].open
    PROVE  /\ f[n].id \in Nat /\ f[n].id >= 1 /\ f[n].started \in Nat /\ f[n].started >= 1
           /\ n \in 1 .. Len(rows) /\ f[n].started <= rows[n].ts
           /\ n <= L => f[n].id = f[n].started
<1>1. Len(rows) \in Nat /\ 0 \in Int /\ Len(rows) \in 0 .. Len(rows)
    BY RowsAreOrdered
<1>2. PICK b : OpenedAt(f, rows, 0, b, n)
    BY <1>1, OpenStory
<1>3. /\ b \in 1 .. n /\ f[n].started = rows[b].ts
      /\ f[n].id = IF rows[b].id # 0 THEN rows[b].id ELSE rows[b].ts
      /\ f[b].started = f[n].started
  <2>1. b \in 1 .. n /\ b \in b .. n
      BY <1>2 DEF OpenedAt
  <2> QED BY <1>2, <2>1 DEF OpenedAt, SameStory
<1>4. b \in 1 .. Len(rows) /\ n \in 1 .. Len(rows) /\ b <= n /\ (n <= L => b \in 1 .. L)
    BY <1>1, <1>3
<1>5. rows[b].ts \in Nat /\ rows[b].id \in Nat /\ rows[b].ts >= 1
    BY <1>4, RowsAreOrdered DEF Dated
<1>6. rows[b].ts <= rows[n].ts
    BY <1>4, RowsAreOrdered
<1>7. n <= L => (rows[b].id # 0 => rows[b].id = rows[b].ts)
    BY <1>3, <1>4 DEF IdsAreTold, FilledId
<1>8. f[n].id \in Nat /\ f[n].id >= 1
  <2> DEFINE d == rows[b].id
             e == rows[b].ts
  <2>1. f[n].id = (IF d # 0 THEN d ELSE e) /\ d \in Nat /\ e \in Nat /\ e >= 1
      BY <1>3, <1>5
  <2> HIDE DEF d, e
  <2> QED BY <2>1
<1> QED BY <1>3, <1>4, <1>5, <1>6, <1>7, <1>8

\* In one story all the envelopes the engine served carry its identity.
LEMMA StoryIsLive ==
    ASSUME NEW rows, Ordered(rows), NEW f, Folds(f, rows, 0, Len(rows)),
           NEW n \in 0 .. Len(rows), NEW a, OpenedAt(f, rows, 0, a, n), Live(f[n], rows[n].ts),
           NEW i \in a .. n
    PROVE  Live(f[i], rows[i].ts) /\ f[i].id = f[n].id /\ f[i].started = rows[a].ts
<1>1. Len(rows) \in Nat /\ a \in 1 .. n /\ Gap \in Nat /\ SameStory(f, rows, i, n)
      /\ f[n].started = rows[a].ts
    BY RowsAreOrdered, EpisodeAssumption DEF OpenedAt
<1>2. i \in 1 .. Len(rows) /\ n \in 1 .. Len(rows) /\ i <= n
    BY <1>1
<1>3. rows[i].ts \in Nat /\ rows[n].ts \in Nat /\ rows[i].ts <= rows[n].ts
    BY <1>2, RowsAreOrdered
<1>4. f[n].last \in Nat
    BY RowsAreOrdered, OpenStory DEF Tracker
<1>5. f[i].open /\ f[i].started = rows[a].ts /\ f[i].id = f[n].id
      /\ (Live(f[i], rows[i].ts) \/ f[i].last = f[n].last)
    BY <1>1 DEF SameStory
<1>6. ASSUME f[i].last = f[n].last PROVE Live(f[i], rows[i].ts)
  <2> DEFINE d == rows[i].ts
             e == rows[n].ts
             l == f[n].last
  <2>1. d \in Nat /\ e \in Nat /\ l \in Nat /\ d <= e /\ e - l <= Gap
      BY <1>3, <1>4 DEF Live
  <2> HIDE DEF d, e, l
  <2>2. d - l <= Gap
      BY <1>1, <2>1
  <2> QED BY <1>5, <1>6, <2>2 DEF Live, d, l
<1> QED BY <1>5, <1>6

\* A restart that rejoins a story has the newest identity, whatever a backfill filled in.
LEMMA RejoinedIsNewest ==
    ASSUME NEW rows, Ordered(rows), Dated(rows), NEW f, Folds(f, rows, 0, Len(rows)),
           NEW L \in 0 .. Len(rows), IdsAreTold(rows, f, L),
           NEW w \in Int, NEW g, Folds(g, rows, w, Len(rows)),
           NEW h \in Nat, \A i \in 1 .. Len(rows) : rows[i].ts <= h, Live(g[Len(rows)], h)
    PROVE  /\ \A i \in 1 .. Len(rows) : rows[i].id <= g[Len(rows)].id
           /\ \A m \in 1 .. L : f[m].open => f[m].started <= g[Len(rows)].id
<1> DEFINE N == Len(rows)
           new == g[N]
           old == f[N]
<1>1. N \in Nat /\ 0 \in Int /\ N \in 0 .. N /\ Gap \in Nat /\ L \in Nat /\ L <= N
    BY RowsAreOrdered, EpisodeAssumption
<1>2. FoundLate(f, g, w, N)
  <2>1. SameRules(rows, rows)
      BY DEF SameRules
  <2>2. \A n \in 0 .. N : FoundLate(f, g, w, n)
      BY <1>1, <2>1, FoldsMerge
  <2> QED BY <1>1, <2>2
<1>3. new.open /\ old.open /\ old.last = new.last /\ old.started <= new.started
    BY <1>2 DEF FoundLate, Live
<1>4. PICK b : OpenedAt(g, rows, w, b, N)
    BY <1>1, <1>3, OpenStory
<1>5. PICK a : OpenedAt(f, rows, 0, a, N)
    BY <1>1, <1>3, OpenStory
<1>6. /\ a \in 1 .. N /\ b \in 1 .. N /\ old.started = rows[a].ts /\ new.started = rows[b].ts
      /\ new.id = IF rows[b].id # 0 THEN rows[b].id ELSE rows[b].ts
    BY <1>4, <1>5 DEF OpenedAt
<1>7. /\ old.id \in Nat /\ old.id >= 1 /\ (N <= L => old.id = old.started)
    BY <1>1, <1>3, FilledStory
<1>8. \A i \in 1 .. N : /\ rows[i].ts \in Nat /\ rows[i].id \in Nat /\ i \in Nat
                        /\ rows[i].id <= rows[i].ts /\ rows[i].ts >= 1
    BY RowsAreOrdered DEF Dated
<1>9. a <= b /\ a \in Nat /\ b \in Nat
  <2> DEFINE d == rows[a].ts
             e == rows[b].ts
  <2>1. d \in Nat /\ e \in Nat /\ d <= e
      BY <1>3, <1>6, <1>8
  <2>2. b < a => e < d
      BY <1>6 DEF Ordered
  <2> HIDE DEF d, e
  <2> QED BY <1>1, <1>6, <2>1, <2>2
<1>10. Live(old, rows[N].ts)
  <2> DEFINE d == rows[N].ts
             l == old.last
  <2>1. N \in 1 .. N
      BY <1>1, <1>6
  <2>2. d \in Nat /\ d <= h
      BY <1>8, <2>1
  <2>3. l \in Nat
    <3>1. old \in Tracker
        BY <1>1, OpenStory
    <3> QED BY <3>1 DEF Tracker
  <2>4. h - l <= Gap
      BY <1>3 DEF Live
  <2> HIDE DEF d, l
  <2>5. d - l <= Gap
      BY <1>1, <2>2, <2>3, <2>4
  <2> QED BY <1>3, <2>5 DEF Live, d, l
<1>11. ASSUME NEW i \in a .. N
       PROVE  /\ Live(f[i], rows[i].ts) /\ f[i].open /\ f[i].id = old.id
              /\ f[i].started = rows[a].ts
    BY <1>1, <1>5, <1>10, StoryIsLive DEF Live
<1>12. \A i \in 1 .. N : i > L => i \in L + 1 .. N
    BY <1>1
<1> HIDE DEF N, new, old
<1>13. CASE b > L
  <2>1. b \in a .. N /\ b \in L + 1 .. N
      BY <1>1, <1>6, <1>9, <1>13
  <2>2. rows[b].id = old.id
      BY <1>11, <2>1 DEF IdsAreTold, ServedId, N
  <2>3. rows[b].id # 0 /\ new.id = rows[b].id
      BY <1>6, <1>7, <2>2
  <2>4. ASSUME NEW i \in 1 .. N PROVE rows[i].id <= new.id
    <3>1. CASE i < b
      <4>1. rows[i].id # 0 => rows[i].id <= rows[b].id
          BY <1>6, <2>3, <3>1 DEF Dated, N
      <4> QED BY <1>7, <1>8, <2>2, <2>3, <4>1
    <3>2. CASE ~(i < b)
      <4>1. i \in a .. N /\ i \in L + 1 .. N
          BY <1>1, <1>8, <1>9, <1>13, <3>2
      <4>2. rows[i].id = old.id
          BY <1>11, <4>1 DEF IdsAreTold, ServedId, N
      <4> QED BY <1>7, <2>2, <2>3, <4>2
    <3> QED BY <3>1, <3>2
  <2>5. \A m \in 1 .. L : f[m].open => f[m].started <= new.id
      BY <2>1, <2>3 DEF IdsAreTold, N
  <2> QED BY <2>4, <2>5 DEF N, new
<1>14. CASE ~(b > L)
  <2> DEFINE e == rows[a].ts
  <2>1. b \in a .. N /\ b \in 1 .. L /\ a \in 1 .. L /\ a \in 1 .. N /\ a \in a .. N
      BY <1>1, <1>6, <1>9, <1>14
  <2>2. rows[b].id # 0 => rows[b].id = e
      BY <1>11, <2>1 DEF IdsAreTold, FilledId
  <2>3. e \in Nat /\ e <= new.id /\ new.id \in Nat
    <3>1. e <= rows[b].ts
      <4>1. \A i, j \in 1 .. N : i <= j => rows[i].ts <= rows[j].ts
          BY RowsAreOrdered DEF N
      <4> QED BY <1>6, <1>9, <2>1, <4>1
    <3>2. e \in Nat /\ rows[b].ts \in Nat /\ rows[b].id \in Nat
        BY <1>6, <1>8, <2>1
    <3>3. CASE rows[b].id # 0
      <4>1. new.id = e
          BY <1>6, <2>2, <3>3
      <4> HIDE DEF e
      <4> QED BY <3>2, <4>1
    <3>4. CASE rows[b].id = 0
        BY <1>6, <3>1, <3>2, <3>4
    <3> QED BY <3>3, <3>4
  \* The story has one identity, its own start.
  <2>4. old.id = e
    <3>1. f[a].id = f[a].started
      <4>1. a \in 0 .. Len(rows) /\ a <= L /\ f[a].open
          BY <1>1, <1>11, <2>1 DEF N
      <4> QED BY <4>1, FilledStory
    <3> QED BY <1>11, <2>1, <3>1
  <2>5. ASSUME NEW i \in 1 .. N PROVE rows[i].id <= e
    <3>1. CASE i < a
      <4>1. rows[i].ts < e
          BY <1>6, <3>1 DEF Ordered, N
      <4> DEFINE d == rows[i].ts
                 c == rows[i].id
      <4>2. d \in Nat /\ c \in Nat /\ c <= d /\ d < e
          BY <1>8, <4>1
      <4> HIDE DEF d, c, e
      <4>3. c <= e
          BY <2>3, <4>2
      <4> QED BY <4>3 DEF c
    <3>2. CASE ~(i < a) /\ i \in 1 .. L
      <4>1. i \in a .. N
          BY <1>1, <1>8, <1>9, <3>2
      <4>2. rows[i].id # 0 => rows[i].id = e
          BY <1>11, <3>2, <4>1 DEF IdsAreTold, FilledId
      <4> HIDE DEF e
      <4> QED BY <1>8, <2>3, <4>2
    <3>3. CASE ~(i < a) /\ ~(i \in 1 .. L)
      <4>1. i \in a .. N /\ i \in L + 1 .. N
          BY <1>1, <1>8, <1>9, <3>3
      <4>2. rows[i].id = e
          BY <1>11, <2>4, <4>1 DEF IdsAreTold, ServedId, N
      <4> HIDE DEF e
      <4> QED BY <2>3, <4>2
    <3> QED BY <3>1, <3>2, <3>3
  <2>6. ASSUME NEW m \in 1 .. L, f[m].open PROVE f[m].started <= e
    <3>1. m \in 0 .. Len(rows)
        BY <1>1 DEF N
    <3>2. Len(rows) \in 0 .. Len(rows) /\ f[Len(rows)].open /\ 0 \in Int
        BY <1>1, <1>3 DEF N, old
    <3>3. f[m].started <= f[Len(rows)].started
        BY <2>6, <3>1, <3>2, StartsRise
    <3> QED BY <1>6, <3>3 DEF N, old
  <2>7. \A m \in 1 .. L : f[m].open => f[m].started \in Nat
    <3> TAKE m \in 1 .. L
    <3>1. m \in 0 .. Len(rows)
        BY <1>1 DEF N
    <3> QED BY <3>1, FilledStory
  <2> HIDE DEF e
  <2>8. \A i \in 1 .. N : rows[i].id <= new.id
    <3> TAKE i \in 1 .. N
    <3>1. rows[i].id <= e /\ rows[i].id \in Nat
        BY <1>8, <2>5
    <3> QED BY <2>3, <3>1
  <2>9. \A m \in 1 .. L : f[m].open => f[m].started <= new.id
    <3> TAKE m \in 1 .. L
    <3>1. f[m].open => f[m].started <= e /\ f[m].started \in Nat
        BY <2>6, <2>7
    <3> QED BY <2>3, <3>1
  <2> QED BY <2>8, <2>9 DEF N, new
<1> QED BY <1>1, <1>6, <1>13, <1>14
\* Whether stories fit hangs on the times and the verdicts alone, and on no later row.
LEMMA FitStays ==
    ASSUME NEW rows, Ordered(rows), NEW more, Ordered(more), Len(rows) <= Len(more),
           \A n \in 1 .. Len(rows) : more[n].ts = rows[n].ts /\ more[n].verdict = rows[n].verdict,
           FitIn(more)
    PROVE  FitIn(rows)
<1> DEFINE N == Len(rows)
<1>1. /\ N \in Nat /\ DOMAIN rows = 1 .. N /\ Len(more) \in Nat /\ DOMAIN more = 1 .. Len(more)
      /\ 1 .. N \subseteq 1 .. Len(more)
    BY RowsAreOrdered
<1> SUFFICES ASSUME NEW i \in 1 .. N, NEW j \in 1 .. N, ReachesIn(rows, i, j)
             PROVE  rows[j].ts - rows[i].ts <= Window
    BY <1>1 DEF FitIn
<1>2. Stretches(rows, i, j)
    BY <1>1, ReachesStretches
<1> HIDE DEF N
<1>3. \A k \in i .. j : /\ k \in 1 .. N /\ more[k].ts = rows[k].ts
                        /\ Qualifies(more[k]) <=> Qualifies(rows[k])
    BY <1>1 DEF Qualifies, N
<1>4. i < j /\ rows[i].verdict = "breaking" /\ more[i].verdict = rows[i].verdict
    BY <1>2 DEF Stretches, N
<1>5. ASSUME NEW k \in i + 1 .. j, k = j \/ Qualifies(more[k]) PROVE IsNear(more, i, k)
  <2>1. k \in i .. j /\ \A l \in i .. k - 1 : l \in i .. j
      BY <1>1
  <2>2. IsNear(rows, i, k)
      BY <1>2, <1>3, <1>5, <2>1 DEF Stretches
  <2>3. PICK l \in i .. k - 1 : Qualifies(rows[l]) /\ rows[k].ts - rows[l].ts <= Gap
      BY <2>2 DEF IsNear
  <2> QED BY <1>3, <2>1, <2>3 DEF IsNear
<1>6. Stretches(more, i, j)
    BY <1>4, <1>5 DEF Stretches
<1>7. ReachesIn(more, i, j) /\ i \in DOMAIN more /\ j \in DOMAIN more
    BY <1>1, <1>6, ReachesStretches
<1>8. more[j].ts - more[i].ts <= Window
    BY <1>7 DEF FitIn
<1>9. more[i].ts = rows[i].ts /\ more[j].ts = rows[j].ts
    BY DEF N
<1> QED BY <1>8, <1>9

\* The fold goes on with an envelope that is committed.
LEMMA FoldGoesOn ==
    ASSUME NEW rows, Ordered(rows), NEW row \in Row, NEW f, Folds(f, rows, 0, Len(rows))
    PROVE  \E g : /\ Folds(g, Append(rows, row), 0, Len(rows) + 1)
                  /\ \A n \in 0 .. Len(rows) : g[n] = f[n]
<1> DEFINE N == Len(rows)
           more == Append(rows, row)
           g == [n \in 0 .. N + 1 |-> IF n = N + 1 THEN SeedStep(0, row, f[N]) ELSE f[n]]
<1>1. N \in Nat /\ rows \in Seq(Row)
    BY RowsAreOrdered DEF Ordered
<1>2. more[N + 1] = row /\ \A k \in 1 .. N : more[k] = rows[k]
    BY <1>1, AppendProperties
<1> HIDE DEF N, more
<1>3. \A n \in 0 .. N : n # N + 1 /\ n \in 0 .. N + 1
    BY <1>1
<1>4. \A n \in 0 .. N : g[n] = f[n]
    BY <1>3
<1>5. g[N + 1] = SeedStep(0, row, f[N])
    BY <1>1
<1> HIDE DEF g
<1>6. \A m \in 1 .. N + 1 : g[m] = SeedStep(0, more[m], g[m - 1])
  <2> TAKE m \in 1 .. N + 1
  <2>1. CASE m = N + 1
    <3>1. m - 1 = N /\ N \in 0 .. N
        BY <1>1, <2>1
    <3> QED BY <1>2, <1>4, <1>5, <2>1, <3>1
  <2>2. CASE m # N + 1
    <3>1. m \in 1 .. N /\ m \in 0 .. N /\ m - 1 \in 0 .. N
        BY <1>1, <2>2
    <3> QED BY <1>2, <1>4, <3>1 DEF Folds, N
  <2> QED BY <2>1, <2>2
<1>7. g[0] = Closed
    BY <1>1, <1>4 DEF Folds
<1> QED BY <1>4, <1>6, <1>7 DEF Folds, N, more

LEMMA ServedIsTold ==
    ASSUME NEW rows, Ordered(rows), NEW row \in Row, NEW f, NEW g, NEW L \in 0 .. Len(rows),
           IdsAreTold(rows, f, L), \A n \in 0 .. Len(rows) : g[n] = f[n],
           Live(g[Len(rows) + 1], row.ts) => row.id = g[Len(rows) + 1].id,
           row.id # 0 => \A m \in 1 .. L : f[m].open => f[m].started <= row.id
    PROVE  IdsAreTold(Append(rows, row), g, L)
<1> DEFINE N == Len(rows)
           more == Append(rows, row)
<1>1. N \in Nat /\ rows \in Seq(Row) /\ L \in Nat /\ L <= N
    BY RowsAreOrdered DEF Ordered
<1>2. more[N + 1] = row /\ (\A k \in 1 .. N : more[k] = rows[k]) /\ Len(more) = N + 1
    BY <1>1, AppendProperties
<1> HIDE DEF N, more
<1>3. \A n \in 1 .. L : n \in 1 .. N /\ n \in 0 .. N
    BY <1>1
<1>4. \A n \in L + 1 .. N + 1 : (n \in L + 1 .. N /\ n \in 1 .. N /\ n \in 0 .. N) \/ n = N + 1
    BY <1>1
<1>5. \A n \in 1 .. L : FilledId(more, g, n)
    BY <1>2, <1>3 DEF IdsAreTold, FilledId, N
<1>6. \A n \in L + 1 .. N + 1 : ServedId(more, g, n)
    BY <1>2, <1>4 DEF IdsAreTold, ServedId, N
<1>7. \A n \in L + 1 .. N + 1 : \A m \in 1 .. L :
        more[n].id # 0 /\ g[m].open => g[m].started <= more[n].id
    BY <1>2, <1>3, <1>4 DEF IdsAreTold, N
<1> QED BY <1>2, <1>5, <1>6, <1>7 DEF IdsAreTold, more

\* Filling in the start of an envelope's story changes no story.
LEMMA FilledIsTold ==
    ASSUME NEW rows, Ordered(rows), Dated(rows), NEW f, Folds(f, rows, 0, Len(rows)),
           NEW L \in 0 .. Len(rows), IdsAreTold(rows, f, L), NEW at \in 1 .. L, f[at].open,
           NEW e \in BOOLEAN, e <=> f[at].started = rows[at].ts,
           NEW more \in Seq(Row), Len(more) = Len(rows),
           \A n \in 1 .. Len(rows) : n # at => more[n] = rows[n],
           more[at] = Stamp(rows[at].ts, rows[at].verdict, f[at].started, e)
    PROVE  /\ Ordered(more) /\ SameRules(rows, more) /\ Dated(more) /\ at \in 1 .. Len(rows)
           /\ \A n \in 1 .. Len(rows) : n # at => more[n] = rows[n]
           /\ more[at].id = f[at].started /\ more[at].edge = e
           /\ Folds(f, more, 0, Len(more)) /\ IdsAreTold(more, f, L)
<1> DEFINE N == Len(rows)
           id == f[at].started
           new == Stamp(rows[at].ts, rows[at].verdict, id, e)
<1>1. N \in Nat /\ rows \in Seq(Row) /\ L \in Nat /\ L <= N /\ DOMAIN rows = 1 .. N /\ at \in Nat
    BY RowsAreOrdered DEF Ordered
<1>2. at \in 1 .. N /\ at \in 0 .. N
    BY <1>1
<1>3. id \in Nat /\ id >= 1 /\ id <= rows[at].ts /\ f[at].id = id
    BY <1>1, <1>2, FilledStory
<1>4. \A n \in 1 .. N : /\ rows[n] \in Row /\ rows[n].ts \in Nat /\ rows[n].id \in Nat
                        /\ rows[n].verdict \in Verdict /\ n \in Nat
    BY RowsAreOrdered
<1>5. /\ new \in Row /\ new.ts = rows[at].ts /\ new.verdict = rows[at].verdict /\ new.id = id
      /\ new.edge = e
    BY <1>2, <1>3, <1>4 DEF Stamp, Row
<1> HIDE DEF N, id, new
<1>7. more[at] = new /\ \A n \in 1 .. N : n # at => more[n] = rows[n]
    BY DEF N, id, new
<1>8. more \in Seq(Row) /\ Len(more) = N
    BY DEF N
<1>9. \A n \in 1 .. N : more[n].ts = rows[n].ts /\ more[n].verdict = rows[n].verdict
    BY <1>5, <1>7
<1>10. Ordered(more) /\ SameRules(rows, more)
    BY <1>8, <1>9 DEF Ordered, SameRules, N
\* The stories before it began no later, those after it no earlier.
<1>11. ASSUME NEW n \in 1 .. N, rows[n].id # 0
       PROVE  (n < at => rows[n].id <= id) /\ (at < n => id <= rows[n].id)
  <2>1. CASE n \in 1 .. L
    <3>1. f[n].open /\ rows[n].id = f[n].started
        BY <1>11, <2>1 DEF IdsAreTold, FilledId
    <3>2. /\ n \in 0 .. N /\ N \in 0 .. N /\ 0 \in Int
          /\ (n < at => n \in 0 .. at) /\ (at < n => at \in 0 .. n)
        BY <1>1, <1>2, <1>4
    <3>3. n < at => f[n].started <= id
        BY <1>2, <3>1, <3>2, StartsRise DEF N, id
    <3>4. at < n => id <= f[n].started
        BY <1>2, <3>1, <3>2, StartsRise DEF N, id
    <3> QED BY <3>1, <3>3, <3>4
  <2>2. CASE ~(n \in 1 .. L)
    <3>1. n \in L + 1 .. N /\ ~(n < at)
        BY <1>1, <2>2
    <3> QED BY <1>11, <3>1 DEF IdsAreTold, N, id
  <2> QED BY <2>1, <2>2
<1>12. Dated(more)
  <2>1. \A i \in 1 .. N : more[i].ts >= 1 /\ more[i].id <= more[i].ts
      BY <1>2, <1>3, <1>5, <1>7 DEF Dated, N
  <2>2. ASSUME NEW i \in 1 .. N, NEW j \in 1 .. N, i < j, more[i].id # 0, more[j].id # 0
        PROVE  more[i].id <= more[j].id
    <3>1. CASE i # at /\ j # at
        BY <1>7, <2>2, <3>1 DEF Dated, N
    <3>2. CASE i = at
      <4>1. j # at
          BY <1>4, <2>2, <3>2
      <4> QED BY <1>5, <1>7, <1>11, <2>2, <3>2, <4>1
    <3>3. CASE j = at
      <4>1. i # at
          BY <1>4, <2>2, <3>3
      <4> QED BY <1>5, <1>7, <1>11, <2>2, <3>3, <4>1
    <3> QED BY <3>1, <3>2, <3>3
  <2> QED BY <1>8, <2>1, <2>2 DEF Dated
\* Its opener carried that identity, or was named for its own time all along.
<1>13. Folds(f, more, 0, Len(more))
  <2> SUFFICES ASSUME NEW m \in 1 .. N PROVE f[m] = SeedStep(0, more[m], f[m - 1])
      BY <1>8 DEF Folds
  <2>1. f[m] = SeedStep(0, rows[m], f[m - 1])
      BY DEF Folds, N
  <2>2. CASE m # at
      BY <1>7, <2>1, <2>2
  <2>3. CASE m = at
    <3> DEFINE row == rows[at]
               tr == f[at - 1]
    <3>1. f[at] = SeedStep(0, row, tr)
        BY <2>1, <2>3
    <3>2. new.ts = row.ts /\ new.verdict = row.verdict /\ new.id = id
        BY <1>5
    <3>3. Unread(0, new) <=> Unread(0, row)
        BY <3>2 DEF Unread
    <3>4. Opens(tr, new) <=> Opens(tr, row)
        BY <3>2 DEF Opens, Lapsed
    <3>5. CASE Unread(0, row) \/ ~Opens(tr, row)
        BY <1>7, <2>3, <3>1, <3>2, <3>3, <3>4, <3>5 DEF SeedStep, Observed, Lapsed
    <3>6. CASE ~Unread(0, row) /\ Opens(tr, row)
      <4>1. f[at] = [open |-> TRUE, started |-> row.ts, last |-> row.ts,
                     id |-> IF row.id # 0 THEN row.id ELSE row.ts]
          BY <3>1, <3>6 DEF SeedStep, Observed
      <4>2. f[at] = [open |-> TRUE, started |-> row.ts, last |-> row.ts, id |-> f[at].id]
          BY <4>1
      <4>3. SeedStep(0, new, tr) = [open |-> TRUE, started |-> row.ts, last |-> row.ts, id |-> id]
        <5>1. id # 0
            BY <1>3
        <5> QED BY <3>2, <3>3, <3>4, <3>6, <5>1 DEF SeedStep, Observed
      <4> QED BY <1>3, <1>7, <2>3, <4>2, <4>3
    <3> QED BY <3>5, <3>6
  <2> QED BY <2>2, <2>3
<1>14. IdsAreTold(more, f, L)
  <2>1. \A n \in 1 .. L : n \in 1 .. N
      BY <1>1
  <2>2. \A n \in L + 1 .. N : n \in 1 .. N /\ n # at
      BY <1>1
  <2>3. ASSUME NEW n \in 1 .. L PROVE FilledId(more, f, n)
    <3>1. CASE n # at
        BY <1>7, <2>1, <3>1 DEF IdsAreTold, FilledId
    <3>2. CASE n = at
        BY <1>5, <1>7, <3>2 DEF FilledId, id
    <3> QED BY <3>1, <3>2
  <2>4. \A n \in L + 1 .. N : ServedId(more, f, n)
      BY <1>7, <2>2 DEF IdsAreTold, ServedId, N
  <2>5. \A n \in L + 1 .. N : \A m \in 1 .. L :
            more[n].id # 0 /\ f[m].open => f[m].started <= more[n].id
      BY <1>7, <2>2 DEF IdsAreTold, N
  <2> QED BY <1>8, <2>3, <2>4, <2>5 DEF IdsAreTold
<1> QED BY <1>2, <1>5, <1>7, <1>10, <1>12, <1>13, <1>14 DEF N, id
LEMMA ReadRow ==
    ASSUME NEW rows, Ordered(rows), NEW s \in Int, NEW n \in 1 .. Len(rows), NEW f,
           Folds(f, rows, s, n), ~Unread(s, rows[n])
    PROVE  /\ f[n] = Observed(f[n - 1], rows[n]) /\ f[n] \in Tracker
           /\ f[n].open => /\ Live(f[n], rows[n].ts)
                           /\ Opens(f[n - 1], rows[n]) <=> f[n].started = rows[n].ts
           /\ ~f[n].open => f[n].id = 0
<1> DEFINE row == rows[n]
           tr == f[n - 1]
           next == f[n]
           e == rows[n].ts
<1>1. Len(rows) \in Nat /\ n \in 0 .. Len(rows) /\ n - 1 \in 0 .. n /\ n \in 1 .. n /\ n \in Nat
    BY RowsAreOrdered
<1>2. row \in Row /\ row.ts = e /\ e \in Nat /\ Gap \in Nat
    BY RowsAreOrdered, EpisodeAssumption
<1>3. tr \in Tracker /\ (tr.open => \E b : OpenedAt(f, rows, s, b, n - 1))
    BY <1>1, OpenStory
<1>4. next = SeedStep(s, row, tr)
    BY <1>1 DEF Folds
<1>5. next = Observed(tr, row)
    BY <1>4 DEF SeedStep
<1>6. tr.open => tr.started # e
  <2> SUFFICES ASSUME tr.open PROVE tr.started # e
      OBVIOUS
  <2>1. PICK b : OpenedAt(f, rows, s, b, n - 1)
      BY <1>3
  <2>2. b \in 1 .. n - 1 /\ tr.started = rows[b].ts
      BY <2>1 DEF OpenedAt
  <2>3. b \in 1 .. Len(rows) /\ b < n
      BY <1>1, <2>2
  <2>4. rows[b].ts < e /\ rows[b].ts \in Nat
      BY <2>3, RowsAreOrdered DEF Ordered
  <2> HIDE DEF e
  <2> QED BY <1>2, <2>2, <2>4
<1>7. tr.last \in Nat
    BY <1>3 DEF Tracker
<1> HIDE DEF row, tr, next, e
<1>8. /\ next \in Tracker /\ Becomes(tr, row, next)
      /\ Opens(tr, row) <=> row.verdict = "breaking" /\ ~Live(tr, e)
    BY <1>2, <1>3, <1>5, ObservedTells
<1>9. e - e <= Gap
    BY <1>2
<1>10. CASE Live(tr, e)
  <2>1. /\ next.open /\ next.started = tr.started /\ tr.open /\ e - tr.last <= Gap
        /\ next.last = IF row.verdict \in Holding THEN e ELSE tr.last
      BY <1>2, <1>8, <1>10 DEF Becomes, Live
  <2>2. Live(next, e)
      BY <1>9, <2>1 DEF Live
  <2> QED BY <1>5, <1>6, <1>8, <1>10, <2>1, <2>2 DEF row, tr, next, e
<1>11. CASE ~Live(tr, e)
  <2>1. \/ row.verdict = "breaking" /\ next.open /\ next.started = e /\ next.last = e
        \/ row.verdict # "breaking" /\ ~next.open /\ next.id = 0
      BY <1>2, <1>8, <1>11 DEF Becomes
  <2>2. next.open => Live(next, e)
      BY <1>9, <2>1 DEF Live
  <2>3. next.open => (Opens(tr, row) <=> next.started = e)
      BY <1>8, <1>11, <2>1
  <2> QED BY <1>5, <1>8, <2>1, <2>2, <2>3 DEF row, tr, next, e
<1> QED BY <1>10, <1>11

\* A backfill that replays a range computes the identities an earlier one filled in, and
\* finds none to fill in where the engine has served one.
LEMMA ReplayTells ==
    ASSUME NEW rows, Ordered(rows), Dated(rows), FitIn(rows), NEW f, Folds(f, rows, 0, Len(rows)),
           NEW L \in 0 .. Len(rows), IdsAreTold(rows, f, L), NEW since \in Nat,
           NEW other, Ordered(other), SameRules(rows, other),
           \A n \in 1 .. Len(rows) : other[n] = Replayable(rows[n], since),
           NEW s \in Int, s = since - Window, NEW g, Folds(g, other, s, Len(rows)),
           NEW n \in 1 .. Len(rows), ~Unread(s, rows[n]), rows[n].ts >= since,
           NEW computed, computed = Stamped(g[n - 1], other[n])
    PROVE  /\ n <= L /\ rows[n].id # 0 =>
                computed.id = rows[n].id /\ (computed.edge <=> rows[n].edge)
           /\ rows[n].id = 0 /\ computed.id # 0 =>
                /\ n <= L /\ f[n].open /\ computed.id = f[n].started
                /\ computed.edge <=> computed.id = rows[n].ts
<1> DEFINE N == Len(rows)
           e == rows[n].ts
           old == f[n]
           new == g[n]
<1>1. /\ N \in Nat /\ n \in 0 .. N /\ n \in 0 .. n /\ 0 \in Int /\ n \in 1 .. Len(other) /\ Window \in Nat
      /\ n \in Nat /\ L \in Nat
    BY RowsAreOrdered, EpisodeAssumption DEF SameRules
<1>2. /\ e \in Nat /\ other[n].ts = e /\ other[n].verdict = rows[n].verdict /\ rows[n] \in Row
    BY RowsAreOrdered DEF SameRules
<1>3. ~Unread(0, rows[n]) /\ ~Unread(s, other[n])
  <2>1. rows[n].verdict # "error" /\ ~(e < s)
      BY DEF Unread
  <2> HIDE DEF e
  <2>2. ~(e < 0)
      BY <1>2
  <2> QED BY <1>2, <2>1, <2>2 DEF Unread, e
<1>4. Folds(f, rows, 0, n) /\ Folds(g, other, s, n)
  <2>1. \A m \in 1 .. n : m \in 1 .. N
      BY <1>1
  <2> QED BY <2>1 DEF Folds
<1>5. old.open => Live(old, e)
    BY <1>1, <1>3, <1>4, ReadRow
<1>6. /\ new = Observed(g[n - 1], other[n]) /\ (~new.open => new.id = 0)
      /\ new.open => (Opens(g[n - 1], other[n]) <=> new.started = e)
    BY <1>1, <1>2, <1>3, <1>4, ReadRow
<1>7. computed.id = new.id /\ computed.edge = Opens(g[n - 1], other[n])
    BY <1>6 DEF Stamped, Stamp
<1>8. FoundLate(f, g, s, n)
    BY <1>1, <1>4, FoldsMerge
<1> HIDE DEF N
<1>9. ASSUME old.open, n <= L
      PROVE  new.open /\ new.started = old.started /\ new.id = old.started
  <2>1. e - old.started <= Window
      BY <1>4, <1>5, <1>9, <1>1, StoryFitsNow
  <2>2. PICK a : OpenedAt(f, rows, 0, a, n)
      BY <1>1, <1>4, <1>9, OpenStory DEF N
  <2>3. a \in 1 .. n /\ old.started = rows[a].ts
      BY <2>2 DEF OpenedAt
  <2>4. a \in 1 .. N /\ a \in 1 .. L /\ a \in a .. n
      BY <1>1, <1>9, <2>3 DEF N
  <2>5. rows[a].ts \in Nat
      BY <2>4, RowsAreOrdered DEF N
  <2>6. old.started >= s
    <3> DEFINE d == rows[a].ts
    <3>1. old.started = d /\ d \in Nat /\ e - d <= Window /\ e >= since
        BY <2>1, <2>3, <2>5
    <3> HIDE DEF d, e
    <3> QED BY <1>1, <1>2, <3>1
  <2>7. new.open /\ new.started = old.started
      BY <1>8, <1>9, <2>6 DEF FoundLate
  <2>8. PICK o : OpenedAt(g, other, s, o, n)
      BY <1>1, <1>4, <2>7, OpenStory
  <2>9. /\ o \in 1 .. n /\ new.started = other[o].ts
        /\ new.id = IF other[o].id # 0 THEN other[o].id ELSE other[o].ts
      BY <2>8 DEF OpenedAt
  <2>10. o \in 1 .. N
      BY <1>1, <2>9 DEF N
  <2>11. rows[o].ts = rows[a].ts /\ other[o].ts = rows[a].ts
      BY <2>3, <2>7, <2>9, <2>10 DEF SameRules, N
  <2>12. o = a
    <3>1. (o < a => rows[o].ts < rows[a].ts) /\ (a < o => rows[a].ts < rows[o].ts)
        BY <2>4, <2>10 DEF Ordered, N
    <3>2. ~(rows[a].ts < rows[a].ts)
        BY <2>5
    <3> QED BY <2>4, <2>10, <2>11, <3>1, <3>2
  <2>13. f[a].started = rows[a].ts
      BY <2>2, <2>3, <2>4 DEF OpenedAt, SameStory
  <2>14. rows[a].id # 0 => rows[a].id = rows[a].ts
      BY <2>4, <2>13 DEF IdsAreTold, FilledId
  <2>15. other[a] = Replayable(rows[a], since)
      BY <2>4 DEF N
  <2>16. other[a].id = 0 \/ other[a].id = rows[a].id
      BY <2>15 DEF Replayable, Unstamped, Stamp
  <2> QED BY <2>3, <2>7, <2>9, <2>11, <2>12, <2>14, <2>16
<1>10. ASSUME n <= L, rows[n].id # 0
       PROVE  computed.id = rows[n].id /\ (computed.edge <=> rows[n].edge)
  <2>1. n \in 1 .. L
      BY <1>1, <1>10
  <2>2. old.open /\ rows[n].id = old.started /\ (rows[n].edge <=> rows[n].id = e)
      BY <1>10, <2>1 DEF IdsAreTold, FilledId
  <2> QED BY <1>6, <1>7, <1>9, <1>10, <2>2
<1>11. ASSUME rows[n].id = 0, computed.id # 0
       PROVE  /\ n <= L /\ old.open /\ computed.id = old.started
              /\ computed.edge <=> computed.id = e
  <2>1. new.open
      BY <1>6, <1>7, <1>11
  <2>2. old.open
      BY <1>8, <2>1 DEF FoundLate
  <2>3. n <= L
    <3> SUFFICES ASSUME ~(n <= L) PROVE FALSE
        OBVIOUS
    <3>1. n \in L + 1 .. Len(rows)
        BY <1>1 DEF N
    <3>2. rows[n].id = old.id
        BY <1>5, <2>2, <3>1 DEF IdsAreTold, ServedId
    <3>3. old.id >= 1
        BY <1>1, <2>2, FilledStory DEF N
    <3> QED BY <1>11, <3>2, <3>3
  <2> QED BY <1>6, <1>7, <1>9, <2>2, <2>3
<1> QED BY <1>10, <1>11
\* What a backfill has made of a journal: a fold of it without the identities of its range.
Stripped(since) == [n \in 1 .. Len(journal) |-> Replayable(journal[n], since)]
Computed(g, since, n) == Stamped(g[n - 1], Replayable(journal[n], since))

StampTold(g, since, stamp) ==
    /\ stamp.index \in 1 .. Len(journal) /\ ~Unread(since - Window, journal[stamp.index])
    /\ stamp.row = Computed(g, since, stamp.index)
    /\ Stamps(journal[stamp.index], stamp.row, since)
ClashTold(g, since, n) ==
    /\ n \in 1 .. Len(journal) /\ ~Unread(since - Window, journal[n])
    /\ ~Agrees(journal[n], Computed(g, since, n), since)
WorkTold(g, since, done) ==
    /\ \A k \in 1 .. Len(done.stamps) : StampTold(g, since, done.stamps[k])
    /\ \A n \in done.clashes : ClashTold(g, since, n)

LEMMA StrippedIsOrdered ==
    ASSUME journal \in Seq(Row), InTime, NEW since \in Nat
    PROVE  /\ Ordered(journal) /\ Ordered(Stripped(since)) /\ SameRules(journal, Stripped(since))
           /\ \A n \in 1 .. Len(journal) : Stripped(since)[n] = Replayable(journal[n], since)
<1> DEFINE N == Len(journal)
           other == Stripped(since)
<1>1. N \in Nat /\ DOMAIN journal = 1 .. N /\ \A n \in 1 .. N : journal[n] \in Row
    BY JournalRows
<1>2. other = [n \in 1 .. N |-> Replayable(journal[n], since)]
    BY DEF Stripped
<1>3. \A n \in 1 .. N : /\ Replayable(journal[n], since) \in Row
                        /\ Replayable(journal[n], since).ts = journal[n].ts
                        /\ Replayable(journal[n], since).verdict = journal[n].verdict
  <2> TAKE n \in 1 .. N
  <2>1. journal[n].ts \in Nat /\ journal[n].verdict \in Verdict
      BY JournalRows
  <2>2. /\ Unstamped(journal[n].ts, journal[n].verdict) \in Row
        /\ Unstamped(journal[n].ts, journal[n].verdict).ts = journal[n].ts
        /\ Unstamped(journal[n].ts, journal[n].verdict).verdict = journal[n].verdict
      BY <2>1 DEF Unstamped, Stamp, Row
  <2> QED BY <1>1, <2>2 DEF Replayable
<1> HIDE DEF N, other
<1>4. other \in Seq(Row) /\ Len(other) = N
    BY <1>1, <1>2, <1>3
<1>5. \A n \in 1 .. N : other[n] = Replayable(journal[n], since)
    BY <1>2
<1>6. Ordered(journal)
    BY <1>1 DEF Ordered, InTime, N
<1>7. Ordered(other)
    BY <1>1, <1>3, <1>4, <1>5 DEF Ordered, InTime
<1>8. SameRules(journal, other)
    BY <1>3, <1>4, <1>5 DEF SameRules, N
<1> QED BY <1>5, <1>6, <1>7, <1>8 DEF N, other

\* One envelope of the replay.
LEMMA ReplayedOneTells ==
    ASSUME NEW done \in Work, NEW since \in Nat, NEW g, NEW n \in 1 .. Len(journal),
           journal \in Seq(Row), ~Unread(since - Window, journal[n]), done.tracker = g[n - 1],
           NEW entry, entry.index = n, entry.row = journal[n],
           NEW next, next = ReplayedOne(done, entry, since), WorkTold(g, since, done)
    PROVE  /\ next.tracker = Observed(g[n - 1], Replayable(journal[n], since))
           /\ WorkTold(g, since, next)
<1> DEFINE row == journal[n]
           input == Replayable(row, since)
           computed == Stamped(g[n - 1], input)
           after == Observed(g[n - 1], input)
           stamp == [index |-> n, row |-> computed, started |-> after.started]
<1>1. /\ next.tracker = after
      /\ next.clashes = done.clashes \union (IF Agrees(row, computed, since) THEN {} ELSE {n})
      /\ next.stamps = IF Stamps(row, computed, since) THEN Append(done.stamps, stamp) ELSE done.stamps
    BY DEF ReplayedOne
<1>2. stamp.index = n /\ stamp.row = computed /\ computed = Computed(g, since, n)
    BY DEF Computed
<1> HIDE DEF input, after, stamp, computed
<1>3. done.stamps \in Seq(Fitting)
    BY DEF Work
<1>4. \A m \in next.clashes : ClashTold(g, since, m)
    BY <1>1, <1>2 DEF ClashTold, WorkTold
<1>5. \A k \in 1 .. Len(next.stamps) : StampTold(g, since, next.stamps[k])
  <2>1. CASE ~Stamps(row, computed, since)
      BY <1>1, <2>1 DEF WorkTold
  <2>2. CASE Stamps(row, computed, since)
    <3>1. StampTold(g, since, stamp)
        BY <1>2, <2>2 DEF StampTold
    <3> DEFINE told == [index |-> n, row |-> computed]
    <3>2. next.stamps = Append(done.stamps, stamp)
        BY <1>1, <2>2
    <3>3. Len(done.stamps) \in Nat /\ Len(next.stamps) = Len(done.stamps) + 1
          /\ next.stamps[Len(done.stamps) + 1] = stamp
          /\ \A k \in 1 .. Len(done.stamps) : next.stamps[k] = done.stamps[k]
        BY <1>3, <3>2
    <3>4. \A k \in 1 .. Len(next.stamps) : k \in 1 .. Len(done.stamps) \/ k = Len(done.stamps) + 1
        BY <3>3
    <3> QED BY <3>1, <3>3, <3>4 DEF WorkTold
  <2> QED BY <2>1, <2>2
<1> QED BY <1>1, <1>4, <1>5 DEF WorkTold, after, input

LEMMA ReplayIsFold ==
    ASSUME journal \in Seq(Row), InTime, \A i \in DOMAIN journal : Carries(journal[i]),
           NEW since \in Nat
    PROVE  \E g : /\ Folds(g, Stripped(since), since - Window, Len(journal))
                  /\ WorkTold(g, since, Replay(since))
<1>a. PICK s \in Int : s = since - Window
    BY EpisodeAssumption
<1> DEFINE W == EvaluatedSince(s)
           rows == RowsSince(s)
<1>b. /\ W \subseteq DOMAIN journal /\ Len(rows) \in Nat
      /\ \A n \in DOMAIN journal : n \in W <=> ~Unread(s, journal[n])
      /\ \A n \in 1 .. Len(rows) : rows[n].row \in Row
      /\ ReadUpTo(W, 0) = 0 /\ ReadUpTo(W, Len(journal)) = Len(rows)
      /\ \A n \in W :
            /\ ReadUpTo(W, n) \in 1 .. Len(rows) /\ ReadUpTo(W, n - 1) = ReadUpTo(W, n) - 1
            /\ rows[ReadUpTo(W, n)].index = n /\ rows[ReadUpTo(W, n)].row = journal[n]
      /\ \A n \in DOMAIN journal : n \notin W => ReadUpTo(W, n - 1) = ReadUpTo(W, n)
    BY RowsInOrder
<1> DEFINE N == Len(journal)
<1>1. N \in Nat /\ DOMAIN journal = 1 .. N /\ s \in Int
    BY JournalRows
<1> DEFINE R(n) == ReadUpTo(W, n)
<1>2. /\ Len(rows) \in Nat
      /\ \A n \in DOMAIN journal : n \in W <=> ~Unread(s, journal[n])
      /\ R(0) = 0 /\ R(N) = Len(rows)
      /\ \A n \in W : /\ R(n) \in 1 .. Len(rows) /\ R(n - 1) = R(n) - 1
                      /\ rows[R(n)].index = n /\ rows[R(n)].row = journal[n]
      /\ \A n \in DOMAIN journal : n \notin W => R(n - 1) = R(n)
    BY <1>b
<1>3. PICK f \in [0 .. Len(rows) -> Work] : Unfolds(f, rows, since) /\ Replay(since) = f[Len(rows)]
  <2>1. rows = RowsSince(since - Window)
      BY <1>a
  <2> HIDE DEF rows
  <2> QED BY <2>1, ReplayUnfolds
<1> DEFINE g == [n \in 0 .. N |-> f[R(n)].tracker]
<1>4. \A n \in 0 .. N : g[n] = f[R(n)].tracker
    OBVIOUS
<1> HIDE DEF g, W, rows, R, N
<1>5. /\ f[0].tracker = Closed /\ f[0].clashes = {} /\ f[0].stamps = <<>>
      /\ \A k \in 1 .. Len(rows) : f[k] = ReplayedOne(f[k - 1], rows[k], since)
    BY <1>3 DEF Unfolds
<1> DEFINE Good(n) == R(n) \in 0 .. Len(rows) /\ WorkTold(g, since, f[R(n)])
                      /\ (n # 0 => g[n] = SeedStep(s, Stripped(since)[n], g[n - 1]))
           Goods == {n \in 0 .. N : Good(n)}
<1>6. 0 \in Goods
  <2>1. 0 \in 0 .. N /\ R(0) \in 0 .. Len(rows)
      BY <1>1, <1>2
  <2>2. WorkTold(g, since, f[R(0)])
      BY <1>2, <1>5 DEF WorkTold
  <2> QED BY <2>1, <2>2
<1>7. ASSUME NEW n \in 1 .. N, n - 1 \in Goods PROVE n \in Goods
  <2>1. n \in 0 .. N /\ n - 1 \in 0 .. N /\ n \in DOMAIN journal /\ n # 0
      BY <1>1
  <2>2. g[n] = f[R(n)].tracker /\ g[n - 1] = f[R(n - 1)].tracker
      BY <1>4, <2>1
  <2>3. R(n - 1) \in 0 .. Len(rows) /\ WorkTold(g, since, f[R(n - 1)])
      BY <1>7
  <2>4. /\ Stripped(since)[n] = Replayable(journal[n], since)
        /\ Unread(s, Stripped(since)[n]) <=> Unread(s, journal[n])
    <3>1. /\ SameRules(journal, Stripped(since))
          /\ \A m \in 1 .. N : Stripped(since)[m] = Replayable(journal[m], since)
        BY StrippedIsOrdered DEF N
    <3>2. Stripped(since)[n].ts = journal[n].ts /\ Stripped(since)[n].verdict = journal[n].verdict
        BY <3>1 DEF SameRules, N
    <3> QED BY <3>1, <3>2 DEF Unread
  <2>5. CASE n \in W
    <3> DEFINE k == R(n)
    <3>1. /\ k \in 1 .. Len(rows) /\ R(n - 1) = k - 1
          /\ rows[k].index = n /\ rows[k].row = journal[n]
        BY <1>2, <2>5
    <3>2. ~Unread(s, journal[n])
        BY <1>2, <2>1, <2>5
    <3> HIDE DEF k
    <3>3. k - 1 \in 0 .. Len(rows) /\ k \in 0 .. Len(rows)
        BY <1>2, <3>1
    <3>4. f[k - 1] \in Work /\ f[k] = ReplayedOne(f[k - 1], rows[k], since)
        BY <1>3, <1>5, <3>1, <3>3
    <3>5. n \in 1 .. Len(journal) /\ ~Unread(since - Window, journal[n])
          /\ f[k - 1].tracker = g[n - 1] /\ WorkTold(g, since, f[k - 1])
        BY <1>a, <2>2, <2>3, <3>1, <3>2 DEF N
    <3>6. /\ f[k].tracker = Observed(g[n - 1], Replayable(journal[n], since))
          /\ WorkTold(g, since, f[k])
        BY <3>1, <3>4, <3>5, ReplayedOneTells
    <3>7. g[n] = SeedStep(s, Stripped(since)[n], g[n - 1])
        BY <2>2, <2>4, <3>2, <3>6 DEF SeedStep, k
    <3> QED BY <2>1, <3>3, <3>6, <3>7 DEF k
  <2>6. CASE n \notin W
    <3>1. R(n) = R(n - 1) /\ Unread(s, journal[n])
        BY <1>2, <2>1, <2>6
    <3>2. g[n] = SeedStep(s, Stripped(since)[n], g[n - 1])
        BY <2>2, <2>4, <3>1 DEF SeedStep
    <3> QED BY <2>1, <2>3, <3>1, <3>2
  <2> QED BY <2>5, <2>6
<1>8. \A n \in 0 .. N : n \in Goods
  <2> HIDE DEF Goods
  <2> QED BY <1>1, <1>6, <1>7, StepByStep
<1>9. g[0] = Closed
  <2>1. 0 \in 0 .. N
      BY <1>1
  <2> QED BY <1>2, <1>4, <1>5, <2>1
<1>10. Folds(g, Stripped(since), s, N)
  <2>1. \A m \in 1 .. N : m \in 0 .. N /\ m # 0
      BY <1>1
  <2> QED BY <1>8, <1>9, <2>1 DEF Folds
<1>11. WorkTold(g, since, f[Len(rows)])
  <2>1. N \in 0 .. N
      BY <1>1
  <2> QED BY <1>2, <1>8, <2>1
<1> QED BY <1>a, <1>3, <1>10, <1>11 DEF N
(***************************************************************************)
(* An archive that predates the fields, and the backfills of it.           *)
(***************************************************************************)

\* The envelopes are committed in the order of their time.
InOrder ==
    /\ \A i, j \in DOMAIN journal : i < j => journal[i].ts < journal[j].ts
    /\ \A i \in DOMAIN journal :
        journal[i].ts <= Horizon /\ (pass[Turn].at # "idle" => journal[i].ts < Horizon)
    /\ Horizon <= clock

\* The story the journal has open is the running engine's, or no seed would find it.
HasStory(t) == engine = "up" /\ t.open =>
    \/ tracker.open /\ tracker.id = t.id /\ tracker.last >= t.last
    \/ Horizon - t.last > Gap
    \/ Horizon - t.started > Window

\* What the fold of the journal tells of it, where L envelopes predate the fields.
ArchiveTold(f, L) ==
    /\ L \in 0 .. Len(journal) /\ filled \subseteq 1 .. L
    /\ Folds(f, journal, 0, Len(journal)) /\ IdsAreTold(journal, f, L)
    /\ tracker.open /\ Horizon - tracker.last <= Gap =>
            \A m \in 1 .. L : f[m].open => f[m].started <= tracker.id
    /\ HasStory(f[Len(journal)])

\* And of what a backfill is about to write.
StampIsNamed(f, L, stamp) ==
    /\ stamp.index \in 1 .. L /\ f[stamp.index].open
    /\ stamp.row.id = f[stamp.index].started
    /\ stamp.row.edge <=> stamp.row.id = journal[stamp.index].ts
JobTold(f, L) == \A k \in 1 .. Len(job.stamps) : StampIsNamed(f, L, job.stamps[k])

FitInv == ~blind /\ FitIn(journal) =>
    /\ PassesInTime
    /\ \E L, f : ArchiveTold(f, L) /\ JobTold(f, L)
    /\ job.clashes \intersect filled = {}

LEMMA OrderStays ==
    ASSUME OnePass, EpisodeTypeOK, EpisodeTypeOK', InOrder, DOMAIN journal' = DOMAIN journal,
           \A i \in DOMAIN journal : journal'[i].ts = journal[i].ts,
           Horizon' >= Horizon, Horizon' <= clock',
           pass'[Turn].at # "idle" /\ pass[Turn].at = "idle" => Horizon' > Horizon
    PROVE  InOrder'
<1> DEFINE h == Horizon
           k == Horizon'
<1>1. h \in Nat /\ k \in Nat /\ k >= h /\ journal \in Seq(Row)
    BY HorizonIsTyped, NextHorizonIsTyped
<1>2. ASSUME NEW i \in DOMAIN journal
      PROVE  journal[i].ts <= k /\ (pass'[Turn].at # "idle" => journal[i].ts < k)
  <2>1. journal[i].ts \in Nat
      BY <1>1, JournalRows
  <2>2. journal[i].ts <= h /\ (pass[Turn].at # "idle" => journal[i].ts < h)
      BY DEF InOrder
  <2>3. pass'[Turn].at # "idle" => pass[Turn].at # "idle" \/ k > h
      OBVIOUS
  <2> HIDE DEF h, k
  <2> QED BY <1>1, <2>1, <2>2, <2>3
<1>3. \A i, j \in DOMAIN journal : i < j => journal'[i].ts < journal'[j].ts
    BY DEF InOrder
<1> QED BY <1>2, <1>3 DEF InOrder

\* The horizon never goes back.
LEMMA HorizonGoesOn ==
    ASSUME OnePass, EpisodeTypeOK, EpisodeTypeOK', InOrder, [BNext]_bvars
    PROVE  /\ Horizon' >= Horizon /\ Horizon' <= clock'
           /\ pass'[Turn].at # "idle" /\ pass[Turn].at = "idle" => Horizon' > Horizon
<1>1. /\ Horizon \in Nat /\ clock \in Nat /\ clock' \in Nat /\ pass[Turn].row.ts \in Nat
      /\ Horizon <= clock
    BY HorizonIsTyped, NextHorizonIsTyped DEF InOrder
<1>2. ASSUME NEW p \in Pass, NEW v \in Verdict, Assemble(p, v)
      PROVE  Horizon = clock /\ Horizon' = clock' /\ clock' = clock + 1
  <2>1. pass[Turn].at = "idle" /\ clock' = clock + 1
      BY <1>2, TurnIsTheOne DEF Assemble
  <2>2. pass'[Turn] = [at |-> "assembled", started |-> 0, row |-> Unstamped(clock', v)]
      BY <1>2, TurnIsTheOne DEF Assemble, EpisodeTypeOK
  <2> QED BY <2>1, <2>2 DEF Horizon, Unstamped, Stamp
<1>3. ASSUME NEW p \in Pass, Observe(p)
      PROVE  Horizon' = Horizon /\ clock' = clock /\ pass[Turn].at # "idle"
  <2>1. pass[Turn].at = "assembled" /\ clock' = clock
      BY <1>3, TurnIsTheOne DEF Observe
  <2>2. pass'[Turn].at = "stamped" /\ pass'[Turn].row = Stamped(tracker, pass[Turn].row)
      BY <1>3, TurnIsTheOne DEF Observe, EpisodeTypeOK
  <2> QED BY <2>1, <2>2 DEF Horizon, Stamped, Stamp
<1>4. ASSUME NEW p \in Pass, Persist(p) \/ PersistFails(p)
      PROVE  pass'[Turn].at = "idle" /\ clock' = clock
    BY <1>4, TurnIsTheOne DEF Persist, PersistFails, EpisodeTypeOK, Idle
<1>5. ASSUME Crash PROVE pass'[Turn].at = "idle" /\ clock' = clock
    BY <1>5, TurnIsTheOne DEF Crash, Idle
<1>6. ASSUME pass' = pass, clock' >= clock PROVE Horizon' >= Horizon /\ Horizon' <= clock'
  <2>1. CASE pass[Turn].at = "idle"
      BY <1>1, <1>6, <2>1 DEF Horizon
  <2>2. CASE pass[Turn].at # "idle"
    <3>1. Horizon' = Horizon
        BY <1>6, <2>2 DEF Horizon
    <3> QED BY <1>1, <1>6, <3>1
  <2> QED BY <2>1, <2>2
<1>7. ASSUME Boot \/ BootUnseeded \/ Wait \/ BackfillStep \/ UNCHANGED bvars
      PROVE  pass' = pass /\ clock' >= clock
    BY <1>1, <1>7 DEF Boot, BootUnseeded, Wait, BackfillStep, BeginBackfill, WriteStamp, EndBackfill,
        vars, bvars
<1>8. ASSUME pass'[Turn].at = "idle", clock' = clock PROVE Horizon' >= Horizon /\ Horizon' <= clock'
  <2>1. Horizon' = clock
      BY <1>8 DEF Horizon
  <2> QED BY <1>1, <1>8, <2>1
<1>9. CASE \E p \in Pass : \E v \in Verdict : Assemble(p, v)
  <2>1. Horizon = clock /\ Horizon' = clock' /\ clock' = clock + 1
      BY <1>2, <1>9
  <2> QED BY <1>1, <2>1
<1>10. CASE \E p \in Pass : Observe(p)
  <2>1. Horizon' = Horizon /\ clock' = clock /\ pass[Turn].at # "idle"
      BY <1>3, <1>10
  <2> QED BY <1>1, <2>1
<1>11. CASE Crash \/ \E p \in Pass : Persist(p) \/ PersistFails(p)
    BY <1>4, <1>5, <1>8, <1>11
<1>12. CASE Boot \/ BootUnseeded \/ Wait \/ BackfillStep \/ UNCHANGED bvars
    BY <1>6, <1>7, <1>12
<1> QED BY <1>9, <1>10, <1>11, <1>12 DEF BNext, Next

LEMMA OrderKeeps ==
    ASSUME OnePass, EpisodeTypeOK, EpisodeTypeOK', StampsFit, InOrder, [BNext]_bvars
    PROVE  InOrder'
<1>1. /\ Horizon' >= Horizon /\ Horizon' <= clock'
      /\ pass'[Turn].at # "idle" /\ pass[Turn].at = "idle" => Horizon' > Horizon
    BY HorizonGoesOn
<1>2. CASE WriteStamp
  <2> DEFINE stamp == Head(job.stamps)
             at == stamp.index
  <2>1. stamp \in Fitting
      BY <1>2 DEF WriteStamp, StampsFit
  <2>2. at \in DOMAIN journal
      BY <2>1 DEF Fitting, Fits
  <2>3. journal' = [journal EXCEPT ![at] = Stamp(@.ts, @.verdict, stamp.row.id, stamp.row.edge)]
      BY <1>2 DEF WriteStamp
  <2> HIDE DEF stamp, at
  <2>4. DOMAIN journal' = DOMAIN journal /\ \A i \in DOMAIN journal : journal'[i].ts = journal[i].ts
      BY <2>2, <2>3 DEF Stamp
  <2> QED BY <1>1, <2>4, OrderStays
<1>3. CASE \E p \in Pass : Persist(p)
  <2> DEFINE row == pass[Turn].row
             J == journal'
             h == Horizon
  <2>1. /\ pass[Turn].at = "stamped" /\ J = Append(journal, row) /\ pass'[Turn].at = "idle"
        /\ clock' = clock
      BY <1>3, TurnIsTheOne DEF Persist, EpisodeTypeOK, Idle
  <2>2. /\ row \in Row /\ row.ts \in Nat /\ h = row.ts /\ journal \in Seq(Row) /\ h \in Nat
        /\ Horizon' = clock /\ h <= clock /\ clock \in Nat
      BY <2>1, HorizonIsTyped DEF Horizon, InOrder
  <2>3. PICK N \in Nat : N = Len(journal)
      BY <2>2, JournalRows
  <2>4. /\ DOMAIN journal = 1 .. N /\ DOMAIN J = 1 .. N + 1
        /\ J[N + 1] = row /\ \A k \in 1 .. N : J[k] = journal[k]
      BY <2>1, <2>2, <2>3, JournalRows, AppendProperties
  <2>5. \A k \in 1 .. N : journal[k].ts \in Nat /\ journal[k].ts < h
      BY <2>1, <2>2, <2>4, JournalRows DEF InOrder
  <2>6. \A i, j \in 1 .. N : i < j => journal[i].ts < journal[j].ts
      BY <2>4 DEF InOrder
  <2> HIDE DEF J, row, h
  <2>7. \A k \in 1 .. N + 1 : k \in 1 .. N \/ k = N + 1
      BY <2>3
  <2>8. ASSUME NEW i \in 1 .. N + 1, NEW j \in 1 .. N + 1, i < j PROVE J[i].ts < J[j].ts
    <3>1. i \in 1 .. N
        BY <2>3, <2>8
    <3>2. CASE j \in 1 .. N
        BY <2>4, <2>6, <2>8, <3>1, <3>2
    <3>3. CASE j = N + 1
        BY <2>2, <2>4, <2>5, <3>1, <3>3
    <3> QED BY <2>7, <3>2, <3>3
  <2>9. ASSUME NEW i \in 1 .. N + 1 PROVE J[i].ts <= clock
    <3>1. J[i].ts \in Nat /\ J[i].ts <= h
        BY <2>2, <2>4, <2>5, <2>7
    <3> DEFINE e == J[i].ts
    <3>2. e \in Nat /\ e <= h
        BY <3>1
    <3> HIDE DEF e
    <3>3. e <= clock
        BY <2>2, <3>2
    <3> QED BY <3>3 DEF e
  <2> QED BY <1>1, <2>1, <2>2, <2>4, <2>8, <2>9 DEF InOrder, J
<1>4. CASE ~WriteStamp /\ \A p \in Pass : ~Persist(p)
  <2>1. UNCHANGED journal
      BY <1>4 DEF BNext, BackfillStep, BeginBackfill, EndBackfill, bvars, vars, Next, Assemble,
                Observe, PersistFails, Crash, Boot, BootUnseeded, Wait
  <2> QED BY <1>1, <2>1, OrderStays
<1> QED BY <1>2, <1>3, <1>4

\* Whether stories fit is told by the rows an envelope comes after.
LEMMA FitComesBack ==
    ASSUME EpisodeTypeOK, EpisodeTypeOK', StampsFit, InOrder, InOrder', [BNext]_bvars, FitIn(journal')
    PROVE  FitIn(journal)
<1>1. /\ journal \in Seq(Row) /\ journal' \in Seq(Row) /\ Len(journal) \in Nat
      /\ DOMAIN journal = 1 .. Len(journal) /\ DOMAIN journal' = 1 .. Len(journal')
    BY DEF EpisodeTypeOK
<1>2. Ordered(journal) /\ Ordered(journal')
    BY <1>1 DEF Ordered, InOrder
<1>3. /\ Len(journal) <= Len(journal')
      /\ \A n \in 1 .. Len(journal) :
            journal'[n].ts = journal[n].ts /\ journal'[n].verdict = journal[n].verdict
  <2>1. CASE WriteStamp
    <3> DEFINE stamp == Head(job.stamps)
               at == stamp.index
    <3>1. stamp \in Fitting
        BY <2>1 DEF WriteStamp, StampsFit
    <3>2. at \in DOMAIN journal
        BY <3>1 DEF Fitting, Fits
    <3>3. journal' = [journal EXCEPT ![at] = Stamp(@.ts, @.verdict, stamp.row.id, stamp.row.edge)]
        BY <2>1 DEF WriteStamp
    <3> HIDE DEF stamp, at
    <3>4. \A n \in 1 .. Len(journal) :
            journal'[n].ts = journal[n].ts /\ journal'[n].verdict = journal[n].verdict
        BY <1>1, <3>2, <3>3 DEF Stamp
    <3>5. Len(journal') = Len(journal)
        BY <1>1, <3>3
    <3> QED BY <1>1, <3>4, <3>5
  <2>2. CASE \E p \in Pass : Persist(p)
    <3>1. PICK p \in Pass : journal' = Append(journal, pass[p].row)
        BY <2>2 DEF Persist
    <3>2. pass[p].row \in Row
      <4>1. pass[p] \in Envelope
          BY DEF EpisodeTypeOK
      <4> QED BY <4>1 DEF Envelope
    <3>3. Len(journal') = Len(journal) + 1 /\ \A n \in 1 .. Len(journal) : journal'[n] = journal[n]
        BY <1>1, <3>1, <3>2, AppendProperties
    <3> QED BY <1>1, <3>3
  <2>3. CASE ~WriteStamp /\ \A p \in Pass : ~Persist(p)
    <3>1. UNCHANGED journal
        BY <2>3 DEF BNext, BackfillStep, BeginBackfill, EndBackfill, bvars, vars, Next, Assemble,
                Observe, PersistFails, Crash, Boot, BootUnseeded, Wait
    <3> QED BY <1>1, <3>1
  <2> QED BY <2>1, <2>2, <2>3
<1> QED BY <1>2, <1>3, FitStays
LEMMA ArchiveIsDated ==
    ASSUME EpisodeTypeOK, PassesInTime, ~blind
    PROVE  /\ Ordered(journal) /\ Dated(journal) /\ InTime /\ journal \in Seq(Row)
           /\ Len(journal) \in Nat /\ DOMAIN journal = 1 .. Len(journal)
<1>1. InTime /\ IdsNeverReturn /\ journal \in Seq(Row)
    BY DEF PassesInTime, RowsInTime, EpisodeTypeOK
<1>2. Len(journal) \in Nat /\ DOMAIN journal = 1 .. Len(journal)
    BY <1>1, JournalRows
<1>3. Ordered(journal)
    BY <1>1, <1>2 DEF Ordered, InTime
<1>4. Dated(journal)
    BY <1>1, <1>2 DEF Dated, InTime, IdsNeverReturn, Before
<1> QED BY <1>1, <1>2, <1>3, <1>4

\* The steps that commit nothing.
LEMMA OnwardTells ==
    ASSUME OnePass, EpisodeTypeOK, EpisodeTypeOK', PassesInTime, ~blind, Onward, UNCHANGED filled,
           NEW f, NEW L, ArchiveTold(f, L)
    PROVE  ArchiveTold(f, L)'
<1> DEFINE N == Len(journal)
           t == f[N]
           h == Horizon
           k == Horizon'
           tr == tracker
           next == tracker'
<1>1. /\ Ordered(journal) /\ Dated(journal) /\ N \in Nat /\ journal \in Seq(Row)
      /\ DOMAIN journal = 1 .. N
    BY ArchiveIsDated
<1>2. /\ L \in 0 .. N /\ filled \subseteq 1 .. L /\ Folds(f, journal, 0, N) /\ IdsAreTold(journal, f, L)
      /\ HasStory(t)
      /\ tr.open /\ h - tr.last <= Gap => \A m \in 1 .. L : f[m].open => f[m].started <= tr.id
    BY DEF ArchiveTold
<1>3. /\ h \in Nat /\ k \in Nat /\ tr.last \in Nat /\ next.last \in Nat /\ Gap \in Nat /\ Window \in Nat
    BY HorizonIsTyped, NextHorizonIsTyped
<1>4. \A n \in 0 .. N : f[n] \in Tracker
  <2>1. 0 \in Int /\ N \in 0 .. N
      BY <1>1
  <2> QED BY <1>1, <1>2, <2>1, OpenStory
<1>5. t.last \in Nat /\ t.started \in Nat
  <2>1. t \in Tracker
      BY <1>1, <1>4
  <2> QED BY <2>1 DEF Tracker
<1>6. /\ k >= h /\ UNCHANGED journal
      /\ next.open /\ k - next.last <= Gap =>
            (tr.open /\ h - tr.last <= Gap /\ next.id = tr.id) \/ next.id = k
      /\ engine' = "up" => engine = "up" /\ (tr.open /\ k - tr.last <= Gap =>
                                next.open /\ next.id = tr.id /\ next.last >= tr.last)
    BY DEF Onward
<1>7. \A m \in 1 .. L : f[m].open => f[m].started \in Nat /\ f[m].started <= h
  <2> SUFFICES ASSUME NEW m \in 1 .. L, f[m].open PROVE f[m].started \in Nat /\ f[m].started <= h
      OBVIOUS
  <2>1. m \in 0 .. N /\ m \in 1 .. N
      BY <1>1, <1>2
  <2>2. f[m].started <= journal[m].ts /\ f[m].started \in Nat
      BY <1>1, <1>2, <2>1, FilledStory
  <2>3. journal[m].ts \in Nat /\ journal[m].ts <= h
      BY <1>1, <2>1, JournalRows DEF PassesInTime, RowsInTime
  <2> DEFINE a == f[m].started
             b == journal[m].ts
  <2>4. a <= b /\ b <= h /\ a \in Nat /\ b \in Nat
      BY <2>2, <2>3
  <2> HIDE DEF a, b, h
  <2>5. a \in Nat /\ a <= h
      BY <1>3, <2>4
  <2> QED BY <2>5 DEF a
<1>a. engine = "up" /\ t.open =>
            \/ tr.open /\ tr.id = t.id /\ tr.last >= t.last
            \/ h - t.last > Gap \/ h - t.started > Window
    BY <1>2 DEF HasStory
<1>8. next.open /\ k - next.last <= Gap => \A m \in 1 .. L : f[m].open => f[m].started <= next.id
  <2> SUFFICES ASSUME next.open, k - next.last <= Gap, NEW m \in 1 .. L, f[m].open
               PROVE  f[m].started <= next.id
      OBVIOUS
  <2> DEFINE a == f[m].started
  <2>1. a \in Nat /\ a <= h
      BY <1>7
  <2>2. tr.open /\ h - tr.last <= Gap => a <= tr.id
      BY <1>2
  <2> HIDE DEF a, h, k, tr, next
  <2>3. a <= next.id
      BY <1>3, <1>6, <2>1, <2>2
  <2> QED BY <2>3 DEF a
<1>9. engine' = "up" /\ t.open =>
            \/ next.open /\ next.id = t.id /\ next.last >= t.last
            \/ k - t.last > Gap \/ k - t.started > Window
  <2> HIDE DEF h, k, tr, next, t
  <2> SUFFICES ASSUME engine' = "up", t.open
               PROVE  \/ next.open /\ next.id = t.id /\ next.last >= t.last
                      \/ k - t.last > Gap \/ k - t.started > Window
      OBVIOUS
  <2>1. CASE h - t.last > Gap \/ h - t.started > Window
      BY <1>3, <1>5, <1>6, <2>1
  <2>2. CASE tr.open /\ tr.id = t.id /\ tr.last >= t.last
    <3>1. CASE k - tr.last <= Gap
        BY <1>3, <1>5, <1>6, <2>2, <3>1
    <3>2. CASE ~(k - tr.last <= Gap)
        BY <1>3, <1>5, <2>2, <3>2
    <3> QED BY <3>1, <3>2
  <2> QED BY <1>6, <1>a, <2>1, <2>2
<1>10. HasStory(t)'
    BY <1>6, <1>9 DEF HasStory
<1> QED BY <1>2, <1>6, <1>8, <1>10 DEF ArchiveTold

\* A pass is committed: the fold goes on, and the tracker has been told the same.
LEMMA CommittingTells ==
    ASSUME OnePass, NEW p \in Pass, EpisodeTypeOK, EpisodeTypeOK', PassesInTime, ~blind, Persist(p),
           UNCHANGED filled, FitIn(journal'), NEW f, NEW L, ArchiveTold(f, L)
    PROVE  \E g : ArchiveTold(g, L)' /\ \A n \in 0 .. Len(journal) : g[n] = f[n]
<1> DEFINE row == pass[Turn].row
           J == journal'
           h == Horizon
           tr == tracker
<1>1. /\ pass[Turn].at = "stamped" /\ engine = "up" /\ J = Append(journal, row)
      /\ UNCHANGED <<tracker, engine, clock, blind>> /\ Horizon' >= Horizon /\ PassesInTime'
      /\ row.id # 0 => tracker.open /\ Horizon - tracker.last <= Gap
    BY CommittingKeeps
<1>2. Ordered(journal) /\ Dated(journal) /\ journal \in Seq(Row)
    BY ArchiveIsDated
<1>3. /\ row \in Row /\ row.ts \in Nat /\ row.id \in Nat /\ tr.last \in Nat /\ tr.id \in Nat
      /\ h = row.ts /\ h \in Nat /\ Gap \in Nat /\ Window \in Nat
    BY <1>1, HorizonIsTyped, PassAtRest
<1>a. PICK N \in Nat : N = Len(journal)
    BY <1>2, JournalRows
<1>4. /\ L \in 0 .. N /\ filled \subseteq 1 .. L /\ Folds(f, journal, 0, N) /\ IdsAreTold(journal, f, L)
      /\ HasStory(f[N])
      /\ tr.open /\ h - tr.last <= Gap => \A m \in 1 .. L : f[m].open => f[m].started <= tr.id
    BY <1>a DEF ArchiveTold
<1>5. PICK g : Folds(g, Append(journal, row), 0, N + 1) /\ \A n \in 0 .. N : g[n] = f[n]
    BY <1>2, <1>3, <1>4, <1>a, FoldGoesOn
<1>6. /\ Ordered(J) /\ Len(J) = N + 1 /\ J[N + 1] = row /\ \A n \in 1 .. N : J[n] = journal[n]
  <2>1. J \in Seq(Row) /\ InTime'
      BY <1>1 DEF EpisodeTypeOK, PassesInTime, RowsInTime
  <2>2. DOMAIN J = 1 .. Len(J)
      BY <2>1
  <2>3. \A i, j \in DOMAIN J : i < j => J[i].ts < J[j].ts
      BY <2>1 DEF InTime, Before
  <2> HIDE DEF J
  <2>4. Ordered(J)
      BY <2>1, <2>2, <2>3 DEF Ordered
  <2> QED BY <1>1, <1>2, <1>3, <1>a, <2>4, AppendProperties DEF J
<1> DEFINE t == f[N]
           next == g[N + 1]
<1>7. Folds(g, J, 0, N + 1) /\ Folds(g, J, 0, N) /\ g[N] = t /\ next = SeedStep(0, row, t)
  <2>1. N + 1 \in 1 .. N + 1 /\ N + 1 - 1 = N /\ N \in 0 .. N /\ \A n \in 1 .. N : n \in 1 .. N + 1
      BY <1>a
  <2>2. Folds(g, J, 0, N + 1) /\ g[N] = t
      BY <1>1, <1>5, <2>1
  <2> HIDE DEF J, row, t, next
  <2>3. Folds(g, J, 0, N)
      BY <2>1, <2>2 DEF Folds
  <2>4. g[N + 1] = SeedStep(0, J[N + 1], g[N])
      BY <2>1, <2>2 DEF Folds
  <2> QED BY <1>6, <2>2, <2>3, <2>4 DEF next
<1>8. t \in Tracker /\ t.last \in Nat /\ t.started \in Nat
  <2>1. 0 \in Int /\ N \in 0 .. Len(journal) /\ N \in 0 .. N
      BY <1>a
  <2>2. t \in Tracker
      BY <1>2, <1>4, <2>1, OpenStory
  <2> QED BY <2>2 DEF Tracker
<1>9. Live(t, h) => h - t.started <= Window
  <2>1. N + 1 \in 1 .. Len(J) /\ N + 1 - 1 = N /\ 0 \in Int /\ J[N + 1].ts = h
      BY <1>3, <1>6, <1>a
  <2> QED BY <1>6, <1>7, <2>1, StoryFits
<1>10. /\ row.id = tr.id
       /\ row.verdict = "breaking" => tr.open /\ tr.last = h /\ tr.id >= 1
       /\ row.verdict \in Holding /\ tr.open => tr.last = h
    BY <1>1, <1>3 DEF PassesInTime, PassIsStamped, TrackerIsNewest, Holding
<1>11. t.open =>
            \/ tr.open /\ tr.id = t.id /\ tr.last >= t.last
            \/ h - t.last > Gap \/ h - t.started > Window
    BY <1>1, <1>4 DEF HasStory
<1> HIDE DEF row, J, h, tr, t, next
<1>12. Live(t, h) => tr.open /\ tr.id = t.id /\ tr.last >= t.last
    BY <1>3, <1>8, <1>9, <1>11 DEF Live
<1>13. /\ next \in Tracker
       /\ \/ Unread(0, row) /\ next = t
          \/ ~Unread(0, row) /\ row.verdict # "error" /\ Becomes(t, row, next)
  <2>1. 0 \in Int
      OBVIOUS
  <2> QED BY <1>3, <1>7, <1>8, <2>1, StepTells
<1>14. \/ next = t
       \/ row.verdict = "breaking" /\ next.open /\ next.last = h /\ (row.id # 0 => next.id = row.id)
       \/ ~next.open
       \/ /\ Live(t, h) /\ next.open /\ next.id = t.id
          /\ next.last = IF row.verdict \in Holding THEN h ELSE t.last
    BY <1>3, <1>13 DEF Becomes
<1>15. next.last \in Nat /\ next.started \in Nat
    BY <1>13 DEF Tracker
<1>16. Live(next, h) => tr.open /\ tr.id = next.id /\ tr.last >= next.last
  <2>1. CASE next = t
      BY <1>12, <2>1
  <2>2. CASE row.verdict = "breaking" /\ next.open /\ next.last = h /\ (row.id # 0 => next.id = row.id)
      BY <1>3, <1>10, <2>2
  <2>3. CASE ~next.open
      BY <2>3 DEF Live
  <2>4. CASE /\ Live(t, h) /\ next.open /\ next.id = t.id
             /\ next.last = IF row.verdict \in Holding THEN h ELSE t.last
      BY <1>3, <1>10, <1>12, <2>4
  <2> QED BY <1>14, <2>1, <2>2, <2>3, <2>4
<1>17. IdsAreTold(J, g, L)
  <2>1. Live(next, row.ts) => row.id = next.id
      BY <1>3, <1>10, <1>16
  <2>2. row.id # 0 => \A m \in 1 .. L : f[m].open => f[m].started <= row.id
      BY <1>1, <1>4, <1>10 DEF row, h, tr
  <2>3. IdsAreTold(Append(journal, row), g, L)
      BY <1>2, <1>3, <1>4, <1>5, <1>a, <2>1, <2>2, ServedIsTold DEF next
  <2> QED BY <1>1, <2>3 DEF J, row
<1>18. HasStory(next)'
  <2>1. next.open => (tr.open /\ tr.id = next.id /\ tr.last >= next.last) \/ h - next.last > Gap
      BY <1>3, <1>15, <1>16 DEF Live
  <2>2. h - next.last > Gap => Horizon' - next.last > Gap
      BY <1>1, <1>15, LaterIsLater DEF h
  <2>3. HasStory(next)' <=> (engine' = "up" /\ next.open =>
            \/ tracker'.open /\ tracker'.id = next.id /\ tracker'.last >= next.last
            \/ Horizon' - next.last > Gap
            \/ Horizon' - next.started > Window)
      BY DEF HasStory, next
  <2> QED BY <1>1, <2>1, <2>2, <2>3 DEF tr
<1>19. tracker'.open /\ Horizon' - tracker'.last <= Gap =>
            \A m \in 1 .. L : g[m].open => g[m].started <= tracker'.id
  <2>1. tracker' = tr
      BY <1>1 DEF tr
  <2>2. Horizon' - tr.last <= Gap => h - tr.last <= Gap
      BY <1>1, <1>3, LaterIsLater DEF h
  <2>3. \A m \in 1 .. L : g[m] = f[m]
    <3>1. \A m \in 1 .. L : m \in 0 .. N
        BY <1>4, <1>a
    <3> QED BY <1>5, <3>1
  <2> QED BY <1>4, <2>1, <2>2, <2>3
<1>20. ArchiveTold(g, L)'
  <2>1. L \in 0 .. N + 1 /\ Len(journal') = N + 1 /\ filled' \subseteq 1 .. L
      BY <1>4, <1>6, <1>a DEF J
  <2> QED BY <1>7, <1>17, <1>18, <1>19, <2>1 DEF ArchiveTold, J, next
<1> QED BY <1>5, <1>20, <1>a

\* A restart rejoins the story the journal has open.
LEMMA BootingTells ==
    ASSUME OnePass, EpisodeTypeOK, EpisodeTypeOK', PassesInTime, ~blind, Boot, UNCHANGED filled,
           NEW f, NEW L, ArchiveTold(f, L)
    PROVE  PassesInTime' /\ ArchiveTold(f, L)'
<1> DEFINE h == Horizon
           next == tracker'
<1>1. Ordered(journal) /\ Dated(journal) /\ journal \in Seq(Row) /\ DOMAIN journal = 1 .. Len(journal)
    BY ArchiveIsDated
<1>a. PICK N \in Nat : N = Len(journal)
    BY <1>1, JournalRows
<1>2. /\ h \in Nat /\ Gap \in Nat /\ Window \in Nat /\ h - Window \in Int
    BY HorizonIsTyped
<1>b. PICK w \in Int : w = h - Window
    BY <1>2
<1>3. /\ UNCHANGED <<journal, blind>> /\ Horizon' = Horizon /\ engine' = "up"
      /\ \E g : Replays(g, h - Window, N) /\ next = g[N]
      /\ (next.open /\ h - next.last <= Gap => \A i \in DOMAIN journal : journal[i].id <= next.id)
            => PassesInTime'
    BY <1>a, BootingReads
<1>4. PICK g : Folds(g, journal, w, N) /\ next = g[N]
    BY <1>3, <1>b DEF Replays, Folds
<1>5. /\ L \in 0 .. N /\ filled \subseteq 1 .. L /\ Folds(f, journal, 0, N) /\ IdsAreTold(journal, f, L)
    BY <1>a DEF ArchiveTold
<1>6. \A i \in 1 .. N : journal[i].ts <= h
    BY <1>1, <1>a DEF PassesInTime, RowsInTime
<1> HIDE DEF h, next
<1>7. Live(next, h) => /\ \A i \in 1 .. N : journal[i].id <= next.id
                       /\ \A m \in 1 .. L : f[m].open => f[m].started <= next.id
    BY <1>1, <1>2, <1>4, <1>5, <1>6, <1>a, RejoinedIsNewest
<1>8. PassesInTime'
    BY <1>1, <1>3, <1>7, <1>a DEF Live
<1> DEFINE t == f[N]
<1>9. N \in 0 .. N /\ 0 \in Int /\ N \in 0 .. Len(journal)
    BY <1>a
<1>10. FoundLate(f, g, w, N)
  <2>1. SameRules(journal, journal)
      BY DEF SameRules
  <2>2. \A n \in 0 .. N : FoundLate(f, g, w, n)
      BY <1>1, <1>4, <1>5, <1>9, <2>1, FoldsMerge
  <2> QED BY <1>9, <2>2
<1>11. ASSUME t.open, ~(h - t.started > Window)
       PROVE  next.open /\ next.id = t.id /\ next.last >= t.last
  <2>1. t \in Tracker /\ \E b : OpenedAt(f, journal, 0, b, N)
      BY <1>1, <1>5, <1>9, <1>11, OpenStory
  <2>2. t.started \in Nat /\ t.last \in Nat
      BY <2>1 DEF Tracker
  <2> DEFINE st == t.started
  <2>a. st \in Nat /\ ~(h - st > Window)
      BY <1>11, <2>2
  <2>3. t.started >= w
    <3> HIDE DEF st, t
    <3>1. st >= w
        BY <1>2, <1>b, <2>a
    <3> QED BY <3>1 DEF st
  <2>4. next.open /\ next.last = t.last /\ next.started = t.started
      BY <1>4, <1>10, <1>11, <2>3 DEF FoundLate
  <2>5. PICK b : OpenedAt(f, journal, 0, b, N)
      BY <2>1
  <2>6. PICK c : OpenedAt(g, journal, w, c, N)
      BY <1>1, <1>4, <1>9, <2>4, OpenStory
  <2>7. /\ b \in 1 .. N /\ t.started = journal[b].ts
        /\ t.id = IF journal[b].id # 0 THEN journal[b].id ELSE journal[b].ts
        /\ c \in 1 .. N /\ next.started = journal[c].ts
        /\ next.id = IF journal[c].id # 0 THEN journal[c].id ELSE journal[c].ts
      BY <1>4, <2>5, <2>6 DEF OpenedAt
  <2>8. b = c
    <3>1. (b < c => journal[b].ts < journal[c].ts) /\ (c < b => journal[c].ts < journal[b].ts)
        BY <1>1, <1>a, <2>7 DEF Ordered
    <3>2. ~(t.started < t.started)
        BY <2>2
    <3>3. b < c \/ b = c \/ c < b
        BY <1>a, <2>7
    <3> QED BY <2>4, <2>7, <3>1, <3>2, <3>3
  <2>9. t.last >= t.last
      BY <2>2
  <2> QED BY <2>4, <2>7, <2>8, <2>9
<1>12. HasStory(t)'
    BY <1>3, <1>11 DEF HasStory, h, next
<1>13. next.open /\ Horizon' - next.last <= Gap =>
            \A m \in 1 .. L : f[m].open => f[m].started <= next.id
    BY <1>3, <1>7 DEF Live, h
<1> QED BY <1>3, <1>5, <1>8, <1>12, <1>13, <1>a DEF ArchiveTold, next
\* An envelope is stamped with the start of the story the fold of the journal is in.
LEMMA WritingTells ==
    ASSUME OnePass, EpisodeTypeOK, EpisodeTypeOK', StampsFit, PassesInTime, ~blind, WriteStamp,
           NEW f, NEW L, ArchiveTold(f, L), JobTold(f, L)
    PROVE  PassesInTime' /\ ArchiveTold(f, L)' /\ JobTold(f, L)' /\ job'.clashes = {}
<1> DEFINE stamp == Head(job.stamps)
           at == stamp.index
           e == stamp.row.edge
           J == journal'
           h == Horizon
           tr == tracker
<1>1. /\ job.stamps # <<>> /\ job.stamps \in Seq(Fitting)
      /\ journal' = [journal EXCEPT ![at] = Stamp(@.ts, @.verdict, stamp.row.id, e)]
      /\ job'.stamps = Tail(job.stamps) /\ job'.clashes = {}
      /\ filled' = filled \union {at} /\ UNCHANGED <<tracker, engine, pass, clock, blind>>
    BY DEF WriteStamp, Job, StampsFit
<1>2. /\ Ordered(journal) /\ Dated(journal) /\ journal \in Seq(Row) /\ Len(journal) \in Nat
      /\ DOMAIN journal = 1 .. Len(journal)
    BY ArchiveIsDated
<1>a. PICK N \in Nat : N = Len(journal)
    BY <1>2
<1>3. /\ L \in 0 .. N /\ filled \subseteq 1 .. L /\ Folds(f, journal, 0, N) /\ IdsAreTold(journal, f, L)
      /\ HasStory(f[N])
      /\ tr.open /\ h - tr.last <= Gap => \A m \in 1 .. L : f[m].open => f[m].started <= tr.id
    BY <1>a DEF ArchiveTold
<1>4. stamp = job.stamps[1] /\ 1 \in 1 .. Len(job.stamps) /\ stamp \in Fitting
    BY <1>1
<1>5. /\ at \in 1 .. L /\ f[at].open /\ stamp.row.id = f[at].started
      /\ e <=> stamp.row.id = journal[at].ts
    BY <1>4 DEF JobTold, StampIsNamed
<1>6. e \in BOOLEAN
    BY <1>4 DEF Fitting, StampRecord, Row
<1>7. /\ J \in Seq(Row) /\ Len(J) = Len(journal)
      /\ \A n \in 1 .. Len(journal) : n # at => J[n] = journal[n]
      /\ J[at] = Stamp(journal[at].ts, journal[at].verdict, f[at].started, e)
  <2>1. J \in Seq(Row) /\ at \in DOMAIN journal
      BY <1>2, <1>3, <1>5, <1>a DEF EpisodeTypeOK
  <2>2. DOMAIN J = DOMAIN journal
      BY <1>1
  <2>3. Len(J) = Len(journal)
      BY <1>2, <2>1, <2>2
  <2> QED BY <1>1, <1>2, <1>5, <2>1, <2>3
<1> HIDE DEF J, e, at, h, tr
<1>8. /\ Ordered(J) /\ SameRules(journal, J) /\ Dated(J) /\ at \in 1 .. N
      /\ \A n \in 1 .. N : n # at => J[n] = journal[n]
      /\ J[at].id = f[at].started /\ J[at].edge = e
      /\ Folds(f, J, 0, Len(J)) /\ IdsAreTold(J, f, L)
  <2>1. L \in 0 .. Len(journal) /\ Folds(f, journal, 0, Len(journal))
      BY <1>3, <1>a
  <2>2. ASSUME NEW n \in 1 .. L, n = at, NEW d \in BOOLEAN, d = e, NEW more, more = J
        PROVE  /\ Ordered(more) /\ SameRules(journal, more) /\ Dated(more) /\ n \in 1 .. Len(journal)
               /\ \A m \in 1 .. Len(journal) : m # n => more[m] = journal[m]
               /\ more[n].id = f[n].started /\ more[n].edge = d
               /\ Folds(f, more, 0, Len(more)) /\ IdsAreTold(more, f, L)
    <3>1. f[n].open /\ (d <=> f[n].started = journal[n].ts)
        BY <1>5, <2>2
    <3>2. /\ more \in Seq(Row) /\ Len(more) = Len(journal)
          /\ \A m \in 1 .. Len(journal) : m # n => more[m] = journal[m]
          /\ more[n] = Stamp(journal[n].ts, journal[n].verdict, f[n].started, d)
        BY <1>7, <2>2
    <3> QED BY <1>2, <1>3, <2>1, <3>1, <3>2, FilledIsTold
  <2> QED BY <1>5, <1>6, <1>a, <2>2
<1>9. /\ Len(J) = N /\ DOMAIN J = 1 .. N /\ J \in Seq(Row)
      /\ \A n \in 1 .. N : J[n].ts = journal[n].ts /\ J[n].verdict = journal[n].verdict
    BY <1>8, <1>a DEF SameRules, Ordered
<1>10. Horizon' = h /\ tracker' = tr /\ pass' = pass /\ engine' = engine /\ clock' = clock
    BY <1>1 DEF Horizon, h, tr
<1>11. RowsInTime'
  <2>1. \A i, j \in 1 .. N : i < j => J[i].ts < J[j].ts
      BY <1>8, <1>9 DEF Ordered
  <2>2. \A i \in 1 .. N : J[i].ts >= 1 /\ J[i].id <= J[i].ts
      BY <1>8, <1>9 DEF Dated
  <2>3. InTime'
      BY <1>9, <2>1, <2>2 DEF InTime, J
  <2>4. RowsInTime
      BY DEF PassesInTime
  <2>5. ASSUME NEW i \in 1 .. N
        PROVE  /\ J[i].ts <= h /\ (pass[Turn].at # "idle" => J[i].ts < h)
               /\ J[i].edge => J[i].id = J[i].ts
    <3>1. /\ journal[i].ts <= h /\ (pass[Turn].at # "idle" => journal[i].ts < h)
          /\ journal[i].edge => journal[i].id = journal[i].ts
        BY <1>2, <1>a, <2>4 DEF RowsInTime, h
    <3>2. CASE i = at
        BY <1>5, <1>8, <1>9, <3>1, <3>2
    <3>3. CASE i # at
        BY <1>8, <1>9, <3>1, <3>3
    <3> QED BY <3>2, <3>3
  <2> QED BY <1>9, <1>10, <2>3, <2>4, <2>5 DEF RowsInTime, J, h, tr
<1>12. TrackerIsNewest'
  <2>1. TrackerIsNewest
      BY DEF PassesInTime
  <2>2. ASSUME tr.open, h - tr.last <= Gap, NEW i \in 1 .. N PROVE J[i].id <= tr.id
    <3>1. CASE i = at
        BY <1>3, <1>5, <1>8, <2>2, <3>1
    <3>2. CASE i # at
        BY <1>2, <1>8, <1>a, <2>1, <2>2, <3>2 DEF TrackerIsNewest, h, tr
    <3> QED BY <3>1, <3>2
  <2> QED BY <1>9, <1>10, <2>1, <2>2 DEF TrackerIsNewest, J, h, tr
<1>13. PassIsStamped'
    BY <1>10 DEF PassesInTime, PassIsStamped, tr
<1>14. IdsNeverReturn'
  <2>1. ASSUME NEW i \in 1 .. N, NEW j \in 1 .. N, J[i].ts < J[j].ts, J[i].id # 0, J[j].id # 0
        PROVE  J[i].id <= J[j].id
    <3>1. J[i].ts \in Nat /\ J[j].ts \in Nat
        BY <1>9, RowsAreOrdered, <1>8
    <3>2. i < j
      <4>1. ~(J[j].ts < J[i].ts) /\ i # j
          BY <2>1, <3>1
      <4> QED BY <1>8, <1>9, <4>1 DEF Ordered
    <3> QED BY <1>8, <1>9, <2>1, <3>2 DEF Dated
  <2> QED BY <1>9, <2>1 DEF IdsNeverReturn, Before, J
<1>15. PassesInTime'
    BY <1>11, <1>12, <1>13, <1>14 DEF PassesInTime
<1>16. ArchiveTold(f, L)'
  <2>1. filled' \subseteq 1 .. L
      BY <1>1, <1>3, <1>5 DEF at
  <2>2. HasStory(f[N])'
      BY <1>3, <1>10 DEF HasStory, h, tr
  <2>3. Len(journal') = N /\ Folds(f, journal', 0, N) /\ IdsAreTold(journal', f, L)
      BY <1>8, <1>9 DEF J
  <2>4. tracker'.open /\ Horizon' - tracker'.last <= Gap =>
            \A m \in 1 .. L : f[m].open => f[m].started <= tracker'.id
      BY <1>3, <1>10
  <2> QED BY <1>3, <2>1, <2>2, <2>3, <2>4 DEF ArchiveTold
<1>17. JobTold(f, L)'
  <2>1. ASSUME NEW k \in 1 .. Len(job'.stamps)
        PROVE  /\ job'.stamps[k].index \in 1 .. L /\ f[job'.stamps[k].index].open
               /\ job'.stamps[k].row.id = f[job'.stamps[k].index].started
               /\ job'.stamps[k].row.edge <=> job'.stamps[k].row.id = journal'[job'.stamps[k].index].ts
    <3> DEFINE s == job.stamps[k + 1]
               n == s.index
    <3>1. k + 1 \in 1 .. Len(job.stamps) /\ job'.stamps[k] = s
        BY <1>1, <2>1
    <3>2. /\ n \in 1 .. L /\ f[n].open /\ s.row.id = f[n].started
          /\ s.row.edge <=> s.row.id = journal[n].ts
        BY <3>1 DEF JobTold, StampIsNamed
    <3> HIDE DEF s, n
    <3>3. J[n].ts = journal[n].ts
        BY <1>3, <1>9, <3>2
    <3> QED BY <3>1, <3>2, <3>3 DEF n, J
  <2> QED BY <2>1 DEF JobTold, StampIsNamed
<1> QED BY <1>1, <1>15, <1>16, <1>17
\* A backfill replays the stories the archive tells of: it computes their starts, and
\* agrees with every envelope an earlier backfill filled in.
LEMMA BeginningTells ==
    ASSUME EpisodeInv, PassesInTime, ~blind, FitIn(journal), NEW since \in Nat, BeginBackfill(since),
           NEW f, NEW L, ArchiveTold(f, L)
    PROVE  JobTold(f, L)' /\ job'.clashes \intersect filled' = {}
<1>1. /\ Ordered(journal) /\ Dated(journal) /\ InTime /\ journal \in Seq(Row) /\ Len(journal) \in Nat
      /\ \A i \in DOMAIN journal : Carries(journal[i])
    BY ArchiveIsDated, JournalCarries DEF EpisodeInv
<1>2. /\ L \in 0 .. Len(journal) /\ filled \subseteq 1 .. L /\ Folds(f, journal, 0, Len(journal))
      /\ IdsAreTold(journal, f, L)
    BY DEF ArchiveTold
<1>3. PICK g : /\ Folds(g, Stripped(since), since - Window, Len(journal))
               /\ WorkTold(g, since, Replay(since))
    BY <1>1, ReplayIsFold
<1>4. PICK s \in Int : s = since - Window
    BY EpisodeAssumption
<1>5. PICK other : other = Stripped(since)
    OBVIOUS
<1>6. /\ Ordered(other) /\ SameRules(journal, other) /\ Folds(g, other, s, Len(journal))
      /\ \A n \in 1 .. Len(journal) : other[n] = Replayable(journal[n], since)
    BY <1>1, <1>3, <1>4, <1>5, StrippedIsOrdered
<1>7. ASSUME NEW n \in 1 .. Len(journal), ~Unread(s, journal[n]), journal[n].ts >= since
      PROVE  /\ n <= L /\ journal[n].id # 0 =>
                    /\ Computed(g, since, n).id = journal[n].id
                    /\ Computed(g, since, n).edge <=> journal[n].edge
             /\ journal[n].id = 0 /\ Computed(g, since, n).id # 0 =>
                    /\ n <= L /\ f[n].open /\ Computed(g, since, n).id = f[n].started
                    /\ Computed(g, since, n).edge <=> Computed(g, since, n).id = journal[n].ts
  <2>1. PICK computed : computed = Computed(g, since, n)
      OBVIOUS
  <2>2. computed = Stamped(g[n - 1], other[n])
      BY <1>6, <1>7, <2>1 DEF Computed
  <2>3. /\ n <= L /\ journal[n].id # 0 =>
                computed.id = journal[n].id /\ (computed.edge <=> journal[n].edge)
        /\ journal[n].id = 0 /\ computed.id # 0 =>
                /\ n <= L /\ f[n].open /\ computed.id = f[n].started
                /\ computed.edge <=> computed.id = journal[n].ts
    <3>1. since \in Nat /\ s = since - Window /\ n \in 1 .. Len(journal) /\ L \in 0 .. Len(journal)
        BY <1>2, <1>4, <1>7
    <3>2. /\ Ordered(journal) /\ Dated(journal) /\ FitIn(journal) /\ Folds(f, journal, 0, Len(journal))
          /\ IdsAreTold(journal, f, L) /\ Ordered(other) /\ SameRules(journal, other)
          /\ Folds(g, other, s, Len(journal)) /\ ~Unread(s, journal[n]) /\ journal[n].ts >= since
        BY <1>1, <1>2, <1>6, <1>7
    <3>3. \A m \in 1 .. Len(journal) : other[m] = Replayable(journal[m], since)
        BY <1>6
    <3> QED BY <2>2, <3>1, <3>2, <3>3, ReplayTells, SMTT(30)
  <2> QED BY <2>1, <2>3
<1> DEFINE done == Replay(since)
<1>8. ASSUME NEW n \in done.clashes, n \in filled PROVE FALSE
  <2>1. n \in 1 .. Len(journal) /\ ~Unread(s, journal[n]) /\ ~Agrees(journal[n], Computed(g, since, n), since)
      BY <1>3, <1>4, <1>8 DEF WorkTold, ClashTold
  <2>2. n <= L
    <3>1. n \in 1 .. L
        BY <1>2, <1>8
    <3> QED BY <1>2, <3>1
  <2>3. journal[n].ts \in Nat /\ journal[n].edge \in BOOLEAN
    <3>1. journal[n] \in Row
        BY <1>1, <2>1, JournalRows
    <3> QED BY <3>1 DEF Row
  <2>a. Computed(g, since, n).edge \in BOOLEAN
    <3> DEFINE tr == g[n - 1]
               row == Replayable(journal[n], since)
    <3>1. Stamped(tr, row).edge = Opens(tr, row)
        BY DEF Stamped, Stamp
    <3>2. Opens(tr, row) \in BOOLEAN
        BY DEF Opens
    <3> QED BY <3>1, <3>2 DEF Computed
  <2>4. journal[n].ts >= since /\ journal[n].id # 0
      BY <2>1, <2>3 DEF Agrees
  <2>5. Computed(g, since, n).id = journal[n].id /\ (Computed(g, since, n).edge <=> journal[n].edge)
      BY <1>7, <2>1, <2>2, <2>4
  <2> QED BY <2>1, <2>3, <2>5, <2>a DEF Agrees
<1>9. ASSUME NEW k \in 1 .. Len(done.stamps) PROVE StampIsNamed(f, L, done.stamps[k])
  <2> DEFINE stamp == done.stamps[k]
             n == stamp.index
  <2>1. /\ n \in 1 .. Len(journal) /\ ~Unread(s, journal[n]) /\ stamp.row = Computed(g, since, n)
        /\ Stamps(journal[n], stamp.row, since)
      BY <1>3, <1>4 DEF WorkTold, StampTold
  <2> HIDE DEF stamp, n
  <2>2. journal[n].ts >= since /\ journal[n].id = 0 /\ Computed(g, since, n).id # 0
      BY <2>1 DEF Stamps
  <2>3. /\ n <= L /\ f[n].open /\ Computed(g, since, n).id = f[n].started
        /\ Computed(g, since, n).edge <=> Computed(g, since, n).id = journal[n].ts
      BY <1>7, <2>1, <2>2
  <2>4. n \in 1 .. L
      BY <1>1, <1>2, <2>1, <2>3
  <2> QED BY <2>1, <2>3, <2>4 DEF StampIsNamed, n, stamp
<1> HIDE DEF done
<1>10. journal' = journal /\ filled' = filled
    BY DEF BeginBackfill, vars
<1>11. (job'.stamps = done.stamps /\ job'.clashes = {}) \/ (job'.stamps = <<>> /\ job'.clashes = done.clashes)
    BY DEF BeginBackfill, Job, done
<1>12. JobTold(f, L)'
  <2>1. ASSUME NEW k \in 1 .. Len(job'.stamps) PROVE StampIsNamed(f, L, done.stamps[k]) /\ job'.stamps[k] = done.stamps[k]
      BY <1>9, <1>11, <2>1
  <2> QED BY <1>10, <2>1 DEF JobTold, StampIsNamed
<1>13. job'.clashes \intersect filled' = {}
    BY <1>8, <1>10, <1>11
<1> QED BY <1>12, <1>13
LEMMA FitStart == ASSUME OnePass, BInit PROVE InOrder /\ FitInv
<1>1. /\ EpisodeTypeOK /\ PassesInTime /\ tracker = Closed /\ engine = "down"
      /\ job = NoJob /\ filled = {} /\ RowsInTime /\ InTime /\ journal \in Seq(Row)
      /\ \A i \in DOMAIN journal : journal[i].id = 0
    BY ArchiveIsInTime DEF PassesInTime, RowsInTime, EpisodeTypeOK
<1>2. InOrder
    BY <1>1 DEF InOrder, RowsInTime, InTime
<1>3. Len(journal) \in Nat /\ DOMAIN journal = 1 .. Len(journal)
    BY <1>1, JournalRows
<1>4. PICK f : Folds(f, journal, 0, Len(journal))
  <2>1. 0 \in Int
      OBVIOUS
  <2>2. PICK f : Replays(f, 0, Len(journal))
      BY <1>1, <2>1, ReplayExists
  <2> QED BY <2>2 DEF Replays, Folds
<1>5. IdsAreTold(journal, f, Len(journal))
    BY <1>1, <1>3 DEF IdsAreTold, FilledId
<1>6. ~tracker.open /\ job.stamps = <<>> /\ job.clashes = {}
    BY <1>1 DEF Closed, NoJob, Job
<1>7. ArchiveTold(f, Len(journal)) /\ JobTold(f, Len(journal))
    BY <1>1, <1>3, <1>4, <1>5, <1>6 DEF ArchiveTold, JobTold, HasStory
<1> QED BY <1>1, <1>2, <1>6, <1>7 DEF FitInv

\* What a job is about to write is told of the journal and the job alone.
LEMMA JobStays ==
    ASSUME UNCHANGED <<journal, job, filled>>, NEW f, NEW L, JobTold(f, L)
    PROVE  JobTold(f, L)'
BY DEF JobTold, StampIsNamed

LEMMA FitStep ==
    ASSUME OnePass, EpisodeInv, EpisodeInv', InOrder, InOrder', FitInv, [BNext]_bvars
    PROVE  FitInv'
<1>1. EpisodeTypeOK /\ EpisodeTypeOK' /\ StoriesAreKnown /\ StampsFit
    BY DEF EpisodeInv
<1> SUFFICES ASSUME ~blind', FitIn(journal')
             PROVE  /\ PassesInTime'
                    /\ \E L, f : ArchiveTold(f, L)' /\ JobTold(f, L)'
                    /\ job'.clashes \intersect filled' = {}
    BY DEF FitInv
<1>2. ~blind /\ FitIn(journal)
    BY <1>1, BlindStays, FitComesBack
<1>3. PassesInTime /\ job.clashes \intersect filled = {}
    BY <1>2 DEF FitInv
<1>4. PICK L, f : ArchiveTold(f, L) /\ JobTold(f, L)
    BY <1>2 DEF FitInv
<1>5. CASE WriteStamp
  <2>1. PassesInTime' /\ ArchiveTold(f, L)' /\ JobTold(f, L)' /\ job'.clashes = {}
      BY <1>1, <1>2, <1>3, <1>4, <1>5, WritingTells
  <2> QED BY <2>1
<1>6. ASSUME UNCHANGED <<vars, filled>> PROVE PassesInTime' /\ ArchiveTold(f, L)'
  <2>1. clock' >= clock /\ UNCHANGED <<journal, tracker, engine, pass, blind>>
      BY <1>1, <1>6 DEF vars, EpisodeTypeOK
  <2>2. PassesInTime' /\ Onward
      BY <1>1, <1>2, <1>3, <2>1, WaitingKeeps
  <2> QED BY <1>1, <1>2, <1>3, <1>4, <1>6, <2>2, OnwardTells
<1>7. CASE \E since \in Since : BeginBackfill(since)
  <2>1. PICK since \in Since : BeginBackfill(since)
      BY <1>7
  <2>2. since \in Nat /\ UNCHANGED <<vars, filled>>
      BY <2>1, BackfillAssumption DEF BeginBackfill
  <2>3. JobTold(f, L)' /\ job'.clashes \intersect filled' = {}
      BY <1>2, <1>3, <1>4, <2>1, <2>2, BeginningTells
  <2> QED BY <1>6, <2>2, <2>3
<1>8. CASE EndBackfill
  <2>1. UNCHANGED <<vars, filled>> /\ job'.stamps = <<>> /\ job'.clashes = {}
      BY <1>8 DEF EndBackfill, NoJob, Job
  <2>2. JobTold(f, L)'
      BY <2>1 DEF JobTold
  <2> QED BY <1>6, <2>1, <2>2
<1>9. CASE UNCHANGED bvars
  <2>1. UNCHANGED <<vars, filled>> /\ UNCHANGED <<journal, job, filled>>
      BY <1>9 DEF bvars, vars
  <2>2. JobTold(f, L)'
      BY <1>4, <2>1, JobStays
  <2> QED BY <1>3, <1>6, <2>1, <2>2
<1>10. ASSUME NEW p \in Pass, Persist(p), UNCHANGED <<job, filled>>
       PROVE  /\ PassesInTime'
              /\ \E M, g : ArchiveTold(g, M)' /\ JobTold(g, M)'
              /\ job'.clashes \intersect filled' = {}
  <2>1. PassesInTime' /\ journal' = Append(journal, pass[Turn].row) /\ pass[Turn].row \in Row
      BY <1>1, <1>2, <1>3, <1>10, CommittingKeeps, HorizonIsTyped
  <2>2. PICK g : ArchiveTold(g, L)' /\ \A n \in 0 .. Len(journal) : g[n] = f[n]
      BY <1>1, <1>2, <1>3, <1>4, <1>10, CommittingTells
  <2>3. L \in 0 .. Len(journal) /\ Len(journal) \in Nat /\ journal \in Seq(Row)
      BY <1>1, <1>4, JournalRows DEF ArchiveTold, EpisodeTypeOK
  <2>4. \A n \in 1 .. L : n \in 0 .. Len(journal) /\ n \in 1 .. Len(journal)
      BY <2>3
  <2>5. \A n \in 1 .. L : g[n] = f[n] /\ journal'[n] = journal[n]
      BY <2>1, <2>2, <2>3, <2>4, AppendProperties
  <2>6. JobTold(g, L)'
      BY <1>4, <1>10, <2>5 DEF JobTold, StampIsNamed
  <2> QED BY <1>3, <1>10, <2>1, <2>2, <2>6
<1>11. CASE ~WriteStamp /\ Next /\ UNCHANGED <<job, filled>>
  <2>1. CASE \E p \in Pass : Persist(p)
      BY <1>10, <1>11, <2>1
  <2>2. CASE Boot
    <3>1. PassesInTime' /\ ArchiveTold(f, L)'
        BY <1>1, <1>2, <1>3, <1>4, <1>11, <2>2, BootingTells
    <3>2. JobTold(f, L)'
        BY <1>4, <1>11, <2>2, JobStays DEF Boot
    <3> QED BY <1>3, <1>11, <3>1, <3>2
  <2>3. CASE ~Boot /\ \A p \in Pass : ~Persist(p)
    <3>1. PassesInTime' /\ Onward
        BY <1>1, <1>2, <1>3, <1>11, <2>3, OtherStepsKeep
    <3>2. ArchiveTold(f, L)'
        BY <1>1, <1>2, <1>3, <1>4, <1>11, <3>1, OnwardTells
    <3>3. JobTold(f, L)'
        BY <1>4, <1>11, <3>1, JobStays DEF Onward
    <3> QED BY <1>3, <1>11, <3>1, <3>2, <3>3
  <2> QED BY <2>1, <2>2, <2>3
<1> QED BY <1>5, <1>7, <1>8, <1>9, <1>11 DEF BNext, BackfillStep
\* StoriesFit, of the journal as rows.
LEMMA FitIsStoriesFit ==
    StoriesFit <=> FitIn(journal)
BY DEF StoriesFit, FitIn, Reaches, ReachesIn, Before

LEMMA OneStoryOneId ==
    ASSUME EpisodeTypeOK, PassesInTime, ~blind, FitIn(journal), NEW f, NEW L, ArchiveTold(f, L)
    PROVE  OneIdPerStory
<1>1. /\ Ordered(journal) /\ Dated(journal) /\ journal \in Seq(Row) /\ Len(journal) \in Nat
      /\ DOMAIN journal = 1 .. Len(journal)
    BY ArchiveIsDated
<1>2. /\ L \in 0 .. Len(journal) /\ Folds(f, journal, 0, Len(journal)) /\ IdsAreTold(journal, f, L)
    BY DEF ArchiveTold
<1> SUFFICES ASSUME NEW i \in DOMAIN journal, NEW j \in DOMAIN journal, Continues(i, j),
                    journal[i].id # 0, journal[j].id # 0
             PROVE  journal[i].id = journal[j].id
    BY DEF OneIdPerStory
<1>3. ReachesIn(journal, i, j) /\ Qualifies(journal[j])
    BY DEF Continues, Reaches, ReachesIn, Before
<1>4. Stretches(journal, i, j)
    BY <1>1, <1>3, ReachesStretches
<1>5. Live(f[i], journal[i].ts) /\ Live(f[j], journal[j].ts) /\ f[i].id = f[j].id
    BY <1>1, <1>2, <1>3, <1>4, StretchIsOneStory
<1>6. ASSUME NEW n \in 1 .. Len(journal), Live(f[n], journal[n].ts), journal[n].id # 0
      PROVE  journal[n].id = f[n].id
  <2>1. CASE n <= L
    <3>1. n \in 1 .. L /\ n \in 0 .. Len(journal)
        BY <1>1, <1>2, <2>1
    <3>2. f[n].open /\ journal[n].id = f[n].started
        BY <1>2, <1>6, <3>1 DEF IdsAreTold, FilledId
    <3>3. f[n].id = f[n].started
        BY <1>1, <1>2, <2>1, <3>1, <3>2, FilledStory
    <3> QED BY <3>2, <3>3
  <2>2. CASE ~(n <= L)
    <3>1. n \in L + 1 .. Len(journal)
        BY <1>1, <1>2, <2>2
    <3> QED BY <1>2, <1>6, <3>1 DEF IdsAreTold, ServedId
  <2> QED BY <2>1, <2>2
<1> QED BY <1>1, <1>5, <1>6

\* What the steps keep of one pipeline's stories.
OnePipeline == EpisodeInv /\ InOrder /\ StoryInv /\ FitInv

LEMMA OnePipelineHolds == ASSUME OnePass PROVE BSpec => []OnePipeline
<1>1. BInit => OnePipeline
    BY EpisodesStart, StoriesStart, FitStart DEF OnePipeline
<1>2. ASSUME OnePipeline, [BNext]_bvars PROVE OnePipeline'
  <2>1. EpisodeInv /\ InOrder /\ StoryInv /\ FitInv /\ EpisodeTypeOK /\ StampsFit
      BY <1>2 DEF OnePipeline, EpisodeInv
  <2>2. EpisodeInv' /\ EpisodeTypeOK'
    <3>1. EpisodeInv'
        BY <1>2, <2>1, EpisodesStep
    <3> QED BY <3>1 DEF EpisodeInv
  <2>3. InOrder'
      BY <1>2, <2>1, <2>2, OrderKeeps
  <2>4. StoryInv'
      BY <1>2, <2>1, <2>2, StoriesStep
  <2>5. FitInv'
      BY <1>2, <2>1, <2>2, <2>3, FitStep
  <2> QED BY <2>2, <2>3, <2>4, <2>5 DEF OnePipeline
<1> QED BY <1>1, <1>2, PTL DEF BSpec

\* A backfill never argues with an earlier one, interrupted or of another range
\* (episode_backfill.py run_backfill and the Disagreement of its self-check): what it
\* computes for an envelope an earlier one filled in is what that one computed, while the
\* engine goes on committing and restarting beside it.  Premises: passes do not overlap,
\* no engine started without its seed, and no story outlives the prologue of a range.
THEOREM BackfillsNeverArgue == ASSUME OnePass PROVE BSpec => []BackfillsAgree
<1>1. OnePipeline => BackfillsAgree
    BY FitIsStoriesFit DEF OnePipeline, FitInv, BackfillsAgree
<1> QED BY <1>1, OnePipelineHolds, PTL

\* A story keeps its identity (pipeline_assembler.py build_episode_tracker,
\* episode_backfill.py): an id never returns to an older story, and once the archive is
\* fully stamped, partly by passes and partly by backfills, no restart splits a story and
\* each has one opening edge.  Premises: passes do not overlap, no engine started without
\* its seed, and either every breaking envelope was stamped by the engine or no story
\* outlives the seed window.
THEOREM StoriesKeepTheirIdentity == ASSUME OnePass PROVE BSpec => []IdentityHolds
<1>1. OnePipeline => IdentityHolds
  <2> SUFFICES ASSUME OnePipeline, ~blind, Old = {} \/ StoriesFit
               PROVE  IdsNeverReturn /\ (FullyStamped => OneIdPerStory /\ OneEdgePerStory)
      BY DEF IdentityHolds
  <2>1. EpisodeTypeOK /\ StoryInv /\ FitInv
      BY DEF OnePipeline, EpisodeInv
  <2>2. CASE Old = {}
    <3>1. StoriesAreApart
        BY <2>1, <2>2 DEF StoryInv
    <3> QED BY <2>1, <3>1, EdgeIsFirst DEF StoriesAreApart, PassesInTime
  <2>3. CASE StoriesFit
    <3>1. FitIn(journal)
        BY <2>3, FitIsStoriesFit
    <3>2. PassesInTime /\ \E L, f : ArchiveTold(f, L) /\ JobTold(f, L)
        BY <2>1, <3>1 DEF FitInv
    <3>3. OneIdPerStory
        BY <2>1, <3>1, <3>2, OneStoryOneId
    <3> QED BY <2>1, <3>2, <3>3, EdgeIsFirst DEF PassesInTime
  <2> QED BY <2>2, <2>3
<1> QED BY <1>1, OnePipelineHolds, PTL
(***************************************************************************)
(* What reaches a prompt.                                                  *)
(***************************************************************************)

\* A strict total order of a finite set numbers it.
Orders(R, S) ==
    /\ \A i \in S : <<i, i>> \notin R
    /\ \A i, k \in S : i # k => <<i, k>> \in R \/ <<k, i>> \in R
    /\ \A i, j, k \in S : <<i, j>> \in R /\ <<j, k>> \in R => <<i, k>> \in R

Numbers(rank, R, S) ==
    /\ Cardinality(S) \in Nat /\ rank \in [S -> 1 .. Cardinality(S)]
    /\ \A i, k \in S : rank[i] < rank[k] <=> <<i, k>> \in R
    /\ \A i, k \in S : rank[i] = rank[k] => i = k
    /\ \A n \in 1 .. Cardinality(S) : \E i \in S : rank[i] = n

LEMMA RanksNumber ==
    ASSUME NEW S, IsFiniteSet(S), NEW R, Orders(R, S),
           NEW rank, rank = [i \in S |-> Cardinality({j \in S : <<j, i>> \in R}) + 1]
    PROVE  Numbers(rank, R, S)
<1> DEFINE N == Cardinality(S)
           Ahead(i) == {j \in S : <<j, i>> \in R}
<1>1. N \in Nat
    BY FS_CardinalityType
<1>2. \A i \in S : /\ IsFiniteSet(Ahead(i)) /\ Cardinality(Ahead(i)) \in Nat
                   /\ rank[i] = Cardinality(Ahead(i)) + 1
  <2> TAKE i \in S
  <2>1. Ahead(i) \in SUBSET S
      OBVIOUS
  <2>2. IsFiniteSet(Ahead(i))
      BY <2>1, FS_Subset
  <2>3. rank[i] = Cardinality(Ahead(i)) + 1
      OBVIOUS
  <2> HIDE DEF Ahead
  <2> QED BY <2>2, <2>3, FS_CardinalityType
<1>3. \A i \in S : /\ IsFiniteSet(Ahead(i) \union {i})
                   /\ Cardinality(Ahead(i) \union {i}) = rank[i]
  <2> TAKE i \in S
  <2>1. i \notin Ahead(i)
      BY DEF Orders
  <2> HIDE DEF Ahead
  <2> QED BY <1>2, <2>1, FS_AddElement
<1>4. \A i \in S : rank[i] \in 1 .. N
  <2> TAKE i \in S
  <2>1. Ahead(i) \union {i} \in SUBSET S
      OBVIOUS
  <2>2. Cardinality(Ahead(i) \union {i}) <= N
      BY <2>1, FS_Subset
  <2>3. Cardinality(Ahead(i)) \in Nat /\ rank[i] = Cardinality(Ahead(i)) + 1
      BY <1>2
  <2>4. rank[i] <= N
      BY <1>3, <2>2
  <2> HIDE DEF Ahead, N
  <2> QED BY <1>1, <2>3, <2>4
<1>5. ASSUME NEW i \in S, NEW k \in S, <<i, k>> \in R PROVE rank[i] < rank[k]
  <2>1. Ahead(i) \union {i} \in SUBSET Ahead(k)
      BY <1>5 DEF Orders
  <2>2. Cardinality(Ahead(i) \union {i}) <= Cardinality(Ahead(k))
      BY <1>2, <2>1, FS_Subset
  <2>3. /\ Cardinality(Ahead(k)) \in Nat /\ rank[k] = Cardinality(Ahead(k)) + 1
        /\ Cardinality(Ahead(i) \union {i}) = rank[i]
      BY <1>2, <1>3
  <2>4. rank[i] \in Nat
      BY <1>4
  <2> HIDE DEF Ahead
  <2> QED BY <2>2, <2>3, <2>4
<1>6. ASSUME NEW i \in S, NEW k \in S, rank[i] = rank[k] PROVE i = k
  <2>1. rank[i] \in Nat /\ rank[k] \in Nat
      BY <1>4
  <2>2. ~(rank[i] < rank[k]) /\ ~(rank[k] < rank[i])
      BY <1>6, <2>1
  <2>3. <<i, k>> \notin R /\ <<k, i>> \notin R
      BY <1>5, <2>2
  <2> QED BY <2>3 DEF Orders
<1>7. ASSUME NEW i \in S, NEW k \in S, rank[i] < rank[k] PROVE <<i, k>> \in R
  <2>1. rank[i] \in Nat /\ rank[k] \in Nat /\ i # k
    <3>1. rank[i] \in Nat /\ rank[k] \in Nat
        BY <1>4
    <3>2. ~(rank[i] < rank[i])
        BY <3>1
    <3> QED BY <1>7, <3>1, <3>2
  <2>2. ~(rank[k] < rank[i])
      BY <1>7, <2>1
  <2>3. <<k, i>> \notin R
      BY <1>5, <2>2
  <2> QED BY <2>1, <2>3 DEF Orders
<1>8. rank \in [S -> 1 .. N]
    BY <1>4
<1>9. \A n \in 1 .. N : \E i \in S : rank[i] = n
  <2>1. DOMAIN rank = S
      BY <1>8
  <2>2. rank \in Injection(S, 1 .. N)
      BY <1>6, <1>8, <2>1 DEF Injection, IsInjective
  <2>3. IsFiniteSet(1 .. N) /\ Cardinality(1 .. N) = N
    <3>1. 1 \in Int /\ N \in Int
        BY <1>1
    <3>2. IsFiniteSet(1 .. N) /\ Cardinality(1 .. N) = IF 1 > N THEN 0 ELSE N - 1 + 1
        BY <3>1, FS_Interval
    <3> QED BY <1>1, <3>2
  <2>4. rank \in Surjection(S, 1 .. N)
      BY <2>2, <2>3, FS_Injection
  <2> QED BY <2>4 DEF Surjection
<1> QED BY <1>1, <1>5, <1>6, <1>7, <1>8, <1>9 DEF Numbers

\* Sets of numbers, numbered upwards.
Upwards(S, at) ==
    /\ at \in [1 .. Cardinality(S) -> S]
    /\ \A n \in 1 .. Cardinality(S) : Cardinality({j \in S : j <= at[n]}) = n
    /\ \A n \in 1 .. Cardinality(S) : Cardinality({j \in S : j < at[n]}) = n - 1
    /\ \A m, n \in 1 .. Cardinality(S) : m < n => at[m] < at[n]
    /\ \A i \in S : \E n \in 1 .. Cardinality(S) : at[n] = i

LEMMA NumberedUpwards ==
    ASSUME NEW S, IsFiniteSet(S), S \subseteq Nat,
           NEW at, at = [n \in 1 .. Cardinality(S) |->
                           CHOOSE i \in S : Cardinality({j \in S : j <= i}) = n]
    PROVE  Cardinality(S) \in Nat /\ Upwards(S, at)
<1> DEFINE N == Cardinality(S)
           R == {p \in S \X S : p[1] < p[2]}
           rank == [i \in S |-> Cardinality({j \in S : <<j, i>> \in R}) + 1]
<1>1. \A i, k \in S : <<i, k>> \in R <=> i < k
    OBVIOUS
<1>2. \A i \in S : {j \in S : <<j, i>> \in R} = {j \in S : j < i}
    BY <1>1
<1> HIDE DEF R
<1>3. /\ N \in Nat /\ rank \in [S -> 1 .. N]
      /\ \A i, k \in S : rank[i] < rank[k] => i < k
      /\ \A i, k \in S : rank[i] = rank[k] => i = k
      /\ \A n \in 1 .. N : \E i \in S : rank[i] = n
  <2>1. Orders(R, S)
    <3>1. \A i \in S : i \in Nat
        OBVIOUS
    <3> QED BY <1>1, <3>1 DEF Orders
  <2>2. rank = [i \in S |-> Cardinality({j \in S : <<j, i>> \in R}) + 1]
      OBVIOUS
  <2> HIDE DEF rank
  <2>3. Numbers(rank, R, S)
      BY <2>1, <2>2, RanksNumber
  <2> QED BY <1>1, <2>3 DEF Numbers
<1>4. \A i \in S : /\ rank[i] = Cardinality({j \in S : j <= i})
                   /\ rank[i] - 1 = Cardinality({j \in S : j < i})
  <2> TAKE i \in S
  <2> DEFINE Less == {j \in S : j < i}
  <2>1. Less \in SUBSET S /\ i \notin Less /\ {j \in S : j <= i} = Less \union {i}
    <3>1. i \in Nat /\ \A j \in S : j \in Nat
        OBVIOUS
    <3>2. \A j \in S : j <= i <=> j < i \/ j = i
        BY <3>1
    <3>3. Less \subseteq S /\ i \notin Less
        BY <3>1
    <3>4. {j \in S : j <= i} \subseteq Less \union {i}
        BY <3>2
    <3>5. Less \union {i} \subseteq {j \in S : j <= i}
        BY <3>2
    <3> QED BY <3>3, <3>4, <3>5
  <2>2. rank[i] = Cardinality(Less) + 1
      BY <1>2
  <2> HIDE DEF Less, rank
  <2>3. IsFiniteSet(Less) /\ Cardinality(Less) \in Nat
      BY <2>1, FS_Subset, FS_CardinalityType
  <2>4. Cardinality(Less \union {i}) = Cardinality(Less) + 1
      BY <2>1, <2>3, FS_AddElement
  <2>5. rank[i] = Cardinality(Less \union {i}) /\ rank[i] - 1 = Cardinality(Less)
      BY <2>2, <2>3, <2>4
  <2> QED BY <2>1, <2>5 DEF Less
<1> HIDE DEF rank
<1>5. \A n \in 1 .. N : at[n] \in S /\ rank[at[n]] = n
  <2> TAKE n \in 1 .. N
  <2>1. at[n] = CHOOSE i \in S : Cardinality({j \in S : j <= i}) = n
      OBVIOUS
  <2>2. PICK i \in S : Cardinality({j \in S : j <= i}) = n
      BY <1>3, <1>4
  <2>3. at[n] \in S /\ Cardinality({j \in S : j <= at[n]}) = n
      BY <2>1, <2>2
  <2> QED BY <1>4, <2>3
<1>6. at \in [1 .. N -> S]
    BY <1>5
<1>7. \A n \in 1 .. N : /\ Cardinality({j \in S : j <= at[n]}) = n
                        /\ Cardinality({j \in S : j < at[n]}) = n - 1
  <2> TAKE n \in 1 .. N
  <2>1. at[n] \in S /\ rank[at[n]] = n
      BY <1>5
  <2> DEFINE i == at[n]
  <2>2. i \in S /\ rank[i] = n
      BY <2>1
  <2> HIDE DEF i
  <2>3. Cardinality({j \in S : j <= i}) = n /\ Cardinality({j \in S : j < i}) = n - 1
      BY <1>4, <2>2
  <2> QED BY <2>3 DEF i
<1>8. \A m, n \in 1 .. N : m < n => at[m] < at[n]
  <2> SUFFICES ASSUME NEW m \in 1 .. N, NEW n \in 1 .. N, m < n PROVE at[m] < at[n]
      OBVIOUS
  <2>1. at[m] \in S /\ at[n] \in S /\ rank[at[m]] < rank[at[n]]
      BY <1>5
  <2> QED BY <1>3, <2>1
<1>9. \A i \in S : \E n \in 1 .. N : at[n] = i
  <2> TAKE i \in S
  <2>1. rank[i] \in 1 .. N
      BY <1>3
  <2>2. at[rank[i]] = i
    <3> DEFINE k == at[rank[i]]
    <3>1. k \in S /\ rank[k] = rank[i]
        BY <1>5, <2>1
    <3> HIDE DEF k
    <3>2. k = i
        BY <1>3, <3>1
    <3> QED BY <3>2 DEF k
  <2> QED BY <2>1, <2>2
<1>10. Upwards(S, at)
    BY <1>6, <1>7, <1>8, <1>9 DEF Upwards
<1> QED BY <1>3, <1>10

(***************************************************************************)
(* The corpus and the candidates.                                          *)
(***************************************************************************)

\* The corpus is in the order of the distance.
RetrievalInv ==
    /\ corpus \in Seq(Kinds) /\ retrieval \in Retrievals
    /\ \A i, j \in DOMAIN corpus : i <= j => corpus[i].distance <= corpus[j].distance

LEMMA CorpusIsTyped ==
    ASSUME RetrievalInv
    PROVE  /\ Len(corpus) \in Nat /\ DOMAIN corpus = 1 .. Len(corpus) /\ IsFiniteSet(DOMAIN corpus)
           /\ \A i \in DOMAIN corpus :
                /\ corpus[i].distance \in 0 .. AnyDistance
                /\ corpus[i].age \in {Recent, Deep, OutOfWindow}
                /\ corpus[i].importance \in Int /\ corpus[i].weight \in Int
           /\ retrieval.topK \in Nat /\ retrieval.topK >= 1 /\ FetchK \in Nat /\ FetchK >= 1
           /\ retrieval.floor \in Nat /\ retrieval.deep \in Int
<1>1. Len(corpus) \in Nat /\ DOMAIN corpus = 1 .. Len(corpus)
    BY DEF RetrievalInv
<1>2. IsFiniteSet(1 .. Len(corpus))
    BY <1>1, FS_Interval
<1>3. ASSUME NEW i \in DOMAIN corpus
      PROVE  /\ corpus[i].distance \in 0 .. AnyDistance
             /\ corpus[i].age \in {Recent, Deep, OutOfWindow}
             /\ corpus[i].importance \in Int /\ corpus[i].weight \in Int
  <2>1. corpus[i] \in Kinds
      BY DEF RetrievalInv
  <2> QED BY <2>1, RetrievalAssumption
<1>4. /\ retrieval.topK \in Nat /\ retrieval.topK >= 1
      /\ retrieval.floor \in Nat /\ retrieval.deep \in Int
    BY RetrievalAssumption DEF RetrievalInv
<1>5. FetchK \in Nat /\ FetchK >= 1
  <2>1. Overfetch \in Nat /\ Overfetch >= 1
      BY RetrievalAssumption
  <2>2. \A a, b \in Nat : a >= 1 /\ b >= 1 => a * b \in Nat /\ a * b >= 1
      OBVIOUS
  <2> QED BY <1>4, <2>1, <2>2 DEF FetchK
<1> QED BY <1>1, <1>2, <1>3, <1>4, <1>5

\* A query keeps the nearest of what it admits, and fetches its full number where it leaves
\* something out.
LEMMA NearestAreFetched ==
    ASSUME RetrievalInv, NEW S, S \subseteq DOMAIN corpus
    PROVE  /\ Nearest(S) \subseteq S /\ IsFiniteSet(Nearest(S))
           /\ S # {} => \E i \in Nearest(S) : \A j \in S : i <= j
           /\ Nearest(S) # S => Cardinality(Nearest(S)) = FetchK
<1> DEFINE N == Cardinality(S)
           at == [n \in 1 .. N |-> CHOOSE i \in S : Cardinality({j \in S : j <= i}) = n]
<1>1. S \subseteq Nat /\ IsFiniteSet(S) /\ FetchK \in Nat /\ FetchK >= 1
  <2>1. S \in SUBSET DOMAIN corpus
      OBVIOUS
  <2>2. IsFiniteSet(S)
      BY <2>1, CorpusIsTyped, FS_Subset
  <2>3. S \subseteq Nat
      BY CorpusIsTyped
  <2> QED BY <2>2, <2>3, CorpusIsTyped
<1>2. N \in Nat /\ Upwards(S, at)
  <2>1. at = [n \in 1 .. Cardinality(S) |->
                CHOOSE i \in S : Cardinality({j \in S : j <= i}) = n]
      OBVIOUS
  <2> HIDE DEF at
  <2> QED BY <1>1, <2>1, NumberedUpwards
<1> HIDE DEF at, N
<1>3. /\ at \in [1 .. N -> S]
      /\ \A n \in 1 .. N : Cardinality({j \in S : j < at[n]}) = n - 1
      /\ \A m, n \in 1 .. N : m < n => at[m] < at[n]
      /\ \A i \in S : \E n \in 1 .. N : at[n] = i
    BY <1>2 DEF Upwards, N
<1>4. \A n \in 1 .. N : at[n] \in Nearest(S) <=> n <= FetchK
  <2> TAKE n \in 1 .. N
  <2>1. at[n] \in S /\ Cardinality({j \in S : j < at[n]}) = n - 1
      BY <1>3
  <2>2. at[n] \in Nearest(S) <=> n - 1 < FetchK
      BY <2>1 DEF Nearest
  <2> QED BY <1>1, <1>2, <2>2
<1>5. Nearest(S) \subseteq S /\ IsFiniteSet(Nearest(S))
  <2>1. Nearest(S) \in SUBSET S
      BY DEF Nearest
  <2> QED BY <1>1, <2>1, FS_Subset
<1>6. ASSUME S # {} PROVE \E i \in Nearest(S) : \A j \in S : i <= j
  <2>1. N >= 1
      BY <1>2, <1>3, <1>6
  <2>2. at[1] \in Nearest(S)
      BY <1>1, <1>2, <1>4, <2>1
  <2>3. \A j \in S : at[1] <= j
    <3> TAKE j \in S
    <3>1. PICK n \in 1 .. N : at[n] = j
        BY <1>3
    <3>2. n = 1 \/ 1 < n
        BY <1>2
    <3>3. at[1] \in Nat /\ at[n] \in Nat
        BY <1>1, <1>2, <1>3, <2>1
    <3>4. 1 < n => at[1] < at[n]
        BY <1>2, <1>3, <2>1
    <3> QED BY <3>1, <3>2, <3>3, <3>4
  <2> QED BY <2>2, <2>3
<1>7. ASSUME Nearest(S) # S PROVE Cardinality(Nearest(S)) = FetchK
  <2>1. PICK i \in S : i \notin Nearest(S)
      BY <1>5, <1>7
  <2>2. PICK n \in 1 .. N : at[n] = i
      BY <1>3
  <2>3. FetchK < N
      BY <1>1, <1>2, <1>4, <2>1, <2>2
  <2> DEFINE first == [m \in 1 .. FetchK |-> at[m]]
  <2>4. \A m \in 1 .. FetchK : m \in 1 .. N /\ at[m] \in Nearest(S) /\ at[m] \in Nat
      BY <1>1, <1>2, <1>3, <1>4, <2>3
  <2>5. first \in [1 .. FetchK -> Nearest(S)] /\ DOMAIN first = 1 .. FetchK
      BY <2>4
  <2>6. \A j \in Nearest(S) : \E m \in 1 .. FetchK : first[m] = j
    <3> TAKE j \in Nearest(S)
    <3>1. PICK m \in 1 .. N : at[m] = j
        BY <1>3, <1>5
    <3>2. m \in 1 .. FetchK
        BY <1>1, <1>2, <1>4, <3>1
    <3> QED BY <3>1, <3>2
  <2>7. \A m, k \in 1 .. FetchK : first[m] = first[k] => m = k
    <3> SUFFICES ASSUME NEW m \in 1 .. FetchK, NEW k \in 1 .. FetchK, at[m] = at[k] PROVE m = k
        OBVIOUS
    <3>1. /\ m \in 1 .. N /\ k \in 1 .. N /\ at[m] \in Nat /\ at[k] \in Nat
        BY <2>4
    <3>2. ~(m < k) /\ ~(k < m)
        BY <1>3, <3>1
    <3> QED BY <1>1, <3>2
  <2> HIDE DEF first
  <2>8. first \in Surjection(1 .. FetchK, Nearest(S)) /\ first \in Injection(1 .. FetchK, Nearest(S))
      BY <2>5, <2>6, <2>7 DEF Surjection, Injection, IsInjective
  <2>9. IsFiniteSet(1 .. FetchK) /\ Cardinality(1 .. FetchK) = FetchK
    <3>1. 1 \in Int /\ FetchK \in Int
        BY <1>1
    <3>2. IsFiniteSet(1 .. FetchK) /\ Cardinality(1 .. FetchK) = IF 1 > FetchK THEN 0 ELSE FetchK - 1 + 1
        BY <3>1, FS_Interval
    <3> QED BY <1>1, <3>2
  <2> QED BY <2>8, <2>9, FS_Surjection
<1> QED BY <1>5, <1>6, <1>7

LEMMA CandidatesAreHits ==
    ASSUME RetrievalInv
    PROVE  /\ IsFiniteSet(Candidates) /\ IsFiniteSet(Survivors) /\ Survivors \subseteq Candidates
           /\ InTheWindow \subseteq DOMAIN corpus /\ RecentHits \subseteq InTheWindow
           /\ \A hit \in Candidates :
                /\ hit \in [tier : {Recent, Deep}, article : DOMAIN corpus]
                /\ hit.tier = Recent => hit.article \in RecentHits
                /\ hit.tier = Deep => retrieval.deep # NoTier
           /\ \A i \in RecentHits : [tier |-> Recent, article |-> i] \in Candidates
<1>1. InTheWindow \subseteq DOMAIN corpus /\ InTheDeep \subseteq DOMAIN corpus
    BY DEF InTheWindow, InTheDeep
<1>2. /\ RecentHits \subseteq InTheWindow /\ IsFiniteSet(RecentHits)
      /\ Nearest(InTheDeep) \subseteq InTheDeep /\ IsFiniteSet(Nearest(InTheDeep))
    BY <1>1, NearestAreFetched DEF RecentHits
<1>3. DeepHits \subseteq DOMAIN corpus /\ IsFiniteSet(DeepHits)
  <2>1. IsFiniteSet({})
      BY FS_EmptySet
  <2> QED BY <1>1, <1>2, <2>1 DEF DeepHits
<1> DEFINE Hits == [tier : {Recent, Deep}, article : RecentHits \union DeepHits]
<1>4. IsFiniteSet(Candidates) /\ IsFiniteSet(Survivors) /\ Survivors \subseteq Candidates
  <2> DEFINE Pairs == {Recent, Deep} \X (RecentHits \union DeepHits)
             pairOf == [p \in Pairs |-> [tier |-> p[1], article |-> p[2]]]
  <2>1. IsFiniteSet({Recent, Deep}) /\ IsFiniteSet(RecentHits \union DeepHits)
    <3>1. IsFiniteSet({}) /\ IsFiniteSet({Recent}) /\ IsFiniteSet({Deep})
        BY FS_EmptySet, FS_Singleton
    <3>2. IsFiniteSet({Recent} \union {Deep}) /\ {Recent} \union {Deep} = {Recent, Deep}
        BY <3>1, FS_Union
    <3> QED BY <1>2, <1>3, <3>2, FS_Union
  <2>2. IsFiniteSet(Pairs)
      BY <2>1, FS_Product
  <2>3. pairOf \in Surjection(Pairs, Hits)
    <3>1. pairOf \in [Pairs -> Hits]
        OBVIOUS
    <3>2. ASSUME NEW hit \in Hits PROVE \E p \in Pairs : pairOf[p] = hit
      <4>1. <<hit.tier, hit.article>> \in Pairs
          OBVIOUS
      <4>2. pairOf[<<hit.tier, hit.article>>] = hit
          BY <4>1
      <4> QED BY <4>1, <4>2
    <3> HIDE DEF pairOf, Pairs, Hits
    <3> QED BY <3>1, <3>2 DEF Surjection
  <2>4. IsFiniteSet(Hits)
    <3> HIDE DEF pairOf, Pairs, Hits
    <3> QED BY <2>2, <2>3, FS_Surjection
  <2>5. Candidates \in SUBSET Hits
      BY DEF Candidates
  <2>6. IsFiniteSet(Candidates)
    <3> HIDE DEF Hits
    <3> QED BY <2>4, <2>5, FS_Subset
  <2>7. Survivors \in SUBSET Candidates
      BY DEF Survivors
  <2> QED BY <2>6, <2>7, FS_Subset
<1>5. ASSUME NEW hit \in Candidates
      PROVE  /\ hit \in [tier : {Recent, Deep}, article : DOMAIN corpus]
             /\ hit.tier = Recent => hit.article \in RecentHits
             /\ hit.tier = Deep => retrieval.deep # NoTier
  <2>1. CASE hit \in [tier : {Recent}, article : RecentHits]
      BY <1>1, <1>2, <2>1 DEF Recent, Deep
  <2>2. CASE hit \in [tier : {Deep}, article : DeepHits]
      BY <1>3, <2>2 DEF Recent, Deep, DeepHits
  <2> QED BY <2>1, <2>2 DEF Candidates
<1>6. \A i \in RecentHits : [tier |-> Recent, article |-> i] \in Candidates
    BY DEF Candidates
<1> QED BY <1>1, <1>2, <1>4, <1>5, <1>6

Keys == [1 .. 5 -> Int]

LEMMA BelowOrders ==
    /\ \A k \in Keys : ~Below(k, k)
    /\ \A k, l \in Keys : Below(k, l) => k[1] <= l[1]
    /\ \A k, l \in Keys : k # l => Below(k, l) \/ Below(l, k)
    /\ \A k, l, m \in Keys : Below(k, l) /\ Below(l, m) => Below(k, m)
<1>1. ASSUME NEW k \in Keys PROVE ~Below(k, k)
    BY DEF Keys, Below
<1>2. ASSUME NEW k \in Keys, NEW l \in Keys, Below(k, l) PROVE k[1] <= l[1]
  <2>1. PICK n \in 1 .. 5 : k[n] < l[n] /\ \A m \in 1 .. (n - 1) : k[m] = l[m]
      BY <1>2 DEF Below
  <2>2. CASE n = 1
      BY <2>1, <2>2 DEF Keys
  <2>3. CASE n # 1
    <3>1. 1 \in 1 .. (n - 1)
        BY <2>3
    <3> QED BY <2>1, <3>1 DEF Keys
  <2> QED BY <2>2, <2>3
<1>3. ASSUME NEW k \in Keys, NEW l \in Keys, k # l PROVE Below(k, l) \/ Below(l, k)
  <2> DEFINE Same(n) == \A m \in 1 .. (n - 1) : k[m] = l[m]
  <2>1. \A n \in 1 .. 5 : k[n] \in Int /\ l[n] \in Int
      BY DEF Keys
  <2>2. ASSUME NEW n \in 1 .. 5, Same(n), k[n] # l[n] PROVE Below(k, l) \/ Below(l, k)
    <3>1. k[n] < l[n] \/ l[n] < k[n]
        BY <2>1, <2>2
    <3> QED BY <2>2, <3>1 DEF Below
  <2>3. \A n \in 1 .. 5 : Same(n) /\ k[n] = l[n] => Same(n + 1)
      OBVIOUS
  <2>4. Same(1)
      OBVIOUS
  <2>5. ~Same(6)
    <3>1. \E n \in 1 .. 5 : k[n] # l[n]
        BY <1>3 DEF Keys
    <3> QED BY <3>1
  <2>6. 1 \in 1 .. 5 /\ 2 \in 1 .. 5 /\ 3 \in 1 .. 5 /\ 4 \in 1 .. 5 /\ 5 \in 1 .. 5
      OBVIOUS
  <2>7. \E n \in 1 .. 5 : Same(n) /\ k[n] # l[n]
    <3>1. ASSUME \A n \in 1 .. 5 : Same(n) => k[n] = l[n] PROVE FALSE
      <4>1. Same(1 + 1) /\ Same(2)
          BY <2>3, <2>4, <2>6, <3>1
      <4>2. Same(2 + 1) /\ Same(3)
          BY <2>3, <2>6, <3>1, <4>1
      <4>3. Same(3 + 1) /\ Same(4)
          BY <2>3, <2>6, <3>1, <4>2
      <4>4. Same(4 + 1) /\ Same(5)
          BY <2>3, <2>6, <3>1, <4>3
      <4>5. Same(5 + 1) /\ Same(6)
          BY <2>3, <2>6, <3>1, <4>4
      <4> QED BY <2>5, <4>5
    <3> QED BY <3>1
  <2> QED BY <2>2, <2>7
<1>4. ASSUME NEW k \in Keys, NEW l \in Keys, NEW m \in Keys, Below(k, l), Below(l, m)
      PROVE  Below(k, m)
  <2>1. PICK a \in 1 .. 5 : k[a] < l[a] /\ \A i \in 1 .. (a - 1) : k[i] = l[i]
      BY <1>4 DEF Below
  <2>2. PICK b \in 1 .. 5 : l[b] < m[b] /\ \A i \in 1 .. (b - 1) : l[i] = m[i]
      BY <1>4 DEF Below
  <2> DEFINE c == IF a < b THEN a ELSE b
  <2>3. c \in 1 .. 5 /\ \A i \in 1 .. (c - 1) : i \in 1 .. (a - 1) /\ i \in 1 .. (b - 1)
      OBVIOUS
  <2>4. k[c] < m[c]
    <3>1. k[a] \in Int /\ l[a] \in Int /\ m[a] \in Int /\ k[b] \in Int /\ l[b] \in Int /\ m[b] \in Int
        BY DEF Keys
    <3>2. CASE a < b
      <4>1. a \in 1 .. (b - 1) /\ c = a
          BY <3>2
      <4> QED BY <2>1, <2>2, <3>1, <4>1
    <3>3. CASE b < a
      <4>1. b \in 1 .. (a - 1) /\ c = b
          BY <3>3
      <4> QED BY <2>1, <2>2, <3>1, <4>1
    <3>4. CASE a = b
      <4>1. c = a /\ c = b
          BY <3>4
      <4> QED BY <2>1, <2>2, <3>1, <3>4, <4>1
    <3> QED BY <3>2, <3>3, <3>4
  <2>5. \A i \in 1 .. (c - 1) : k[i] = m[i]
      BY <2>1, <2>2, <2>3
  <2> HIDE DEF c
  <2> QED BY <2>3, <2>4, <2>5 DEF Below
<1> QED BY <1>1, <1>2, <1>3, <1>4

\* The ranking lists every survivor once, and nothing of the deep window before anything
\* recent.
RanksOnce(ranked, N) ==
    /\ N \in Nat /\ ranked \in [1 .. N -> Survivors]
    /\ \A hit \in Survivors : \E n \in 1 .. N : ranked[n] = hit
    /\ \A m, n \in 1 .. N : m < n => ranked[m] # ranked[n]
    /\ \A m, n \in 1 .. N : m < n => ranked[m].tier <= ranked[n].tier

LEMMA KeysTellApart ==
    ASSUME RetrievalInv
    PROVE  /\ \A hit \in Survivors : RankKey(hit) \in Keys /\ RankKey(hit)[1] = hit.tier
           /\ \A g, h \in Survivors : RankKey(g) = RankKey(h) => g = h
<1>1. \A hit \in Survivors : hit \in [tier : {Recent, Deep}, article : DOMAIN corpus]
    BY CandidatesAreHits
<1>2. \A i \in DOMAIN corpus : /\ i \in Int /\ Rounded(corpus[i].distance) \in Int
                               /\ -corpus[i].weight \in Int /\ -corpus[i].importance \in Int
  <2> TAKE i \in DOMAIN corpus
  <2>1. /\ i \in Int /\ corpus[i].distance \in Int
        /\ corpus[i].weight \in Int /\ corpus[i].importance \in Int
      BY CorpusIsTyped
  <2> QED BY <2>1 DEF Rounded
<1>3. ASSUME NEW hit \in Survivors PROVE RankKey(hit) \in Keys /\ RankKey(hit)[1] = hit.tier
  <2>1. hit.tier \in Int /\ hit.article \in DOMAIN corpus
      BY <1>1 DEF Recent, Deep
  <2> DEFINE b == Rounded(corpus[hit.article].distance)
             c == -corpus[hit.article].weight
             d == -corpus[hit.article].importance
  <2>2. hit.article \in Int /\ b \in Int /\ c \in Int /\ d \in Int
      BY <1>2, <2>1
  <2>3. RankKey(hit) = <<hit.tier, b, c, d, hit.article>>
      BY DEF RankKey
  <2> HIDE DEF b, c, d
  <2> QED BY <2>1, <2>2, <2>3 DEF Keys
<1>4. ASSUME NEW g \in Survivors, NEW h \in Survivors, RankKey(g) = RankKey(h) PROVE g = h
  <2>1. g.tier = h.tier /\ g.article = h.article
    <3>1. /\ RankKey(g)[1] = g.tier /\ RankKey(g)[5] = g.article
          /\ RankKey(h)[1] = h.tier /\ RankKey(h)[5] = h.article
        BY DEF RankKey
    <3> QED BY <1>4, <3>1
  <2> QED BY <1>1, <2>1
<1> QED BY <1>3, <1>4

LEMMA RankedOnce ==
    ASSUME RetrievalInv
    PROVE  RanksOnce(Ranked, Cardinality(Survivors))
<1> DEFINE N == Cardinality(Survivors)
           R == {p \in Survivors \X Survivors : Below(RankKey(p[1]), RankKey(p[2]))}
           rank == [hit \in Survivors |-> Cardinality({h \in Survivors : <<h, hit>> \in R}) + 1]
<1>1. \A g, h \in Survivors : <<g, h>> \in R <=> Below(RankKey(g), RankKey(h))
    OBVIOUS
<1>2. \A hit \in Survivors :
        {h \in Survivors : <<h, hit>> \in R} = {h \in Survivors : Below(RankKey(h), RankKey(hit))}
    BY <1>1
<1> HIDE DEF R
<1>3. Orders(R, Survivors)
  <2>1. ASSUME NEW g \in Survivors PROVE <<g, g>> \notin R
      BY <1>1, BelowOrders, KeysTellApart
  <2>2. ASSUME NEW g \in Survivors, NEW h \in Survivors, g # h
        PROVE  <<g, h>> \in R \/ <<h, g>> \in R
    <3>1. RankKey(g) \in Keys /\ RankKey(h) \in Keys /\ RankKey(g) # RankKey(h)
        BY <2>2, KeysTellApart
    <3>2. Below(RankKey(g), RankKey(h)) \/ Below(RankKey(h), RankKey(g))
        BY <3>1, BelowOrders
    <3> QED BY <1>1, <3>2
  <2>3. ASSUME NEW g \in Survivors, NEW h \in Survivors, NEW f \in Survivors,
               <<g, h>> \in R, <<h, f>> \in R
        PROVE  <<g, f>> \in R
    <3>1. RankKey(g) \in Keys /\ RankKey(h) \in Keys /\ RankKey(f) \in Keys
        BY KeysTellApart
    <3>2. Below(RankKey(g), RankKey(h)) /\ Below(RankKey(h), RankKey(f))
        BY <1>1, <2>3
    <3>3. Below(RankKey(g), RankKey(f))
        BY <3>1, <3>2, BelowOrders
    <3> QED BY <1>1, <3>3
  <2> QED BY <2>1, <2>2, <2>3 DEF Orders
<1>4. Numbers(rank, R, Survivors)
  <2>1. rank = [hit \in Survivors |-> Cardinality({h \in Survivors : <<h, hit>> \in R}) + 1]
      OBVIOUS
  <2>2. IsFiniteSet(Survivors)
      BY CandidatesAreHits
  <2> HIDE DEF rank
  <2> QED BY <1>3, <2>1, <2>2, RanksNumber
<1>5. \A hit \in Survivors : RankOf(hit) = rank[hit]
    BY <1>2 DEF RankOf
<1> HIDE DEF rank
<1>6. /\ N \in Nat /\ rank \in [Survivors -> 1 .. N]
      /\ \A g, h \in Survivors : rank[g] < rank[h] => <<g, h>> \in R
      /\ \A g, h \in Survivors : rank[g] = rank[h] => g = h
      /\ \A n \in 1 .. N : \E hit \in Survivors : rank[hit] = n
    BY <1>4 DEF Numbers
<1>7. \A n \in 1 .. N : Ranked[n] \in Survivors /\ rank[Ranked[n]] = n
  <2> TAKE n \in 1 .. N
  <2>1. Ranked[n] = CHOOSE hit \in Survivors : RankOf(hit) = n
      BY DEF Ranked
  <2>2. \E hit \in Survivors : RankOf(hit) = n
      BY <1>5, <1>6
  <2>3. Ranked[n] \in Survivors /\ RankOf(Ranked[n]) = n
      BY <2>1, <2>2
  <2> QED BY <1>5, <2>3
<1>8. Ranked \in [1 .. N -> Survivors]
  <2>1. Ranked = [n \in 1 .. N |-> Ranked[n]]
      BY DEF Ranked
  <2> QED BY <1>7, <2>1
<1>9. \A hit \in Survivors : \E n \in 1 .. N : Ranked[n] = hit
  <2> TAKE hit \in Survivors
  <2>1. rank[hit] \in 1 .. N
      BY <1>6
  <2>2. Ranked[rank[hit]] = hit
      BY <1>6, <1>7, <2>1
  <2> QED BY <2>1, <2>2
<1>10. ASSUME NEW m \in 1 .. N, NEW n \in 1 .. N, m < n
       PROVE  Ranked[m] # Ranked[n] /\ Ranked[m].tier <= Ranked[n].tier
  <2>1. /\ Ranked[m] \in Survivors /\ Ranked[n] \in Survivors
        /\ rank[Ranked[m]] = m /\ rank[Ranked[n]] = n
      BY <1>7
  <2>2. m # n
      BY <1>6, <1>10
  <2>3. Below(RankKey(Ranked[m]), RankKey(Ranked[n]))
    <3>1. rank[Ranked[m]] < rank[Ranked[n]]
        BY <1>10, <2>1
    <3>2. <<Ranked[m], Ranked[n]>> \in R
        BY <1>6, <2>1, <3>1
    <3> QED BY <1>1, <2>1, <3>2
  <2>4. RankKey(Ranked[m])[1] <= RankKey(Ranked[n])[1]
    <3>1. RankKey(Ranked[m]) \in Keys /\ RankKey(Ranked[n]) \in Keys
        BY <2>1, KeysTellApart
    <3> QED BY <2>3, <3>1, BelowOrders
  <2>5. Ranked[m].tier <= Ranked[n].tier
      BY <2>1, <2>4, KeysTellApart
  <2> QED BY <2>1, <2>2, <2>5
<1> HIDE DEF N
<1>11. RanksOnce(Ranked, N)
    BY <1>6, <1>8, <1>9, <1>10 DEF RanksOnce
<1> QED BY <1>11 DEF N

\* What the squeeze has made of the first n of the ranking.
Contexts == [kept : Seq(Survivors), tierDuplicates : Nat, nearDuplicates : Nat]

Tells(kept, hit) == \E m \in DOMAIN kept :
    /\ kept[m].tier <= hit.tier
    /\ hit.article = kept[m].article \/ Near(hit.article, kept[m].article)

RecentIsTold(kept) == \A hit \in Survivors : hit.tier = Recent => Tells(kept, hit)

SqueezedTo(n, s) ==
    /\ s \in Contexts /\ Len(s.kept) <= retrieval.topK
    /\ \A m \in DOMAIN s.kept : \E i \in 1 .. n : s.kept[m] = Ranked[i]
    /\ \A m, k \in DOMAIN s.kept : m # k =>
         /\ s.kept[m].article # s.kept[k].article
         /\ ~Near(s.kept[m].article, s.kept[k].article)
    /\ Len(s.kept) # retrieval.topK => \A i \in 1 .. n : Tells(s.kept, Ranked[i])
    /\ Len(s.kept) + s.tierDuplicates + s.nearDuplicates <= n
    /\ Len(s.kept) # retrieval.topK => Len(s.kept) + s.tierDuplicates + s.nearDuplicates = n
    /\ n # 0 => s.kept # <<>>
    /\ (\E m \in DOMAIN s.kept : s.kept[m].tier = Deep) => RecentIsTold(s.kept)
    /\ \A m \in DOMAIN s.kept : s.kept[m].tier = Deep => s.kept[m].article \notin RecentHits

\* A hit that is left out because it is told moves one counter and nothing else.
LEMMA LeavingOutKeeps ==
    ASSUME RetrievalInv, NEW N, RanksOnce(Ranked, N), NEW n \in 1 .. N,
           NEW s, SqueezedTo(n - 1, s), NEW t \in Contexts, t.kept = s.kept,
           t.tierDuplicates + t.nearDuplicates = s.tierDuplicates + s.nearDuplicates + 1,
           Len(s.kept) # retrieval.topK, Tells(s.kept, Ranked[n])
    PROVE  SqueezedTo(n, t)
<1>1. s \in Contexts /\ n \in Nat
    BY DEF SqueezedTo, RanksOnce
<1>2. /\ Len(s.kept) \in Nat /\ s.tierDuplicates \in Nat /\ s.nearDuplicates \in Nat
      /\ t.tierDuplicates \in Nat /\ t.nearDuplicates \in Nat
    BY <1>1 DEF Contexts
<1>3. \A m \in DOMAIN t.kept : \E i \in 1 .. n : t.kept[m] = Ranked[i]
  <2> TAKE m \in DOMAIN t.kept
  <2>1. PICK i \in 1 .. (n - 1) : s.kept[m] = Ranked[i]
      BY DEF SqueezedTo
  <2>2. i \in 1 .. n
      BY <1>1
  <2> QED BY <2>1, <2>2
<1>4. \A i \in 1 .. n : Tells(t.kept, Ranked[i])
  <2> TAKE i \in 1 .. n
  <2>1. i = n \/ i \in 1 .. (n - 1)
      BY <1>1
  <2> QED BY <2>1 DEF SqueezedTo
<1>5. Len(t.kept) + t.tierDuplicates + t.nearDuplicates = n
  <2>1. Len(s.kept) + s.tierDuplicates + s.nearDuplicates = n - 1
      BY DEF SqueezedTo
  <2> DEFINE k == Len(s.kept)
             a == s.tierDuplicates
             b == s.nearDuplicates
             c == t.tierDuplicates
             d == t.nearDuplicates
  <2>2. /\ k \in Nat /\ a \in Nat /\ b \in Nat /\ c \in Nat /\ d \in Nat
        /\ c + d = a + b + 1 /\ k + a + b = n - 1
      BY <1>2, <2>1
  <2> HIDE DEF k, a, b, c, d
  <2>3. k + c + d = n
      BY <1>1, <2>2
  <2> QED BY <2>3 DEF k, c, d
<1>6. t.kept # <<>>
    BY DEF Tells
<1>7. /\ Len(t.kept) <= retrieval.topK
      /\ \A m, k \in DOMAIN t.kept : m # k =>
           /\ t.kept[m].article # t.kept[k].article
           /\ ~Near(t.kept[m].article, t.kept[k].article)
      /\ (\E m \in DOMAIN t.kept : t.kept[m].tier = Deep) => RecentIsTold(t.kept)
      /\ \A m \in DOMAIN t.kept : t.kept[m].tier = Deep => t.kept[m].article \notin RecentHits
    BY DEF SqueezedTo
<1>8. Len(t.kept) + t.tierDuplicates + t.nearDuplicates <= n
    BY <1>1, <1>5
<1> QED BY <1>3, <1>4, <1>5, <1>6, <1>7, <1>8 DEF SqueezedTo

\* A hit that nothing kept tells is kept.
LEMMA KeepingKeeps ==
    ASSUME RetrievalInv, NEW N, RanksOnce(Ranked, N), NEW n \in 1 .. N,
           NEW s, SqueezedTo(n - 1, s), NEW t \in Contexts, t.kept = Append(s.kept, Ranked[n]),
           t.tierDuplicates = s.tierDuplicates, t.nearDuplicates = s.nearDuplicates,
           Len(s.kept) # retrieval.topK,
           ~Cites(s, Ranked[n].article), ~TellsAgain(s, Ranked[n])
    PROVE  SqueezedTo(n, t)
<1> DEFINE hit == Ranked[n]
           L == Len(s.kept)
<1>1. /\ s \in Contexts /\ n \in Nat /\ hit \in Survivors
      /\ retrieval.topK \in Nat
    BY CorpusIsTyped DEF SqueezedTo, RanksOnce
<1>2. /\ s.kept \in Seq(Survivors) /\ L \in Nat
      /\ s.tierDuplicates \in Nat /\ s.nearDuplicates \in Nat
    BY <1>1 DEF Contexts
<1> HIDE DEF hit
<1>3. /\ Len(t.kept) = L + 1 /\ t.kept[L + 1] = hit
      /\ \A m \in 1 .. L : t.kept[m] = s.kept[m]
    BY <1>1, <1>2 DEF hit
<1>4. /\ DOMAIN s.kept = 1 .. L /\ DOMAIN t.kept = 1 .. (L + 1)
      /\ \A m \in 1 .. (L + 1) : m \in 1 .. L \/ m = L + 1
  <2>1. t.kept \in Seq(Survivors)
      BY DEF Contexts
  <2> HIDE DEF L
  <2> QED BY <1>2, <1>3, <2>1 DEF L
<1>5. L < retrieval.topK
  <2>1. L <= retrieval.topK /\ L # retrieval.topK
      BY DEF SqueezedTo
  <2> HIDE DEF L
  <2> QED BY <1>1, <1>2, <2>1
<1>6. \A m \in 1 .. L : \E i \in 1 .. (n - 1) : s.kept[m] = Ranked[i]
    BY <1>4 DEF SqueezedTo
<1>7. \A i \in 1 .. (n - 1) : Tells(s.kept, Ranked[i])
    BY DEF SqueezedTo
<1>8. \A m \in 1 .. L : /\ s.kept[m].article # hit.article
                        /\ ~Near(hit.article, s.kept[m].article)
                        /\ ~Near(s.kept[m].article, hit.article)
    BY <1>4 DEF Cites, TellsAgain, Near, hit
<1> HIDE DEF L
<1>9. \A h : Tells(s.kept, h) => Tells(t.kept, h)
  <2> SUFFICES ASSUME NEW h, Tells(s.kept, h) PROVE Tells(t.kept, h)
      OBVIOUS
  <2>1. PICK m \in 1 .. L : /\ s.kept[m].tier <= h.tier
                            /\ h.article = s.kept[m].article \/ Near(h.article, s.kept[m].article)
      BY <1>4 DEF Tells
  <2>2. m \in 1 .. (L + 1) /\ t.kept[m] = s.kept[m]
      BY <1>2, <1>3
  <2> QED BY <1>4, <2>1, <2>2 DEF Tells
<1>10. hit.tier \in Int
    BY <1>1, CandidatesAreHits DEF Recent, Deep
<1>11. Tells(t.kept, hit)
  <2>1. L + 1 \in DOMAIN t.kept
      BY <1>2, <1>4
  <2>2. t.kept[L + 1].tier <= hit.tier
      BY <1>3, <1>10
  <2> QED BY <1>3, <2>1, <2>2 DEF Tells
<1>12. \A i \in 1 .. n : Tells(t.kept, Ranked[i])
  <2> TAKE i \in 1 .. n
  <2>1. i = n \/ i \in 1 .. (n - 1)
      BY <1>1
  <2> QED BY <1>7, <1>9, <1>11, <2>1 DEF hit
<1>13. \A m \in 1 .. (L + 1) : \E i \in 1 .. n : t.kept[m] = Ranked[i]
  <2> TAKE m \in 1 .. (L + 1)
  <2>1. CASE m = L + 1
    <3>1. n \in 1 .. n
        BY <1>1
    <3> QED BY <1>3, <2>1, <3>1 DEF hit
  <2>2. CASE m \in 1 .. L
    <3>1. PICK i \in 1 .. (n - 1) : s.kept[m] = Ranked[i]
        BY <1>6, <2>2
    <3>2. i \in 1 .. n
        BY <1>1
    <3> QED BY <1>3, <2>2, <3>1, <3>2
  <2> QED BY <1>4, <2>1, <2>2
<1>14. \A m, k \in 1 .. (L + 1) : m # k => /\ t.kept[m].article # t.kept[k].article
                                           /\ ~Near(t.kept[m].article, t.kept[k].article)
  <2> SUFFICES ASSUME NEW m \in 1 .. (L + 1), NEW k \in 1 .. (L + 1), m # k
               PROVE  /\ t.kept[m].article # t.kept[k].article
                      /\ ~Near(t.kept[m].article, t.kept[k].article)
      OBVIOUS
  <2>1. CASE m \in 1 .. L /\ k \in 1 .. L
    <3>1. /\ s.kept[m].article # s.kept[k].article
          /\ ~Near(s.kept[m].article, s.kept[k].article)
        BY <1>4, <2>1 DEF SqueezedTo
    <3> QED BY <1>3, <2>1, <3>1
  <2>2. CASE m \in 1 .. L /\ k = L + 1
      BY <1>3, <1>8, <2>2
  <2>3. CASE m = L + 1 /\ k \in 1 .. L
      BY <1>3, <1>8, <2>3
  <2> QED BY <1>4, <2>1, <2>2, <2>3
<1>15. ASSUME \E m \in 1 .. (L + 1) : t.kept[m].tier = Deep PROVE RecentIsTold(t.kept)
  <2>1. PICK m \in 1 .. (L + 1) : t.kept[m].tier = Deep
      BY <1>15
  <2>2. CASE m \in 1 .. L
    <3>1. RecentIsTold(s.kept)
        BY <1>3, <1>4, <2>1, <2>2 DEF SqueezedTo
    <3> QED BY <1>9, <3>1 DEF RecentIsTold
  <2>3. CASE m = L + 1
    <3>1. hit.tier = Deep
        BY <1>3, <2>1, <2>3
    <3>2. ASSUME NEW h \in Survivors, h.tier = Recent PROVE Tells(t.kept, h)
      <4>1. PICK i \in 1 .. N : Ranked[i] = h
          BY DEF RanksOnce
      <4>2. ~(n < i)
          BY <3>1, <3>2, <4>1 DEF RanksOnce, Recent, Deep, hit
      <4>3. i \in 1 .. n
          BY <1>1, <4>2 DEF RanksOnce
      <4> QED BY <1>12, <4>1, <4>3
    <3> QED BY <3>2 DEF RecentIsTold
  <2> QED BY <1>4, <2>2, <2>3
<1>16. ASSUME NEW m \in 1 .. (L + 1), t.kept[m].tier = Deep
       PROVE  t.kept[m].article \notin RecentHits
  <2>1. CASE m \in 1 .. L
      BY <1>3, <1>4, <1>16, <2>1 DEF SqueezedTo
  <2>2. CASE m = L + 1
    <3>1. hit.tier = Deep /\ t.kept[m] = hit
        BY <1>3, <1>16, <2>2
    <3> SUFFICES ASSUME hit.article \in RecentHits PROVE FALSE
        BY <3>1
    <3> DEFINE h == [tier |-> Recent, article |-> hit.article]
    <3>2. h \in Survivors /\ h.tier = Recent /\ h.article = hit.article
      <4>1. h \in Candidates
          BY CandidatesAreHits
      <4>2. Relevant(hit) /\ h.article = hit.article
          BY <1>1 DEF Survivors
      <4> QED BY <4>1, <4>2 DEF Survivors, Relevant
    <3> HIDE DEF h
    <3>3. PICK i \in 1 .. N : Ranked[i] = h
        BY <3>2 DEF RanksOnce
    <3>4. ~(n < i)
        BY <3>1, <3>2, <3>3 DEF RanksOnce, Recent, Deep, hit
    <3>5. i # n
        BY <3>1, <3>2, <3>3 DEF Recent, Deep, hit
    <3>6. i \in 1 .. (n - 1)
        BY <1>1, <3>4, <3>5 DEF RanksOnce
    <3>7. PICK j \in 1 .. L : h.article = s.kept[j].article \/ Near(h.article, s.kept[j].article)
        BY <1>4, <1>7, <3>3, <3>6 DEF Tells
    <3> QED BY <1>8, <3>2, <3>7
  <2> QED BY <1>4, <2>1, <2>2
<1>17. t.kept # <<>>
    BY <1>2, <1>3
<1>18. Len(t.kept) <= retrieval.topK
    BY <1>1, <1>2, <1>3, <1>5
<1>19. Len(t.kept) + t.tierDuplicates + t.nearDuplicates = n
  <2>1. L + s.tierDuplicates + s.nearDuplicates = n - 1
      BY DEF SqueezedTo, L
  <2>2. \A k, a, b \in Nat : k + a + b = n - 1 => k + 1 + a + b = n
      BY <1>1
  <2>3. L + 1 + s.tierDuplicates + s.nearDuplicates = n
      BY <1>2, <2>1, <2>2
  <2> QED BY <1>3, <2>3
<1>20. Len(t.kept) + t.tierDuplicates + t.nearDuplicates <= n
    BY <1>1, <1>19
<1> QED BY <1>4, <1>12, <1>13, <1>14, <1>15, <1>16, <1>17, <1>18, <1>19, <1>20 DEF SqueezedTo

LEMMA SqueezeIsContext ==
    ASSUME NEW s \in Contexts, NEW hit \in Survivors
    PROVE  Squeeze(s, hit) \in Contexts
<1>1. /\ s = [kept |-> s.kept, tierDuplicates |-> s.tierDuplicates,
              nearDuplicates |-> s.nearDuplicates]
      /\ s.kept \in Seq(Survivors) /\ s.tierDuplicates \in Nat /\ s.nearDuplicates \in Nat
    BY DEF Contexts
<1>2. Append(s.kept, hit) \in Seq(Survivors)
    BY <1>1
<1>3. [s EXCEPT !.tierDuplicates = @ + 1] \in Contexts
    BY <1>1 DEF Contexts
<1>4. [s EXCEPT !.nearDuplicates = @ + 1] \in Contexts
    BY <1>1 DEF Contexts
<1>5. [s EXCEPT !.kept = Append(@, hit)] \in Contexts
    BY <1>1, <1>2 DEF Contexts
<1> QED BY <1>3, <1>4, <1>5 DEF Squeeze

LEMMA SqueezeKeeps ==
    ASSUME RetrievalInv, NEW N, RanksOnce(Ranked, N), NEW n \in 1 .. N,
           NEW s, SqueezedTo(n - 1, s)
    PROVE  SqueezedTo(n, Squeeze(s, Ranked[n]))
<1> DEFINE hit == Ranked[n]
           t == Squeeze(s, hit)
<1>1. /\ s \in Contexts /\ n \in Nat /\ N \in Nat /\ hit \in Survivors
      /\ retrieval.topK \in Nat /\ retrieval.topK >= 1
    BY CorpusIsTyped DEF SqueezedTo, RanksOnce
<1>2. t \in Contexts
    BY <1>1, SqueezeIsContext
<1>3. s.tierDuplicates \in Nat /\ s.nearDuplicates \in Nat /\ Len(s.kept) \in Nat
    BY <1>1 DEF Contexts
<1>4. CASE Len(s.kept) = retrieval.topK
  <2>1. t = s
      BY <1>4 DEF Squeeze
  <2>2. \A m \in DOMAIN s.kept : \E i \in 1 .. n : s.kept[m] = Ranked[i]
    <3> TAKE m \in DOMAIN s.kept
    <3>1. PICK i \in 1 .. (n - 1) : s.kept[m] = Ranked[i]
        BY DEF SqueezedTo
    <3>2. i \in 1 .. n
        BY <1>1
    <3> QED BY <3>1, <3>2
  <2>3. s.kept # <<>>
      BY <1>1, <1>4
  <2>4. Len(s.kept) + s.tierDuplicates + s.nearDuplicates <= n
    <3>1. Len(s.kept) + s.tierDuplicates + s.nearDuplicates <= n - 1
        BY DEF SqueezedTo
    <3>2. \A k \in Nat : k <= n - 1 => k <= n
        BY <1>1
    <3> DEFINE k == Len(s.kept) + s.tierDuplicates + s.nearDuplicates
    <3>3. k \in Nat /\ k <= n - 1
        BY <1>3, <3>1
    <3> HIDE DEF k
    <3>4. k <= n
        BY <3>2, <3>3
    <3> QED BY <3>4 DEF k
  <2>5. SqueezedTo(n, s)
      BY <1>4, <2>2, <2>3, <2>4 DEF SqueezedTo
  <2> QED BY <2>1, <2>5
<1>5. CASE Len(s.kept) # retrieval.topK /\ Cites(s, hit.article)
  <2>1. t = [s EXCEPT !.tierDuplicates = @ + 1]
      BY <1>5 DEF Squeeze
  <2>2. /\ t.kept = s.kept /\ t.nearDuplicates = s.nearDuplicates
        /\ t.tierDuplicates = s.tierDuplicates + 1
      BY <1>1, <2>1 DEF Contexts
  <2>3. Tells(s.kept, hit)
    <3>1. PICK m \in DOMAIN s.kept : s.kept[m].article = hit.article
        BY <1>5 DEF Cites
    <3>2. PICK i \in 1 .. (n - 1) : s.kept[m] = Ranked[i]
        BY DEF SqueezedTo
    <3>3. i \in 1 .. N /\ i < n
        BY <1>1
    <3>4. Ranked[i].tier <= Ranked[n].tier
        BY <3>3 DEF RanksOnce
    <3> QED BY <3>1, <3>2, <3>4 DEF Tells
  <2>4. t.tierDuplicates + t.nearDuplicates = s.tierDuplicates + s.nearDuplicates + 1
      BY <1>3, <2>2
  <2> HIDE DEF t
  <2>5. SqueezedTo(n, t)
      BY <1>2, <1>5, <2>2, <2>3, <2>4, LeavingOutKeeps
  <2> QED BY <2>5 DEF t
<1>6. CASE Len(s.kept) # retrieval.topK /\ ~Cites(s, hit.article) /\ TellsAgain(s, hit)
  <2>1. t = [s EXCEPT !.nearDuplicates = @ + 1]
      BY <1>6 DEF Squeeze
  <2>2. /\ t.kept = s.kept /\ t.tierDuplicates = s.tierDuplicates
        /\ t.nearDuplicates = s.nearDuplicates + 1
      BY <1>1, <2>1 DEF Contexts
  <2>3. Tells(s.kept, hit)
    <3>1. PICK m \in DOMAIN s.kept : Near(hit.article, s.kept[m].article)
        BY <1>6 DEF TellsAgain
    <3>2. PICK i \in 1 .. (n - 1) : s.kept[m] = Ranked[i]
        BY DEF SqueezedTo
    <3>3. i \in 1 .. N /\ i < n
        BY <1>1
    <3>4. Ranked[i].tier <= Ranked[n].tier
        BY <3>3 DEF RanksOnce
    <3> QED BY <3>1, <3>2, <3>4 DEF Tells
  <2>4. t.tierDuplicates + t.nearDuplicates = s.tierDuplicates + s.nearDuplicates + 1
      BY <1>3, <2>2
  <2> HIDE DEF t
  <2>5. SqueezedTo(n, t)
      BY <1>2, <1>6, <2>2, <2>3, <2>4, LeavingOutKeeps
  <2> QED BY <2>5 DEF t
<1>7. CASE Len(s.kept) # retrieval.topK /\ ~Cites(s, hit.article) /\ ~TellsAgain(s, hit)
  <2>1. t = [s EXCEPT !.kept = Append(@, hit)]
      BY <1>7 DEF Squeeze
  <2>2. /\ t.kept = Append(s.kept, hit) /\ t.tierDuplicates = s.tierDuplicates
        /\ t.nearDuplicates = s.nearDuplicates
      BY <1>1, <2>1 DEF Contexts
  <2> HIDE DEF t
  <2>3. SqueezedTo(n, t)
      BY <1>2, <1>7, <2>2, KeepingKeeps
  <2> QED BY <2>3 DEF t
<1> QED BY <1>4, <1>5, <1>6, <1>7

\* What a retrieval returns is the squeeze of its whole ranking.
LEMMA ContextIsSqueezed ==
    ASSUME RetrievalInv
    PROVE  SqueezedTo(Cardinality(Survivors), Retrieved)
<1> DEFINE N == Cardinality(Survivors)
           step == [n \in 1 .. N |-> [s \in Contexts |-> Squeeze(s, Ranked[n])]]
           walk == CHOOSE g : g = [n \in 0 .. N |->
                        IF n = 0 THEN Squeezed ELSE Squeeze(g[n - 1], Ranked[n])]
<1>1. RanksOnce(Ranked, N)
    BY RankedOnce
<1>2. N \in Nat /\ Ranked \in [1 .. N -> Survivors] /\ Len(Ranked) = N
  <2>1. N \in Nat /\ Ranked \in [1 .. N -> Survivors]
      BY <1>1 DEF RanksOnce
  <2> HIDE DEF N
  <2> QED BY <2>1
<1>3. Retrieved = walk[N]
    BY <1>2 DEF Retrieved
<1> HIDE DEF N, walk
<1>4. Squeezed \in Contexts
    BY DEF Squeezed, Contexts
<1>5. \A n \in 1 .. N, s \in Contexts : Squeeze(s, Ranked[n]) \in Contexts
    BY <1>2, SqueezeIsContext
<1>6. step \in [1 .. N -> [Contexts -> Contexts]]
    BY <1>5
<1>7. PICK f \in [0 .. N -> Contexts] : IsFold(f, N, Squeezed, step)
  <2> HIDE DEF step
  <2> QED BY <1>2, <1>4, <1>6, FoldExists
<1>8. \A n \in 1 .. N : f[n - 1] \in Contexts /\ f[n] = Squeeze(f[n - 1], Ranked[n])
  <2> TAKE n \in 1 .. N
  <2>1. n - 1 \in 0 .. N
      BY <1>2
  <2>2. f[n - 1] \in Contexts
      BY <1>7, <2>1
  <2>3. step[n][f[n - 1]] = Squeeze(f[n - 1], Ranked[n])
      BY <2>2
  <2> HIDE DEF step
  <2> QED BY <1>7, <2>2, <2>3 DEF IsFold
<1>9. f[0] = Squeezed
    BY <1>7 DEF IsFold
<1> HIDE DEF step
<1>10. f = [n \in 0 .. N |-> IF n = 0 THEN Squeezed ELSE Squeeze(f[n - 1], Ranked[n])]
    BY <1>2, <1>7, <1>8, <1>9
<1>11. walk = [n \in 0 .. N |-> IF n = 0 THEN Squeezed ELSE Squeeze(walk[n - 1], Ranked[n])]
    BY <1>10 DEF walk
<1> DEFINE Good == {n \in 0 .. N : SqueezedTo(n, walk[n])}
<1>12. 0 \in Good
  <2>1. walk[0] = Squeezed /\ 0 \in 0 .. N
      BY <1>2, <1>11
  <2>2. /\ Squeezed.kept = <<>> /\ DOMAIN Squeezed.kept = {} /\ Len(Squeezed.kept) = 0
        /\ Squeezed.tierDuplicates = 0 /\ Squeezed.nearDuplicates = 0
      BY DEF Squeezed
  <2>3. 0 <= retrieval.topK
      BY CorpusIsTyped
  <2>4. SqueezedTo(0, Squeezed)
      BY <1>4, <2>2, <2>3 DEF SqueezedTo
  <2> QED BY <2>1, <2>4
<1>13. \A n \in 1 .. N : n - 1 \in Good => n \in Good
  <2> SUFFICES ASSUME NEW n \in 1 .. N, n - 1 \in Good PROVE n \in Good
      OBVIOUS
  <2>1. n \in 0 .. N /\ n # 0
      BY <1>2
  <2>2. walk[n] = Squeeze(walk[n - 1], Ranked[n])
      BY <1>11, <2>1
  <2>3. SqueezedTo(n - 1, walk[n - 1])
      OBVIOUS
  <2>4. SqueezedTo(n, walk[n])
      BY <1>1, <2>2, <2>3, SqueezeKeeps
  <2> QED BY <2>1, <2>4
<1>14. N \in Good
  <2> HIDE DEF Good
  <2>1. \A n \in 0 .. N : n \in Good
      BY <1>2, <1>12, <1>13, StepByStep
  <2> QED BY <1>2, <2>1
<1> QED BY <1>3, <1>14 DEF N

(***************************************************************************)
(* What the instruments measure.                                           *)
(***************************************************************************)

RisingCurve(M) ==
    /\ M \in Nat /\ Curve \in [1 .. M -> 0 .. AnyDistance] /\ Len(Curve) = M
    /\ \A n \in 1 .. M : NthRecent(n) \in InTheWindow /\ Curve[n] = corpus[NthRecent(n)].distance
    /\ \A i \in InTheWindow : \E n \in 1 .. M : NthRecent(n) = i
    /\ \A m, n \in 1 .. M : m <= n => Curve[m] <= Curve[n]

LEMMA CurveRises ==
    ASSUME RetrievalInv
    PROVE  RisingCurve(Cardinality(InTheWindow))
<1> DEFINE S == InTheWindow
           M == Cardinality(S)
           at == [n \in 1 .. M |-> CHOOSE i \in S : Cardinality({j \in S : j <= i}) = n]
<1>1. IsFiniteSet(S) /\ S \subseteq Nat /\ S \subseteq DOMAIN corpus
  <2>1. S \subseteq DOMAIN corpus /\ S \in SUBSET DOMAIN corpus
      BY CandidatesAreHits
  <2>2. IsFiniteSet(DOMAIN corpus) /\ DOMAIN corpus \subseteq Nat
      BY CorpusIsTyped
  <2> QED BY <2>1, <2>2, FS_Subset
<1>2. \A n \in 1 .. M : NthRecent(n) = at[n]
  <2> TAKE n \in 1 .. M
  <2>1. at[n] = CHOOSE i \in S : Cardinality({j \in S : j <= i}) = n
      OBVIOUS
  <2> HIDE DEF at, M
  <2> QED BY <2>1 DEF NthRecent
<1>3. M \in Nat /\ Upwards(S, at)
  <2>1. at = [n \in 1 .. Cardinality(S) |->
                CHOOSE i \in S : Cardinality({j \in S : j <= i}) = n]
      OBVIOUS
  <2> HIDE DEF at, S
  <2> QED BY <1>1, <2>1, NumberedUpwards
<1> HIDE DEF at
<1>4. /\ at \in [1 .. M -> S]
      /\ \A m, n \in 1 .. M : m < n => at[m] < at[n]
      /\ \A i \in S : \E n \in 1 .. M : at[n] = i
    BY <1>3 DEF Upwards
<1>5. Curve = [n \in 1 .. M |-> corpus[NthRecent(n)].distance]
    BY DEF Curve
<1> HIDE DEF M
<1>6. \A n \in 1 .. M : NthRecent(n) \in S /\ Curve[n] = corpus[NthRecent(n)].distance
    BY <1>2, <1>4, <1>5
<1>7. Curve \in [1 .. M -> 0 .. AnyDistance]
  <2>1. \A n \in 1 .. M : corpus[NthRecent(n)].distance \in 0 .. AnyDistance
      BY <1>1, <1>6, CorpusIsTyped
  <2> QED BY <1>5, <2>1
<1>8. Len(Curve) = M
    BY <1>3, <1>7
<1>9. \A i \in S : \E n \in 1 .. M : NthRecent(n) = i
    BY <1>2, <1>4
<1>10. ASSUME NEW m \in 1 .. M, NEW n \in 1 .. M, m <= n PROVE Curve[m] <= Curve[n]
  <2>1. at[m] \in DOMAIN corpus /\ at[n] \in DOMAIN corpus /\ at[m] \in Nat /\ at[n] \in Nat
      BY <1>1, <1>4
  <2>2. m = n \/ m < n
      BY <1>10
  <2>3. at[m] <= at[n]
      BY <1>4, <2>1, <2>2
  <2>4. corpus[at[m]].distance <= corpus[at[n]].distance
      BY <2>1, <2>3 DEF RetrievalInv
  <2> QED BY <1>2, <1>6, <2>4
<1>11. RisingCurve(M)
    BY <1>3, <1>6, <1>7, <1>8, <1>9, <1>10 DEF RisingCurve
<1> QED BY <1>11 DEF M

\* Among finitely many gaps there is a widest, and of the widest a first.
LEMMA KneeIsAGap ==
    ASSUME RetrievalInv, HasKnee
    PROVE  \E n \in 1 .. Len(Curve) : Knee = Curve[n]
<1> DEFINE M == Cardinality(InTheWindow)
           G == GapsInMedian
           R == {p \in G \X G : \/ GapAfter(p[2]) < GapAfter(p[1])
                                \/ GapAfter(p[2]) = GapAfter(p[1]) /\ p[1] < p[2]}
           rank == [n \in G |-> Cardinality({m \in G : <<m, n>> \in R}) + 1]
           Widest(n) == \A m \in G :
                GapAfter(m) < GapAfter(n) \/ (GapAfter(m) = GapAfter(n) /\ n <= m)
<1>1. RisingCurve(M)
    BY CurveRises
<1> HIDE DEF M
<1>2. M \in Nat /\ Len(Curve) = M /\ \A n \in 1 .. M : Curve[n] \in Int
    BY <1>1 DEF RisingCurve
<1>3. G \subseteq 1 .. M /\ IsFiniteSet(G) /\ \A n \in G : n \in Nat /\ GapAfter(n) \in Int
  <2>1. \A n \in G : n \in 1 .. M /\ n + 1 \in 1 .. M
      BY <1>2 DEF GapsInMedian
  <2>2. IsFiniteSet(1 .. M)
      BY <1>2, FS_Interval
  <2>3. G \in SUBSET (1 .. M)
      BY <2>1
  <2>4. IsFiniteSet(G)
      BY <2>2, <2>3, FS_Subset
  <2>5. ASSUME NEW n \in G PROVE n \in Nat /\ GapAfter(n) \in Int
    <3>1. Curve[n] \in Int /\ Curve[n + 1] \in Int
        BY <1>2, <2>1
    <3> QED BY <2>1, <3>1 DEF GapAfter
  <2> QED BY <2>3, <2>4, <2>5
<1>4. \A m, n \in G : <<m, n>> \in R <=> \/ GapAfter(n) < GapAfter(m)
                                         \/ GapAfter(n) = GapAfter(m) /\ m < n
    OBVIOUS
<1> HIDE DEF R, G
<1>5. Orders(R, G)
  <2>1. \A n \in G : <<n, n>> \notin R
      BY <1>3, <1>4
  <2>2. ASSUME NEW m \in G, NEW n \in G, m # n PROVE <<m, n>> \in R \/ <<n, m>> \in R
    <3>1. m \in Nat /\ n \in Nat /\ GapAfter(m) \in Int /\ GapAfter(n) \in Int
        BY <1>3
    <3>2. \/ GapAfter(n) < GapAfter(m) \/ GapAfter(m) < GapAfter(n)
          \/ GapAfter(n) = GapAfter(m)
        BY <3>1
    <3>3. m < n \/ n < m
        BY <2>2, <3>1
    <3> QED BY <1>4, <3>2, <3>3
  <2>3. ASSUME NEW k \in G, NEW m \in G, NEW n \in G, <<k, m>> \in R, <<m, n>> \in R
        PROVE  <<k, n>> \in R
    <3>1. /\ k \in Nat /\ m \in Nat /\ n \in Nat
          /\ GapAfter(k) \in Int /\ GapAfter(m) \in Int /\ GapAfter(n) \in Int
        BY <1>3
    <3>2. /\ GapAfter(m) < GapAfter(k) \/ (GapAfter(m) = GapAfter(k) /\ k < m)
          /\ GapAfter(n) < GapAfter(m) \/ (GapAfter(n) = GapAfter(m) /\ m < n)
        BY <1>4, <2>3
    <3>3. GapAfter(n) < GapAfter(k) \/ (GapAfter(n) = GapAfter(k) /\ k < n)
        BY <3>1, <3>2
    <3> QED BY <1>4, <3>3
  <2> QED BY <2>1, <2>2, <2>3 DEF Orders
<1>6. Numbers(rank, R, G)
  <2>1. rank = [n \in G |-> Cardinality({m \in G : <<m, n>> \in R}) + 1]
      OBVIOUS
  <2> HIDE DEF rank
  <2> QED BY <1>3, <1>5, <2>1, RanksNumber
<1> HIDE DEF rank
<1>7. /\ Cardinality(G) \in Nat /\ rank \in [G -> 1 .. Cardinality(G)]
      /\ \A m, n \in G : rank[m] < rank[n] => <<m, n>> \in R
      /\ \A m, n \in G : rank[m] = rank[n] => m = n
      /\ \A k \in 1 .. Cardinality(G) : \E n \in G : rank[n] = k
    BY <1>6 DEF Numbers
<1>8. \E n \in G : Widest(n)
  <2>1. PICK g : g \in G
      BY DEF HasKnee, G
  <2>2. 1 \in 1 .. Cardinality(G)
    <3>1. rank[g] \in 1 .. Cardinality(G)
        BY <1>7, <2>1
    <3> QED BY <1>7, <3>1
  <2>3. PICK n \in G : rank[n] = 1
      BY <1>7, <2>2
  <2>4. ASSUME NEW m \in G
        PROVE  GapAfter(m) < GapAfter(n) \/ (GapAfter(m) = GapAfter(n) /\ n <= m)
    <3>1. m \in Nat /\ n \in Nat /\ GapAfter(m) \in Int /\ rank[m] \in 1 .. Cardinality(G)
        BY <1>3, <1>7
    <3>2. CASE m = n
        BY <3>1, <3>2
    <3>3. CASE m # n
      <4>1. rank[m] # 1
          BY <1>7, <2>3, <3>3
      <4>2. rank[n] < rank[m]
          BY <2>3, <3>1, <4>1
      <4>3. <<n, m>> \in R
          BY <1>7, <4>2
      <4>4. GapAfter(m) < GapAfter(n) \/ (GapAfter(m) = GapAfter(n) /\ n < m)
          BY <1>4, <4>3
      <4> QED BY <3>1, <4>4
    <3> QED BY <3>2, <3>3
  <2> QED BY <2>4
<1>9. Knee = Curve[CHOOSE n \in G : Widest(n)]
    BY DEF Knee, G
<1>10. (CHOOSE n \in G : Widest(n)) \in G
  <2> HIDE DEF Widest
  <2> QED BY <1>8
<1> QED BY <1>2, <1>3, <1>9, <1>10

(***************************************************************************)
(* The promises of one retrieval.                                          *)
(***************************************************************************)

LEMMA StoriesAreToldOnce ==
    ASSUME RetrievalInv, NEW n, NEW s, SqueezedTo(n, s)
    PROVE  OneArticlePerStory(s.kept)
<1>1. s \in Contexts
    BY DEF SqueezedTo
<1>2. \A m \in DOMAIN s.kept : Relevant(s.kept[m])
  <2> TAKE m \in DOMAIN s.kept
  <2>1. s.kept[m] \in Survivors
      BY <1>1 DEF Contexts
  <2> QED BY <2>1 DEF Survivors
<1> QED BY <1>2 DEF SqueezedTo, OneArticlePerStory

LEMMA RecentNewsGoFirst ==
    ASSUME RetrievalInv, NEW n, NEW s, SqueezedTo(n, s)
    PROVE  RecencyDominates(s.kept) /\ RetrospectiveIsOld(s.kept)
<1>1. s \in Contexts
    BY DEF SqueezedTo
<1>2. \A m \in DOMAIN s.kept : /\ s.kept[m] \in Survivors /\ s.kept[m].tier \in {Recent, Deep}
                               /\ s.kept[m].article \in DOMAIN corpus
  <2> TAKE m \in DOMAIN s.kept
  <2>1. s.kept[m] \in Survivors
      BY <1>1 DEF Contexts
  <2> QED BY <2>1, CandidatesAreHits
<1>3. RecencyDominates(s.kept)
  <2> SUFFICES ASSUME \E m \in DOMAIN s.kept : s.kept[m].tier = Deep,
                      NEW i \in RecentHits, corpus[i].distance <= retrieval.floor
               PROVE  \E m \in DOMAIN s.kept :
                        s.kept[m].tier = Recent /\ (i = s.kept[m].article \/ Near(i, s.kept[m].article))
      BY DEF RecencyDominates
  <2>1. RecentIsTold(s.kept)
      BY DEF SqueezedTo
  <2> DEFINE h == [tier |-> Recent, article |-> i]
  <2>2. h \in Survivors /\ h.tier = Recent /\ h.article = i
      BY CandidatesAreHits DEF Survivors, Relevant
  <2> HIDE DEF h
  <2>3. PICK m \in DOMAIN s.kept : /\ s.kept[m].tier <= h.tier
                                   /\ h.article = s.kept[m].article \/ Near(h.article, s.kept[m].article)
      BY <2>1, <2>2 DEF RecentIsTold, Tells
  <2>4. s.kept[m].tier = Recent
      BY <1>2, <2>2, <2>3 DEF Recent, Deep
  <2> QED BY <2>2, <2>3, <2>4
<1>4. RetrospectiveIsOld(s.kept)
  <2> SUFFICES ASSUME NEW m \in DOMAIN s.kept, s.kept[m].tier = Deep,
                      corpus[s.kept[m].article].age = Recent
               PROVE  Cardinality(RecentHits) = FetchK
      BY DEF RetrospectiveIsOld
  <2>1. s.kept[m].article \in InTheWindow /\ s.kept[m].article \notin RecentHits
      BY <1>2 DEF InTheWindow, SqueezedTo
  <2>2. InTheWindow \subseteq DOMAIN corpus /\ Nearest(InTheWindow) # InTheWindow
      BY <2>1, CandidatesAreHits DEF RecentHits
  <2> QED BY <2>2, NearestAreFetched DEF RecentHits
<1> QED BY <1>3, <1>4

LEMMA FunnelsAddUp ==
    ASSUME RetrievalInv, NEW s, SqueezedTo(Cardinality(Survivors), s)
    PROVE  FunnelAddsUp(Funnel(s))
<1> DEFINE N == Cardinality(Survivors)
           C == Cardinality(Candidates)
           a == s.tierDuplicates
           b == s.nearDuplicates
           k == Len(s.kept)
           told == (C - N) + a + b + k
<1>1. s.kept \in Seq(Survivors) /\ a \in Nat /\ b \in Nat /\ k \in Nat
    BY DEF SqueezedTo, Contexts
<1>2. N \in Nat /\ C \in Nat
    BY CandidatesAreHits, FS_CardinalityType
<1>3. k + a + b <= N /\ (k # retrieval.topK => k + a + b = N) /\ (N # 0 => k # 0)
    BY <1>1 DEF SqueezedTo
<1>4. /\ Funnel(s).inWindow = C /\ Funnel(s).floorDropped = C - N
      /\ Funnel(s).tierDuplicates = a /\ Funnel(s).nearDuplicates = b /\ Funnel(s).kept = k
    BY DEF Funnel
<1> HIDE DEF N, C, a, b, k
<1>5. told <= C /\ (k # retrieval.topK => told = C) /\ (k = 0 <=> C = C - N)
    BY <1>1, <1>2, <1>3
<1> DEFINE funnel == Funnel(s)
<1>6. /\ funnel.inWindow = C /\ funnel.floorDropped = C - N
      /\ funnel.tierDuplicates = a /\ funnel.nearDuplicates = b /\ funnel.kept = k
    BY <1>4
<1> HIDE DEF funnel
<1>7. FunnelAddsUp(funnel)
    BY <1>5, <1>6 DEF FunnelAddsUp
<1> QED BY <1>7 DEF funnel

LEMMA InstrumentsAreRight ==
    ASSUME RetrievalInv, NEW s, SqueezedTo(Cardinality(Survivors), s)
    PROVE  InstrumentsForetell(s.kept)
<1> DEFINE M == Cardinality(InTheWindow)
           kept == s.kept
           recent == {m \in DOMAIN kept : kept[m].tier = Recent}
<1>1. RisingCurve(M)
    BY CurveRises
<1> HIDE DEF M
<1>2. /\ M \in Nat /\ DOMAIN Curve = 1 .. M /\ Len(Curve) = M
      /\ \A n \in 1 .. M : Curve[n] \in Int
    BY <1>1 DEF RisingCurve
<1>3. retrieval.floor \in Int /\ retrieval.topK \in Nat
    BY CorpusIsTyped
<1>4. kept \in Seq(Survivors)
    BY DEF SqueezedTo, Contexts
<1>5. \A m \in DOMAIN kept : /\ kept[m] \in Survivors /\ kept[m] \in Candidates
                             /\ kept[m].tier \in {Recent, Deep} /\ Relevant(kept[m])
                             /\ kept[m].tier = Recent => kept[m].article \in InTheWindow
                             /\ kept[m].tier = Deep => retrieval.deep # NoTier
  <2> TAKE m \in DOMAIN kept
  <2>1. kept[m] \in Survivors
      BY <1>4
  <2>2. kept[m] \in Candidates /\ Relevant(kept[m])
      BY <2>1 DEF Survivors
  <2> HIDE DEF kept
  <2> QED BY <2>1, <2>2, CandidatesAreHits
<1>6. \A m, k \in DOMAIN kept : m # k => kept[m].article # kept[k].article
    BY DEF SqueezedTo
<1>7. Survivors # {} => kept # <<>>
  <2>1. IsFiniteSet(Survivors)
      BY CandidatesAreHits
  <2>2. Cardinality(Survivors) = 0 <=> Survivors = {}
      BY <2>1, FS_EmptySet
  <2> QED BY <2>2 DEF SqueezedTo
<1>8. (\E m \in DOMAIN kept : kept[m].tier = Deep) => RecentIsTold(kept)
    BY DEF SqueezedTo
<1> HIDE DEF kept
<1>9. \A n \in InFloor : n \in 1 .. M /\ Curve[n] <= retrieval.floor
    BY <1>2 DEF InFloor
<1>10. \A m \in recent : \E n \in InFloor : NthRecent(n) = kept[m].article
  <2> TAKE m \in recent
  <2>1. kept[m].article \in InTheWindow /\ Relevant(kept[m])
      BY <1>5
  <2>2. PICK n \in 1 .. M : NthRecent(n) = kept[m].article
      BY <1>1, <2>1 DEF RisingCurve
  <2>3. Curve[n] <= retrieval.floor
      BY <1>1, <2>1, <2>2 DEF RisingCurve, Relevant
  <2>4. n \in InFloor
      BY <1>2, <2>3 DEF InFloor
  <2> QED BY <2>2, <2>4
<1>11. ASSUME NEW n \in InFloor PROVE recent # {}
  <2>1. n \in 1 .. M /\ Curve[n] <= retrieval.floor /\ NthRecent(n) \in InTheWindow
        /\ Curve[n] = corpus[NthRecent(n)].distance
      BY <1>1, <1>9 DEF RisingCurve
  <2>2. PICK i \in RecentHits : \A j \in InTheWindow : i <= j
      BY <2>1, CandidatesAreHits, NearestAreFetched DEF RecentHits
  <2>3. i \in DOMAIN corpus /\ NthRecent(n) \in DOMAIN corpus /\ i <= NthRecent(n)
      BY <2>1, <2>2, CandidatesAreHits
  <2>4. corpus[i].distance <= corpus[NthRecent(n)].distance
      BY <2>3 DEF RetrievalInv
  <2>5. corpus[i].distance \in Int /\ corpus[NthRecent(n)].distance \in Int
      BY <2>3, CorpusIsTyped
  <2>6. corpus[i].distance <= retrieval.floor
      BY <1>3, <2>1, <2>4, <2>5
  <2> DEFINE h == [tier |-> Recent, article |-> i]
  <2>7. h \in Survivors /\ h.tier = Recent
      BY <2>6, CandidatesAreHits DEF Survivors, Relevant
  <2> HIDE DEF h
  <2>8. 1 \in DOMAIN kept
    <3>1. kept # <<>> /\ Len(kept) \in Nat /\ DOMAIN kept = 1 .. Len(kept)
        BY <1>4, <1>7, <2>7
    <3>2. Len(kept) # 0
        BY <1>4, <3>1
    <3> QED BY <3>1, <3>2
  <2>9. CASE kept[1].tier = Recent
      BY <2>8, <2>9
  <2>10. CASE kept[1].tier = Deep
    <3>1. Tells(kept, h)
        BY <1>8, <2>7, <2>8, <2>10 DEF RecentIsTold
    <3>2. PICK m \in DOMAIN kept : kept[m].tier <= h.tier
        BY <3>1 DEF Tells
    <3>3. kept[m].tier = Recent
        BY <1>5, <2>7, <3>2 DEF Recent, Deep
    <3> QED BY <3>3
  <2> QED BY <1>5, <2>8, <2>9, <2>10
<1>12. InFloor = {} <=> recent = {}
    BY <1>10, <1>11
<1>13. Cardinality(recent) <= Cardinality(InFloor)
  <2> DEFINE place == [m \in recent |-> CHOOSE n \in InFloor : NthRecent(n) = kept[m].article]
  <2>1. \A m \in recent : place[m] \in InFloor /\ NthRecent(place[m]) = kept[m].article
    <3> TAKE m \in recent
    <3>1. place[m] = CHOOSE n \in InFloor : NthRecent(n) = kept[m].article
        OBVIOUS
    <3> HIDE DEF recent, place
    <3> QED BY <1>10, <3>1
  <2>2. place \in [recent -> InFloor]
      BY <2>1
  <2> HIDE DEF place
  <2>3. \A m, k \in recent : place[m] = place[k] => m = k
    <3> SUFFICES ASSUME NEW m \in recent, NEW k \in recent, place[m] = place[k] PROVE m = k
        OBVIOUS
    <3>1. kept[m].article = kept[k].article
        BY <2>1
    <3>2. m \in DOMAIN kept /\ k \in DOMAIN kept
        OBVIOUS
    <3> QED BY <1>6, <3>1, <3>2
  <2> HIDE DEF recent
  <2>4. place \in Injection(recent, InFloor)
    <3>1. DOMAIN place = recent
        BY <2>2
    <3> QED BY <2>2, <2>3, <3>1 DEF Injection, IsInjective
  <2>5. IsFiniteSet(InFloor)
    <3>1. InFloor \in SUBSET (1 .. M)
        BY <1>9
    <3>2. IsFiniteSet(1 .. M)
        BY <1>2, FS_Interval
    <3> QED BY <3>1, <3>2, FS_Subset
  <2> QED BY <2>4, <2>5, FS_Injection
<1>14. ASSUME Curve # <<>>
       PROVE  1 \in 1 .. M /\ \A n \in 1 .. M : Curve[1] <= Curve[n]
  <2>1. M # 0
    <3>1. ASSUME M = 0 PROVE FALSE
      <4>1. DOMAIN Curve = {}
          BY <1>2, <3>1
      <4>2. Curve \in [{} -> Int]
          BY <1>1, <1>2, <4>1 DEF RisingCurve
      <4> QED BY <1>14, <4>2
    <3> QED BY <3>1
  <2>2. 1 \in 1 .. M
      BY <1>2, <2>1
  <2>3. \A n \in 1 .. M : 1 <= n
      BY <1>2
  <2> QED BY <1>1, <2>2, <2>3 DEF RisingCurve
<1>15. ASSUME Starved PROVE InFloor = {}
  <2>1. Curve # <<>> /\ Curve[1] > retrieval.floor
      BY <1>15 DEF Starved
  <2>2. ASSUME NEW n \in InFloor PROVE FALSE
    <3>1. n \in 1 .. M /\ Curve[n] <= retrieval.floor /\ Curve[1] <= Curve[n] /\ 1 \in 1 .. M
        BY <1>9, <1>14, <2>1
    <3>2. Curve[1] \in Int /\ Curve[n] \in Int
        BY <1>2, <3>1
    <3> QED BY <1>3, <2>1, <3>1, <3>2
  <2> QED BY <2>2
<1>16. ASSUME Starved, retrieval.deep = NoTier PROVE kept = <<>>
  <2>1. recent = {}
      BY <1>12, <1>15, <1>16
  <2>2. \A m \in DOMAIN kept : kept[m].tier = Recent
      BY <1>5, <1>16
  <2>3. DOMAIN kept = {}
      BY <2>1, <2>2
  <2> QED BY <1>4, <2>3
<1>17. ASSUME Indiscriminate PROVE ~Starved
  <2>1. Curve # <<>> /\ Median <= 2 * retrieval.floor
      BY <1>17 DEF Indiscriminate
  <2> DEFINE l == (M + 1) \div 2
             r == M \div 2 + 1
  <2>2. 1 \in 1 .. M /\ l \in 1 .. M /\ r \in 1 .. M
      BY <1>2, <1>14, <2>1
  <2>3. Median = Curve[l] + Curve[r]
      BY <1>2 DEF Median
  <2> HIDE DEF l, r
  <2>4. Curve[1] <= Curve[l] /\ Curve[1] <= Curve[r]
      BY <1>14, <2>1, <2>2
  <2>5. Curve[1] \in Int /\ Curve[l] \in Int /\ Curve[r] \in Int
      BY <1>2, <2>2
  <2>6. ~(Curve[1] > retrieval.floor)
      BY <1>3, <2>1, <2>3, <2>4, <2>5
  <2> QED BY <2>6 DEF Starved
<1>18. ASSUME HasKnee PROVE Curve[1] <= Knee
  <2>1. PICK n \in 1 .. M : Knee = Curve[n]
      BY <1>2, <1>18, KneeIsAGap
  <2>2. 1 \in 1 .. M /\ 1 <= n
      BY <1>2
  <2> QED BY <1>1, <2>1, <2>2 DEF RisingCurve
<1>19. InstrumentsForetell(kept)
    BY <1>12, <1>13, <1>16, <1>17, <1>18 DEF InstrumentsForetell
<1> QED BY <1>19 DEF kept

\* For every corpus and every retrieval block, the context of a prompt is fair: no
\* story is told twice or off topic, recent news go before old ones, the funnel adds
\* up, and the instruments that set the floor foretell the prompt
\* (Retriever.retrieve, coverage_report.py, floor_profile_report.py).
THEOREM ContextsAreFair == RetrievalSpec => []ContextIsFair
<1>1. RetrievalInit => RetrievalInv
  <2> SUFFICES ASSUME RetrievalInit PROVE RetrievalInv
      OBVIOUS
  <2>1. corpus = <<>> /\ retrieval \in Retrievals
      BY DEF RetrievalInit
  <2>2. corpus \in Seq(Kinds) /\ DOMAIN corpus = {}
      BY <2>1
  <2> QED BY <2>1, <2>2 DEF RetrievalInv
<1>2. RetrievalInv /\ [RetrievalNext]_retrievalVars => RetrievalInv'
  <2> SUFFICES ASSUME RetrievalInv, [RetrievalNext]_retrievalVars PROVE RetrievalInv'
      OBVIOUS
  <2>1. CASE RetrievalNext
    <3>1. PICK a \in Kinds : /\ corpus # <<>> => corpus[Len(corpus)].distance <= a.distance
                             /\ corpus' = Append(corpus, a)
        BY <2>1 DEF RetrievalNext
    <3>2. retrieval' \in Retrievals /\ corpus \in Seq(Kinds) /\ Len(corpus) \in Nat
        BY <2>1 DEF RetrievalNext, RetrievalInv
    <3> DEFINE L == Len(corpus)
    <3>3. /\ corpus' \in Seq(Kinds) /\ DOMAIN corpus' = 1 .. (L + 1) /\ DOMAIN corpus = 1 .. L
          /\ corpus'[L + 1] = a /\ \A i \in 1 .. L : corpus'[i] = corpus[i]
        BY <3>1, <3>2
    <3>4. a.distance \in Int
        BY RetrievalAssumption
    <3>5. \A i \in 1 .. L : corpus[i].distance \in Int
        BY <3>3, CorpusIsTyped
    <3> HIDE DEF L
    <3>6. \A i, j \in 1 .. L : i <= j => corpus[i].distance <= corpus[j].distance
        BY <3>3 DEF RetrievalInv
    <3>7. L \in Nat
        BY <3>2 DEF L
    <3>8. ASSUME NEW i \in 1 .. L PROVE corpus[i].distance <= a.distance
      <4>1. L \in 1 .. L /\ i <= L
          BY <3>7
      <4>2. corpus # <<>>
          BY <3>2, <4>1 DEF L
      <4>3. corpus[L].distance <= a.distance
          BY <3>1, <4>2 DEF L
      <4>4. corpus[i].distance <= corpus[L].distance
          BY <3>6, <4>1
      <4> QED BY <3>4, <3>5, <4>1, <4>3, <4>4
    <3>9. ASSUME NEW i \in 1 .. (L + 1), NEW j \in 1 .. (L + 1), i <= j
          PROVE  corpus'[i].distance <= corpus'[j].distance
      <4>1. i \in 1 .. L \/ i = L + 1
          BY <3>7
      <4>2. j \in 1 .. L \/ j = L + 1
          BY <3>7
      <4>3. CASE i \in 1 .. L /\ j \in 1 .. L
          BY <3>3, <3>6, <3>9, <4>3
      <4>4. CASE i \in 1 .. L /\ j = L + 1
          BY <3>3, <3>8, <4>4
      <4>5. CASE i = L + 1
        <5>1. j = L + 1
            BY <3>7, <3>9, <4>5
        <5> QED BY <3>3, <3>4, <4>5, <5>1
      <4> QED BY <4>1, <4>2, <4>3, <4>4, <4>5
    <3> QED BY <3>2, <3>3, <3>9 DEF RetrievalInv
  <2>2. CASE UNCHANGED retrievalVars
      BY <2>2 DEF RetrievalInv, retrievalVars
  <2> QED BY <2>1, <2>2
<1>3. RetrievalInv => ContextIsFair
  <2> SUFFICES ASSUME RetrievalInv PROVE ContextIsFair
      OBVIOUS
  <2>1. SqueezedTo(Cardinality(Survivors), Retrieved)
      BY ContextIsSqueezed
  <2>2. /\ OneArticlePerStory(Retrieved.kept) /\ RecencyDominates(Retrieved.kept)
        /\ RetrospectiveIsOld(Retrieved.kept) /\ FunnelAddsUp(Funnel(Retrieved))
        /\ InstrumentsForetell(Retrieved.kept)
      BY <2>1, StoriesAreToldOnce, RecentNewsGoFirst, FunnelsAddUp, InstrumentsAreRight
  <2> QED BY <2>2 DEF ContextIsFair
<1> QED BY <1>1, <1>2, <1>3, PTL DEF RetrievalSpec
=============================================================================
