----------------------------- MODULE FramesSample -----------------------------
(***************************************************************************)
(* The sample of the wire format (experiments/stream_frames_sample): three *)
(* passes of one breaking episode picked from the journal, checked as the  *)
(* engine wrote them, moved to one cadence and renumbered.  The journal    *)
(* reaches back before rows had an episode identity; a backfill gave one   *)
(* to the rows inside an episode and nothing to the others.                *)
(***************************************************************************)
EXTENDS Integers, Sequences, SequencesExt, FiniteSetsExt

CONSTANTS
    SampleGap,      \* the rule's gap
    Cadence,        \* CADENCE_MS
    FirstSeq,       \* 1041
    MaxPasses, MaxPartial   \* bounds

VARIABLES
    passes,     \* the envelopes: ts, available, status and the row of each symbol
    openEpisode,\* per key, the id of the open episode (0: none) and what last held it
    deployed,   \* rows outside an episode carry the empty form
    grouped     \* both symbols share a query, hence a key

sampleVars == <<passes, openEpisode, deployed, grouped>>

Symbol == 1 .. 2
KeyOf(symbol) == IF grouped THEN 1 ELSE symbol
None == [id |-> 0, last |-> 0]

\* One row folded into the rule: opened, in the episode, or outside.
Folded(ts, acc, symbol, verdict) ==
    LET key == KeyOf(symbol)
        open == IF ts - acc.open[key].last > SampleGap THEN None ELSE acc.open[key]
        opens == open.id = 0 /\ verdict = "breaking"
        after == IF opens THEN [id |-> 2 * ts + key, last |-> ts]
                 ELSE IF open.id # 0 /\ verdict # "dip" THEN [open EXCEPT !.last = ts] ELSE open
    IN  [open |-> [acc.open EXCEPT ![key] = after],
         rows |-> Append(acc.rows, [id |-> after.id, start |-> opens,
                                    breaking |-> verdict = "breaking",
                                    native |-> deployed \/ after.id # 0])]

PassStamped(verdicts, status) ==
    /\ Len(passes) < MaxPasses
    /\ status = "partial" => Cardinality({p \in DOMAIN passes : passes[p].status = "partial"}) < MaxPartial
    /\ LET ts == Len(passes) + 1
           both == FoldLeft(LAMBDA acc, s : Folded(ts, acc, s, verdicts[s]),
                            [open |-> openEpisode, rows |-> <<>>], <<1, 2>>)
       IN  /\ openEpisode' = both.open
           /\ passes' = Append(passes, [ts |-> ts, available |-> ts + 1, evidence |-> ts - 1,
                                        status |-> status, rows |-> both.rows, seq |-> ts])
    /\ UNCHANGED <<deployed, grouped>>

Deploy == ~deployed /\ deployed' = TRUE /\ UNCHANGED <<passes, openEpisode, grouped>>

SampleInit ==
    /\ passes = <<>> /\ openEpisode = [key \in Symbol |-> None]
    /\ deployed \in BOOLEAN /\ grouped \in BOOLEAN

SampleNext ==
    \/ \E first \in {"breaking", "hold", "dip"}, second \in {"breaking", "dip"},
          status \in {"success", "partial"} : PassStamped(<<first, second>>, status)
    \/ Deploy

(***************************************************************************)
(* _fetch_episode_trio.                                                    *)
(***************************************************************************)

\* _NATIVE_IDENTITY: of every row of the envelope.
AllNative(p) == \A s \in Symbol : passes[p].rows[s].native

Opener(row) == row.start
Continuation(row) == ~row.start /\ row.breaking
HoldBand(row) == ~row.breaking

\* The passes with a row of the episode in that shape.
InShape(id, Shape(_)) ==
    {p \in DOMAIN passes : \E s \in Symbol : passes[p].rows[s].id = id /\ Shape(passes[p].rows[s])}

Successful(id, Shape(_), native) ==
    {p \in InShape(id, Shape) : passes[p].status = "success" /\ (native => AllNative(p))}

EpisodeIds == {passes[p].rows[s].id : p \in DOMAIN passes, s \in Symbol} \ {0}

Qualifying(native) ==
    {id \in EpisodeIds :
        /\ Successful(id, Opener, native) # {}
        /\ Successful(id, Continuation, native) # {}
        /\ Successful(id, HoldBand, native) # {}}

NewestPass(id, native) == Max(Successful(id, LAMBDA row : TRUE, native))
Selected(native) ==
    {id \in Qualifying(native) :
        \A other \in Qualifying(native) : NewestPass(other, native) <= NewestPass(id, native)}

\* The second query, asked to say why nothing qualified.
Refusal == IF Selected(TRUE) # {} THEN "none" ELSE IF Selected(FALSE) # {} THEN "legacy" ELSE "no_episode"

\* The roles look at every status: the earliest native pass in that shape.
Picked(id, Shape(_)) == Min({p \in InShape(id, Shape) : AllNative(p)})
Trio(id) == <<Picked(id, Opener), Picked(id, Continuation), Picked(id, HoldBand)>>

(***************************************************************************)
(* build.                                                                  *)
(***************************************************************************)

\* _shift and _shift_epoch_ms: every time of the envelope by the same amount.
Shifted(env, delta) ==
    [env EXCEPT !.ts = env.ts + delta, !.available = env.available + delta,
                !.evidence = env.evidence + delta]

Placed(id) ==
    [i \in 1 .. 3 |->
        LET env == passes[Trio(id)[i]]
            target == passes[Trio(id)[1]].ts + (i - 1) * Cadence
        IN  [Shifted(env, target - env.ts) EXCEPT !.seq = FirstSeq + i - 1]]

\* _check_one_episode reads the first row that carries the id.
SampledRow(id, env) == env.rows[Min({s \in Symbol : env.rows[s].id = id})]

Accepted(id) ==
    LET frame == Placed(id) IN
        /\ Opener(SampledRow(id, frame[1]))
        /\ Continuation(SampledRow(id, frame[2]))
        /\ HoldBand(SampledRow(id, frame[3]))

\* A sample that is written shows three different passes of one episode in the roles it
\* announces, the first of them the pass that opened it, renumbered and moved as a whole:
\* in every frame the evidence, the end and the availability are as far apart as they
\* were measured (generate.py _fetch_episode_trio, _shift, _check_one_episode).
SampleIsTrue ==
    \A id \in Selected(TRUE) : Accepted(id) =>
        LET trio == Trio(id) frame == Placed(id) IN
        /\ Cardinality(ToSet(trio)) = 3
        /\ \A p \in InShape(id, LAMBDA row : TRUE) : trio[1] <= p
        /\ \A i \in 1 .. 3 :
            /\ frame[i].seq = frame[1].seq + i - 1 /\ frame[i].ts = frame[1].ts + (i - 1) * Cadence
            /\ frame[i].available - frame[i].ts = passes[trio[i]].available - passes[trio[i]].ts
            /\ frame[i].ts - frame[i].evidence = passes[trio[i]].ts - passes[trio[i]].evidence
            /\ AllNative(trio[i])

\* The refusal names its cause: an episode is called legacy only when an envelope of it
\* has a row without an identity (generate.py _fetch_episode_trio).
RefusalIsTrue ==
    Refusal = "legacy" =>
        \A id \in Selected(FALSE) : \E p \in InShape(id, LAMBDA row : TRUE) : ~AllNative(p)
=============================================================================
