-------------------------- MODULE ConfigGenerations --------------------------
(***************************************************************************)
(* Which configuration a stream ran under, and when: the registry of       *)
(* fingerprints (ConfigFingerprintStore), the log of activations           *)
(* (ConfigGenerationStore), both written by whoever assembles a runner,    *)
(* and the report over the log and the envelopes' stamps                   *)
(* (generations_report).  Time is the count of what happened.              *)
(***************************************************************************)
EXTENDS Integers, Sequences

CONSTANTS
    Stream,       \* pipeline ids
    Generation,   \* config_fingerprint values: canonical form, order and pace left out
    MaxTime,      \* bound: events
    MaxUnwritten,      \* bound: provenance writes that fail
    Tools         \* a command line tool may assemble a runner beside the engine

ASSUME GenerationAssumption ==
    /\ MaxTime \in Nat \ {0} /\ MaxUnwritten \in Nat /\ Tools \in BOOLEAN
    /\ "nothing" \notin Generation

VARIABLES
    now,
    running,      \* what the engine runs on each stream, or Nothing
    registry,     \* fingerprints registered
    log,          \* config_generations: [stream, generation, reason, at]
    stamps,       \* the envelopes, a set of [stream, generation, at]
    unwritten,    \* provenance writes that failed
    beside,       \* history: streams a tool has assembled another generation of
    history       \* history: what each stream was given, in order: [stream, generation]

generationVars == <<now, running, registry, log, stamps, unwritten, beside, history>>

Nothing == "nothing"

Mine(stream) == {i \in DOMAIN log : log[i].stream = stream}
Newest(rows) == CHOOSE i \in rows : \A j \in rows : j <= i
Oldest(rows) == CHOOSE i \in rows : \A j \in rows : j >= i

\* A rollback: it was current before, lost the stream, and has it back.
DeriveReason(stream, generation) ==
    IF /\ Mine(stream) # {} /\ log[Newest(Mine(stream))].generation # generation
       /\ \E i \in Mine(stream) : log[i].generation = generation
    THEN "rollback" ELSE "boot"

Activation(stream, generation) ==
    [stream |-> stream, generation |-> generation, at |-> now,
     reason |-> DeriveReason(stream, generation)]

\* One runner is assembled: registered and logged, or its provenance is lost.
Assembled(stream, generation) ==
    \/ /\ registry' = registry \union {generation}
       /\ log' = Append(log, Activation(stream, generation))
       /\ UNCHANGED unwritten
    \/ /\ unwritten < MaxUnwritten /\ unwritten' = unwritten + 1
       /\ registry' \in {registry, registry \union {generation}}
       /\ UNCHANGED log

\* The engine starts again with what its files say now of one stream.
Boot(stream) ==
    /\ \E generation \in Generation :
        /\ Assembled(stream, generation)
        /\ running' = [running EXCEPT ![stream] = generation]
        /\ history' = Append(history, [stream |-> stream, generation |-> generation])
    /\ now' = now + 1
    /\ UNCHANGED <<stamps, beside>>

\* run_cli assembles the same stream from files that may have been edited since.
ToolAssembles(stream) ==
    /\ Tools /\ running[stream] # Nothing
    /\ \E generation \in Generation :
        /\ Assembled(stream, generation)
        /\ history' = Append(history, [stream |-> stream, generation |-> generation])
        /\ beside' = IF generation = running[stream] THEN beside ELSE beside \union {stream}
    /\ now' = now + 1
    /\ UNCHANGED <<running, stamps>>

Pass(stream) ==
    /\ running[stream] # Nothing
    /\ stamps' = stamps \union
            {[stream |-> stream, generation |-> running[stream], at |-> now]}
    /\ now' = now + 1
    /\ UNCHANGED <<running, registry, log, unwritten, beside, history>>

GenerationInit ==
    /\ now = 1 /\ running = [s \in Stream |-> Nothing]
    /\ registry = {} /\ log = <<>> /\ stamps = {} /\ unwritten = 0 /\ beside = {}
    /\ history = <<>>

GenerationNext ==
    /\ now < MaxTime
    /\ \E s \in Stream : Boot(s) \/ ToolAssembles(s) \/ Pass(s)

GenerationSpec == GenerationInit /\ [][GenerationNext]_generationVars

(***************************************************************************)
(* The report of a window.                                                 *)
(***************************************************************************)

\* What was live when the window opened.
CarriedIn(stream, since) ==
    LET earlier == {i \in Mine(stream) : log[i].at < since}
    IN  IF earlier = {} THEN {} ELSE {Newest(earlier)}

Activations(stream, since) ==
    CarriedIn(stream, since) \union {i \in Mine(stream) : log[i].at >= since}

StillRuns == MaxTime + 1

\* A span ends at the next activation of its own stream.
RanUntil(activations, i) ==
    LET later == {j \in activations : j > i}
    IN  IF later = {} THEN StillRuns ELSE log[Oldest(later)].at

Spans(t, activations, i) == log[i].at <= t /\ t < RanUntil(activations, i)

Stamped(stream, since) == {x \in stamps : x.stream = stream /\ x.at >= since}

\* assign_spans: the envelopes of one activation.
Attributed(stream, since, i) ==
    {x \in Stamped(stream, since) : /\ x.generation = log[i].generation
                                    /\ Spans(x.at, Activations(stream, since), i)}

(***************************************************************************)
(* Properties.                                                             *)
(***************************************************************************)

Trusted(stream) == unwritten = 0 /\ stream \notin beside

\* What the report says ran is what ran: at any window every envelope in it belongs
\* to one span, and to no other, the open span is the generation the engine runs, and
\* every instant since the stream began is in one span (generations_report.py).  A provenance write that failed, and a tool
\* that assembled an edited configuration, void it.
SpansTellWhatRan == \A stream \in Stream, since \in 1 .. MaxTime : Trusted(stream) =>
    LET activations == Activations(stream, since)
    IN  /\ \A x \in Stamped(stream, since) : \E i \in activations :
            \A j \in activations : x \in Attributed(stream, since, j) <=> j = i
        /\ running[stream] # Nothing =>
            \E i \in activations : log[i].generation = running[stream]
                                   /\ RanUntil(activations, i) = StillRuns
        /\ \A t \in since .. now - 1 : (\E k \in Mine(stream) : log[k].at <= t) =>
            \E i \in activations : \A j \in activations : Spans(t, activations, j) <=> j = i

\* The generation had the stream before, and another had it last.
GivenBefore(i) == {k \in 1 .. i - 1 : history[k].stream = history[i].stream}
GivenBack(i) == \E k, l \in GivenBefore(i) :
    /\ history[k].generation = history[i].generation
    /\ \A m \in GivenBefore(i) : m <= l
    /\ history[l].generation # history[i].generation

\* A rollback is told as one, and nothing else is (config_generation_store.py
\* _derive_reason).
RollbacksAreTrue == unwritten = 0 =>
    \A i \in DOMAIN log : log[i].reason = "rollback" <=> GivenBack(i)

\* What the parts above say of a stream's provenance.
ProvenanceIsTrue == SpansTellWhatRan /\ RollbacksAreTrue
=============================================================================
