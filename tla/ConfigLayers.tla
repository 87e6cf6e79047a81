---------------------------- MODULE ConfigLayers ----------------------------
(***************************************************************************)
(* A tracked configuration file and the gitignored override laid over it:  *)
(* the merge (config_merge), the validated document, what the startup      *)
(* report says of the override (override_report), what the config view     *)
(* publishes (abstract_config_view) and when a process says it             *)
(* (AppConfigManager, configure_logging).                                  *)
(*                                                                         *)
(* A document is a tree.  What the schema does not know validation drops;  *)
(* what is absent takes its default.                                       *)
(***************************************************************************)
EXTENDS Integers, Sequences, SequencesExt, FiniteSets

CONSTANTS
    Documents,    \* the tracked documents there may be
    Overrides,    \* the override files
    Schema,       \* the document of the defaults
    ListKeys,     \* the lists that are merged by the id of their items
    Public,       \* config_redaction: the string leaves that may be published, as patterns
    File          \* the files of one process

VARIABLES
    tracked, override,    \* the layers
    handlers,             \* the root logger has a handler
    reported,             \* files whose line was said in this process
    pending,              \* lines said before there was a handler
    durable               \* how often the log file has the line of a file

layerVars == <<tracked, override, handlers, reported, pending, durable>>

Text(v) == [is |-> "text", value |-> v]
Number(v) == [is |-> "number", value |-> v]
Dict(at) == [is |-> "dict", at |-> at]
List(of) == [is |-> "list", of |-> of]
Absent == [is |-> "absent"]
Optional == [is |-> "optional"]     \* in a schema: no default

At(node, key) == IF node.is = "dict" /\ key \in DOMAIN node.at THEN node.at[key] ELSE Absent
Keys(node) == IF node.is = "dict" THEN DOMAIN node.at ELSE {}
Items(node) == IF node.is = "list" THEN node.of ELSE <<>>
Id(item) == At(item, "id").value
Ids(items) == {Id(items[n]) : n \in DOMAIN items}
Item(items, id) == items[CHOOSE n \in DOMAIN items : Id(items[n]) = id]

(***************************************************************************)
(* The merge and the validated document.                                   *)
(***************************************************************************)

RECURSIVE Merge(_, _)

\* A known item is patched in its place, a new one appended, the rest kept.
MergeKeyedList(base, over) ==
    LET Patch(merged, item) ==
            IF Id(item) \notin Ids(base) THEN Append(merged, item)
            ELSE [n \in DOMAIN merged |->
                    IF n \in DOMAIN base /\ Id(base[n]) = Id(item) THEN Merge(merged[n], item)
                    ELSE merged[n]]
    IN  FoldLeft(Patch, base, over)

Merge(base, over) ==
    Dict([key \in Keys(base) \union Keys(over) |->
            LET b == At(base, key)
                o == At(over, key)
            IN  IF o = Absent THEN b
                ELSE IF b.is = "dict" /\ o.is = "dict" THEN Merge(b, o)
                ELSE IF key \in ListKeys /\ b.is = "list" /\ o.is = "list"
                     THEN List(MergeKeyedList(b.of, o.of))
                ELSE o])

\* Faulty variant of Guarded: both forms stay.
Unguarded(merged, over) == merged

\* One form of llm at a time: the one the override picks takes the other's place.
Guarded(merged, over) ==
    LET llm == At(over, "llm")
        Without(key) == [merged EXCEPT !.at["llm"] =
                            Dict([k \in Keys(@) \ {key} |-> At(@, k)])]
    IN  IF At(merged, "llm") = Absent THEN merged
        ELSE IF At(llm, "model") # Absent /\ At(llm, "models") = Absent THEN Without("models")
        ELSE IF At(llm, "models") # Absent /\ At(llm, "model") = Absent THEN Without("model")
        ELSE merged

RECURSIVE Validated(_, _)
Validated(schema, data) ==
    IF schema.is = "dict" THEN Dict([key \in Keys(schema) |-> Validated(schema.at[key], At(data, key))])
    ELSE IF schema.is = "list" /\ data.is = "list"
         THEN List([n \in DOMAIN data.of |-> Validated(schema.of[1], data.of[n])])
    ELSE IF data # Absent THEN data
    ELSE IF schema.is \in {"list", "optional"} THEN Absent ELSE schema

Before == Validated(Schema, tracked)
Effective == Validated(Schema, Guarded(Merge(tracked, override), override))

\* expand_variants: the streams that run.
Streams(document) ==
    LET models == At(At(document, "llm"), "models")
    IN  IF models = Absent THEN {<<"default", At(At(document, "llm"), "model")>>}
        ELSE {<<Id(m), At(m, "name")>> :
                m \in {Items(models)[n] : n \in {k \in DOMAIN Items(models) :
                                At(Items(models)[k], "enabled") = Number("yes")}}}

(***************************************************************************)
(* The report.                                                             *)
(***************************************************************************)

Entry(path, value, was, unknown) == [path |-> path, value |-> value, was |-> was, unknown |-> unknown]

RECURSIVE Collect(_, _, _, _)

CollectKeyedList(base, over, valid, path) ==
    UNION {LET item == over[n]
               id == Id(item)
               patch == Dict([key \in Keys(item) \ {"id"} |-> At(item, key)])
           IN  IF id \notin Ids(valid) THEN {Entry(Append(path, "+"), item, Absent, FALSE)}
               ELSE IF id \notin Ids(base) THEN {Entry(Append(path, id), item, Absent, FALSE)}
               ELSE Collect(Item(base, id), patch, Item(valid, id), Append(path, id))
           : n \in DOMAIN over}

\* What the override touches, told against the validated document.
Collect(base, over, valid, path) ==
    UNION {LET b == At(base, key)
               o == At(over, key)
               v == At(valid, key)
               p == Append(path, key)
           IN  IF v = Absent THEN {Entry(p, o, Absent, TRUE)}
               ELSE IF o.is = "dict" /\ v.is = "dict" THEN Collect(b, o, v, p)
               ELSE IF key \in ListKeys /\ o.is = "list" /\ v.is = "list"
                    THEN CollectKeyedList(Items(b), o.of, v.of, p)
               ELSE IF b = o THEN {} ELSE {Entry(p, o, b, FALSE)}
           : key \in Keys(over)}

Entries == Collect(tracked, override, Effective, <<>>)
Flagged == {e \in Entries : e.unknown}

\* format_override_report: flags are never cut, what is left of the cap shows the
\* ordinary leaves, the last of them as a count when they are more.
LineShows(flagged, ordinary, cap) ==
    LET room == IF cap - flagged < 1 THEN 1 ELSE cap - flagged
    IN  [flagged |-> flagged, ordinary |-> IF ordinary > room THEN room - 1 ELSE ordinary]

(***************************************************************************)
(* The view.                                                               *)
(***************************************************************************)

Matches(pattern, path) ==
    Len(pattern) = Len(path) /\ \A n \in DOMAIN path : pattern[n] \in {"*", path[n]}
Publishable(path) == \E pattern \in Public : Matches(pattern, path)

\* The string leaves of a value that the projection leaves readable.  A document's
\* items go by their index, an override's by their id: both are one segment.
RECURSIVE Readable(_, _)
Readable(node, path) ==
    CASE node.is = "dict" -> UNION {Readable(node.at[key], Append(path, key)) : key \in Keys(node)}
      [] node.is = "list" -> UNION {Readable(node.of[n], Append(path, "n")) : n \in DOMAIN node.of}
      [] node.is = "text" -> IF Publishable(path) THEN {node.value} ELSE {}
      [] OTHER -> {}

Told(e) == Readable(e.value, e.path) \union Readable(e.was, e.path)

Published == Readable(Effective, <<>>) \union UNION {Told(e) : e \in Entries}

(***************************************************************************)
(* Saying it.                                                              *)
(***************************************************************************)

\* A manager or registry factory loads a file: several do, in one process.
Load(f) ==
    /\ IF Entries = {} \/ f \in reported THEN UNCHANGED <<reported, pending, durable>>
       ELSE /\ reported' = reported \union {f}
            /\ IF handlers THEN durable' = [durable EXCEPT ![f] = @ + 1] /\ UNCHANGED pending
               ELSE pending' = pending \union {f} /\ UNCHANGED durable
    /\ UNCHANGED <<tracked, override, handlers>>

Emitted(f) == IF f \in pending THEN durable[f] + 1 ELSE durable[f]

\* Once at boot, and again when the server reloads the application.
ConfigureLogging ==
    /\ handlers' = TRUE
    /\ durable' = [f \in File |-> Emitted(f)]
    /\ pending' = {}
    /\ UNCHANGED <<tracked, override, reported>>

LayersInit ==
    /\ tracked \in Documents /\ override \in Overrides
    /\ handlers = FALSE /\ reported = {} /\ pending = {} /\ durable = [f \in File |-> 0]

LayersNext == ConfigureLogging \/ \E f \in File : Load(f)

LayersSpec == LayersInit /\ [][LayersNext]_layerVars

(***************************************************************************)
(* Properties.                                                             *)
(***************************************************************************)

RECURSIVE Leaves(_, _)
Leaves(node, path) ==
    CASE node.is = "dict" -> UNION {Leaves(node.at[key], Append(path, key)) : key \in Keys(node)}
      [] node.is = "list" -> UNION {Leaves(node.of[n], Append(path, Id(node.of[n]))) : n \in DOMAIN node.of}
      [] node = Absent -> {}
      [] OTHER -> {<<path, node>>}

Moved == LET b == Leaves(Before, <<>>)
             e == Leaves(Effective, <<>>)
         IN  {leaf[1] : leaf \in (b \ e) \union (e \ b)}
Forms(document) == {form \in {"model", "models"} : At(At(document, "llm"), form) # Absent}

\* No override steers a run in silence: every leaf of the validated configuration
\* that it moved is told, but for the form of llm it displaced, and a stream that
\* appears, goes or changes its model is one somebody named
\* (override_report.py collect_overrides over config_merge.py deep_merge).
MovesAreTold ==
    /\ \A path \in Moved :
        (Forms(Before) # Forms(Effective) /\ path[1] = "llm") \/ \E e \in Entries \ Flagged : IsPrefix(e.path, path)
    /\ Streams(Effective) # Streams(Before) => \E e \in Entries \ Flagged : e.path[1] = "llm"
    /\ Cardinality(Forms(Effective)) = 1

\* What is flagged did nothing; a leaf of the override that no schema knows is
\* flagged, unless it came with an item the override added; and no flag is cut from
\* the line (override_report.py: a typo'd key silently does nothing).
Added(path) == \E e \in Entries \ Flagged : e.was = Absent /\ e.value.is = "dict" /\ IsPrefix(e.path, path)
FlagsAreTrue ==
    LET known == {leaf[1] : leaf \in Leaves(Effective, <<>>)}
    IN  /\ \A e \in Flagged : \A path \in known : ~IsPrefix(e.path, path)
        /\ \A leaf \in Leaves(override, <<>>) :
            leaf[1] \notin known =>
                Added(leaf[1]) \/ \E e \in Flagged : IsPrefix(e.path, leaf[1])
        /\ \A flagged, ordinary \in 0 .. 4 :
            LET line == LineShows(flagged, ordinary, 3)
            IN  line.flagged = flagged /\ (ordinary > 3 - flagged \/ line.ordinary = ordinary)

\* What nobody classified as public is not served, neither in the document nor in
\* what is told of the override that set it (config_redaction.py).
OnlyThePublicIsServed == \A value \in Published :
    \E leaf \in Leaves(Effective, <<>>) \union Leaves(tracked, <<>>) :
        leaf[2] = Text(value) /\ \E pattern \in Public : Matches(pattern, leaf[1])

\* The log file has each file's line once, although the first of them is said before
\* there is a log (override_report.py replay_pending_reports).
SaidOnce == \A f \in File :
    /\ durable[f] <= 1
    /\ handlers => durable[f] = IF f \in reported THEN 1 ELSE 0

\* The parts above of what an operator knows of an override that says something.
OverridesAreTold == Keys(override) # {} =>
    MovesAreTold /\ FlagsAreTrue /\ OnlyThePublicIsServed /\ SaidOnce
=============================================================================
