---------------------------- MODULE ReportRequests ----------------------------
(***************************************************************************)
(* Asking for a report.  The catalog folds what the configuration declares *)
(* and what a call supplies into one set of values with their origin; the  *)
(* route refuses what a report cannot use, shortens a window to the        *)
(* ceiling and answers with the values it applied.  A window is a number   *)
(* of days.                                                                *)
(***************************************************************************)
EXTENDS Integers, FiniteSets

CONSTANTS
    Ceiling,        \* max_window_days
    AllTime,        \* the window expression "all", reaching back further than any
    Malformed,      \* an expression parse_since refuses
    Expressions     \* the windows a configuration or a call may write

ASSUME RequestAssumption ==
    /\ Ceiling \in Nat /\ AllTime \in Nat /\ Malformed \in Int /\ Expressions \subseteq Nat

VARIABLES
    windowOf,       \* the window each report declares; for cost, its set
    grants,         \* the reports the caller's token may read
    requested       \* [report, given]: the request being answered

requestVars == <<windowOf, grants, requested>>

(***************************************************************************)
(* The catalog.                                                            *)
(***************************************************************************)

\* What a report takes, what it needs, and what it declares a default for.
Takes(params, required, defaults) == [params |-> params, required |-> required, defaults |-> defaults]

Catalog == [
    breaking |-> Takes({"window"}, {}, {"window"}),
    cost |-> Takes({"window", "windows"}, {}, {"windows"}),
    source_quarantine |-> Takes({"window", "source_id"}, {"source_id"}, {"window"}),
    source_health |-> Takes({}, {}, {})]

ReportNames == DOMAIN Catalog
Wanted == Catalog[requested.report]
Given == DOMAIN requested.given
AppliedParam(value, source, clamped) == [value |-> value, source |-> source, clamped |-> clamped]

\* A single window supersedes the declared set.
Superseded == IF requested.report = "cost" /\ "window" \in Given THEN {"windows"} ELSE {}

\* Faulty variant of AppliedKeys: what has no declared value is accepted and dropped.
DeclaredKeysOnly == Wanted.defaults \ Superseded

\* resolve: the declared values, each replaced by what the call supplies.
AppliedKeys == (Wanted.defaults \union (Given \intersect Wanted.params)) \ Superseded
Resolved(key) ==
    IF key \in Given THEN AppliedParam(requested.given[key], "request", FALSE)
    ELSE AppliedParam(windowOf[requested.report], "config", FALSE)

(***************************************************************************)
(* The route.                                                              *)
(***************************************************************************)

Permitted(report) == report \in grants

\* The catalog lists what the caller may read, with the values a call would use.
Listing == ReportNames \intersect grants

Status ==
    IF ~Permitted(requested.report) THEN 403
    ELSE IF requested.report \notin ReportNames THEN 404
    ELSE IF Wanted.required \ Given # {} \/ Given \ Wanted.params # {} THEN 422
    ELSE IF "window" \in AppliedKeys /\ Resolved("window").value = Malformed THEN 422
    ELSE 200

\* _clamp: the window of the call, and no other.
Answered(key) ==
    IF key = "window" /\ Resolved(key).value > Ceiling
    THEN [Resolved(key) EXCEPT !.value = Ceiling, !.clamped = TRUE] ELSE Resolved(key)

\* What the builder is handed: since, already shortened.  The builder of cost takes the
\* expression of the call, or the whole declared set.
DaysRead ==
    IF requested.report # "cost" THEN {Answered(key).value : key \in AppliedKeys \intersect {"window"}}
    ELSE IF "window" \in Given THEN {Resolved("window").value} ELSE Resolved("windows").value

(***************************************************************************)
(* Moves.                                                                  *)
(***************************************************************************)

AsksForReport ==
    /\ \E report \in ReportNames \union {"unknown"}, keys \in SUBSET {"window", "source_id"},
          window \in Expressions \union {Malformed} :
        requested' = [report |-> report,
                 given |-> [key \in keys |-> IF key = "window" THEN window ELSE 0]]
    /\ UNCHANGED <<windowOf, grants>>

\* An operator edits the report configuration, or what a token may read.
Windowed == {report \in ReportNames : "window" \in Catalog[report].defaults}
Reconfigures ==
    /\ \/ \E report \in Windowed, window \in Expressions \union {Malformed} :
            windowOf' = [windowOf EXCEPT ![report] = window]
       \/ \E windows \in SUBSET Expressions : windowOf' = [windowOf EXCEPT !.cost = windows]
    /\ UNCHANGED <<grants, requested>>

Regrants ==
    /\ \E names \in {ReportNames, {"cost"}, {"breaking", "unknown"}} : grants' = names
    /\ UNCHANGED <<windowOf, requested>>

RequestInit ==
    /\ windowOf = [report \in Windowed \union {"cost"} |->
                    IF report = "cost" THEN {1, AllTime} ELSE 1]
    /\ grants = ReportNames
    /\ requested = [report |-> "breaking", given |-> <<>>]

RequestNext == AsksForReport \/ Reconfigures \/ Regrants
RequestSpec == RequestInit /\ [][RequestNext]_requestVars

(***************************************************************************)
(* Properties.                                                             *)
(***************************************************************************)

Answers200 == Status = 200

\* Nothing a caller supplied is accepted and then ignored, whatever the operator has
\* declared meanwhile: it is among the applied values under its own name, as a request,
\* and what else was applied is what the listing advertises (report_router.py report,
\* report_catalog.py resolve).
NothingIsIgnored == Answers200 =>
    /\ Given \subseteq AppliedKeys
    /\ \A key \in AppliedKeys :
        LET param == Answered(key) IN
        /\ (param.source = "request") = (key \in Given)
        /\ key \in Given /\ ~param.clamped => param.value = requested.given[key]
        /\ param.source = "config" /\ ~param.clamped => param.value = windowOf[requested.report]
        /\ param.clamped => Resolved(key).value > Ceiling

\* The days a report reads are the days the answer says, and no more than the ceiling,
\* whether the window came from the call or from the configuration.  The one report this
\* cannot be said of is cost: a set is read as declared, and a single window is read as
\* it was written although the answer says it was shortened (report_router.py _clamp,
\* report_catalog.py _build_cost).
WindowIsTold == Answers200 /\ "window" \in AppliedKeys =>
    LET param == Answered("window") IN
    /\ param.value <= Ceiling
    /\ requested.report # "cost" => DaysRead = {param.value}
    /\ requested.report = "cost" => (DaysRead = {param.value}) = ~param.clamped
    /\ ("windows" \in AppliedKeys) = (requested.report = "cost" /\ "window" \notin Given)

\* A listed report is never refused for who asks, and what is not listed is never
\* answered (report_router.py catalog, _permitted).
ListingIsTrue ==
    /\ requested.report \in Listing => Status \notin {403, 404}
    /\ Answers200 => requested.report \in Listing

RequestsAreAnswered == NothingIsIgnored /\ WindowIsTold /\ ListingIsTrue
=============================================================================
