---------------------------- MODULE AnalysisPass ----------------------------
(***************************************************************************)
(* One pass of a pipeline and what consumers are answered: ingest and      *)
(* census, one evaluation per distinct query fanned out to the symbols     *)
(* that share it, the output guard, the status, the save (PipelineRunner), *)
(* POST /run with its catch-all and GET /latest (sentiment_router).        *)
(*                                                                         *)
(* An evaluation is reduced to how it ends.  The journal is its newest     *)
(* envelope; that passes overlap is OutcomeJournal's and BreakingEpisodes' *)
(* concern.  Errors are kept as a set: nothing here depends on their order. *)
(***************************************************************************)
EXTENDS Integers, Sequences, FiniteSets, Functions

CONSTANTS
    Symbols,      \* the active symbols in declared order
    QueryOf,      \* their retrieval queries
    Feeds         \* the active sources of the set

ASSUME PassAssumption ==
    /\ Symbols \in Seq(Range(Symbols)) /\ IsInjective(Symbols)
    /\ Symbols # <<>>

VARIABLES
    stage,        \* where the pass stands
    waiting,      \* the groups not yet evaluated
    rows,         \* result
    errors,       \* errors
    evals,        \* the queries whose evaluation returned
    latest,       \* the newest envelope of the journal, or NoEnvelope
    answer        \* what a consumer was last sent, or NoEnvelope

passVars == <<stage, waiting, rows, errors, evals, latest, answer>>

NoEnvelope == [status |-> "none", rows |-> <<>>, errors |-> {}, evals |-> {}]
Envelope(status) == [status |-> status, rows |-> rows, errors |-> errors, evals |-> evals]
Row(symbol, basis, breaking) == [symbol |-> symbol, basis |-> basis, breaking |-> breaking]
Error(type, about) == [type |-> type, about |-> about]

Taxonomy == {"LLM_TIMEOUT", "VECTOR_STORE_ERROR", "BUDGET_EXCEEDED", "PARTIAL_RESPONSE"}

(***************************************************************************)
(* Groups.                                                                 *)
(***************************************************************************)

\* The members of a set of list indexes, in the list's order.
Place(i, indexes) == Cardinality({j \in indexes : j <= i})
InOrder(indexes) ==
    [n \in 1 .. Cardinality(indexes) |-> CHOOSE i \in indexes : Place(i, indexes) = n]

QueryAt(i) == QueryOf[Symbols[i]]
Sharing(query) == {i \in DOMAIN Symbols : QueryAt(i) = query}
FirstSeen == {i \in DOMAIN Symbols : \A j \in DOMAIN Symbols : j < i => QueryAt(j) # QueryAt(i)}

\* The queries in first-seen order: symbols that share one are one analysis.
GroupByQuery == [n \in DOMAIN InOrder(FirstSeen) |-> QueryAt(InOrder(FirstSeen)[n])]
SpecsOf(query) ==
    [n \in DOMAIN InOrder(Sharing(query)) |-> Symbols[InOrder(Sharing(query))[n]]]

\* A copy for each symbol of the group.
Fan(query, basis, breaking) ==
    [n \in DOMAIN SpecsOf(query) |-> Row(SpecsOf(query)[n], basis, breaking)]

\* The contract HOLD, whose urgency is zero, for each of them.
Degraded(query) == Fan(query, "degraded", FALSE)

Blame(query, type) == {Error(type, s) : s \in Range(SpecsOf(query))}

(***************************************************************************)
(* The pass.                                                               *)
(***************************************************************************)

Starts ==
    /\ stage = "idle"
    /\ stage' = "ingest" /\ waiting' = GroupByQuery
    /\ rows' = <<>> /\ errors' = {} /\ evals' = {} /\ answer' = NoEnvelope
    /\ UNCHANGED latest

\* What the fetch reported comes first; the census adds what it found not to
\* deliver and the fetch did not name.  Another writer of the health rows may
\* have been in between: the two sets are independent.
Ingests ==
    /\ stage = "ingest"
    /\ \E failed, unreached \in SUBSET Feeds :
        errors' = {Error("SOURCE_UNREACHABLE", feed) : feed \in failed \union unreached}
    /\ stage' = "evaluate"
    /\ UNCHANGED <<waiting, rows, evals, latest, answer>>

\* An engine error degrades the group.
EvaluationFails(query, type) ==
    /\ errors' = errors \union Blame(query, type)
    /\ rows' = rows \o Degraded(query)
    /\ UNCHANGED evals

\* Only what the model scored is judged.  The evaluation counts either way.
GuardRejects(query) ==
    /\ errors' = errors \union Blame(query, "PARTIAL_RESPONSE")
    /\ rows' = rows \o Degraded(query)
    /\ evals' = evals \union {query}

EvaluationReturns(query, basis, breaking) ==
    /\ rows' = rows \o Fan(query, basis, breaking)
    /\ evals' = evals \union {query}
    /\ UNCHANGED errors

Evaluates ==
    /\ stage = "evaluate" /\ waiting # <<>>
    /\ \/ \E type \in Taxonomy : EvaluationFails(Head(waiting), type)
       \/ GuardRejects(Head(waiting))
       \/ \E breaking \in BOOLEAN : EvaluationReturns(Head(waiting), "llm", breaking)
       \/ EvaluationReturns(Head(waiting), "no_data", FALSE)
    /\ waiting' = Tail(waiting)
    /\ UNCHANGED <<stage, latest, answer>>

Types == {error.type : error \in errors}

DeriveStatus ==
    IF "BUDGET_EXCEEDED" \in Types THEN "partial"
    ELSE IF evals = {} THEN "error"
    ELSE IF errors # {} THEN "partial" ELSE "success"

\* The save fails, and the envelope is served all the same.
Unsaved ==
    [status |-> IF DeriveStatus = "success" THEN "partial" ELSE DeriveStatus,
     rows   |-> rows, errors |-> errors \union {Error("VECTOR_STORE_ERROR", "outcome")},
     evals  |-> evals]

Persists ==
    /\ stage = "evaluate" /\ waiting = <<>>
    /\ \/ latest' = Envelope(DeriveStatus) /\ answer' = Envelope(DeriveStatus)
       \/ UNCHANGED latest /\ answer' = Unsaved
    /\ stage' = "idle"
    /\ UNCHANGED <<waiting, rows, errors, evals>>

AllDegraded == [n \in DOMAIN Symbols |-> Row(Symbols[n], "degraded", FALSE)]
ErrorEnvelope(type) ==
    [status |-> "error", rows |-> AllDegraded, errors |-> {Error(type, "run")}, evals |-> {}]

\* The ingest raises, or a defect does: the catch-all answers and saves at best
\* effort.
RunRaises ==
    /\ stage # "idle"
    /\ \E type \in {"VECTOR_STORE_ERROR", "PARTIAL_RESPONSE"} :
        /\ answer' = ErrorEnvelope(type)
        /\ latest' \in {latest, ErrorEnvelope(type)}
    /\ stage' = "idle"
    /\ UNCHANGED <<waiting, rows, errors, evals>>

\* GET /latest, while no pass runs: the store's newest, or word that it is silent.
Latest ==
    /\ stage = "idle"
    /\ \/ latest # NoEnvelope /\ answer' = latest
       \/ answer' = ErrorEnvelope("VECTOR_STORE_ERROR")
    /\ UNCHANGED <<stage, waiting, rows, errors, evals, latest>>

PassInit ==
    /\ stage = "idle" /\ waiting = <<>> /\ rows = <<>> /\ errors = {} /\ evals = {}
    /\ latest = NoEnvelope /\ answer = NoEnvelope

PassNext == Starts \/ Ingests \/ Evaluates \/ Persists \/ RunRaises \/ Latest

PassSpec == PassInit /\ [][PassNext]_passVars

(***************************************************************************)
(* Properties.                                                             *)
(***************************************************************************)

Shown == {latest, answer} \ {NoEnvelope}
RowsIn(e) == {e.rows[n] : n \in DOMAIN e.rows}

\* Every requested symbol is in every envelope exactly once, whatever failed.
EverySymbolOnce == \A e \in Shown :
    /\ Len(e.rows) = Len(Symbols)
    /\ {r.symbol : r \in RowsIn(e)} = {Symbols[n] : n \in DOMAIN Symbols}

\* `success` is said only of a pass nothing of which is missing or made up, `error`
\* exactly where nothing was evaluated, unless the budget is what stopped it.
StatusTellsTheTruth == \A e \in Shown :
    /\ e.status = "success" => e.errors = {} /\ \A r \in RowsIn(e) : r.basis # "degraded"
    /\ e.status = "error" => \A r \in RowsIn(e) : r.basis = "degraded"
    /\ e.status = "partial" => e.evals # {} \/ \E error \in e.errors :
                                                    error.type = "BUDGET_EXCEEDED"
    /\ e.errors # {} => e.status # "success"

\* Symbols that share an analysis carry the same claim, and a row nobody scored
\* claims no breaking news.
SharedAnalysisAgrees == \A e \in Shown : \A r, s \in RowsIn(e) :
    /\ QueryOf[r.symbol] = QueryOf[s.symbol] => r.basis = s.basis /\ r.breaking = s.breaking
    /\ r.breaking => r.basis = "llm"

\* The output contract: what a consumer parses is whole and true, on the wire and
\* in the journal (runner and router docstrings).
EnvelopeContract == EverySymbolOnce /\ StatusTellsTheTruth /\ SharedAnalysisAgrees
=============================================================================
