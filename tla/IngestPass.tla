----------------------------- MODULE IngestPass -----------------------------
(***************************************************************************)
(* The acquisition pass of one source set (Ingestor over RssSource): plan  *)
(* who is polled, fetch them all, then walk the plan in declared order and *)
(* embed and store what the corpus does not hold.  A fetched feed answers  *)
(* "not modified" from then on, until it publishes again, so an article a  *)
(* pass fetched and did not store is only seen again if the feed's         *)
(* validators are dropped.                                                 *)
(*                                                                         *)
(* Passes of one ingestor share its source objects: an abandoned pass goes *)
(* on beside the next one.  A feed publishes articles 1, 2, ... and shows  *)
(* the last Shown of them; a validator is the number of articles the feed  *)
(* had, 0 is none.                                                         *)
(***************************************************************************)
EXTENDS Integers, Sequences, FiniteSets

CONSTANTS
    Sources,        \* the sources of the set, in declared order
    Pass,           \* the passes that may run at a time
    Shown,          \* articles a feed shows
    MaxPublished    \* bound: articles of each feed

Source == {Sources[k] : k \in DOMAIN Sources}

ASSUME IngestAssumption ==
    /\ Sources \in Seq(Source) /\ Pass # {}
    /\ Shown \in Nat \ {0} /\ MaxPublished \in [Source -> Nat]

VARIABLES
    published,  \* how many articles each feed has published
    validator,  \* what each source remembers: ETag and Last-Modified
    corpus,     \* the stored articles
    refused,    \* history: articles the embedding provider would not take
    pass,       \* where each pass stands
    unwound     \* history: articles that went with a pass a store error ended

vars == <<published, validator, corpus, refused, pass, unwound>>

Article == Source \X Nat
Idle == [at |-> "idle", polled |-> {}, due |-> {}, got |-> {}, next |-> 1, fresh |-> {}]

Window(s) == {<<s, k>> : k \in {n \in 1 .. published[s] : n > published[s] - Shown}}

(***************************************************************************)
(* Plan and fetch.                                                         *)
(***************************************************************************)

\* A source may be left out: quarantined, in a back-off, within its poll floor.
Plan(p) ==
    /\ pass[p].at = "idle"
    /\ \E due \in (SUBSET Source) \ {{}} :
        pass' = [pass EXCEPT ![p] = [Idle EXCEPT !.at = "fetching", !.polled = due,
                                            !.due = due]]
    /\ UNCHANGED <<published, validator, corpus, refused, unwound>>

Fetched(p, s, articles) ==
    pass' = [pass EXCEPT ![p].due = @ \ {s}, ![p].got = @ \union {<<s, articles>>}]

\* 304: nothing new since the validators.
NotModified(p, s) ==
    /\ pass[p].at = "fetching" /\ s \in pass[p].due
    /\ validator[s] = published[s] /\ validator[s] # 0
    /\ Fetched(p, s, {})
    /\ UNCHANGED <<published, validator, corpus, refused, unwound>>

\* A body: validators are remembered when the server sent them.
Body(p, s) ==
    /\ pass[p].at = "fetching" /\ s \in pass[p].due
    /\ validator[s] # published[s] \/ validator[s] = 0
    /\ Fetched(p, s, Window(s))
    /\ validator' \in {validator, [validator EXCEPT ![s] = published[s]]}
    /\ UNCHANGED <<published, corpus, refused, unwound>>

\* Unreachable, refused or malformed, after one retry.
FetchFails(p, s) ==
    /\ pass[p].at = "fetching" /\ s \in pass[p].due
    /\ pass' = [pass EXCEPT ![p].due = @ \ {s}]
    /\ UNCHANGED <<published, validator, corpus, refused, unwound>>

StartWalk(p) ==
    /\ pass[p].at = "fetching" /\ pass[p].due = {}
    /\ pass' = [pass EXCEPT ![p].at = "walking"]
    /\ UNCHANGED <<published, validator, corpus, refused, unwound>>

(***************************************************************************)
(* The walk, in declared order.                                            *)
(***************************************************************************)

Current(p) == Sources[pass[p].next]
Got(p, s) == UNION {g[2] : g \in {pair \in pass[p].got : pair[1] = s}}

\* On to the next source; what is behind the walk is not looked at again.
Advanced(p) ==
    [pass[p] EXCEPT !.at = "walking", !.next = @ + 1, !.fresh = {},
                    !.polled = @ \ {Current(p)}, !.got = {g \in @ : g[1] # Current(p)}]

\* Not polled, failed, or nothing the corpus does not hold already.
Nothing(p) ==
    /\ pass[p].at = "walking" /\ pass[p].next <= Len(Sources)
    /\ Got(p, Current(p)) \subseteq corpus
    /\ pass' = [pass EXCEPT ![p] = Advanced(p)]
    /\ UNCHANGED <<published, validator, corpus, refused, unwound>>

\* existing_ids, then the embedder is called with what is new.
Lookup(p) ==
    /\ pass[p].at = "walking" /\ pass[p].next <= Len(Sources)
    /\ ~(Got(p, Current(p)) \subseteq corpus)
    /\ pass' = [pass EXCEPT ![p].at = "embedding", ![p].fresh = Got(p, Current(p)) \ corpus]
    /\ UNCHANGED <<published, validator, corpus, refused, unwound>>

\* The provider may refuse single articles; the others go on.
Embed(p) ==
    /\ pass[p].at = "embedding"
    /\ \E out \in SUBSET pass[p].fresh :
        /\ refused' = refused \union out
        /\ pass' = [pass EXCEPT ![p].at = "storing", ![p].fresh = @ \ out]
    /\ UNCHANGED <<published, validator, corpus, unwound>>

Upsert(p) ==
    /\ pass[p].at = "storing"
    /\ corpus' = corpus \union pass[p].fresh
    /\ pass' = [pass EXCEPT ![p] = Advanced(p)]
    /\ unwound' = unwound \ pass[p].fresh
    /\ UNCHANGED <<published, validator, refused>>

\* Faulty variant of Rewound: the source that stopped the pass keeps its validators.
RewoundBehind(p) == {Sources[k] : k \in pass[p].next + 1 .. Len(Sources)}

\* plan[index:]: the source that stopped the pass and all behind it.
Rewound(p) == {Sources[k] : k \in pass[p].next .. Len(Sources)}

\* Quota exhausted or provider unreachable: every later source would stop too.
StopAfterEmbed(p) ==
    /\ pass[p].at = "embedding"
    /\ validator' = [s \in Source |->
            IF s \in Rewound(p) \intersect pass[p].polled THEN 0 ELSE validator[s]]
    /\ pass' = [pass EXCEPT ![p] = Idle]
    /\ UNCHANGED <<published, corpus, refused, unwound>>

\* What a pass still holds and has yet to store.
InHand(p) == UNION {g[2] : g \in pass[p].got}

\* A store error unwinds the pass from the walk.
StoreRaises(p) ==
    /\ pass[p].at \in {"walking", "storing"}
    /\ pass' = [pass EXCEPT ![p] = Idle]
    /\ unwound' = unwound \union (InHand(p) \ corpus)
    /\ UNCHANGED <<published, validator, corpus, refused>>

Finish(p) ==
    /\ pass[p].at = "walking" /\ pass[p].next > Len(Sources)
    /\ pass' = [pass EXCEPT ![p] = Idle]
    /\ UNCHANGED <<published, validator, corpus, refused, unwound>>

(***************************************************************************)
(* The feeds, and restarts.                                                *)
(***************************************************************************)

Publish(s) ==
    /\ published[s] < MaxPublished[s]
    /\ published' = [published EXCEPT ![s] = @ + 1]
    /\ UNCHANGED <<validator, corpus, refused, pass, unwound>>

\* The validators are memory: a cold start pulls every feed once.
Restart ==
    /\ validator' = [s \in Source |-> 0]
    /\ pass' = [p \in Pass |-> Idle]
    /\ UNCHANGED <<published, corpus, refused, unwound>>

Init ==
    /\ published = [s \in Source |-> 0]
    /\ validator = [s \in Source |-> 0]
    /\ corpus = {} /\ refused = {}
    /\ pass = [p \in Pass |-> Idle]
    /\ unwound = {}

Step(p) ==
    \/ Plan(p) \/ StartWalk(p)
    \/ \E s \in Source : NotModified(p, s) \/ Body(p, s) \/ FetchFails(p, s)
    \/ Nothing(p) \/ Lookup(p) \/ Embed(p) \/ Upsert(p)
    \/ StopAfterEmbed(p) \/ StoreRaises(p) \/ Finish(p)

Next == (\E p \in Pass : Step(p)) \/ (\E s \in Source : Publish(s)) \/ Restart

Spec == Init /\ [][Next]_vars

(***************************************************************************)
(* Properties.                                                             *)
(***************************************************************************)

\* The articles a source's feed shows and its validators hide.
Hidden(s) == {<<s, n>> : n \in {k \in 1 .. validator[s] : k > validator[s] - Shown}}

\* What a pass that runs on still holds.
Held == UNION {InHand(p) : p \in Pass}

\* The ingest contract as the code keeps it (abstract_source.py
\* reset_conditional_get): what a source's validators hide is in the corpus, refused by
\* the provider, or in the hands of a pass that runs on, unless a store error ended the
\* pass that held it.
NothingHiddenIsLost ==
    \A s \in Source : Hidden(s) \subseteq corpus \union refused \union Held \union unwound

\* The contract as it is stated: anything a pass did not store is seen again.
SeenAgain == \A s \in Source : Hidden(s) \subseteq corpus \union refused \union Held
=============================================================================
