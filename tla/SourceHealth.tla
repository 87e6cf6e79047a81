---------------------------- MODULE SourceHealth ----------------------------
(***************************************************************************)
(* The quarantine policy of one source set (SourceHealthStore).  A source  *)
(* that fails FlagAfter polls in a row is held back for a cool-off taken   *)
(* from a ladder, then gets one probe, whose outcome closes the episode or *)
(* escalates it.  A pass whose polls fail together is a host outage: it    *)
(* flags nothing and holds the whole set back instead.                     *)
(*                                                                         *)
(* The rows are shared; every ingestor has a store of its own, with a      *)
(* cache of the cool-offs it knows about.  Times are what is left of them: *)
(* a cool-off is None, or counts down to 0 and stays there, elapsed.       *)
(***************************************************************************)
EXTENDS Integers, FiniteSets

CONSTANTS
    Source,         \* the polled sources of the set
    Store,          \* the stores over the rows: the worker's, a manual pass's
    FlagAfter,      \* flag_after_consecutive_failures
    LastRung,       \* the ladder is quarantine_hours[0 .. LastRung]
    MinPollable,    \* correlated_min_pollable
    Ratio,          \* correlated_failure_ratio, in percent
    Backoff,        \* correlated_backoff_minutes
    MaxRestarts,    \* bound: constructions of a store
    MaxEpisodes     \* bound: episodes of a source that are remembered

ASSUME SourceHealthAssumption ==
    /\ Source # {} /\ IsFiniteSet(Source) /\ Store # {} /\ IsFiniteSet(Store)
    /\ FlagAfter \in Nat \ {0} /\ LastRung \in Nat
    /\ MinPollable \in Nat \ {0} /\ Ratio \in Nat /\ Backoff \in Nat \ {0}
    /\ MaxRestarts \in Nat /\ MaxEpisodes \in Nat

VARIABLES
    row,        \* source_health: [streak, flagged, until] of each source
    episode,    \* source_quarantine_log: [open, recent] rows of each source
    outage,     \* source_quarantine_log: open correlated rows
    held,       \* each store's cache: source -> what is left of its cool-off
    probing,    \* each store's sources that are owed their one probe
    host,       \* each store's [down, backoff]
    pass,       \* each store's open pass scope
    restarts    \* history: stores constructed since the first

healthVars == <<row, episode, outage, held, probing, host, pass, restarts>>

None == -1
Rung == 0 .. LastRung
CoolOff(rung) == rung + 1                       \* longer with every rung
Times == {None} \union 0 .. CoolOff(LastRung)

Scope == [open : BOOLEAN, due : SUBSET Source, failed : SUBSET Source,
          succeeded : SUBSET Source, pending : SUBSET [source : Source, start : Rung, probe : BOOLEAN]]
NoScope == [open |-> FALSE, due |-> {}, failed |-> {}, succeeded |-> {}, pending |-> {}]

(***************************************************************************)
(* A pass: plan, one outcome per polled source, then the decision.         *)
(***************************************************************************)

\* should_poll, asked of every source in turn: not in a back-off, not cooling off.
MayPoll(i) == IF host[i].backoff > 0 THEN {} ELSE {s \in Source : held[i][s] <= 0}

\* An elapsed cool-off is handed out once, as a probe.
Elapsed(i) == {s \in MayPoll(i) : held[i][s] = 0}

\* Sources within their poll floor are asked too, and then left alone.
BeginPass(i) ==
    /\ ~pass[i].open
    /\ \E due \in SUBSET MayPoll(i) :
        pass' = [pass EXCEPT ![i] = [NoScope EXCEPT !.open = TRUE, !.due = due]]
    /\ held' = [held EXCEPT ![i] = [s \in Source |-> IF s \in Elapsed(i) THEN None ELSE @[s]]]
    /\ probing' = [probing EXCEPT ![i] = @ \union Elapsed(i)]
    /\ UNCHANGED <<row, episode, outage, host, restarts>>

\* Faulty variant of RecordSuccess: the episode of a probe is left open.
RecordSuccessOpen(i, s) ==
    /\ s \in pass[i].due
    /\ row' = [row EXCEPT ![s] = [streak |-> 0, flagged |-> FALSE, until |-> None]]
    /\ episode' = [episode EXCEPT ![s].open = IF s \in probing[i] THEN @ ELSE 0]
    /\ held' = [held EXCEPT ![i][s] = None]
    /\ probing' = [probing EXCEPT ![i] = @ \ {s}]
    /\ pass' = [pass EXCEPT ![i].due = @ \ {s}, ![i].succeeded = @ \union {s}]
    /\ UNCHANGED <<outage, host, restarts>>

\* A returned fetch clears the streak, the flag and the quarantine.
RecordSuccess(i, s) ==
    /\ s \in pass[i].due
    /\ row' = [row EXCEPT ![s] = [streak |-> 0, flagged |-> FALSE, until |-> None]]
    /\ episode' = [episode EXCEPT ![s].open =
                        IF row[s].flagged \/ s \in probing[i] THEN 0 ELSE @]
    /\ held' = [held EXCEPT ![i][s] = None]
    /\ probing' = [probing EXCEPT ![i] = @ \ {s}]
    /\ pass' = [pass EXCEPT ![i].due = @ \ {s}, ![i].succeeded = @ \union {s}]
    /\ UNCHANGED <<outage, host, restarts>>

\* The counters are written now; the flag is withheld until the pass ends.
RecordFailure(i, s) ==
    /\ s \in pass[i].due
    /\ LET streak == IF row[s].streak < FlagAfter THEN row[s].streak + 1 ELSE FlagAfter
           probe  == s \in probing[i]
       IN  /\ row' = [row EXCEPT ![s].streak = streak]
           /\ \E start \in Rung :
                pass' = [pass EXCEPT
                    ![i].due = @ \ {s}, ![i].failed = @ \union {s},
                    ![i].pending = IF streak >= FlagAfter \/ probe
                        THEN @ \union {[source |-> s, start |-> start, probe |-> probe]} ELSE @]
    /\ UNCHANGED <<episode, outage, held, probing, host, restarts>>

Pollable(scope) == Cardinality(scope.failed) + Cardinality(scope.succeeded)

\* Faulty variant of Correlated: off by one in what a thin pass is.
CorrelatedAbove(scope) ==
    /\ Pollable(scope) > MinPollable
    /\ 100 * Cardinality(scope.failed) >= Ratio * Pollable(scope)

\* A thin pass is evidence about its feeds, not about the host.
Correlated(scope) ==
    /\ Pollable(scope) >= MinPollable
    /\ 100 * Cardinality(scope.failed) >= Ratio * Pollable(scope)

Least(a, b) == IF a < b THEN a ELSE b
Most(a, b) == IF a > b THEN a ELSE b

\* _apply_flag: history can only make the rung worse than the failure's own.
RungFor(flag) == Least(Most(episode[flag.source].recent, flag.start), LastRung)

Flagged(scope) == {flag.source : flag \in scope.pending}
FlagOf(scope, s) == CHOOSE flag \in scope.pending : flag.source = s

\* A source that is held back is no longer owed a probe.
Stopped(flagged, i) == probing[i] \ flagged

\* A failed probe closes the episode it belonged to before the next one opens.
ApplyFlags(i) ==
    LET flagged == Flagged(pass[i])
        until(s) == CoolOff(RungFor(FlagOf(pass[i], s)))
        left(s) == IF FlagOf(pass[i], s).probe THEN 0 ELSE episode[s].open
    IN  /\ row' = [s \in Source |-> IF s \notin flagged THEN row[s]
                    ELSE [row[s] EXCEPT !.flagged = TRUE, !.until = until(s)]]
        /\ episode' = [s \in Source |-> IF s \notin flagged THEN episode[s]
                    ELSE [open |-> left(s) + 1,
                          recent |-> Least(episode[s].recent + 1, MaxEpisodes)]]
        /\ held' = [held EXCEPT ![i] = [s \in Source |-> IF s \in flagged THEN until(s) ELSE @[s]]]
        /\ probing' = [probing EXCEPT ![i] = Stopped(flagged, i)]

\* The outage is recorded once and extended; the withheld flags die here.
EnterHostEvent(i) ==
    /\ Correlated(pass[i])
    /\ outage' = IF host[i].down THEN outage ELSE outage + 1
    /\ host' = [host EXCEPT ![i] = [down |-> TRUE, backoff |-> Backoff]]
    /\ UNCHANGED <<row, episode, held, probing>>

\* Not correlated: a success ends an open outage, and the flags apply.
ResolveFlags(i) ==
    /\ ~Correlated(pass[i])
    /\ IF host[i].down /\ pass[i].succeeded # {}
       THEN outage' = 0 /\ host' = [host EXCEPT ![i] = [down |-> FALSE, backoff |-> 0]]
       ELSE UNCHANGED <<outage, host>>
    /\ ApplyFlags(i)

\* The scope is left when every source is accounted for, or earlier: a stop at
\* the embed stage or an exception leaves the sources behind it unrecorded.
EndPass(i) ==
    /\ pass[i].open
    /\ EnterHostEvent(i) \/ ResolveFlags(i)
    /\ pass' = [pass EXCEPT ![i] = NoScope]
    /\ UNCHANGED restarts

(***************************************************************************)
(* Time, the reset window and restarts.                                    *)
(***************************************************************************)

Less(t) == IF t > 0 THEN t - 1 ELSE t

Tick ==
    /\ row' = [s \in Source |-> [row[s] EXCEPT !.until = Less(@)]]
    /\ held' = [i \in Store |-> [s \in Source |-> Less(held[i][s])]]
    /\ host' = [i \in Store |-> [host[i] EXCEPT !.backoff = Less(@)]]
    /\ UNCHANGED <<episode, outage, probing, pass, restarts>>

\* An episode falls out of ladder_reset_hours.
Forget(s) ==
    /\ episode[s].recent > 0
    /\ episode' = [episode EXCEPT ![s].recent = @ - 1]
    /\ UNCHANGED <<row, outage, held, probing, host, pass, restarts>>

\* _load_quarantines: only what has not elapsed; an outage nobody extends is closed.
Restart(i) ==
    /\ restarts < MaxRestarts
    /\ restarts' = restarts + 1
    /\ held' = [held EXCEPT ![i] = [s \in Source |-> IF row[s].until > 0 THEN row[s].until ELSE None]]
    /\ probing' = [probing EXCEPT ![i] = {}]
    /\ host' = [host EXCEPT ![i] = [down |-> FALSE, backoff |-> 0]]
    /\ outage' \in {outage, 0}
    /\ pass' = [pass EXCEPT ![i] = NoScope]
    /\ UNCHANGED <<row, episode>>

HealthInit ==
    /\ row = [s \in Source |-> [streak |-> 0, flagged |-> FALSE, until |-> None]]
    /\ episode = [s \in Source |-> [open |-> 0, recent |-> 0]]
    /\ outage = 0
    /\ held = [i \in Store |-> [s \in Source |-> None]]
    /\ probing = [i \in Store |-> {}]
    /\ host = [i \in Store |-> [down |-> FALSE, backoff |-> 0]]
    /\ pass = [i \in Store |-> NoScope]
    /\ restarts = 0

HealthNext ==
    \/ \E i \in Store :
        \/ BeginPass(i) \/ EndPass(i) \/ Restart(i)
        \/ \E s \in Source : RecordSuccess(i, s) \/ RecordFailure(i, s)
    \/ \E s \in Source : Forget(s)
    \/ Tick

HealthSpec == HealthInit /\ [][HealthNext]_healthVars

\* A pass that polls a source.
Polls(i, s) == BeginPass(i) /\ s \in pass'[i].due

(***************************************************************************)
(* Properties.                                                             *)
(***************************************************************************)

\* Every variable has its type.
HealthTypeOK ==
    /\ row \in [Source -> [streak : 0 .. FlagAfter, flagged : BOOLEAN, until : Times]]
    /\ episode \in [Source -> [open : Nat, recent : 0 .. MaxEpisodes]]
    /\ outage \in Nat
    /\ held \in [Store -> [Source -> Times]]
    /\ probing \in [Store -> SUBSET Source]
    /\ host \in [Store -> [down : BOOLEAN, backoff : 0 .. Backoff]]
    /\ pass \in [Store -> Scope]
    /\ restarts \in Nat

\* The history and the live row agree, whichever of the stores wrote last: a
\* source is flagged exactly while it has an open episode and an end date
\* (source_health_store.py _apply_flag, record_success).
FlaggedIffOpenEpisode ==
    \A s \in Source :
        /\ row[s].flagged <=> episode[s].open > 0
        /\ row[s].flagged <=> row[s].until # None

\* The history reads as a chain (source_health_store.py _apply_flag): a source
\* has one open episode at a time, as long as one store keeps its memory.
EpisodesAreAChain ==
    restarts = 0 /\ Cardinality(Store) = 1 =>
        outage <= 1 /\ \A s \in Source : episode[s].open <= 1

\* What a probe or a cool-off of the only store is about still stands in the row.
ProbesAnswerAFlag ==
    Cardinality(Store) = 1 =>
        \A i \in Store, s \in Source :
            /\ s \in probing[i] => row[s].flagged /\ row[s].until = 0 /\ held[i][s] = None
            /\ held[i][s] # None => row[s].flagged /\ row[s].until = held[i][s]

\* A host outage is nobody's fault: a pass that saw no feed answer, and enough
\* of them, quarantines none (source_health_store.py _enter_host_event).
OutageFlagsNothing ==
    [][\A i \in Store :
        pass[i].open /\ ~pass'[i].open /\ pass[i].succeeded = {}
                /\ Cardinality(pass[i].failed) >= MinPollable /\ restarts' = restarts
            => UNCHANGED <<row, episode>>]_healthVars

\* No feed is given up: whatever is quarantined is polled again, through
\* outages and restarts (source_health_store.py should_poll).
QuarantineEnds ==
    \A s \in Source : row[s].flagged ~> \E i \in Store : s \in pass[i].due

\* The quarantine columns, the episode log and the stores' memories tell one story.
QuarantinesAreAccounted == FlaggedIffOpenEpisode /\ EpisodesAreAChain /\ ProbesAnswerAFlag
=============================================================================
