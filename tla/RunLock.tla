------------------------------- MODULE RunLock -------------------------------
(***************************************************************************)
(* One writer per journal (RunLock).  A process with the worker role       *)
(* claims a session-level advisory lock before anything else, re-asserts   *)
(* it when a health read finds it gone, and releases it after its workers. *)
(* The lock is the session's: it goes when the server ends the session,    *)
(* and a session whose client is gone lingers until the server notices.    *)
(***************************************************************************)
EXTENDS Integers, FiniteSets

CONSTANTS
    Process,       \* engine processes started with --workers on one deployment
    Recheck,       \* _RECHECK_INTERVAL_SECONDS
    MaxLosses      \* bound: sessions lost

Nobody == "nobody"
Lingering == "lingering"     \* a session no client has any more

ASSUME RunLockAssumption ==
    /\ Process \cap {Nobody, Lingering} = {}
    /\ Recheck \in Nat \ {0} /\ MaxLosses \in Nat

VARIABLES
    phase,     \* each process: off, claimed, working, drained
    session,   \* _connection: none, live, or dead without the client knowing
    holder,    \* whose session the server has granted the key, Lingering or Nobody
    verdict,   \* _verdict: [known, held, age] (_checked_at), capped at Recheck
    reading,   \* a health read, outside the loop: idle, or about to acquire
    losses,    \* history: sessions lost
    lostFor    \* history: time since the process last held the key, capped

runLockVars == <<phase, session, holder, verdict, reading, losses, lostFor>>

Running(p) == phase[p] \in {"claimed", "working"}

NoVerdict == [known |-> FALSE, held |-> FALSE, age |-> 0]
Judged(held) == [known |-> TRUE, held |-> held, age |-> 0]

(***************************************************************************)
(* acquire: a new session tries the key; refused, it is closed again.      *)
(***************************************************************************)

\* The session it had is closed once the new one has the key.
Granted(p) ==
    /\ holder = Nobody
    /\ holder' = p
    /\ session' = [session EXCEPT ![p] = "live"]
    /\ lostFor' = [lostFor EXCEPT ![p] = 0]

Refused(p) == holder # Nobody /\ UNCHANGED <<holder, session, lostFor>>

\* create_app: claimed before anything with a side effect, or no start at all.
Boot(p) ==
    /\ phase[p] = "off"
    /\ Granted(p)
    /\ phase' = [phase EXCEPT ![p] = "claimed"]
    /\ UNCHANGED <<verdict, reading, losses>>

\* The lifespan starts the workers some time after the claim.
StartWorkers(p) ==
    /\ phase[p] = "claimed"
    /\ phase' = [phase EXCEPT ![p] = "working"]
    /\ UNCHANGED <<session, holder, verdict, reading, losses, lostFor>>

(***************************************************************************)
(* status, on a pool thread, one reader at a time under _guard.            *)
(***************************************************************************)

\* pg_locks, over the lock's own connection: is this backend granted the key?
HoldsKey(p) == session[p] = "live" /\ holder = p

\* Between checks the verdict is served as it was.
Fresh(p) == verdict[p].known /\ verdict[p].age < Recheck

\* Asked of the server; a dead session raises, and that is the answer.
Ask(p) ==
    /\ phase[p] \in {"working", "drained"} /\ reading[p] = "idle"
    /\ ~Fresh(p)
    /\ IF HoldsKey(p)
       THEN verdict' = [verdict EXCEPT ![p] = Judged(TRUE)] /\ UNCHANGED reading
       ELSE reading' = [reading EXCEPT ![p] = "acquire"] /\ UNCHANGED verdict
    /\ UNCHANGED <<phase, session, holder, losses, lostFor>>

\* The repair succeeds when nobody moved in, and else the verdict says so.
Reassert(p) ==
    /\ reading[p] = "acquire"
    /\ Granted(p) \/ Refused(p)
    /\ verdict' = [verdict EXCEPT ![p] = Judged(holder = Nobody)]
    /\ reading' = [reading EXCEPT ![p] = "idle"]
    /\ UNCHANGED <<phase, losses>>

(***************************************************************************)
(* Shutdown.                                                               *)
(***************************************************************************)

\* stop_all: every worker's task and body has ended.
Drain(p) ==
    /\ phase[p] = "working"
    /\ phase' = [phase EXCEPT ![p] = "drained"]
    /\ UNCHANGED <<session, holder, verdict, reading, losses, lostFor>>

\* Closing the session is what frees the key; no guard, a reader may be inside.
Dropped(p) ==
    /\ session' = [session EXCEPT ![p] = "none"]
    /\ holder' = IF holder = p THEN Nobody ELSE holder

\* Faulty variant of MayRelease: the claim goes before the workers have drained.
MayReleaseEarly(p) == phase[p] \in {"working", "drained"}

\* Last, because nothing may still be writing when the claim goes.
MayRelease(p) == phase[p] = "drained"

Release(p) ==
    /\ MayRelease(p) /\ session[p] # "none"
    /\ Dropped(p)
    /\ verdict' = [verdict EXCEPT ![p] = NoVerdict]
    /\ UNCHANGED <<phase, reading, losses, lostFor>>

\* The process is over, in order or killed: its sockets close with it.
Exit(p) ==
    /\ phase[p] # "off"
    /\ phase' = [phase EXCEPT ![p] = "off"]
    /\ Dropped(p)
    /\ verdict' = [verdict EXCEPT ![p] = NoVerdict]
    /\ reading' = [reading EXCEPT ![p] = "idle"]
    /\ UNCHANGED <<losses, lostFor>>

(***************************************************************************)
(* The server and the network.                                             *)
(***************************************************************************)

\* pg_terminate_backend or a dead path: the server may still hold the session.
LoseSession(p) ==
    /\ losses < MaxLosses /\ holder = p
    /\ losses' = losses + 1
    /\ session' = [session EXCEPT ![p] = "dead"]
    /\ holder' \in {Nobody, Lingering}
    /\ UNCHANGED <<phase, verdict, reading, lostFor>>

ServerNotices ==
    /\ holder = Lingering
    /\ holder' = Nobody
    /\ UNCHANGED <<phase, session, verdict, reading, losses, lostFor>>

Older(age) == IF age < Recheck THEN age + 1 ELSE age

Second ==
    /\ verdict' = [p \in Process |-> [verdict[p] EXCEPT !.age = IF verdict[p].known THEN Older(@) ELSE 0]]
    /\ lostFor' = [p \in Process |-> IF holder = p THEN 0 ELSE Older(lostFor[p])]
    /\ UNCHANGED <<phase, session, holder, reading, losses>>

RunLockInit ==
    /\ phase = [p \in Process |-> "off"]
    /\ session = [p \in Process |-> "none"]
    /\ holder = Nobody
    /\ verdict = [p \in Process |-> NoVerdict]
    /\ reading = [p \in Process |-> "idle"]
    /\ losses = 0
    /\ lostFor = [p \in Process |-> 0]

RunLockNext ==
    \/ \E p \in Process :
        \/ Boot(p) \/ StartWorkers(p) \/ Drain(p) \/ Release(p) \/ Exit(p)
        \/ Ask(p) \/ Reassert(p) \/ LoseSession(p)
    \/ ServerNotices
    \/ Second

RunLockSpec == RunLockInit /\ [][RunLockNext]_runLockVars

(***************************************************************************)
(* Properties.                                                             *)
(***************************************************************************)

\* Every variable has its type.
RunLockTypeOK ==
    /\ phase \in [Process -> {"off", "claimed", "working", "drained"}]
    /\ session \in [Process -> {"none", "live", "dead"}]
    /\ holder \in Process \union {Nobody, Lingering}
    /\ verdict \in [Process -> [known : BOOLEAN, held : BOOLEAN, age : 0 .. Recheck]]
    /\ reading \in [Process -> {"idle", "acquire"}]
    /\ losses \in 0 .. MaxLosses
    /\ lostFor \in [Process -> 0 .. Recheck]

\* Two processes produce into one journal only after a session was lost under
\* one of them: boot, re-assertion and shutdown alone never let it come to that
\* (run_lock.py, api_app.py lifespan).
OneProducerPerJournal ==
    losses = 0 => Cardinality({p \in Process : Running(p)}) <= 1

\* A verdict that says held is at most its age out of date: the claim stands, or
\* it was lost since the server was asked, and a verdict is not served past the
\* re-check interval (run_lock.py status, _holds_key).
HeldWasTrueWhenAsked ==
    \A p \in Process :
        verdict[p].known /\ verdict[p].held /\ session[p] # "none"
            => lostFor[p] <= verdict[p].age

\* A claim that was lost under running workers does not stay unnoticed while the
\* health route is read: it is taken again, or the verdict says it is not held.
LostClaimComesToLight ==
    \A p \in Process :
        phase[p] = "working" /\ session[p] = "dead" ~>
            \/ phase[p] # "working" \/ holder = p
            \/ verdict[p].known /\ ~verdict[p].held

\* A claim on a journal means that nobody else produces into it, and a verdict that
\* says so was true when the server was asked.
ClaimsAreTrue == OneProducerPerJournal /\ HeldWasTrueWhenAsked
=============================================================================
