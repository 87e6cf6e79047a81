--------------------------- MODULE EngineProcess ---------------------------
(***************************************************************************)
(* One engine process after another, or beside another, over one journal:  *)
(* create_app wires it, the lifespan starts its parts and stops them in an *)
(* order of its own.  Any step may fail.  A failure while it boots or      *)
(* starts ends the process; one while it stops skips the steps behind it.  *)
(* What a process leaves behind it, it leaves before it is over: the claim *)
(* on the journal goes with its connection.                                *)
(***************************************************************************)
EXTENDS Naturals, Sequences, SequencesExt, FiniteSets

CONSTANTS
    Process,        \* the engine processes of an operator
    Roles,          \* how one may be started: sets of Parts, and "named"
    MaxStarts       \* bound: processes started

Parts == {"workers", "stream", "display", "commands", "weekly", "telegram"}

Unclaimed == "nobody"

ASSUME ProcessAssumption ==
    Roles \subseteq SUBSET (Parts \union {"named"}) /\ MaxStarts \in Nat /\ Unclaimed \notin Process

VARIABLES
    step,       \* the step each process takes next, or "off", "serving", "over"
    role,       \* how it was started; "named": the journal has an identity
    traces,     \* what it has done that others can see
    tasks,      \* the tasks it runs
    claim,      \* who holds the journal's lock
    starts      \* history: processes started

processVars == <<step, role, traces, tasks, claim, starts>>

\* Faulty variant of BootSteps: the claim where the older refusal was.
BootStepsClaimLate == <<"assemble", "attach", "check_models", "wire", "claim">>

\* create_app: schema and identity guards, the claim, the runners, the free model
\* check, then what only touches memory.
BootSteps == <<"assemble", "claim", "attach", "check_models", "wire">>

\* The lifespan up to the yield.
StartSteps == <<"dispatcher", "workers", "watchdog", "display", "poller", "scheduler">>

\* The lifespan after the yield.
StopSteps == <<"-scheduler", "-poller", "-client", "-watchdog", "-workers", "-dispatcher",
               "-display", "-claim">>

\* The server binds its port when the lifespan has started.
LifeSteps == BootSteps \o StartSteps \o <<"bind", "serving">> \o StopSteps \o <<"over">>
After(s) == LifeSteps[1 + CHOOSE n \in 1 .. Len(LifeSteps) - 1 : LifeSteps[n] = s]

\* Only a process with workers claims, and only a journal that has a name.
MustClaim(p) == {"workers", "named"} \subseteq role[p]

\* What a step needs to be taken at all, by what the process was started with.
Needs(s) ==
    CASE s \in {"dispatcher", "-dispatcher"} -> "stream"
      [] s \in {"workers", "-workers", "watchdog", "-watchdog"} -> "workers"
      [] s \in {"display", "-display"} -> "display"
      [] s \in {"poller", "-poller"} -> "commands"
      [] s \in {"scheduler", "-scheduler"} -> "weekly"
      [] s = "-client" -> "telegram"

Applies(p, s) == s \in ToSet(StartSteps \o StopSteps) \ {"-claim"} => Needs(s) \in role[p]

Start(p, r) ==
    /\ step[p] \in {"off", "over"} /\ tasks[p] = {} /\ claim # p /\ starts < MaxStarts
    /\ starts' = starts + 1
    /\ role' = [role EXCEPT ![p] = r]
    /\ traces' = [traces EXCEPT ![p] = {}]
    /\ step' = [step EXCEPT ![p] = Head(BootSteps)]
    /\ UNCHANGED <<tasks, claim>>

Proceed(p) == step' = [step EXCEPT ![p] = After(@)]

Skip(p) ==
    /\ step[p] \in ToSet(LifeSteps) \ {"serving", "over"}
    /\ ~Applies(p, step[p]) \/ (step[p] \in {"claim", "-claim"} /\ ~MustClaim(p))
    /\ Proceed(p)
    /\ UNCHANGED <<role, traces, tasks, claim, starts>>

\* The guards have run by now; what follows is visible: rows, calls, a port.
BootPart(p) ==
    /\ step[p] \in {"assemble", "attach", "check_models", "wire", "bind"}
    /\ traces' = [traces EXCEPT ![p] = IF step[p] \in {"attach", "check_models", "bind"}
                                       THEN @ \union {step[p]} ELSE @]
    /\ Proceed(p)
    /\ UNCHANGED <<role, tasks, claim, starts>>

Claim(p) ==
    /\ step[p] = "claim" /\ MustClaim(p) /\ claim = Unclaimed
    /\ claim' = p
    /\ Proceed(p)
    /\ UNCHANGED <<role, traces, tasks, starts>>

StartPart(p) ==
    /\ step[p] \in ToSet(StartSteps) /\ Applies(p, step[p])
    /\ tasks' = [tasks EXCEPT ![p] = @ \union {step[p]}]
    /\ traces' = [traces EXCEPT ![p] = @ \union {step[p]}]
    /\ Proceed(p)
    /\ UNCHANGED <<role, claim, starts>>

\* A signal: the server leaves the yield.
Stop(p) ==
    /\ step[p] = "serving"
    /\ Proceed(p)
    /\ UNCHANGED <<role, traces, tasks, claim, starts>>

\* What a step of the shutdown ends; the alert client is no task.
Ends(s) ==
    CASE s = "-scheduler" -> {"scheduler"} [] s = "-poller" -> {"poller"}
      [] s = "-watchdog" -> {"watchdog"}   [] s = "-workers" -> {"workers"}
      [] s = "-dispatcher" -> {"dispatcher"} [] s = "-display" -> {"display"}
      [] s = "-client" -> {}

\* "-workers" returns when every pass has ended.
StopPart(p) ==
    /\ step[p] \in ToSet(StopSteps) \ {"-claim"} /\ Applies(p, step[p])
    /\ tasks' = [tasks EXCEPT ![p] = @ \ Ends(step[p])]
    /\ Proceed(p)
    /\ UNCHANGED <<role, traces, claim, starts>>

Release(p) ==
    /\ step[p] = "-claim" /\ MustClaim(p)
    /\ claim' = IF claim = p THEN Unclaimed ELSE claim
    /\ Proceed(p)
    /\ UNCHANGED <<role, traces, tasks, starts>>

\* A refusal, an error, or the claim of another process.
StepFails(p) ==
    /\ step[p] \notin {"off", "serving", "over"}
    /\ step' = [step EXCEPT ![p] = "over"]
    /\ UNCHANGED <<role, traces, tasks, claim, starts>>

\* Over, in order or killed: tasks and connections end with the process.
Exit(p) ==
    /\ step[p] # "off"
    /\ step' = [step EXCEPT ![p] = "off"]
    /\ tasks' = [tasks EXCEPT ![p] = {}]
    /\ claim' = IF claim = p THEN Unclaimed ELSE claim
    /\ UNCHANGED <<role, traces, starts>>

ProcessInit ==
    /\ step = [p \in Process |-> "off"]
    /\ role = [p \in Process |-> {}]
    /\ traces = [p \in Process |-> {}]
    /\ tasks = [p \in Process |-> {}]
    /\ claim = Unclaimed
    /\ starts = 0

ProcessNext == \E p \in Process :
    \/ \E r \in Roles : Start(p, r)
    \/ Skip(p) \/ BootPart(p) \/ Claim(p) \/ StartPart(p)
    \/ Stop(p) \/ StopPart(p) \/ Release(p) \/ StepFails(p) \/ Exit(p)

ProcessSpec == ProcessInit /\ [][ProcessNext]_processVars

(***************************************************************************)
(* Properties.                                                             *)
(***************************************************************************)

Noticed(p) == MustClaim(p) /\ step[p] \notin {"off", "over"} /\ traces[p] # {}

\* Of the processes that want to produce into one named journal, one at a time
\* gets so far that anybody notices: another is refused before it has written a
\* row, asked the provider or bound its port (api_app.py create_app).
OneIsNoticed == \A p, q \in Process : Noticed(p) /\ Noticed(q) => p = q

\* Whatever step failed: nobody watches workers that drain, the tail outlives the
\* last pass, and the claim is given back by a process that runs nothing any more
\* (api_app.py lifespan).
ShutdownIsInOrder == \A p \in Process :
    /\ step[p] = "-workers" => "watchdog" \notin tasks[p]
    /\ "workers" \in tasks[p] /\ "stream" \in role[p] => "dispatcher" \in tasks[p]
    /\ MustClaim(p) /\ tasks[p] # {} => claim = p

\* A process is noticed alone, and leaves in the order its parts depend on.
ProcessesKeepOrder == OneIsNoticed /\ ShutdownIsInOrder
=============================================================================
