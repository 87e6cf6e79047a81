---------------------------- MODULE StallWatchdog ----------------------------
(***************************************************************************)
(* The watchdog over the workers (StallWatchdog).  Nothing else reports    *)
(* that work has stopped, so it has to say so, and to go on saying so: a   *)
(* standing stall is announced again after a gap that doubles up to a cap. *)
(*                                                                         *)
(* A worker is what the watchdog sees of it: how long ago its last pass    *)
(* began, and whether its task has ended.                                  *)
(***************************************************************************)
EXTENDS Integers

CONSTANTS
    Watched,      \* the workers
    Threshold,    \* threshold_seconds of every worker
    FirstGap,     \* _REANNOUNCE_FIRST
    MaxGap        \* _REANNOUNCE_MAX

ASSUME WatchdogAssumption ==
    Threshold \in Nat /\ FirstGap \in Nat \ {0} /\ MaxGap \in Nat /\ FirstGap <= MaxGap

VARIABLES
    silent,   \* time since each worker's last pass began; Never; capped
    ended,    \* workers whose task is over (stopped_at)
    due,      \* _stalled: time until each standing stall is announced again
    gap,      \* _reannounce_gap, or Never
    told      \* history: what the operator last heard of each worker

watchdogVars == <<silent, ended, due, gap, told>>

Never == -1
Silence == {Never} \union 0 .. Threshold + 1
Gaps == {Never} \union FirstGap .. MaxGap

(***************************************************************************)
(* The workers.                                                            *)
(***************************************************************************)

\* last_run_at moves when a pass begins, however the pass ends.
PassBegins(w) ==
    /\ w \notin ended
    /\ silent' = [silent EXCEPT ![w] = 0]
    /\ UNCHANGED <<ended, due, gap, told>>

\* The task ends by an exception; only a restart brings the worker back.
TaskEnds(w) ==
    /\ w \notin ended
    /\ ended' = ended \union {w}
    /\ UNCHANGED <<silent, due, gap, told>>

Passes(t) == IF t > 0 THEN t - 1 ELSE t
Grows(t) == IF t = Never \/ t > Threshold THEN t ELSE t + 1

TimePasses ==
    /\ silent' = [w \in Watched |-> Grows(silent[w])]
    /\ due' = [w \in Watched |-> Passes(due[w])]
    /\ UNCHANGED <<ended, gap, told>>

(***************************************************************************)
(* check: every worker against its threshold.                              *)
(***************************************************************************)

Silent(w) == silent[w] > Threshold
Standing(w) == due[w] # Never

Onset(w) == Silent(w) /\ ~Standing(w)

Repeats(w) == Silent(w) /\ due[w] = 0
Recovers(w) == ~Silent(w) /\ Standing(w)

Waited(w) == IF gap[w] = Never THEN FirstGap ELSE gap[w]

Doubled(w) == IF 2 * Waited(w) < MaxGap THEN 2 * Waited(w) ELSE MaxGap

GapAfter(w) ==
    CASE Repeats(w) -> Doubled(w)
      [] Recovers(w) -> Never
      [] OTHER -> gap[w]

DueAfter(w) ==
    CASE Onset(w) -> FirstGap
      [] Repeats(w) -> Doubled(w)
      [] Recovers(w) -> Never
      [] OTHER -> due[w]

\* Faulty variant of Words: a restatement repeats the words of the onset.
WordsOfTheOnset(w) ==
    CASE Onset(w) -> IF w \in ended THEN "died" ELSE "stalled"
      [] Recovers(w) -> "recovered"
      [] OTHER -> told[w]

\* An event is for the log and the operator; a quiet tick leaves what they heard.
Words(w) ==
    CASE Onset(w) \/ Repeats(w) -> IF w \in ended THEN "died" ELSE "stalled"
      [] Recovers(w) -> "recovered"
      [] OTHER -> told[w]

\* check() awaits nothing, and the workers' states move on the same event loop.
Check ==
    /\ due' = [w \in Watched |-> DueAfter(w)]
    /\ gap' = [w \in Watched |-> GapAfter(w)]
    /\ told' = [w \in Watched |-> Words(w)]
    /\ UNCHANGED <<silent, ended>>

WatchdogInit ==
    /\ silent = [w \in Watched |-> Never]
    /\ ended = {}
    /\ due = [w \in Watched |-> Never]
    /\ gap = [w \in Watched |-> Never]
    /\ told = [w \in Watched |-> "nothing"]

WatchdogNext ==
    \/ \E w \in Watched : PassBegins(w) \/ TaskEnds(w)
    \/ TimePasses
    \/ Check

WatchdogSpec == WatchdogInit /\ [][WatchdogNext]_watchdogVars

(***************************************************************************)
(* Properties.                                                             *)
(***************************************************************************)

\* Every variable has its type.
WatchdogTypeOK ==
    /\ silent \in [Watched -> Silence]
    /\ ended \subseteq Watched
    /\ due \in [Watched -> {Never} \union 0 .. MaxGap]
    /\ gap \in [Watched -> Gaps]
    /\ told \in [Watched -> {"nothing", "stalled", "died", "recovered"}]

\* Every episode starts its doubling anew: no gap outlives its stall, so the
\* second line of a fresh stall is not hours late (stall_watchdog.py check).
GapsEndWithTheirStall ==
    \A w \in Watched : gap[w] # Never => Standing(w) /\ due[w] <= gap[w]

\* The operator is not left with a hiccup: of a worker that ran and died they
\* hear that it died, also when its stall was announced before it did, and are
\* never told after that it recovered (stall_watchdog.py check, StallEvent).
DeathIsAnnounced ==
    \A w \in Watched :
        w \in ended /\ silent[w] # Never ~> [](told[w] = "died")

\* What the operator hears of a silent worker is the whole of it: no reminder of a
\* stall that is over, and the end when it has one.
StallsAreTold == []GapsEndWithTheirStall /\ DeathIsAnnounced
=============================================================================
