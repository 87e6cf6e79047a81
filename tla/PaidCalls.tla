------------------------------ MODULE PaidCalls ------------------------------
(***************************************************************************)
(* The paid calls of one process (OpenAIEmbedder.embed, OpenAIProvider.    *)
(* complete_structured): pass threads that share one BudgetGuard, which    *)
(* suspends paid work when the provider reports its quota exhausted and    *)
(* probes for its return, and one CostRecorder, which writes what a call   *)
(* was billed to cost_log.                                                 *)
(*                                                                         *)
(* The guard takes no lock; a step of a thread runs from one Python call   *)
(* to the next, where the interpreter may switch threads.                  *)
(***************************************************************************)
EXTENDS Integers

CONSTANTS
    Caller,         \* threads that make paid calls
    Reprobe,        \* reprobe_interval_seconds
    MaxBatches,     \* batches of one embed call; a completion is one batch
    MaxTroubles     \* bound: times the quota runs out, or a call fails otherwise

ASSUME PaidCallsAssumption ==
    Reprobe \in Nat \ {0} /\ MaxBatches \in Nat \ {0} /\ MaxTroubles \in Nat

VARIABLES
    suspended,   \* _suspended
    retry,       \* what is left until _retry_at, 0 when elapsed; NotSet
    call,        \* each thread's [at, left, paid]: batches to go, batches charged
    quota,       \* external: does the provider's account have quota?
    unlogged,    \* history: a charge that cost_log will never have
    troubles     \* history

paidVars == <<suspended, retry, call, quota, unlogged, troubles>>

NotSet == -1
Idle == [at |-> "idle", left |-> 0, paid |-> 0]
CallAt(c, at) == call' = [call EXCEPT ![c].at = at]
CallEnds(c) == call' = [call EXCEPT ![c] = Idle]

Trouble == troubles < MaxTroubles /\ troubles' = troubles + 1
Forgets(c) == unlogged' = (unlogged \/ call[c].paid > 0)

(***************************************************************************)
(* should_attempt.                                                         *)
(***************************************************************************)

\* The flag is read; not suspended, the call goes ahead.
Ask1(c) ==
    /\ call[c].at = "idle"
    /\ \E n \in 1 .. MaxBatches :
        call' = [call EXCEPT ![c] = [at |-> IF suspended THEN "asking" ELSE "calling",
                                     left |-> n, paid |-> 0]]
    /\ UNCHANGED <<suspended, retry, quota, unlogged, troubles>>

CoolingOff == retry > 0

\* Within the cool-off the call is refused; after it, this is the probe.
Ask2(c) ==
    /\ call[c].at = "asking"
    /\ IF CoolingOff THEN CallEnds(c) ELSE CallAt(c, "rearming")
    /\ UNCHANGED <<suspended, retry, quota, unlogged, troubles>>

\* The window is re-armed for whoever asks next.
Rearm(c) ==
    /\ call[c].at = "rearming"
    /\ retry' = Reprobe
    /\ CallAt(c, "calling")
    /\ UNCHANGED <<suspended, quota, unlogged, troubles>>

(***************************************************************************)
(* The request.                                                            *)
(***************************************************************************)

Request(c) == call[c].at = "calling" /\ call[c].left > 0

\* The provider answers, and charges for it.
Billed(c) ==
    /\ Request(c) /\ quota
    /\ call' = [call EXCEPT ![c].left = @ - 1, ![c].paid = @ + 1]
    /\ UNCHANGED <<suspended, retry, quota, unlogged, troubles>>

\* Refused for quota: on_quota_error begins; what was paid before is forgotten.
RefusedForQuota(c) ==
    /\ Request(c) /\ ~quota
    /\ suspended' = TRUE
    /\ Forgets(c)
    /\ call' = [call EXCEPT ![c] = [Idle EXCEPT !.at = "arming"]]
    /\ UNCHANGED <<retry, quota, troubles>>

Arm(c) ==
    /\ call[c].at = "arming"
    /\ retry' = Reprobe
    /\ CallEnds(c)
    /\ UNCHANGED <<suspended, quota, unlogged, troubles>>

\* A time-out or another error; or a vector or an answer that does not parse,
\* which ends the call after it was charged.
RequestFails(c) ==
    /\ call[c].at = "calling" /\ Trouble
    /\ Forgets(c) /\ CallEnds(c)
    /\ UNCHANGED <<suspended, retry, quota>>

(***************************************************************************)
(* What a finished call leaves.                                            *)
(***************************************************************************)

\* One cost_log row for the call, or the write fails and the call with it.
RecordCost(c) ==
    /\ call[c].at = "calling" /\ call[c].left = 0
    /\ \/ /\ call' = [call EXCEPT ![c] = [Idle EXCEPT !.at = "spent"]]
          /\ UNCHANGED <<unlogged, troubles>>
       \/ Trouble /\ Forgets(c) /\ CallEnds(c)
    /\ UNCHANGED <<suspended, retry, quota>>

\* Faulty variant of RecordSpend: a success does not clear the suspension.
RecordSpendOnly(c) ==
    /\ call[c].at = "spent"
    /\ CallEnds(c)
    /\ UNCHANGED <<suspended, retry, quota, unlogged, troubles>>

\* A call succeeded, so there is quota: any suspension is cleared.
RecordSpend(c) ==
    /\ call[c].at = "spent"
    /\ suspended' = FALSE
    /\ retry' = IF suspended THEN NotSet ELSE retry
    /\ CallEnds(c)
    /\ UNCHANGED <<quota, unlogged, troubles>>

(***************************************************************************)
(* The account and the clock.                                              *)
(***************************************************************************)

RunsOut == quota /\ quota' = FALSE /\ Trouble
ToppedUp == ~quota /\ quota' = TRUE /\ UNCHANGED troubles

Account ==
    /\ RunsOut \/ ToppedUp
    /\ UNCHANGED <<suspended, retry, call, unlogged>>

CoolOffRuns ==
    /\ retry' = IF retry > 0 THEN retry - 1 ELSE retry
    /\ UNCHANGED <<suspended, call, quota, unlogged, troubles>>

PaidInit ==
    /\ suspended = FALSE /\ retry = NotSet
    /\ call = [c \in Caller |-> Idle]
    /\ quota = TRUE /\ unlogged = FALSE /\ troubles = 0

Steps(c) ==
    \/ Ask1(c) \/ Ask2(c) \/ Rearm(c) \/ Arm(c) \/ RecordCost(c) \/ RecordSpend(c)
    \/ Billed(c) \/ RefusedForQuota(c) \/ RequestFails(c)

PaidNext == (\E c \in Caller : Steps(c)) \/ Account \/ CoolOffRuns

PaidSpec == PaidInit /\ [][PaidNext]_paidVars

(***************************************************************************)
(* Properties.                                                             *)
(***************************************************************************)

\* Every variable has its type.
PaidTypeOK ==
    /\ suspended \in BOOLEAN /\ quota \in BOOLEAN
    /\ retry \in {NotSet} \union 0 .. Reprobe
    /\ call \in [Caller -> [at : {"idle", "asking", "rearming", "calling", "arming", "spent"},
                            left : 0 .. MaxBatches, paid : 0 .. MaxBatches]]
    /\ unlogged \in BOOLEAN /\ troubles \in 0 .. MaxTroubles

\* A suspension always has its end: no order of refusals, probes and late
\* successes leaves paid work suspended without a window that will elapse
\* (budget_guard.py on_quota_error, record_spend).
SuspensionEnds ==
    suspended => retry # NotSet \/ \E c \in Caller : call[c].at = "arming"

\* When the account has quota again, paid work resumes by itself
\* (budget_guard.py should_attempt, record_spend).
WorkResumes == quota ~> ~quota \/ ~suspended

=============================================================================
