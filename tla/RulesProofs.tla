----------------------------- MODULE RulesProofs -----------------------------
(***************************************************************************)
(* Proofs about what MCRules and MCReports compose: the order of a         *)
(* process's life, the replay of a connect, the price guard, the report    *)
(* route, breaking detection, configuration generations, the watcher and   *)
(* the panel.                                                              *)
(***************************************************************************)
EXTENDS ReplayCases, BreakingDetection, ConfigGenerations, EngineProcess, Dashboard, Netwatch,
        ReportRequests, PriceGuard, TLAPS, FiniteSetTheorems, SequenceTheorems,
        WellFoundedInduction, NaturalsInduction

(***************************************************************************)
(* A process's life.                                                       *)
(***************************************************************************)

LEMMA LifeInOrder ==
    /\ Len(LifeSteps) = 22 /\ LifeSteps[1] = "assemble" /\ LifeSteps[2] = "claim"
    /\ LifeSteps[3] = "attach" /\ LifeSteps[4] = "check_models"
    /\ LifeSteps[5] = "wire" /\ LifeSteps[6] = "dispatcher"
    /\ LifeSteps[7] = "workers" /\ LifeSteps[8] = "watchdog"
    /\ LifeSteps[9] = "display" /\ LifeSteps[10] = "poller"
    /\ LifeSteps[11] = "scheduler" /\ LifeSteps[12] = "bind"
    /\ LifeSteps[13] = "serving" /\ LifeSteps[14] = "-scheduler"
    /\ LifeSteps[15] = "-poller" /\ LifeSteps[16] = "-client"
    /\ LifeSteps[17] = "-watchdog" /\ LifeSteps[18] = "-workers"
    /\ LifeSteps[19] = "-dispatcher" /\ LifeSteps[20] = "-display"
    /\ LifeSteps[21] = "-claim" /\ LifeSteps[22] = "over"
<1> USE DEF LifeSteps, BootSteps, StartSteps, StopSteps
<1>1. /\ LifeSteps[1] = "assemble" /\ LifeSteps[2] = "claim" /\ LifeSteps[3] = "attach"
      /\ LifeSteps[4] = "check_models" /\ LifeSteps[5] = "wire" /\ LifeSteps[6] = "dispatcher"
    OBVIOUS
<1>2. /\ LifeSteps[7] = "workers" /\ LifeSteps[8] = "watchdog" /\ LifeSteps[9] = "display"
      /\ LifeSteps[10] = "poller" /\ LifeSteps[11] = "scheduler" /\ LifeSteps[12] = "bind"
    OBVIOUS
<1>3. /\ LifeSteps[13] = "serving" /\ LifeSteps[14] = "-scheduler" /\ LifeSteps[15] = "-poller"
      /\ LifeSteps[16] = "-client" /\ LifeSteps[17] = "-watchdog" /\ LifeSteps[18] = "-workers"
    OBVIOUS
<1>4. /\ LifeSteps[19] = "-dispatcher" /\ LifeSteps[20] = "-display" /\ LifeSteps[21] = "-claim"
      /\ LifeSteps[22] = "over"
    OBVIOUS
<1>5. Len(LifeSteps) = 22
    OBVIOUS
<1> HIDE DEF LifeSteps, BootSteps, StartSteps, StopSteps
<1> QED BY <1>1, <1>2, <1>3, <1>4, <1>5

\* No step is there twice, so After is the next of them.
LEMMA AfterIsNext ==
    /\ After("assemble") = "claim" /\ After("claim") = "attach"
    /\ After("attach") = "check_models" /\ After("check_models") = "wire"
    /\ After("wire") = "dispatcher" /\ After("dispatcher") = "workers"
    /\ After("workers") = "watchdog" /\ After("watchdog") = "display"
    /\ After("display") = "poller" /\ After("poller") = "scheduler"
    /\ After("scheduler") = "bind" /\ After("bind") = "serving"
    /\ After("serving") = "-scheduler" /\ After("-scheduler") = "-poller"
    /\ After("-poller") = "-client" /\ After("-client") = "-watchdog"
    /\ After("-watchdog") = "-workers" /\ After("-workers") = "-dispatcher"
    /\ After("-dispatcher") = "-display" /\ After("-display") = "-claim"
    /\ After("-claim") = "over"
<1>1. \A m, n \in 1 .. 21 : LifeSteps[m] = LifeSteps[n] => m = n
    BY LifeInOrder
<1>2. ASSUME NEW n \in 1 .. 21 PROVE After(LifeSteps[n]) = LifeSteps[n + 1]
  <2> DEFINE k == CHOOSE m \in 1 .. Len(LifeSteps) - 1 : LifeSteps[m] = LifeSteps[n]
  <2>1. k \in 1 .. 21 /\ LifeSteps[k] = LifeSteps[n]
      BY LifeInOrder
  <2>2. k = n
      BY <1>1, <2>1
  <2>3. After(LifeSteps[n]) = LifeSteps[1 + k]
      BY DEF After
  <2> HIDE DEF k
  <2>4. 1 + n = n + 1
      OBVIOUS
  <2> QED BY <2>2, <2>3, <2>4
<1>3. /\ After("assemble") = "claim" /\ After("claim") = "attach"
      /\ After("attach") = "check_models"
    BY <1>2, LifeInOrder
<1>4. /\ After("check_models") = "wire" /\ After("wire") = "dispatcher"
      /\ After("dispatcher") = "workers"
    BY <1>2, LifeInOrder
<1>5. /\ After("workers") = "watchdog" /\ After("watchdog") = "display"
      /\ After("display") = "poller"
    BY <1>2, LifeInOrder
<1>6. /\ After("poller") = "scheduler" /\ After("scheduler") = "bind"
      /\ After("bind") = "serving"
    BY <1>2, LifeInOrder
<1>7. /\ After("serving") = "-scheduler" /\ After("-scheduler") = "-poller"
      /\ After("-poller") = "-client"
    BY <1>2, LifeInOrder
<1>8. /\ After("-client") = "-watchdog" /\ After("-watchdog") = "-workers"
      /\ After("-workers") = "-dispatcher"
    BY <1>2, LifeInOrder
<1>9. /\ After("-dispatcher") = "-display" /\ After("-display") = "-claim"
      /\ After("-claim") = "over"
    BY <1>2, LifeInOrder
<1> QED BY <1>3, <1>4, <1>5, <1>6, <1>7, <1>8, <1>9

LEMMA Sets ==
    /\ ToSet(StartSteps) = {"dispatcher", "workers", "watchdog", "display", "poller", "scheduler"}
    /\ ToSet(StopSteps) = {"-scheduler", "-poller", "-client", "-watchdog", "-workers",
                           "-dispatcher", "-display", "-claim"}
    /\ \A s \in ToSet(StartSteps \o StopSteps) : s \in ToSet(StartSteps) \union ToSet(StopSteps)
<1>1. /\ ToSet(StartSteps) = {"dispatcher", "workers", "watchdog", "display", "poller", "scheduler"}
      /\ ToSet(StopSteps) = {"-scheduler", "-poller", "-client", "-watchdog", "-workers",
                             "-dispatcher", "-display", "-claim"}
    BY DEF StartSteps, StopSteps, ToSet
<1>2. \A s \in ToSet(StartSteps \o StopSteps) : s \in ToSet(StartSteps) \union ToSet(StopSteps)
    BY DEF StartSteps, StopSteps, ToSet
<1> QED BY <1>1, <1>2

AllSteps == {LifeSteps[n] : n \in 1 .. 22}
Claimed == AllSteps \ {"assemble", "claim", "over"}

ProcessTypeOK ==
    /\ step \in [Process -> AllSteps \union {"off"}]
    /\ role \in [Process -> SUBSET (Parts \union {"named"})]
    /\ traces \in [Process -> SUBSET (ToSet(StartSteps) \union {"attach", "check_models", "bind"})]
    /\ tasks \in [Process -> SUBSET ToSet(StartSteps)]
    /\ claim \in Process \union {Unclaimed}

\* A process without a claim has done nothing that shows, and runs nothing.
QuietBeforeItsClaim(p) ==
    /\ step[p] = "off" => tasks[p] = {} /\ claim # p
    /\ step[p] \in {"assemble", "claim"} => traces[p] = {} /\ tasks[p] = {}
    /\ step[p] \in Claimed /\ MustClaim(p) => claim = p

\* A part is started only for a role that needs it, the tail before the workers.
StartedInOrder(p) ==
    /\ \A part \in tasks[p] : Needs(part) \in role[p]
    /\ step[p] = "workers" /\ "stream" \in role[p] => "dispatcher" \in tasks[p]

\* What the shutdown has passed runs no more.
EndedInOrder(p) ==
    /\ step[p] \in {"-poller", "-client", "-watchdog", "-workers", "-dispatcher", "-display",
                    "-claim"} => "scheduler" \notin tasks[p]
    /\ step[p] \in {"-client", "-watchdog", "-workers", "-dispatcher", "-display", "-claim"}
            => "poller" \notin tasks[p]
    /\ step[p] \in {"-workers", "-dispatcher", "-display", "-claim"} => "watchdog" \notin tasks[p]
    /\ step[p] \in {"-dispatcher", "-display", "-claim"} => "workers" \notin tasks[p]
    /\ step[p] \in {"-display", "-claim"} => "dispatcher" \notin tasks[p]
    /\ step[p] = "-claim" => "display" \notin tasks[p]

InOrder(p) ==
    /\ "workers" \in tasks[p] /\ "stream" \in role[p] => "dispatcher" \in tasks[p]
    /\ MustClaim(p) /\ tasks[p] # {} => claim = p

OwnInv(p) == QuietBeforeItsClaim(p) /\ StartedInOrder(p) /\ EndedInOrder(p) /\ InOrder(p)

ProcessInv == ProcessTypeOK /\ \A p \in Process : OwnInv(p)

LEMMA StepsFact ==
    AllSteps = {"assemble", "claim", "attach", "check_models", "wire", "dispatcher", "workers",
                "watchdog", "display", "poller", "scheduler", "bind", "serving", "-scheduler",
                "-poller", "-client", "-watchdog", "-workers", "-dispatcher", "-display",
                "-claim", "over"}
<1>1. \A n \in 1 .. 22 : n = 1 \/ n = 2 \/ n = 3 \/ n = 4 \/ n = 5 \/ n = 6 \/ n = 7 \/ n = 8 \/ n = 9
        \/ n = 10 \/ n = 11 \/ n = 12 \/ n = 13 \/ n = 14 \/ n = 15 \/ n = 16 \/ n = 17 \/ n = 18
        \/ n = 19 \/ n = 20 \/ n = 21 \/ n = 22
    OBVIOUS
<1> QED BY <1>1, LifeInOrder DEF AllSteps

LEMMA ProcessStarts == ProcessInit => ProcessInv
  BY ProcessAssumption, StepsFact
  DEF ProcessInit, ProcessInv, ProcessTypeOK, OwnInv, QuietBeforeItsClaim, StartedInOrder,
      EndedInOrder, InOrder, Claimed, MustClaim

\* A step of one process leaves another's state and claim alone.
LEMMA OthersUndisturbed ==
    ASSUME ProcessInv, NEW p \in Process, NEW q \in Process, q # p,
           step'[q] = step[q], role'[q] = role[q], traces'[q] = traces[q], tasks'[q] = tasks[q],
           claim' = claim \/ (claim \in {Unclaimed, p} /\ claim' \in {Unclaimed, p})
    PROVE  OwnInv(q)'
<1>1. claim' = q <=> claim = q
    BY ProcessAssumption
<1>2. MustClaim(q)' = MustClaim(q)
    BY DEF MustClaim
<1> QED BY <1>1, <1>2 DEF ProcessInv, OwnInv, QuietBeforeItsClaim, StartedInOrder, EndedInOrder, InOrder

LEMMA LifeIsAllSteps == ToSet(LifeSteps) = AllSteps
<1>1. DOMAIN LifeSteps = 1 .. 22
  <2>1. LifeSteps \in Seq(AllSteps)
    <3>1. \A s \in Seq(UNION {AllSteps}) : DOMAIN s = 1 .. Len(s)
        OBVIOUS
    <3> QED BY LifeInOrder, StepsFact DEF LifeSteps, BootSteps, StartSteps, StopSteps
  <2> QED BY <2>1, LifeInOrder
<1> QED BY <1>1 DEF ToSet, AllSteps

LEMMA WhatStepsNeed ==
    /\ Needs("dispatcher") = "stream" /\ Needs("-dispatcher") = "stream"
    /\ Needs("workers") = "workers" /\ Needs("-workers") = "workers"
    /\ Needs("watchdog") = "workers" /\ Needs("-watchdog") = "workers"
    /\ Needs("display") = "display" /\ Needs("-display") = "display"
    /\ Needs("poller") = "commands" /\ Needs("-poller") = "commands"
    /\ Needs("scheduler") = "weekly" /\ Needs("-scheduler") = "weekly"
  BY DEF Needs

LEMMA ProcessKeeps ==
    ASSUME ProcessInv, NEW p \in Process, NEW r,
           (r \in Roles /\ Start(p, r)) \/ Skip(p) \/ BootPart(p) \/ Claim(p) \/ StartPart(p)
               \/ Stop(p) \/ StopPart(p) \/ Release(p) \/ StepFails(p) \/ Exit(p)
    PROVE  ProcessInv'
<1>0. /\ ProcessTypeOK /\ OwnInv(p) /\ claim \in Process \union {Unclaimed}
      /\ step[p] \in AllSteps \union {"off"} /\ role[p] \in SUBSET (Parts \union {"named"})
      /\ traces[p] \in SUBSET (ToSet(StartSteps) \union {"attach", "check_models", "bind"})
      /\ tasks[p] \in SUBSET ToSet(StartSteps)
    BY DEF ProcessInv, ProcessTypeOK
<1>1. CASE r \in Roles /\ Start(p, r)
  <2>1. /\ step'[p] = "assemble" /\ role'[p] = r /\ traces'[p] = {} /\ tasks'[p] = {}
        /\ claim' = claim
      BY <1>0, <1>1 DEF Start, BootSteps, ProcessTypeOK
  <2>2. OwnInv(p)'
      BY <2>1, StepsFact
      DEF OwnInv, QuietBeforeItsClaim, StartedInOrder, EndedInOrder, InOrder, Claimed, MustClaim
  <2>3. ProcessTypeOK'
      BY <1>0, <1>1, StepsFact, ProcessAssumption DEF Start, BootSteps, ProcessTypeOK
  <2>4. ASSUME NEW q \in Process, q # p PROVE OwnInv(q)'
      BY <1>0, <1>1, <2>4, OthersUndisturbed DEF Start, ProcessTypeOK
  <2> QED BY <2>2, <2>3, <2>4 DEF ProcessInv
<1>2. ASSUME Proceed(p), role' = role, step[p] \in AllSteps \ {"over"}
      PROVE  /\ step'[p] = After(step[p]) /\ step' \in [Process -> AllSteps \union {"off"}]
             /\ \A q \in Process : q # p => step'[q] = step[q]
    BY <1>0, <1>2, AfterIsNext, StepsFact DEF Proceed, ProcessTypeOK
<1>3. CASE Skip(p)
  <2>1. /\ step[p] \in AllSteps \ {"serving", "over"} /\ Proceed(p)
        /\ role' = role /\ traces' = traces /\ tasks' = tasks /\ claim' = claim
        /\ ~Applies(p, step[p]) \/ (step[p] \in {"claim", "-claim"} /\ ~MustClaim(p))
      BY <1>3, LifeIsAllSteps DEF Skip
  <2>2. QuietBeforeItsClaim(p)'
    <3>1. MustClaim(p)' = MustClaim(p)
        BY <2>1 DEF MustClaim
    <3>2. CASE step[p] = "claim"
        BY <1>2, <2>1, <3>1, <3>2, AfterIsNext, Sets DEF QuietBeforeItsClaim, Applies
    <3>3. CASE step[p] # "claim"
      <4>1. step[p] \in Claimed
          BY <2>1, <3>3, Sets DEF Applies, Claimed
      <4>2. step'[p] \in AllSteps \ {"assemble", "claim"}
          BY <1>2, <2>1, <4>1, AfterIsNext, StepsFact DEF Claimed
      <4> QED BY <1>0, <2>1, <3>1, <4>1, <4>2, StepsFact DEF OwnInv, QuietBeforeItsClaim
    <3> QED BY <3>2, <3>3
  <2>3. StartedInOrder(p)'
      BY <1>0, <1>2, <2>1, AfterIsNext, StepsFact, Sets, WhatStepsNeed
      DEF OwnInv, StartedInOrder, Applies
  <2>4. EndedInOrder(p)'
      BY <1>0, <1>2, <2>1, AfterIsNext, StepsFact, Sets, WhatStepsNeed
      DEF OwnInv, StartedInOrder, EndedInOrder, Applies
  <2>5. InOrder(p)'
      BY <1>0, <1>2, <2>1 DEF OwnInv, InOrder, MustClaim
  <2>6. ProcessTypeOK'
      BY <1>0, <1>2, <2>1 DEF ProcessTypeOK
  <2>7. ASSUME NEW q \in Process, q # p PROVE OwnInv(q)'
      BY <1>0, <1>2, <2>1, <2>7, OthersUndisturbed
  <2> QED BY <2>2, <2>3, <2>4, <2>5, <2>6, <2>7 DEF ProcessInv, OwnInv
<1>4. CASE BootPart(p)
  <2>1. /\ step[p] \in {"assemble", "attach", "check_models", "wire", "bind"} /\ Proceed(p)
        /\ role' = role /\ tasks' = tasks /\ claim' = claim
        /\ traces'[p] = IF step[p] \in {"attach", "check_models", "bind"}
                        THEN traces[p] \union {step[p]} ELSE traces[p]
        /\ traces' \in [Process -> SUBSET (ToSet(StartSteps) \union {"attach", "check_models", "bind"})]
        /\ \A q \in Process : q # p => traces'[q] = traces[q]
      BY <1>0, <1>4 DEF BootPart, ProcessTypeOK
  <2>2. OwnInv(p)'
      BY <1>0, <1>2, <2>1, AfterIsNext, StepsFact
      DEF OwnInv, QuietBeforeItsClaim, Claimed, MustClaim, StartedInOrder, EndedInOrder, InOrder
  <2>3. ProcessTypeOK'
      BY <1>0, <1>2, <2>1, StepsFact DEF ProcessTypeOK
  <2>4. ASSUME NEW q \in Process, q # p PROVE OwnInv(q)'
      BY <1>0, <1>2, <2>1, <2>4, StepsFact, OthersUndisturbed
  <2> QED BY <2>2, <2>3, <2>4 DEF ProcessInv
<1>5. CASE Claim(p)
  <2>1. /\ step[p] = "claim" /\ MustClaim(p) /\ claim = Unclaimed /\ claim' = p /\ Proceed(p)
        /\ role' = role /\ traces' = traces /\ tasks' = tasks
      BY <1>5 DEF Claim
  <2>2. OwnInv(p)'
      BY <1>0, <1>2, <2>1, AfterIsNext, StepsFact
      DEF OwnInv, QuietBeforeItsClaim, Claimed, MustClaim, StartedInOrder, EndedInOrder, InOrder
  <2>3. ProcessTypeOK'
      BY <1>0, <1>2, <2>1, StepsFact DEF ProcessTypeOK
  <2>4. ASSUME NEW q \in Process, q # p PROVE OwnInv(q)'
      BY <1>0, <1>2, <2>1, <2>4, StepsFact, OthersUndisturbed
  <2> QED BY <2>2, <2>3, <2>4 DEF ProcessInv
<1>6. CASE StartPart(p)
  <2>1. /\ step[p] \in ToSet(StartSteps) /\ Needs(step[p]) \in role[p] /\ Proceed(p)
        /\ role' = role /\ claim' = claim
      BY <1>6 DEF StartPart, Applies, StartSteps, StopSteps, ToSet
  <2>2. /\ tasks'[p] = tasks[p] \union {step[p]} /\ tasks' \in [Process -> SUBSET ToSet(StartSteps)]
        /\ traces'[p] = traces[p] \union {step[p]}
        /\ traces' \in [Process -> SUBSET (ToSet(StartSteps) \union {"attach", "check_models", "bind"})]
        /\ \A q \in Process : q # p => traces'[q] = traces[q] /\ tasks'[q] = tasks[q]
      BY <1>0, <1>6, <2>1 DEF StartPart, ProcessTypeOK
  <2>3. QuietBeforeItsClaim(p)'
      BY <1>0, <1>2, <2>1, <2>2, AfterIsNext, StepsFact, Sets
      DEF OwnInv, QuietBeforeItsClaim, Claimed, MustClaim
  <2>4. StartedInOrder(p)'
      BY <1>0, <1>2, <2>1, <2>2, AfterIsNext, StepsFact, Sets, WhatStepsNeed
      DEF OwnInv, StartedInOrder
  <2>5. EndedInOrder(p)'
      BY <1>0, <1>2, <2>1, <2>2, AfterIsNext, StepsFact, Sets DEF OwnInv, EndedInOrder
  <2>6. InOrder(p)'
      BY <1>0, <1>2, <2>1, <2>2, StepsFact, Sets
      DEF OwnInv, QuietBeforeItsClaim, Claimed, StartedInOrder, InOrder, MustClaim
  <2>7. ProcessTypeOK'
      BY <1>0, <1>2, <2>1, <2>2, StepsFact, Sets DEF ProcessTypeOK
  <2>8. ASSUME NEW q \in Process, q # p PROVE OwnInv(q)'
      BY <1>0, <1>2, <2>1, <2>2, <2>8, StepsFact, Sets, OthersUndisturbed
  <2> QED BY <2>3, <2>4, <2>5, <2>6, <2>7, <2>8 DEF ProcessInv, OwnInv
<1>7. CASE Stop(p)
  <2>1. /\ step[p] = "serving" /\ Proceed(p) /\ role' = role /\ traces' = traces
        /\ tasks' = tasks /\ claim' = claim
      BY <1>7 DEF Stop
  <2>2. OwnInv(p)'
      BY <1>0, <1>2, <2>1, AfterIsNext, StepsFact
      DEF OwnInv, QuietBeforeItsClaim, Claimed, MustClaim, StartedInOrder, EndedInOrder, InOrder
  <2>3. ProcessTypeOK'
      BY <1>0, <1>2, <2>1, StepsFact DEF ProcessTypeOK
  <2>4. ASSUME NEW q \in Process, q # p PROVE OwnInv(q)'
      BY <1>0, <1>2, <2>1, <2>4, StepsFact, OthersUndisturbed
  <2> QED BY <2>2, <2>3, <2>4 DEF ProcessInv
<1>8. CASE StopPart(p)
  <2>1. /\ step[p] \in ToSet(StopSteps) \ {"-claim"} /\ Proceed(p)
        /\ role' = role /\ traces' = traces /\ claim' = claim
      BY <1>8 DEF StopPart
  <2>2. /\ tasks'[p] = tasks[p] \ Ends(step[p]) /\ tasks' \in [Process -> SUBSET ToSet(StartSteps)]
        /\ \A q \in Process : q # p => tasks'[q] = tasks[q]
      BY <1>0, <1>8 DEF StopPart, ProcessTypeOK
  <2>3. /\ Ends("-scheduler") = {"scheduler"} /\ Ends("-poller") = {"poller"}
        /\ Ends("-watchdog") = {"watchdog"} /\ Ends("-workers") = {"workers"}
        /\ Ends("-dispatcher") = {"dispatcher"} /\ Ends("-display") = {"display"}
        /\ Ends("-client") = {}
      BY DEF Ends
  <2>4. QuietBeforeItsClaim(p)'
      BY <1>0, <1>2, <2>1, <2>2, AfterIsNext, StepsFact, Sets
      DEF OwnInv, QuietBeforeItsClaim, Claimed, MustClaim
  <2>5. StartedInOrder(p)'
      BY <1>0, <1>2, <2>1, <2>2, AfterIsNext, StepsFact, Sets DEF OwnInv, StartedInOrder
  <2>6. EndedInOrder(p)'
      BY <1>0, <1>2, <2>1, <2>2, <2>3, AfterIsNext, StepsFact, Sets DEF OwnInv, EndedInOrder
  <2>7. InOrder(p)'
      BY <1>0, <1>2, <2>1, <2>2, <2>3, StepsFact, Sets DEF OwnInv, EndedInOrder, InOrder, MustClaim
  <2>8. ProcessTypeOK'
      BY <1>0, <1>2, <2>1, <2>2, StepsFact, Sets DEF ProcessTypeOK
  <2>9. ASSUME NEW q \in Process, q # p PROVE OwnInv(q)'
      BY <1>0, <1>2, <2>1, <2>2, <2>9, StepsFact, Sets, OthersUndisturbed
  <2> QED BY <2>4, <2>5, <2>6, <2>7, <2>8, <2>9 DEF ProcessInv, OwnInv
<1>9. CASE Release(p)
  <2>1. /\ step[p] = "-claim" /\ MustClaim(p) /\ Proceed(p)
        /\ claim' = IF claim = p THEN Unclaimed ELSE claim
        /\ role' = role /\ traces' = traces /\ tasks' = tasks
      BY <1>9 DEF Release
  <2>2. claim = p /\ claim' = Unclaimed
      BY <1>0, <2>1, StepsFact DEF OwnInv, QuietBeforeItsClaim, Claimed
  <2>3. tasks[p] \subseteq {}
      BY <1>0, <2>1, Sets DEF OwnInv, EndedInOrder
  <2>4. OwnInv(p)'
      BY <1>0, <1>2, <2>1, <2>3, AfterIsNext, StepsFact
      DEF OwnInv, QuietBeforeItsClaim, Claimed, MustClaim, StartedInOrder, EndedInOrder, InOrder
  <2>5. ProcessTypeOK'
      BY <1>0, <1>2, <2>1, <2>2, StepsFact DEF ProcessTypeOK
  <2>6. ASSUME NEW q \in Process, q # p PROVE OwnInv(q)'
      BY <1>0, <1>2, <2>1, <2>2, <2>6, StepsFact, OthersUndisturbed
  <2> QED BY <2>4, <2>5, <2>6 DEF ProcessInv
<1>10. CASE StepFails(p)
  <2>1. /\ step'[p] = "over" /\ step' \in [Process -> AllSteps \union {"off"}]
        /\ \A q \in Process : q # p => step'[q] = step[q]
        /\ role' = role /\ traces' = traces /\ tasks' = tasks /\ claim' = claim
      BY <1>0, <1>10, StepsFact DEF StepFails, ProcessTypeOK
  <2>2. OwnInv(p)'
      BY <1>0, <2>1
      DEF OwnInv, QuietBeforeItsClaim, Claimed, MustClaim, StartedInOrder, EndedInOrder, InOrder
  <2>3. ProcessTypeOK'
      BY <1>0, <2>1 DEF ProcessTypeOK
  <2>4. ASSUME NEW q \in Process, q # p PROVE OwnInv(q)'
      BY <2>1, <2>4, OthersUndisturbed
  <2> QED BY <2>2, <2>3, <2>4 DEF ProcessInv
<1>11. CASE Exit(p)
  <2>1. /\ step'[p] = "off" /\ step' \in [Process -> AllSteps \union {"off"}]
        /\ tasks'[p] = {} /\ tasks' \in [Process -> SUBSET ToSet(StartSteps)]
        /\ \A q \in Process : q # p => step'[q] = step[q] /\ tasks'[q] = tasks[q]
        /\ role' = role /\ traces' = traces
        /\ claim' = IF claim = p THEN Unclaimed ELSE claim
      BY <1>0, <1>11 DEF Exit, ProcessTypeOK
  <2>2. OwnInv(p)'
      BY <1>0, <2>1, StepsFact, ProcessAssumption
      DEF OwnInv, QuietBeforeItsClaim, Claimed, MustClaim, StartedInOrder, EndedInOrder, InOrder
  <2>3. ProcessTypeOK'
      BY <1>0, <2>1 DEF ProcessTypeOK
  <2>4. ASSUME NEW q \in Process, q # p PROVE OwnInv(q)'
      BY <2>1, <2>4, OthersUndisturbed
  <2> QED BY <2>2, <2>3, <2>4 DEF ProcessInv
<1> QED BY <1>1, <1>3, <1>4, <1>5, <1>6, <1>7, <1>8, <1>9, <1>10, <1>11

\* However many processes an operator starts, in whatever roles, and wherever they fail:
\* two that must claim never both show, and a process takes itself down in the order its
\* parts depend on (api_app.py create_app, lifespan).
THEOREM ProcessesAreOrdered == ProcessSpec => []ProcessesKeepOrder
<1>1. ProcessInv /\ UNCHANGED processVars => ProcessInv'
    BY DEF processVars, ProcessInv, ProcessTypeOK, OwnInv, QuietBeforeItsClaim, StartedInOrder,
           EndedInOrder, InOrder, MustClaim
<1>2. ProcessInv /\ [ProcessNext]_processVars => ProcessInv'
  <2> SUFFICES ASSUME ProcessInv, ProcessNext PROVE ProcessInv'
      BY <1>1
  <2>1. PICK p \in Process :
          \/ \E r \in Roles : Start(p, r)
          \/ Skip(p) \/ BootPart(p) \/ Claim(p) \/ StartPart(p)
          \/ Stop(p) \/ StopPart(p) \/ Release(p) \/ StepFails(p) \/ Exit(p)
      BY DEF ProcessNext
  <2> QED BY <2>1, ProcessKeeps
<1>3. ProcessInv => ProcessesKeepOrder
  <2> SUFFICES ASSUME ProcessInv PROVE ProcessesKeepOrder
      OBVIOUS
  <2>1. ASSUME NEW p \in Process, Noticed(p) PROVE claim = p
      BY <2>1, StepsFact
      DEF Noticed, ProcessInv, ProcessTypeOK, OwnInv, QuietBeforeItsClaim, Claimed
  <2>2. OneIsNoticed
      BY <2>1 DEF OneIsNoticed
  <2>3. ShutdownIsInOrder
      BY DEF ShutdownIsInOrder, ProcessInv, OwnInv, EndedInOrder, InOrder
  <2> QED BY <2>2, <2>3 DEF ProcessesKeepOrder
<1> QED BY <1>2, <1>3, ProcessStarts, PTL DEF ProcessSpec

(***************************************************************************)
(* The replay of a connect.                                                *)
(***************************************************************************)

ReplayTypeOK ==
    /\ series \in Seq({1}) /\ head \in [seq : Nat, epoch : {1}]
    /\ Len(series) \in head.seq .. head.seq + 1
    /\ window \in 0 .. Len(series)
    /\ request \in [kind : {"history", "since"}, n : Nat, epoch : {NoEpoch, 1, 2}]

\* A read of the journal is a stretch of it.
LEMMA RowsAreAStretch ==
    ASSUME NEW s \in Seq({1}), NEW after \in Nat, NEW limit \in Int
    PROVE  LET k == Larger(0, Smaller(limit, Len(s) - after)) IN
           /\ Len(Rows(s, after, limit)) = k
           /\ DOMAIN Rows(s, after, limit) = 1 .. k
           /\ \A i \in 1 .. k : Rows(s, after, limit)[i].seq = after + i
           /\ SeqsOf(Rows(s, after, limit)) = after + 1 .. after + k
<1> DEFINE k == Larger(0, Smaller(limit, Len(s) - after))
           rows == Rows(s, after, limit)
<1>1. k \in Nat
    BY DEF Larger, Smaller
<1>2. rows = [i \in 1 .. k |-> [seq |-> after + i, epoch |-> s[after + i]]]
    BY DEF Rows
<1> HIDE DEF k, rows
<1>3. DOMAIN rows = 1 .. k /\ Len(rows) = k /\ \A i \in 1 .. k : rows[i].seq = after + i
    BY <1>1, <1>2
<1>4. SeqsOf(rows) = after + 1 .. after + k
  <2>1. ASSUME NEW x \in SeqsOf(rows) PROVE x \in after + 1 .. after + k
      BY <1>1, <1>3 DEF SeqsOf
  <2>2. ASSUME NEW x \in after + 1 .. after + k PROVE x \in SeqsOf(rows)
    <3>1. x - after \in 1 .. k /\ after + (x - after) = x
        BY <1>1
    <3> QED BY <1>3, <3>1 DEF SeqsOf
  <2> QED BY <2>1, <2>2
<1> QED BY <1>3, <1>4 DEF k, rows

\* What a cursor is sent begins behind it, or at the floor, and ends at the head.
LEMMA SinceIsAStretch ==
    ASSUME ReplayTypeOK, request.kind = "since"
    PROVE  LET after == SinceAfter(head, request, window) IN
           \E k \in Nat :
            /\ k <= MaxReplayFrames
            /\ head.seq > after => k = head.seq - after
            /\ Len(PlanRows(series, head, request, window)) = k
            /\ DOMAIN PlanRows(series, head, request, window) = 1 .. k
            /\ \A i \in 1 .. k : PlanRows(series, head, request, window)[i].seq = after + i
            /\ Replayed = after + 1 .. after + k
<1> DEFINE after == SinceAfter(head, request, window)
           limit == Larger(1, head.seq - after)
           k == Larger(0, Smaller(limit, Len(series) - after))
<1>1. /\ head.seq \in Nat /\ request.n \in Nat /\ Len(series) \in Nat /\ window \in Nat
      /\ Len(series) >= head.seq
    BY DEF ReplayTypeOK
<1>2. Floor(head, window) \in Nat /\ Floor(head, window) >= 1
      /\ Floor(head, window) >= head.seq - MaxReplayFrames + 1
    BY <1>1, ReplayAssumption DEF Floor, Larger, NoFloor
<1>3. after \in Nat /\ after >= head.seq - MaxReplayFrames
    BY <1>1, <1>2, ReplayAssumption DEF SinceAfter, Larger
<1>4. PlanRows(series, head, request, window) = Rows(series, after, limit)
    BY DEF PlanRows, SinceRows
<1> HIDE DEF after
<1>5. limit \in Int /\ limit <= MaxReplayFrames /\ limit >= 1
    BY <1>1, <1>3, ReplayAssumption DEF Larger
<1>6. k \in Nat /\ k <= MaxReplayFrames /\ (head.seq > after => k = head.seq - after)
    BY <1>1, <1>3, <1>5, ReplayAssumption DEF Larger, Smaller
<1>7. series \in Seq({1})
    BY DEF ReplayTypeOK
<1> HIDE DEF limit
<1>8. /\ Len(Rows(series, after, limit)) = k
      /\ DOMAIN Rows(series, after, limit) = 1 .. k
      /\ \A i \in 1 .. k : Rows(series, after, limit)[i].seq = after + i
      /\ SeqsOf(Rows(series, after, limit)) = after + 1 .. after + k
    BY <1>3, <1>5, <1>7, RowsAreAStretch
<1> HIDE DEF k
<1> QED BY <1>4, <1>6, <1>8 DEF Replayed, after

\* A snapshot is a stretch that ends at the head, no longer than asked or allowed.
LEMMA SnapshotIsAStretch ==
    ASSUME ReplayTypeOK, request.kind = "history"
    PROVE  \E after \in Nat, k \in Nat :
            /\ k <= MaxReplayFrames
            /\ Len(PlanRows(series, head, request, window)) = k
            /\ DOMAIN PlanRows(series, head, request, window) = 1 .. k
            /\ \A i \in 1 .. k : PlanRows(series, head, request, window)[i].seq = after + i
            /\ Replayed = after + 1 .. after + k
            /\ k > 0 => after + k = head.seq /\ after >= head.seq - request.n
            /\ request.n > 0 /\ head.seq > 0 /\ window <= head.seq => k > 0
<1>1. /\ head.seq \in Nat /\ request.n \in Nat /\ Len(series) \in Nat /\ window \in Nat
      /\ Len(series) >= head.seq /\ series \in Seq({1})
    BY DEF ReplayTypeOK
<1>2. CASE request.n = 0 \/ head.seq = 0
  <2>1. PlanRows(series, head, request, window) = <<>>
      BY <1>2 DEF PlanRows, RecentRows
  <2>2. Replayed = 0 + 1 .. 0 + 0
      BY <2>1 DEF Replayed, SeqsOf
  <2>3. 0 \in Nat /\ 0 <= MaxReplayFrames /\ 1 .. 0 = {}
      BY ReplayAssumption
  <2>4. ~(0 > 0) /\ ~(request.n > 0 /\ head.seq > 0)
      BY <1>2
  <2> HIDE DEF Replayed
  <2> QED BY <2>1, <2>2, <2>3, <2>4
<1>3. CASE request.n # 0 /\ head.seq # 0
  <2> DEFINE oldest == IF window = NoFloor THEN head.seq ELSE window
             after == Larger(Larger(head.seq - request.n, oldest - 1), head.seq - MaxReplayFrames)
             limit == head.seq - after
             k == Larger(0, Smaller(limit, Len(series) - after))
  <2>1. PlanRows(series, head, request, window) = Rows(series, after, limit)
      BY <1>3 DEF PlanRows, RecentRows
  <2>2. after \in Nat /\ after >= head.seq - MaxReplayFrames /\ after >= head.seq - request.n
        /\ (window <= head.seq => after < head.seq)
    <3>1. oldest \in Nat /\ oldest >= 1 /\ (window <= head.seq => oldest <= head.seq)
        BY <1>1, <1>3 DEF NoFloor
    <3> HIDE DEF oldest
    <3>2. \A h, n, o, m \in Nat : o >= 1 /\ n # 0 /\ m # 0 =>
            LET a == Larger(Larger(h - n, o - 1), h - m) IN
            a \in Nat /\ a >= h - m /\ a >= h - n /\ (o <= h => a < h)
        BY DEF Larger
    <3> QED BY <1>1, <1>3, <3>1, <3>2, ReplayAssumption
  <2> HIDE DEF after
  <2>3. limit \in Int /\ k \in Nat /\ k <= MaxReplayFrames
        /\ (k > 0 => after + k = head.seq) /\ (after < head.seq => k > 0)
    <3>1. /\ MaxReplayFrames \in Nat /\ head.seq \in Nat /\ Len(series) \in Nat
          /\ after \in Nat /\ head.seq - after <= MaxReplayFrames
        BY <1>1, <2>2, ReplayAssumption
    <3>2. Len(series) >= head.seq
        BY <1>1
    <3> HIDE DEF after
    <3> QED BY <3>1, <3>2 DEF Larger, Smaller
  <2> HIDE DEF limit
  <2>4. /\ Len(Rows(series, after, limit)) = k
        /\ DOMAIN Rows(series, after, limit) = 1 .. k
        /\ \A i \in 1 .. k : Rows(series, after, limit)[i].seq = after + i
        /\ SeqsOf(Rows(series, after, limit)) = after + 1 .. after + k
      BY <1>1, <2>2, <2>3, RowsAreAStretch
  <2> HIDE DEF k
  <2> QED BY <2>1, <2>2, <2>3, <2>4 DEF Replayed
<1> QED BY <1>2, <1>3, <1>1
LEMMA ReplayStarts == ReplayInit => ReplayTypeOK
<1> SUFFICES ASSUME ReplayInit PROVE ReplayTypeOK
    OBVIOUS
<1>1. Len(series) = 0 /\ series \in Seq({1})
    BY DEF ReplayInit
<1> QED BY <1>1 DEF ReplayInit, ReplayTypeOK, NoEpoch, NoFloor

LEMMA ReplayStep == ReplayTypeOK /\ [ReplayNext]_replayVars => ReplayTypeOK'
<1> SUFFICES ASSUME ReplayTypeOK, [ReplayNext]_replayVars PROVE ReplayTypeOK'
    OBVIOUS
<1>1. CASE Publishes
  <2>1. PICK n \in 0 .. MaxSeq, later \in 0 .. 1 :
          head' = [head EXCEPT !.seq = n] /\ series' = Current(n + later)
      BY <1>1 DEF Publishes
  <2>2. n \in Nat /\ n + later \in n .. n + 1 /\ n + later \in Nat
      OBVIOUS
  <2>3. series' \in Seq({1}) /\ Len(series') = n + later
    <3>1. \A m \in Nat : Current(m) \in Seq({1}) /\ Len(Current(m)) = m
        BY DEF Current
    <3> QED BY <2>1, <2>2, <3>1
  <2>4. head' \in [seq : Nat, epoch : {1}] /\ head'.seq = n
      BY <2>1, <2>2 DEF ReplayTypeOK
  <2> QED BY <1>1, <2>2, <2>3, <2>4 DEF Publishes, ReplayTypeOK
<1>2. CASE Asks
    BY <1>2 DEF Asks, ReplayTypeOK, NoEpoch
<1>3. CASE UNCHANGED replayVars
    BY <1>3 DEF replayVars, ReplayTypeOK
<1> QED BY <1>1, <1>2, <1>3 DEF ReplayNext

\* For journals of every length, every cursor and every bound: what a connect replays is
\* complete or tells where it was cut, in order, bounded, and a snapshot ends at the head
\* (stream_replay.py plan).
THEOREM ReplaysKeepTheirWord == ReplaySpec => []StreamIsReplayed
<1>1. ReplayTypeOK => StreamIsReplayed
  <2> SUFFICES ASSUME ReplayTypeOK PROVE StreamIsReplayed
      OBVIOUS
  <2> DEFINE rows == PlanRows(series, head, request, window)
  <2>1. /\ head.seq \in Nat /\ request.n \in Nat /\ request.kind \in {"history", "since"}
        /\ window \in Nat
      BY DEF ReplayTypeOK
  <2>2. ASSUME NEW after \in Nat, NEW k \in Nat, k <= MaxReplayFrames, Len(rows) = k,
               DOMAIN rows = 1 .. k, \A i \in 1 .. k : rows[i].seq = after + i,
               Replayed = after + 1 .. after + k, Resumes => after >= request.n
        PROVE  ReplayIsOrderedAndBounded
    <3> HIDE DEF rows
    <3>1. \A i \in DOMAIN rows : rows[i].seq = rows[1].seq + i - 1
        BY <2>2
    <3>2. Resumes => \A s \in Replayed : s > request.n
        BY <2>1, <2>2
    <3> QED BY <2>2, <3>1, <3>2 DEF ReplayIsOrderedAndBounded, rows
  <2>3. CASE request.kind = "since"
    <3> DEFINE after == SinceAfter(head, request, window)
    <3>1. PICK k \in Nat :
            /\ k <= MaxReplayFrames
            /\ head.seq > after => k = head.seq - after
            /\ Len(rows) = k
            /\ DOMAIN rows = 1 .. k
            /\ \A i \in 1 .. k : rows[i].seq = after + i
            /\ Replayed = after + 1 .. after + k
        BY <2>3, SinceIsAStretch
    <3>2. /\ Floor(head, window) \in Nat /\ Floor(head, window) >= 1
        BY <2>1, ReplayAssumption DEF Floor, Larger, NoFloor
    <3>3. /\ after \in Nat /\ after >= request.n
          /\ Truncated(head, request, window) => after = Floor(head, window) - 1
          /\ ~Truncated(head, request, window) => after = request.n
        BY <2>1, <2>3, <3>2 DEF SinceAfter, Larger, Truncated
    <3> HIDE DEF after
    <3>4. ReplayIsCompleteOrTruncated
      <4> HIDE DEF rows
      <4>1. \A s \in Owed : s \in Nat /\ s <= head.seq /\ s > request.n
          BY <2>1 DEF Owed
      <4>2. \A s \in Owed : s > after => s \in Replayed
        <5> SUFFICES ASSUME NEW s \in Owed, s > after PROVE s \in after + 1 .. after + k
            BY <3>1
        <5> QED BY <2>1, <3>1, <3>3, <4>1
      <4>3. \A s \in Replayed : s > after
          BY <3>1, <3>3
      <4>4. CASE Truncated(head, request, window)
        <5>1. \A s \in Owed : s \in Replayed <=> s >= Floor(head, window)
            BY <3>2, <3>3, <4>1, <4>2, <4>3, <4>4
        <5> QED BY <4>4, <5>1 DEF ReplayIsCompleteOrTruncated
      <4>5. CASE ~Truncated(head, request, window)
          BY <3>3, <4>1, <4>2, <4>5 DEF ReplayIsCompleteOrTruncated
      <4> QED BY <4>4, <4>5
    <3>5. ReplayIsOrderedAndBounded
        BY <2>2, <3>1, <3>3
    <3> QED BY <2>3, <3>4, <3>5 DEF StreamIsReplayed, ReplayKeepsItsWord, SnapshotEndsAtHead
  <2>4. CASE request.kind = "history"
    <3>1. PICK after \in Nat, k \in Nat :
            /\ k <= MaxReplayFrames
            /\ Len(rows) = k
            /\ DOMAIN rows = 1 .. k
            /\ \A i \in 1 .. k : rows[i].seq = after + i
            /\ Replayed = after + 1 .. after + k
            /\ k > 0 => after + k = head.seq /\ after >= head.seq - request.n
            /\ request.n > 0 /\ head.seq > 0 /\ window <= head.seq => k > 0
        BY <2>4, SnapshotIsAStretch
    <3> HIDE DEF rows
    <3>2. ~Resumes
        BY <2>4 DEF Resumes
    <3>3. ReplayIsOrderedAndBounded
        BY <2>2, <3>1, <3>2
    <3>4. SnapshotEndsAtHead
      <4> SUFFICES ASSUME request.n > 0, head.seq > 0, window <= head.seq
                   PROVE  /\ head.seq \in Replayed
                          /\ \A s \in Replayed : s <= head.seq /\ s > head.seq - request.n
          BY DEF SnapshotEndsAtHead
      <4>1. k > 0 /\ after + k = head.seq /\ after >= head.seq - request.n
          BY <3>1
      <4> QED BY <2>1, <3>1, <4>1
    <3> QED BY <3>2, <3>3, <3>4
        DEF StreamIsReplayed, ReplayKeepsItsWord, ReplayIsCompleteOrTruncated
  <2> QED BY <2>1, <2>3, <2>4
<1> QED BY <1>1, ReplayStarts, ReplayStep, PTL DEF ReplaySpec

(***************************************************************************)
(* The price guard.                                                        *)
(***************************************************************************)

PageOK(page) ==
    /\ DOMAIN page.prices \subseteq PricedModel
    /\ ~page.readable => DOMAIN page.prices = {}
    /\ \A model \in DOMAIN page.prices, side \in Side : page.prices[model][side] \in Nat
LeavesOK(over) == DOMAIN over \subseteq Leaf /\ \A leaf \in DOMAIN over : over[leaf] \in Nat

\* What waits to be confirmed was found against the overlay as it still is.
ProposalStands ==
    proposed.drifts # NoDrifts => proposed.drifts = Drifts(PriceTable(leaves), proposed.page)

PriceInv ==
    /\ PageOK(vendorPage) /\ PageOK(proposed.page) /\ LeavesOK(leaves) /\ billed \in [Leaf -> Nat]
    /\ ProposalStands /\ SilenceIsAgreement /\ ConfirmationSettles

LEMMA MovedIsNotClose == \A price, read \in Nat : PriceMoved(price, read) <=> ~Close(price, read)
<1> SUFFICES ASSUME NEW price \in Nat, NEW read \in Nat
             PROVE  PriceMoved(price, read) <=> ~Close(price, read)
    OBVIOUS
<1> DEFINE gap == IF read > price THEN read - price ELSE price - read
           bar == Epsilon * price
<1>1. gap \in Nat /\ bar \in Nat
    BY PriceAssumption
<1>2. price = 0 => bar = 0 /\ gap = read
    BY PriceAssumption
<1> HIDE DEF gap, bar
<1>3. 100 * gap > bar <=> ~(100 * gap <= bar)
    BY <1>1
<1>4. price = 0 => (read # 0 <=> 100 * gap > bar)
    BY <1>1, <1>2
<1> QED BY <1>3, <1>4 DEF PriceMoved, Close, gap, bar

LEMMA TablesAreTyped == \A over : LeavesOK(over) => PriceTable(over) \in [Leaf -> Nat]
  BY PriceAssumption DEF LeavesOK, PriceTable

LEMMA ReadingsAreTyped ==
    ASSUME NEW page, PageOK(page)
    PROVE  /\ DOMAIN Probed(page) = DOMAIN page.prices
           /\ \A model \in DOMAIN page.prices, side \in Side : Probed(page)[model][side] \in Nat
<1>1. \A n \in Nat : PerThousand(n) \in Nat
    BY DEF PerThousand
<1> QED BY <1>1 DEF PageOK, Probed

\* A drift is found for each price that is not close to the table's, and for no other.
LEMMA DriftsAreExact ==
    ASSUME NEW table \in [Leaf -> Nat], NEW page, PageOK(page)
    PROVE  /\ \A model \in DOMAIN page.prices, side \in Side :
                ~Close(table[<<model, side>>], Probed(page)[model][side])
                    => [leaf |-> <<model, side>>, read |-> Probed(page)[model][side]]
                            \in Drifts(table, page)
           /\ \A d \in Drifts(table, page) : \E model \in DOMAIN page.prices, side \in Side :
                /\ d.leaf = <<model, side>> /\ d.read = Probed(page)[model][side]
                /\ ~Close(table[<<model, side>>], Probed(page)[model][side])
<1> DEFINE read == Probed(page)
           moved == {l \in (DOMAIN read) \X Side : PriceMoved(table[l], read[l[1]][l[2]])}
<1>1. Drifts(table, page) = {[leaf |-> l, read |-> read[l[1]][l[2]]] : l \in moved}
    BY DEF Drifts
<1>2. ASSUME NEW model \in DOMAIN page.prices, NEW side \in Side
      PROVE  /\ <<model, side>> \in (DOMAIN read) \X Side
             /\ PriceMoved(table[<<model, side>>], read[model][side])
                    <=> ~Close(table[<<model, side>>], read[model][side])
  <2>1. table[<<model, side>>] \in Nat /\ read[model][side] \in Nat /\ model \in DOMAIN read
      BY ReadingsAreTyped DEF Leaf, PageOK
  <2> QED BY <2>1, MovedIsNotClose
<1>3. ASSUME NEW model \in DOMAIN page.prices, NEW side \in Side,
             ~Close(table[<<model, side>>], read[model][side])
      PROVE  [leaf |-> <<model, side>>, read |-> read[model][side]] \in Drifts(table, page)
  <2> DEFINE l == <<model, side>>
  <2>1. l \in moved /\ l[1] = model /\ l[2] = side
      BY <1>2, <1>3
  <2> HIDE DEF l, moved
  <2>2. [leaf |-> l, read |-> read[l[1]][l[2]]] \in Drifts(table, page)
      BY <1>1, <2>1
  <2> QED BY <2>1, <2>2 DEF l
<1>4. ASSUME NEW d \in Drifts(table, page)
      PROVE  \E model \in DOMAIN page.prices, side \in Side :
                /\ d.leaf = <<model, side>> /\ d.read = read[model][side]
                /\ ~Close(table[<<model, side>>], read[model][side])
  <2>1. PICK l \in moved : d = [leaf |-> l, read |-> read[l[1]][l[2]]]
      BY <1>1
  <2>2. l[1] \in DOMAIN page.prices /\ l[2] \in Side /\ l = <<l[1], l[2]>>
      BY ReadingsAreTyped
  <2>3. PriceMoved(table[l], read[l[1]][l[2]])
      OBVIOUS
  <2> QED BY <1>2, <2>1, <2>2, <2>3
<1> QED BY <1>3, <1>4

LEMMA PricesStart == PriceInit => PriceInv
<1> SUFFICES ASSUME PriceInit PROVE PriceInv
    OBVIOUS
<1>1. PageOK(Unreadable) /\ LeavesOK(<<>>)
    BY DEF PageOK, LeavesOK, Unreadable, PageOf
<1>2. billed \in [Leaf -> Nat]
    BY <1>1, TablesAreTyped DEF PriceInit
<1>3. ProposalStands
    BY DEF PriceInit, ProposalStands, NothingProposed
<1>4. SilenceIsAgreement
    BY DEF PriceInit, NoWeek, SilenceIsAgreement
<1>5. ConfirmationSettles
    BY DEF PriceInit, ConfirmationSettles
<1> QED BY <1>1, <1>2, <1>3, <1>4, <1>5 DEF PriceInv, PriceInit, NothingProposed

LEMMA PagesAreTyped == \A page \in Pages : PageOK(page)
<1>1. PageOK(Unreadable)
    BY DEF PageOK, Unreadable, PageOf
<1>2. ASSUME NEW page \in Pages, page # Unreadable PROVE PageOK(page)
  <2>1. PICK priced \in SUBSET PricedModel :
          page \in {PageOf(TRUE, prices) :
              prices \in {rows \in [priced -> UNION {PageRows[m] : m \in PricedModel}] :
                           \A m \in priced : rows[m] \in PageRows[m]}}
      BY <1>2 DEF Pages
  <2>2. PICK prices \in [priced -> UNION {PageRows[m] : m \in PricedModel}] :
          page = PageOf(TRUE, prices) /\ \A m \in priced : prices[m] \in PageRows[m]
      BY <2>1
  <2>3. page.prices = prices /\ DOMAIN prices = priced /\ page.readable
      BY <2>2 DEF PageOf
  <2>4. \A m \in priced : prices[m] \in [Side -> Nat]
      BY <2>2, PriceAssumption
  <2> QED BY <2>3, <2>4 DEF PageOK
<1> QED BY <1>1, <1>2

\* The week's probe tells what it read of the table it was given.
LEMMA ProbesTell == PriceInv /\ WeeklyProbe => SilenceIsAgreement'
<1> SUFFICES ASSUME PriceInv, WeeklyProbe PROVE SilenceIsAgreement'
    OBVIOUS
<1> DEFINE drifts == Drifts(billed, vendorPage)
           read == Probed(vendorPage)
<1>1. CASE week' = NoWeek
    BY <1>1 DEF NoWeek, SilenceIsAgreement
<1>2. CASE week' # NoWeek
  <2>1. PICK rows \in {ProbeRows(vendorPage), <<>>} :
          week' = [page |-> vendorPage, table |-> billed, drifts |-> drifts, rows |-> rows,
                   notice |-> Notice(vendorPage, drifts)]
      BY <1>2 DEF WeeklyProbe
  <2> HIDE DEF drifts
  <2>2. /\ week'.page = vendorPage /\ week'.table = billed /\ week'.drifts = drifts
        /\ week'.rows = rows /\ week'.notice = Notice(vendorPage, drifts)
      BY <2>1
  <2>3. /\ PageOK(vendorPage) /\ billed \in [Leaf -> Nat] /\ DOMAIN read = DOMAIN vendorPage.prices
      BY ReadingsAreTyped DEF PriceInv
  <2>4. (\A model \in DOMAIN read, side \in Side : Close(billed[<<model, side>>], read[model][side]))
            <=> drifts = NoDrifts
      BY <2>3, DriftsAreExact DEF drifts, NoDrifts
  <2>5. DOMAIN read \subseteq PricedModel
      BY <2>3 DEF PageOK
  <2>6. week'.notice = "nothing" => \A model \in DOMAIN read, side \in Side :
            Close(billed[<<model, side>>], read[model][side])
      BY <2>2, <2>4 DEF Notice
  <2>7. ~vendorPage.readable => drifts = NoDrifts
      BY <2>3, <2>4 DEF PageOK
  <2>8. ASSUME rows # <<>>
        PROVE  /\ week'.notice = "unreadable" <=> "unreadable" \in {rows[m] : m \in PricedModel}
               /\ week'.notice = "drift" <=> \E model \in PricedModel, side \in Side :
                    rows[model] = "ok" /\ ~Close(billed[<<model, side>>], read[model][side])
    <3>1. rows = ProbeRows(vendorPage)
        BY <2>8
    <3>2. PricedModel # {}
      <4> SUFFICES ASSUME PricedModel = {} PROVE ProbeRows(vendorPage) = <<>>
          BY <2>8, <3>1
      <4> QED BY DEF ProbeRows
    <3>3. \A m \in PricedModel :
            /\ rows[m] = "unreadable" <=> ~vendorPage.readable
            /\ rows[m] = "ok" <=> vendorPage.readable /\ m \in DOMAIN read
        BY <2>3, <3>1 DEF ProbeRows
    <3>4. week'.notice = "unreadable" <=> ~vendorPage.readable
        BY <2>2 DEF Notice
    <3>5. week'.notice = "drift" <=> vendorPage.readable /\ drifts # NoDrifts
        BY <2>2 DEF Notice
    <3>6. (\E model \in PricedModel, side \in Side :
              rows[model] = "ok" /\ ~Close(billed[<<model, side>>], read[model][side]))
            <=> vendorPage.readable /\ drifts # NoDrifts
        BY <2>4, <2>5, <3>3
    <3>7. "unreadable" \in {rows[m] : m \in PricedModel} <=> ~vendorPage.readable
        BY <3>2, <3>3
    <3>8. week'.notice = "unreadable" <=> "unreadable" \in {rows[m] : m \in PricedModel}
        BY <3>4, <3>7
    <3>9. week'.notice = "drift" <=> \E model \in PricedModel, side \in Side :
            rows[model] = "ok" /\ ~Close(billed[<<model, side>>], read[model][side])
        BY <3>5, <3>6
    <3> HIDE DEF read
    <3> QED BY <3>8, <3>9, Zenon
  <2>9. week'.notice = "unreadable" => week'.drifts = NoDrifts
      BY <2>2, <2>7 DEF Notice
  <2>10. Probed(week'.page) = read /\ week'.table = billed /\ week'.rows = rows
      BY <2>2
  <2> HIDE DEF read
  <2>11. \A model \in DOMAIN read, side \in Side :
            week'.notice = "nothing" => Close(billed[<<model, side>>], read[model][side])
      BY <2>6
  <2> QED BY <2>8, <2>9, <2>10, <2>11 DEF SilenceIsAgreement
<1> QED BY <1>1, <1>2

\* What a confirmation writes: the leaves that moved, as they were read, and no other.
LEMMA WritesWhatMoved ==
    ASSUME LeavesOK(leaves), NEW page, PageOK(page),
           NEW drifts, drifts = Drifts(PriceTable(leaves), page)
    PROVE  /\ LeavesOK(Written(drifts))
           /\ \A leaf \in Leaf : (\A d \in drifts : d.leaf # leaf)
                => PriceTable(Written(drifts))[leaf] = PriceTable(leaves)[leaf]
           /\ \A model \in DOMAIN page.prices, side \in Side :
                Close(PriceTable(Written(drifts))[<<model, side>>], Probed(page)[model][side])
<1> DEFINE table == PriceTable(leaves)
           over == Written(drifts)
<1>1. table \in [Leaf -> Nat]
    BY TablesAreTyped
<1>2. \A d \in drifts : \E model \in DOMAIN page.prices, side \in Side :
        /\ d.leaf = <<model, side>> /\ d.read = Probed(page)[model][side]
        /\ d.leaf \in Leaf /\ d.read \in Nat
  <2> SUFFICES ASSUME NEW d \in drifts
               PROVE  \E model \in DOMAIN page.prices, side \in Side :
                        /\ d.leaf = <<model, side>> /\ d.read = Probed(page)[model][side]
                        /\ d.leaf \in Leaf /\ d.read \in Nat
      OBVIOUS
  <2>0. \A e \in Drifts(table, page) : \E model \in DOMAIN page.prices, side \in Side :
          /\ e.leaf = <<model, side>> /\ e.read = Probed(page)[model][side]
          /\ ~Close(table[<<model, side>>], Probed(page)[model][side])
      <3> HIDE DEF table
      <3> QED BY <1>1, DriftsAreExact
  <2>1. PICK model \in DOMAIN page.prices, side \in Side :
          d.leaf = <<model, side>> /\ d.read = Probed(page)[model][side]
      BY <2>0
  <2>2. d.leaf \in Leaf
      BY <2>1 DEF Leaf, PageOK
  <2>3. d.read \in Nat
      BY <2>1, ReadingsAreTyped
  <2> QED BY <2>1, <2>2, <2>3
<1>3. DOMAIN over = DOMAIN leaves \union {d.leaf : d \in drifts}
    BY DEF Written
<1>4. ASSUME NEW leaf \in DOMAIN over, \E d \in drifts : d.leaf = leaf
      PROVE  \E d \in drifts : d.leaf = leaf /\ over[leaf] = d.read
    BY <1>3, <1>4 DEF Written
<1>5. ASSUME NEW leaf \in DOMAIN over, \A d \in drifts : d.leaf # leaf
      PROVE  leaf \in DOMAIN leaves /\ over[leaf] = leaves[leaf]
    BY <1>3, <1>5 DEF Written
<1> HIDE DEF over
<1>6. LeavesOK(over)
  <2>1. DOMAIN over \subseteq Leaf
      BY <1>2, <1>3 DEF LeavesOK
  <2>2. \A leaf \in DOMAIN over : over[leaf] \in Nat
      BY <1>2, <1>4, <1>5 DEF LeavesOK
  <2> QED BY <2>1, <2>2 DEF LeavesOK
<1>7. ASSUME NEW leaf \in Leaf, \A d \in drifts : d.leaf # leaf
      PROVE  PriceTable(over)[leaf] = table[leaf]
  <2>1. leaf \in DOMAIN over <=> leaf \in DOMAIN leaves
      BY <1>3, <1>7
  <2> QED BY <1>5, <1>7, <2>1 DEF PriceTable
<1>8. ASSUME NEW model \in DOMAIN page.prices, NEW side \in Side
      PROVE  Close(PriceTable(over)[<<model, side>>], Probed(page)[model][side])
  <2> DEFINE leaf == <<model, side>>
             read == Probed(page)[model][side]
  <2>1. leaf \in Leaf /\ read \in Nat
      BY ReadingsAreTyped DEF Leaf, PageOK
  <2>2. CASE \E d \in drifts : d.leaf = leaf
    <3>1. leaf \in DOMAIN over
        BY <1>3, <2>2
    <3>2. PICK d \in drifts : d.leaf = leaf /\ over[leaf] = d.read
        BY <1>4, <2>2, <3>1
    <3>3. d.read = read
        BY <1>2, <3>2
    <3>4. PriceTable(over)[leaf] = read
        BY <2>1, <3>1, <3>2, <3>3 DEF PriceTable
    <3>5. \A n \in Nat : Close(n, n)
      <4> SUFFICES ASSUME NEW n \in Nat PROVE Close(n, n)
          OBVIOUS
      <4>1. n - n = 0 /\ Epsilon * n \in Nat
          BY PriceAssumption
      <4> QED BY <4>1 DEF Close
    <3> QED BY <2>1, <3>4, <3>5
  <2>3. CASE \A d \in drifts : d.leaf # leaf
    <3>1. Close(table[leaf], read)
      <4> SUFFICES ASSUME ~Close(table[leaf], read) PROVE FALSE
          OBVIOUS
      <4> DEFINE d == [leaf |-> leaf, read |-> read]
      <4>1. d \in drifts
          BY <1>1, DriftsAreExact
      <4>2. d.leaf = leaf
          OBVIOUS
      <4> HIDE DEF d
      <4> QED BY <2>3, <4>1, <4>2
    <3> QED BY <1>7, <2>1, <2>3, <3>1
  <2> QED BY <2>2, <2>3
<1> QED BY <1>6, <1>7, <1>8 DEF over

LEMMA PricesStep == PriceInv /\ [PriceNext]_priceVars => PriceInv'
<1> SUFFICES ASSUME PriceInv, [PriceNext]_priceVars PROVE PriceInv'
    OBVIOUS
<1>0. /\ PageOK(vendorPage) /\ PageOK(proposed.page) /\ LeavesOK(leaves) /\ billed \in [Leaf -> Nat]
      /\ ProposalStands /\ SilenceIsAgreement /\ ConfirmationSettles
    BY DEF PriceInv
<1>1. CASE VendorChangesPage
  <2>1. PageOK(vendorPage')
      BY <1>1, PagesAreTyped DEF VendorChangesPage
  <2> QED BY <1>0, <1>1, <2>1
      DEF VendorChangesPage, PriceInv, ProposalStands, SilenceIsAgreement, ConfirmationSettles, PageOK
<1>2. CASE EngineReadsTable
  <2>1. billed' \in [Leaf -> Nat]
      BY <1>0, <1>2, TablesAreTyped DEF EngineReadsTable
  <2> QED BY <1>0, <1>2, <2>1
      DEF EngineReadsTable, PriceInv, ProposalStands, SilenceIsAgreement, ConfirmationSettles
<1>3. CASE WeeklyProbe
  <2>1. SilenceIsAgreement'
      BY <1>3, ProbesTell
  <2> QED BY <1>0, <1>3, <2>1 DEF WeeklyProbe, PriceInv, ProposalStands, ConfirmationSettles
<1>4. CASE ProposeDrifts
  <2>1. /\ proposed'.page = vendorPage /\ proposed'.drifts = Drifts(PriceTable(leaves), vendorPage)
        /\ UNCHANGED <<vendorPage, leaves, billed, week, vouched>>
      BY <1>4 DEF ProposeDrifts
  <2>2. ProposalStands'
      BY <2>1 DEF ProposalStands
  <2>3. SilenceIsAgreement' /\ ConfirmationSettles'
      BY <1>0, <2>1 DEF SilenceIsAgreement, ConfirmationSettles
  <2> QED BY <1>0, <2>1, <2>2, <2>3 DEF PriceInv
<1>5. CASE Confirm
  <2>1. /\ leaves' = Written(proposed.drifts) /\ proposed' = NothingProposed
        /\ vouched'.page = proposed.page /\ vouched'.drifts = proposed.drifts
        /\ vouched'.table = PriceTable(leaves)
        /\ UNCHANGED <<vendorPage, billed, week>>
        /\ proposed.drifts = Drifts(PriceTable(leaves), proposed.page)
      BY <1>0, <1>5 DEF Confirm, ProposalStands
  <2>2. /\ LeavesOK(leaves')
        /\ \A leaf \in Leaf : (\A d \in proposed.drifts : d.leaf # leaf)
              => PriceTable(leaves')[leaf] = PriceTable(leaves)[leaf]
        /\ \A model \in DOMAIN proposed.page.prices, side \in Side :
              Close(PriceTable(leaves')[<<model, side>>], Probed(proposed.page)[model][side])
      BY <1>0, <2>1, WritesWhatMoved
  <2>3. ConfirmationSettles'
      BY <1>0, <2>1, <2>2, ReadingsAreTyped DEF ConfirmationSettles
  <2>4. ProposalStands' /\ PageOK(proposed'.page)
      BY <2>1 DEF ProposalStands, NothingProposed, PageOK, Unreadable, PageOf
  <2>5. SilenceIsAgreement'
      BY <1>0, <2>1 DEF SilenceIsAgreement
  <2> QED BY <1>0, <2>1, <2>2, <2>3, <2>4, <2>5 DEF PriceInv
<1>6. CASE Decline
  <2>1. ProposalStands' /\ PageOK(proposed'.page)
      BY <1>6 DEF Decline, ProposalStands, NothingProposed, PageOK, Unreadable, PageOf
  <2> QED BY <1>0, <1>6, <2>1 DEF Decline, PriceInv, SilenceIsAgreement, ConfirmationSettles
<1>7. CASE UNCHANGED priceVars
    BY <1>0, <1>7 DEF priceVars, PriceInv, ProposalStands, SilenceIsAgreement, ConfirmationSettles
<1> QED BY <1>1, <1>2, <1>3, <1>4, <1>5, <1>6, <1>7 DEF PriceNext

\* For every table, page and threshold: a week that says nothing means agreement, and a
\* confirmation settles what it was asked about and moves nothing else, whatever page and
\* engine do between the question and the answer (price_probe.py, price_overlay.py).
THEOREM PricesStayGuarded == PriceSpec => []PricesAreGuarded
<1>1. PriceInv => PricesAreGuarded
    BY DEF PriceInv, PricesAreGuarded
<1> QED BY <1>1, PricesStart, PricesStep, PTL DEF PriceSpec

(***************************************************************************)
(* Asking for a report.                                                    *)
(***************************************************************************)

\* What a request gives is a window or a source, and what a report declares for its
\* window is an expression.
RequestInv ==
    /\ requested.report \in ReportNames \union {"unknown"}
    /\ DOMAIN requested.given \subseteq {"window", "source_id"}
    /\ \A key \in DOMAIN requested.given : requested.given[key] \in Int
    /\ DOMAIN windowOf = Windowed \union {"cost"}
    /\ \A report \in Windowed : windowOf[report] \in Int

\* The catalog: which reports declare a window, and which takes a set of them.
LEMMA CatalogIsKnown ==
    /\ ReportNames = {"breaking", "cost", "source_quarantine", "source_health"}
    /\ Windowed = {"breaking", "source_quarantine"}
    /\ \A report \in ReportNames :
        /\ "window" \in Catalog[report].defaults => report \in Windowed
        /\ "windows" \in Catalog[report].params \union Catalog[report].defaults => report = "cost"
<1>1. ReportNames = {"breaking", "cost", "source_quarantine", "source_health"}
    BY DEF ReportNames, Catalog
<1>2. /\ Catalog["breaking"].params = {"window"} /\ Catalog["breaking"].defaults = {"window"}
      /\ Catalog["cost"].params = {"window", "windows"} /\ Catalog["cost"].defaults = {"windows"}
      /\ Catalog["source_quarantine"].params = {"window", "source_id"}
      /\ Catalog["source_quarantine"].defaults = {"window"}
      /\ Catalog["source_health"].params = {} /\ Catalog["source_health"].defaults = {}
    BY DEF Catalog, Takes
<1>3. Windowed = {"breaking", "source_quarantine"}
    BY <1>1, <1>2 DEF Windowed
<1> QED BY <1>1, <1>2, <1>3

LEMMA RequestsStart == RequestInit => RequestInv
<1> SUFFICES ASSUME RequestInit PROVE RequestInv
    OBVIOUS
<1>1. requested.report = "breaking" /\ requested.given = <<>>
    BY DEF RequestInit
<1>2. DOMAIN requested.given = {}
    BY <1>1
<1>3. \A report \in Windowed : windowOf[report] = 1
    BY CatalogIsKnown DEF RequestInit
<1>4. DOMAIN windowOf = Windowed \union {"cost"}
    BY DEF RequestInit
<1> QED BY <1>1, <1>2, <1>3, <1>4, CatalogIsKnown DEF RequestInv

LEMMA RequestsStep == RequestInv /\ [RequestNext]_requestVars => RequestInv'
<1> SUFFICES ASSUME RequestInv, [RequestNext]_requestVars PROVE RequestInv'
    OBVIOUS
<1>0. \A w \in Expressions \union {Malformed} : w \in Int
    BY RequestAssumption
<1>1. CASE AsksForReport
  <2>1. PICK report \in ReportNames \union {"unknown"}, keys \in SUBSET {"window", "source_id"},
             days \in Expressions \union {Malformed} :
            requested' = [report |-> report,
                          given |-> [key \in keys |-> IF key = "window" THEN days ELSE 0]]
      BY <1>1 DEF AsksForReport
  <2>2. /\ requested'.report = report
        /\ requested'.given = [key \in keys |-> IF key = "window" THEN days ELSE 0]
      BY <2>1
  <2>3. DOMAIN requested'.given = keys /\ \A key \in keys : requested'.given[key] \in Int
      BY <1>0, <2>2
  <2> QED BY <1>1, <2>2, <2>3 DEF AsksForReport, RequestInv
<1>2. CASE Reconfigures
  <2>1. DOMAIN windowOf' = DOMAIN windowOf /\ requested' = requested
      BY <1>2 DEF Reconfigures
  <2>2. \A report \in Windowed : windowOf'[report] \in Int
    <3> TAKE report \in Windowed
    <3>1. report # "cost" /\ report \in DOMAIN windowOf /\ windowOf[report] \in Int
        BY CatalogIsKnown DEF RequestInv
    <3>2. CASE \E other \in Windowed, days \in Expressions \union {Malformed} :
                windowOf' = [windowOf EXCEPT ![other] = days]
        BY <1>0, <3>1, <3>2
    <3>3. CASE \E windows \in SUBSET Expressions : windowOf' = [windowOf EXCEPT !.cost = windows]
        BY <3>1, <3>3
    <3> QED BY <1>2, <3>2, <3>3 DEF Reconfigures
  <2> QED BY <2>1, <2>2 DEF RequestInv
<1>3. CASE Regrants \/ UNCHANGED requestVars
    BY <1>3 DEF Regrants, requestVars, RequestInv
<1> QED BY <1>1, <1>2, <1>3 DEF RequestNext

\* What an answer applies was given by the call or is declared, and never both.
LEMMA AppliedKeysAreKnown ==
    ASSUME RequestInv, Answers200
    PROVE  /\ requested.report \in ReportNames /\ requested.report \in grants
           /\ Given \subseteq AppliedKeys
           /\ \A key \in AppliedKeys : key \in Given \/ key \in Wanted.defaults
           /\ "windows" \notin Given
<1>1. /\ Permitted(requested.report) /\ requested.report \in ReportNames
      /\ Wanted.required \ Given = {} /\ Given \ Wanted.params = {}
    BY DEF Answers200, Status
<1>2. "windows" \notin Given
    BY DEF RequestInv, Given
<1>3. Given \intersect Superseded = {}
    BY <1>2 DEF Superseded
<1> QED BY <1>1, <1>2, <1>3 DEF AppliedKeys, Permitted

\* The value of a window is a number of days, wherever it came from.
LEMMA WindowsAreDays ==
    ASSUME RequestInv, Answers200, "window" \in AppliedKeys
    PROVE  Resolved("window").value \in Int
<1>1. CASE "window" \in Given
    BY <1>1 DEF RequestInv, Given, Resolved, AppliedParam
<1>2. CASE "window" \notin Given
  <2>1. requested.report \in Windowed
      BY <1>2, AppliedKeysAreKnown, CatalogIsKnown DEF Wanted
  <2> QED BY <1>2, <2>1 DEF RequestInv, Resolved, AppliedParam
<1> QED BY <1>1, <1>2

\* An answer is what was resolved, or the ceiling for a window beyond it.
LEMMA AnsweredIs ==
    ASSUME NEW key
    PROVE  /\ Answered(key).source = Resolved(key).source
           /\ Answered(key).clamped => key = "window" /\ Resolved(key).value > Ceiling
           /\ ~Answered(key).clamped => Answered(key).value = Resolved(key).value
           /\ key = "window" /\ Resolved(key).value > Ceiling
                => Answered(key).clamped /\ Answered(key).value = Ceiling
           /\ (Resolved(key).source = "request") = (key \in Given)
           /\ (Resolved(key).source = "config") = (key \notin Given)
           /\ key \in Given => Resolved(key).value = requested.given[key]
           /\ key \notin Given => Resolved(key).value = windowOf[requested.report]
<1>1. CASE key \in Given
    BY <1>1 DEF Answered, Resolved, AppliedParam
<1>2. CASE key \notin Given
    BY <1>2 DEF Answered, Resolved, AppliedParam
<1> QED BY <1>1, <1>2

\* For every ceiling, configuration and grant: what a caller supplied is applied or
\* refused and never dropped, the window read is the window told (but for the cost
\* report's), and what is listed is what is answered (report_catalog.py resolve,
\* report_router.py report).
THEOREM RequestsStayAnswered == RequestSpec => []RequestsAreAnswered
<1>1. ASSUME RequestInv PROVE NothingIsIgnored
    BY <1>1, AppliedKeysAreKnown, AnsweredIs DEF NothingIsIgnored
<1>2. ASSUME RequestInv PROVE WindowIsTold
  <2> SUFFICES ASSUME Answers200, "window" \in AppliedKeys PROVE WindowIsTold
      BY DEF WindowIsTold
  <2> DEFINE param == Answered("window")
             days == Resolved("window").value
  <2>1. days \in Int /\ Ceiling \in Int
      BY <1>2, WindowsAreDays, RequestAssumption
  <2>2. /\ param.clamped <=> days > Ceiling
        /\ param.clamped => param.value = Ceiling
        /\ ~param.clamped => param.value = days
      BY AnsweredIs
  <2>3. requested.report = "cost" => "window" \in Given
      BY <1>2, AppliedKeysAreKnown, CatalogIsKnown DEF Wanted
  <2>4. ("windows" \in AppliedKeys) => FALSE
      BY <1>2, <2>3, AppliedKeysAreKnown, CatalogIsKnown DEF Wanted, AppliedKeys, Superseded
  <2>5. requested.report # "cost" => DaysRead = {param.value}
    <3> HIDE DEF param
    <3> QED BY DEF DaysRead, param
  <2>6. requested.report = "cost" => DaysRead = {days}
      BY <2>3 DEF DaysRead
  <2> HIDE DEF param, days
  <2>7. param.value <= Ceiling /\ ((days = param.value) <=> ~param.clamped)
      BY <2>1, <2>2
  <2>8. requested.report = "cost" => (DaysRead = {param.value}) = ~param.clamped
      BY <2>6, <2>7
  <2> QED BY <2>3, <2>4, <2>5, <2>7, <2>8 DEF param, WindowIsTold
<1>3. ASSUME RequestInv PROVE ListingIsTrue
  <2>1. requested.report \in Listing => Status \notin {403, 404}
      BY DEF Listing, Status, Permitted
  <2>2. Answers200 => requested.report \in Listing
      BY <1>3, AppliedKeysAreKnown DEF Listing
  <2> QED BY <2>1, <2>2 DEF ListingIsTrue
<1>4. RequestInv => RequestsAreAnswered
    BY <1>1, <1>2, <1>3 DEF RequestsAreAnswered
<1> QED BY <1>4, RequestsStart, RequestsStep, PTL DEF RequestSpec

(***************************************************************************)
(* Breaking detection.                                                     *)
(***************************************************************************)

FlagType == [tier : {Untagged, Mid, High}, trigger : {Null, "cluster", "keyword"},
             counts : [articles : Nat, feeds : Nat], terms : BOOLEAN]

DetectionTypeOK ==
    /\ detection \in Settings /\ active \in SUBSET Feed
    /\ age \in [Article -> {NotStored} \union Nat] /\ flag \in [Article -> FlagType]
    /\ batch \in SUBSET Article /\ scored \in SUBSET Article /\ maxTier \in Nat

\* What waits to be scored is of the set's own feeds, and nothing is flagged before it
\* was scored.
FlaggedWhenScored ==
    /\ \A a \in batch : FeedOf[a] \in active /\ age[a] # NotStored /\ flag[a] = Unflagged
    /\ \A a \in Article : age[a] = NotStored => flag[a] = Unflagged

HasFlag(story) == \E b \in Article : StoryOf[b] = story /\ flag[b].tier = High

\* A corroborated story has its flag, or an article still to be scored.
EvidenceToCome ==
    lost = {} => \A a \in Article : Corroborated(StoryOf[a]) =>
        HasFlag(StoryOf[a]) \/ \E b \in batch : StoryOf[b] = StoryOf[a]

DetectionInv ==
    /\ DetectionTypeOK /\ FlaggedWhenScored /\ EvidenceToCome
    /\ WakeCarriesTheHighest /\ PreflightProofsHold

LEMMA VerdictIs ==
    ASSUME NEW a
    PROVE  Verdict(a) =
            IF Burst(a) THEN Evidence(High, "cluster", Counted(a), FALSE)
            ELSE IF FastPath(a) THEN Evidence(High, "keyword", NoCounts, TRUE)
            ELSE IF SmallBurst(a) THEN Evidence(Mid, "cluster", Counted(a), FALSE)
            ELSE Unflagged
<1>1. CASE Burst(a)
    BY <1>1 DEF Verdict
<1>2. CASE ~Burst(a) /\ FastPath(a)
    BY <1>2 DEF Verdict
<1>3. CASE ~Burst(a) /\ ~FastPath(a) /\ SmallBurst(a)
    BY <1>3 DEF Verdict
<1>4. CASE ~Burst(a) /\ ~FastPath(a) /\ ~SmallBurst(a)
    BY <1>4 DEF Verdict
<1> QED BY <1>1, <1>2, <1>3, <1>4

LEMMA StretchesAreFinite ==
    ASSUME DetectionTypeOK, NEW articles \in SUBSET Article
    PROVE  /\ IsFiniteSet(articles) /\ IsFiniteSet(FeedsOf(articles)) /\ FeedsOf(articles) \subseteq Feed
           /\ Cardinality(articles) \in Nat /\ Cardinality(FeedsOf(articles)) \in Nat
<1>1. IsFiniteSet(articles)
    BY DetectionAssumption, FS_Subset
<1>2. FeedsOf(articles) \subseteq Feed
    BY DetectionAssumption DEF FeedsOf
<1>3. IsFiniteSet(FeedsOf(articles))
    BY <1>2, DetectionAssumption, FS_Subset
<1> QED BY <1>1, <1>2, <1>3, FS_CardinalityType

\* Fewer articles corroborate no more stories.
LEMMA CorroborationShrinks ==
    ASSUME DetectionTypeOK, NEW few \in SUBSET Article, NEW many \in SUBSET Article, few \subseteq many
    PROVE  /\ Cardinality(few) <= Cardinality(many)
           /\ Cardinality(FeedsOf(few)) <= Cardinality(FeedsOf(many))
<1>1. FeedsOf(few) \subseteq FeedsOf(many)
    BY DEF FeedsOf
<1> QED BY <1>1, StretchesAreFinite, FS_Subset

LEMMA VerdictsAreTyped ==
    ASSUME DetectionTypeOK, NEW a \in Article
    PROVE  Verdict(a) \in FlagType
<1>1. Neighbours(a) \in SUBSET Article
    BY DEF Neighbours
<1>2. Counted(a) \in [articles : Nat, feeds : Nat]
    BY <1>1, StretchesAreFinite DEF Counted, NoCounts
<1>3. Unflagged \in FlagType
    BY DEF Unflagged, Evidence, NoCounts, FlagType
<1> QED BY <1>2, <1>3, VerdictIs DEF FlagType, Evidence, NoCounts

\* Whichever article of a corroborated story is scored is flagged HIGH: the probe
\* counts the corpus, and the last of them finds the others there.
LEMMA TheLastSeesTheStory ==
    ASSUME DetectionTypeOK, NEW a \in Article, Corroborated(StoryOf[a])
    PROVE  Verdict(a).tier = High
<1>1. Neighbours(a) = Carried(StoryOf[a])
    BY DEF Neighbours, Carried
<1>2. Burst(a)
  <2>1. detection.high \in Nat
      BY DetectionAssumption DEF DetectionTypeOK
  <2>2. Carried(StoryOf[a]) \in SUBSET Article
      BY DEF Carried
  <2>3. Cardinality(Carried(StoryOf[a])) \in Nat /\ Cardinality(FeedsOf(Carried(StoryOf[a]))) \in Nat
      BY <2>2, StretchesAreFinite
  <2> QED BY <1>1, <2>1, <2>3 DEF Corroborated, Burst, ClusterSize, Counted
<1> QED BY <1>2, VerdictIs DEF Evidence

\* What the preflight calls out of reach no verdict reaches.
LEMMA VerdictsStayInReach ==
    ASSUME DetectionTypeOK, NEW a \in Article, FeedOf[a] \in active
    PROVE  /\ HighOutOfReach => ~(Verdict(a).tier = High /\ Verdict(a).trigger = "cluster")
           /\ MidOutOfReach => Verdict(a).tier # Mid
           /\ KeywordPathDead => Verdict(a).trigger # "keyword"
<1> DEFINE size == Cardinality(FeedsOf(Neighbours(a)))
           most == Cardinality(active)
<1>1. size \in Nat /\ most \in Nat /\ size <= most
  <2>1. Neighbours(a) \in SUBSET Article /\ FeedsOf(Neighbours(a)) \subseteq active
      BY DEF Neighbours, FeedsOf
  <2>2. IsFiniteSet(active)
      BY DetectionAssumption, FS_Subset DEF DetectionTypeOK
  <2> QED BY <2>1, <2>2, FS_Subset, FS_CardinalityType
<1>2. detection.high \in Nat /\ detection.mid \in Nat /\ detection.gate \in Nat
    BY DetectionAssumption DEF DetectionTypeOK
<1>3. Proves => ClusterSize(a) = size
    BY DEF Proves, ClusterSize, Counted
<1> HIDE DEF size, most
<1>4. HighOutOfReach => ~Burst(a)
    BY <1>1, <1>2, <1>3 DEF HighOutOfReach, Burst, most
<1>5. MidOutOfReach => ~SmallBurst(a)
    BY <1>1, <1>2, <1>3 DEF MidOutOfReach, SmallBurst, most
<1>6. KeywordPathDead => ~FastPath(a)
  <2>1. Weight[FeedOf[a]] \in Nat
      BY DetectionAssumption
  <2> QED BY <1>2, <2>1 DEF KeywordPathDead, FastPath
<1>7. Unflagged.tier = Untagged /\ Unflagged.trigger = Null
    BY DEF Unflagged, Evidence
<1> QED BY <1>4, <1>5, <1>6, <1>7, VerdictIs DEF High, Mid, Untagged, Null, Evidence

LEMMA DetectionStarts == DetectionInit => DetectionInv
<1> SUFFICES ASSUME DetectionInit PROVE DetectionInv
    OBVIOUS
<1>1. DetectionTypeOK
  <2>1. Unflagged \in FlagType
      BY DEF Unflagged, Evidence, NoCounts, FlagType
  <2> QED BY <2>1 DEF DetectionInit, DetectionTypeOK
<1>2. \A a \in Article : flag[a] = Unflagged /\ age[a] = NotStored
    BY DEF DetectionInit
<1>3. EvidenceToCome
  <2> SUFFICES ASSUME NEW a \in Article PROVE ~Corroborated(StoryOf[a])
      BY DEF EvidenceToCome
  <2>1. Carried(StoryOf[a]) = {}
      BY <1>2, DetectionAssumption DEF Carried, NotStored
  <2>2. FeedsOf({}) = {} /\ Cardinality({}) = 0
      BY FS_EmptySet DEF FeedsOf
  <2>3. detection.high \in Nat \ {0}
      BY <1>1, DetectionAssumption DEF DetectionTypeOK
  <2> QED BY <2>1, <2>2, <2>3 DEF Corroborated
<1>4. PreflightProofsHold
    BY <1>2 DEF PreflightProofsHold, Unflagged, Evidence, High, Mid, Untagged, Null
<1> QED BY <1>1, <1>2, <1>3, <1>4
        DEF DetectionInit, DetectionInv, FlaggedWhenScored, WakeCarriesTheHighest

\* A step that flags nothing keeps the preflight's word.
LEMMA PreflightStill ==
    ASSUME PreflightProofsHold, flag' = flag, detection' = detection, active' = active
    PROVE  PreflightProofsHold'
    BY DEF PreflightProofsHold, HighOutOfReach, MidOutOfReach, KeywordPathDead, Proves

LEMMA DetectionStep == DetectionInv /\ [DetectionNext]_detectionVars => DetectionInv'
<1> SUFFICES ASSUME DetectionInv, [DetectionNext]_detectionVars PROVE DetectionInv'
    OBVIOUS
<1>0. DetectionTypeOK /\ FlaggedWhenScored /\ EvidenceToCome /\ WakeCarriesTheHighest /\ PreflightProofsHold
    BY DEF DetectionInv
<1>1. CASE Stores
  <2>1. PICK fresh \in SUBSET {a \in Article : age[a] = NotStored /\ FeedOf[a] \in active},
             old \in SUBSET Article :
          /\ fresh # {} /\ batch' = fresh
          /\ age' = [a \in Article |-> IF a \notin fresh THEN age[a] ELSE IF a \in old THEN Old ELSE 0]
      BY <1>1 DEF Stores
  <2>2. DetectionTypeOK'
      BY <1>0, <1>1, <2>1, DetectionAssumption DEF Stores, DetectionTypeOK, Old
  <2>3. FlaggedWhenScored'
      BY <1>0, <1>1, <2>1, DetectionAssumption DEF Stores, FlaggedWhenScored, NotStored, Old
  <2>4. EvidenceToCome'
    <3> SUFFICES ASSUME lost = {}, NEW a \in Article, Corroborated(StoryOf[a])',
                        \A b \in fresh : StoryOf[b] # StoryOf[a]
                 PROVE  HasFlag(StoryOf[a])'
        BY <1>1, <2>1 DEF Stores, EvidenceToCome
    <3>1. Carried(StoryOf[a])' = Carried(StoryOf[a])
        BY <1>1, <2>1 DEF Stores, Carried
    <3>2. Corroborated(StoryOf[a])
        BY <1>1, <3>1 DEF Stores, Corroborated
    <3>3. HasFlag(StoryOf[a])
        BY <1>0, <1>1, <3>2 DEF Stores, EvidenceToCome
    <3> QED BY <1>1, <3>3 DEF Stores, HasFlag
  <2> QED BY <1>0, <1>1, <2>2, <2>3, <2>4, PreflightStill DEF Stores, DetectionInv, WakeCarriesTheHighest
<1>2. CASE OtherSetStores
  <2>1. PICK x \in Article : age[x] = NotStored /\ FeedOf[x] \notin active /\ age' = [age EXCEPT ![x] = 0]
      BY <1>2 DEF OtherSetStores
  <2>2. DetectionTypeOK' /\ FlaggedWhenScored'
      BY <1>0, <1>2, <2>1 DEF OtherSetStores, DetectionTypeOK, FlaggedWhenScored, NotStored
  <2>3. EvidenceToCome'
    <3>1. \A s : Carried(s)' = Carried(s)
        BY <1>0, <1>2, <2>1 DEF OtherSetStores, Carried, DetectionTypeOK
    <3> QED BY <1>0, <1>2, <3>1 DEF OtherSetStores, EvidenceToCome, Corroborated, HasFlag
  <2> QED BY <1>0, <1>2, <2>2, <2>3, PreflightStill DEF OtherSetStores, DetectionInv, WakeCarriesTheHighest
<1>3. CASE PassStops
  <2>1. lost' # {}
      BY <1>3 DEF PassStops
  <2> QED BY <1>0, <1>3, <2>1, PreflightStill
          DEF PassStops, DetectionInv, DetectionTypeOK, FlaggedWhenScored, EvidenceToCome,
              WakeCarriesTheHighest
<1>4. CASE TimeGoesBy
  <2>1. age' = [a \in Article |-> IF age[a] \in 0 .. Window THEN age[a] + 1 ELSE age[a]]
      BY <1>4 DEF TimeGoesBy
  <2>2. DetectionTypeOK' /\ FlaggedWhenScored'
      BY <1>0, <1>4, <2>1 DEF TimeGoesBy, DetectionTypeOK, FlaggedWhenScored, NotStored
  <2>3. EvidenceToCome'
    <3> SUFFICES ASSUME lost = {}, NEW a \in Article, Corroborated(StoryOf[a])'
                 PROVE  HasFlag(StoryOf[a])'
        BY <1>4 DEF TimeGoesBy, EvidenceToCome
    <3> DEFINE few == Carried(StoryOf[a])'
               many == Carried(StoryOf[a])
    <3>1. few \subseteq many /\ few \in SUBSET Article /\ many \in SUBSET Article
        BY <1>0, <1>4, <2>1, DetectionAssumption DEF TimeGoesBy, Carried, DetectionTypeOK, NotStored
    <3>2. /\ Cardinality(few) \in Nat /\ Cardinality(many) \in Nat
          /\ Cardinality(FeedsOf(few)) \in Nat /\ Cardinality(FeedsOf(many)) \in Nat
        BY <1>0, <3>1, StretchesAreFinite
    <3>3. Cardinality(few) <= Cardinality(many) /\ Cardinality(FeedsOf(few)) <= Cardinality(FeedsOf(many))
        BY <1>0, <3>1, CorroborationShrinks
    <3>4. detection.high \in Nat
        BY <1>0, DetectionAssumption DEF DetectionTypeOK
    <3>5. detection.enabled /\ detection.high <=
            Cardinality(IF detection.unit = "feeds" THEN FeedsOf(few) ELSE few)
        BY <1>4 DEF TimeGoesBy, Corroborated
    <3> HIDE DEF few
    <3>6. Corroborated(StoryOf[a])
        BY <3>2, <3>3, <3>4, <3>5 DEF Corroborated
    <3>7. HasFlag(StoryOf[a])
        BY <1>0, <1>4, <3>6 DEF TimeGoesBy, EvidenceToCome
    <3> QED BY <1>4, <3>7 DEF TimeGoesBy, HasFlag
  <2> QED BY <1>0, <1>4, <2>2, <2>3, PreflightStill DEF TimeGoesBy, DetectionInv, WakeCarriesTheHighest
<1>5. ASSUME NEW a \in Article, Scores(a) PROVE DetectionInv'
  <2> DEFINE new == IF Verdict(a).tier = Untagged THEN flag[a] ELSE Verdict(a)
  <2>1. a \in batch /\ flag[a] = Unflagged /\ FeedOf[a] \in active
      BY <1>0, <1>5 DEF Scores, FlaggedWhenScored
  <2>2. new \in FlagType /\ Verdict(a) \in FlagType
      BY <1>0, VerdictsAreTyped DEF DetectionTypeOK
  <2>3. flag' = [flag EXCEPT ![a] = new]
      BY <1>5 DEF Scores
  <2>4. Unflagged.tier = Untagged /\ Unflagged.trigger = Null
      BY DEF Unflagged, Evidence
  <2>5. new.tier = Verdict(a).tier
      BY <2>1, <2>4
  <2>6. new.trigger \in {Verdict(a).trigger, Null}
      BY <2>1, <2>4
  <2> HIDE DEF new
  <2>7. flag'[a] = new /\ \A b \in Article : b # a => flag'[b] = flag[b]
      BY <1>0, <2>3 DEF DetectionTypeOK
  <2>8. Verdict(a).tier \in {Untagged, Mid, High} /\ maxTier \in Nat
      BY <1>0, <2>2 DEF FlagType, DetectionTypeOK
  <2>9. maxTier' \in Nat /\ maxTier <= maxTier' /\ Verdict(a).tier <= maxTier'
      BY <1>5, <2>8 DEF Scores, Highest, Untagged, Mid, High
  <2>10. DetectionTypeOK'
      BY <1>0, <1>5, <2>2, <2>3, <2>9 DEF Scores, DetectionTypeOK
  <2>11. FlaggedWhenScored'
    <3>1. age[a] # NotStored \/ new = Unflagged
        BY <1>0, <2>1, <1>5 DEF Scores, FlaggedWhenScored, new
    <3> QED BY <1>0, <1>5, <2>7, <3>1 DEF Scores, FlaggedWhenScored
  <2>12. EvidenceToCome'
    <3> SUFFICES ASSUME lost = {}, NEW b \in Article, Corroborated(StoryOf[b]),
                        \A c \in batch' : StoryOf[c] # StoryOf[b]
                 PROVE  HasFlag(StoryOf[b])'
        BY <1>5 DEF Scores, EvidenceToCome, Corroborated, Carried
    <3>1. CASE StoryOf[b] = StoryOf[a]
      <4>1. new.tier = High
          BY <1>0, <2>5, <3>1, TheLastSeesTheStory
      <4> QED BY <2>7, <3>1, <4>1 DEF HasFlag
    <3>2. CASE StoryOf[b] # StoryOf[a]
      <4>1. HasFlag(StoryOf[b])
          BY <1>0, <1>5, <3>2 DEF Scores, EvidenceToCome
      <4> QED BY <2>7, <3>2, <4>1 DEF HasFlag
    <3> QED BY <3>1, <3>2
  <2>13. WakeCarriesTheHighest'
    <3> SUFFICES ASSUME NEW b \in scored' PROVE flag'[b].tier <= maxTier'
        BY DEF WakeCarriesTheHighest
    <3>1. CASE b = a
        BY <2>5, <2>7, <2>9, <3>1
    <3>2. CASE b # a
      <4>1. b \in scored /\ b \in Article /\ flag[b].tier \in Nat /\ flag[b].tier <= maxTier
          BY <1>0, <1>5, <3>2 DEF Scores, WakeCarriesTheHighest, DetectionTypeOK, FlagType, Untagged, Mid, High
      <4> HIDE DEF High, Mid, Untagged
      <4> QED BY <2>7, <2>8, <2>9, <3>2, <4>1
    <3> QED BY <3>1, <3>2
  <2>14. PreflightProofsHold'
    <3>1. /\ HighOutOfReach' = HighOutOfReach /\ MidOutOfReach' = MidOutOfReach
          /\ KeywordPathDead' = KeywordPathDead
        BY <1>5 DEF Scores, HighOutOfReach, MidOutOfReach, KeywordPathDead, Proves
    <3>2. /\ HighOutOfReach => ~(new.tier = High /\ new.trigger = "cluster")
          /\ MidOutOfReach => new.tier # Mid
          /\ KeywordPathDead => new.trigger # "keyword"
        BY <1>0, <2>1, <2>5, <2>6, VerdictsStayInReach DEF Null
    <3> QED BY <1>0, <2>7, <3>1, <3>2 DEF PreflightProofsHold
  <2> QED BY <2>10, <2>11, <2>12, <2>13, <2>14 DEF DetectionInv
<1>6. CASE UNCHANGED detectionVars
  <2>1. \A s : Carried(s)' = Carried(s)
      BY <1>6 DEF detectionVars, Carried
  <2> QED BY <1>0, <1>6, <2>1, PreflightStill
          DEF detectionVars, DetectionInv, DetectionTypeOK, FlaggedWhenScored, EvidenceToCome,
              WakeCarriesTheHighest, Corroborated, HasFlag
<1> QED BY <1>1, <1>2, <1>3, <1>4, <1>5, <1>6 DEF DetectionNext

\* For any feeds, articles, stories and thresholds, over passes that each see a part of
\* the story: a story corroborated inside the window has its HIGH flag once nothing waits
\* to be scored, the wake carries the highest tier written, and what the preflight proves
\* never happens (breaking_detector.py, pgvector_store.py count_neighbors,
\* detection_preflight.py).
THEOREM StoriesAreDetected == DetectionSpec => []DetectionHolds
<1>1. DetectionInv => DetectionHolds
    BY DEF DetectionInv, DetectionHolds, CorroboratedStoriesAreFlagged, EvidenceToCome, HasFlag
<1> QED BY <1>1, DetectionStarts, DetectionStep, PTL DEF DetectionSpec

(***************************************************************************)
(* Configuration generations.  Spans are read off the newest and oldest of *)
(* sets of log rows.                                                       *)
(***************************************************************************)

LEMMA SomeRowIsOldest ==
    ASSUME NEW rows, rows \subseteq Nat, rows # {}
    PROVE  Oldest(rows) \in rows /\ \A j \in rows : j >= Oldest(rows)
<1>1. PICK i \in rows : \A j \in rows : ~(<<j, i>> \in OpToRel(<, Nat))
    BY NatLessThanWellFounded, WFMin
<1>2. \A j \in rows : ~(j < i)
    BY <1>1 DEF OpToRel
<1>3. \A j \in rows : j >= i
    BY <1>2
<1> QED BY <1>3 DEF Oldest

LEMMA SomeRowIsNewest ==
    ASSUME NEW n \in Nat, NEW rows, rows \subseteq 1 .. n, rows # {}
    PROVE  Newest(rows) \in rows /\ \A j \in rows : j <= Newest(rows)
<1> DEFINE Mirror == {m \in Nat : n - m \in rows}
<1>1. Mirror \subseteq Nat /\ Mirror # {}
  <2>1. PICK i \in rows : TRUE
      OBVIOUS
  <2>2. n - i \in Nat /\ n - (n - i) = i
      BY <2>1
  <2>3. n - i \in Mirror
      BY <2>1, <2>2
  <2> QED BY <2>3
<1> DEFINE m == Oldest(Mirror)
<1>2. m \in Mirror /\ \A k \in Mirror : k >= m
  <2> HIDE DEF Mirror
  <2> QED BY <1>1, SomeRowIsOldest
<1> HIDE DEF m
<1>3. n - m \in rows /\ m \in Nat
    BY <1>2
<1>4. ASSUME NEW j \in rows PROVE j <= n - m
  <2>1. n - j \in Nat /\ n - (n - j) = j
      BY <1>4
  <2>2. n - j >= m
      BY <1>2, <2>1
  <2> QED BY <1>3, <2>2
<1> QED BY <1>3, <1>4 DEF Newest

Activated == [stream : Stream, generation : Generation, at : Nat, reason : {"boot", "rollback"}]
Assembly == [stream : Stream, generation : Generation]

GenerationTypeOK ==
    /\ now \in 1 .. MaxTime
    /\ running \in [Stream -> Generation \union {Nothing}]
    /\ log \in Seq(Activated) /\ history \in Seq(Assembly)
    /\ stamps \subseteq [stream : Stream, generation : Generation, at : 1 .. now - 1]
    /\ unwritten \in Nat /\ beside \subseteq Stream

\* Rows are written in the order of their times.
LogIsOrdered ==
    /\ \A i \in DOMAIN log : log[i].at \in 1 .. now - 1
    /\ \A i, j \in DOMAIN log : i < j => log[i].at < log[j].at

\* Where no write failed, the log is what was assembled.
LogIsComplete == unwritten = 0 =>
    /\ Len(log) = Len(history)
    /\ \A i \in DOMAIN log : /\ log[i].stream = history[i].stream
                             /\ log[i].generation = history[i].generation

\* The newest row of a stream is what the engine runs.
IsCurrent(stream) == \E i \in Mine(stream) :
    (\A j \in Mine(stream) : j <= i) /\ log[i].generation = running[stream]

CurrentIsLogged == \A stream \in Stream :
    Trusted(stream) /\ running[stream] # Nothing => IsCurrent(stream)

\* An envelope's generation is the newest row's at its time.
IsTraced(x) == \E i \in Mine(x.stream) :
    /\ log[i].at <= x.at /\ log[i].generation = x.generation
    /\ \A j \in Mine(x.stream) : j > i => log[j].at > x.at

StampsAreTraced == \A x \in stamps : Trusted(x.stream) => IsTraced(x)

GenerationInv ==
    /\ GenerationTypeOK /\ LogIsOrdered /\ LogIsComplete
    /\ CurrentIsLogged /\ StampsAreTraced /\ RollbacksAreTrue

LEMMA LogIsTyped ==
    ASSUME GenerationTypeOK
    PROVE  /\ Len(log) \in Nat /\ DOMAIN log = 1 .. Len(log)
           /\ \A i \in DOMAIN log : log[i] \in Activated /\ log[i].at \in Nat /\ i \in Nat
           /\ now \in Nat /\ MaxTime \in Nat
<1>1. Len(log) \in Nat /\ DOMAIN log = 1 .. Len(log)
    BY DEF GenerationTypeOK
<1>2. \A i \in DOMAIN log : log[i] \in Activated
    BY DEF GenerationTypeOK
<1> QED BY <1>1, <1>2, GenerationAssumption DEF Activated, GenerationTypeOK

\* The report gives an instant to the newest row at or before it, and to no other.
LEMMA SpansMeet ==
    ASSUME GenerationTypeOK, LogIsOrdered, NEW stream, NEW since \in 1 .. MaxTime,
           NEW t \in since .. now - 1, NEW i \in Mine(stream), log[i].at <= t,
           \A j \in Mine(stream) : j > i => log[j].at > t
    PROVE  /\ i \in Activations(stream, since)
           /\ \A j \in Activations(stream, since) :
                 Spans(t, Activations(stream, since), j) <=> j = i
<1> DEFINE A == Activations(stream, since)
<1> DEFINE earlier == {j \in Mine(stream) : log[j].at < since}
<1>1. /\ Mine(stream) \subseteq 1 .. Len(log) /\ Len(log) \in Nat /\ now \in Nat /\ MaxTime \in Nat
      /\ \A j \in Mine(stream) : log[j].at \in Nat /\ log[j].at < now
    BY LogIsTyped DEF Mine, LogIsOrdered
<1>2. \A j, k \in Mine(stream) : j < k => log[j].at < log[k].at
    BY DEF LogIsOrdered, Mine
<1>3. A \subseteq Mine(stream)
  <2>1. earlier # {} => Newest(earlier) \in earlier
      BY <1>1, SomeRowIsNewest
  <2> QED BY <2>1 DEF Activations, CarriedIn
<1>4. i \in A
  <2>1. CASE log[i].at >= since
      BY <2>1 DEF Activations
  <2>2. CASE log[i].at < since
    <3>1. i \in earlier
        BY <2>2
    <3>2. earlier \subseteq 1 .. Len(log)
        BY <1>1
    <3> DEFINE m == Newest(earlier)
    <3>3. m \in earlier /\ i <= m
      <4> HIDE DEF earlier
      <4>1. m \in earlier /\ \A j \in earlier : j <= m
          BY <1>1, <3>1, <3>2, SomeRowIsNewest
      <4> QED BY <3>1, <4>1
    <3>4. m = i
      <4>1. m \in Mine(stream) /\ log[m].at < since
          BY <3>3
      <4> HIDE DEF m
      <4>2. ~(log[m].at > t)
          BY <1>1, <4>1
      <4> QED BY <1>1, <3>3, <4>1, <4>2
    <3> QED BY <3>1, <3>4 DEF Activations, CarriedIn
  <2> QED BY <1>1, <2>1, <2>2
<1> HIDE DEF A
<1>5. ASSUME NEW j \in A PROVE Spans(t, A, j) <=> j = i
  <2> DEFINE later == {k \in A : k > j}
  <2>1. j \in Mine(stream) /\ i \in Mine(stream) /\ later \subseteq Nat
      BY <1>1, <1>3
  <2>2. later # {} => Oldest(later) \in later /\ \A k \in later : k >= Oldest(later)
    <3> HIDE DEF later
    <3> QED BY <2>1, SomeRowIsOldest
  <2>3. RanUntil(A, j) = IF later = {} THEN StillRuns ELSE log[Oldest(later)].at
      BY DEF RanUntil
  <2> DEFINE o == Oldest(later)
  <2>4. later # {} => o \in Mine(stream) /\ o > j
      BY <1>3, <2>2
  <2>5. CASE j = i
    <3>1. later # {} => log[o].at > t
        BY <2>4, <2>5
    <3>2. t < StillRuns
        BY <1>1 DEF StillRuns, GenerationTypeOK
    <3> HIDE DEF later, o
    <3>3. t < RanUntil(A, j)
        BY <2>3, <3>1, <3>2, <1>1, <2>4 DEF o
    <3> QED BY <2>5, <3>3 DEF Spans
  <2>6. CASE j > i
    <3>1. log[j].at > t
        BY <2>1, <2>6
    <3> QED BY <1>1, <2>1, <2>6, <3>1 DEF Spans
  <2>7. CASE j < i
    <3>1. i \in later
        BY <1>4, <2>7
    <3>2. o <= i /\ o \in Mine(stream)
        BY <2>2, <2>4, <3>1
    <3> HIDE DEF o, later
    <3>3. log[o].at <= log[i].at
        BY <1>1, <1>2, <2>1, <3>2
    <3>4. ~(t < RanUntil(A, j))
        BY <1>1, <2>1, <2>3, <3>1, <3>2, <3>3 DEF o
    <3> QED BY <1>1, <2>1, <2>7, <3>4 DEF Spans
  <2> QED BY <1>1, <2>1, <2>5, <2>6, <2>7
<1> QED BY <1>4, <1>5 DEF A

LEMMA SpansAreTrue == GenerationInv => SpansTellWhatRan
<1> SUFFICES ASSUME GenerationInv, NEW stream \in Stream, NEW since \in 1 .. MaxTime, Trusted(stream)
             PROVE  LET activations == Activations(stream, since)
                    IN  /\ \A x \in Stamped(stream, since) : \E i \in activations :
                            \A j \in activations : x \in Attributed(stream, since, j) <=> j = i
                        /\ running[stream] # Nothing =>
                            \E i \in activations : log[i].generation = running[stream]
                                                   /\ RanUntil(activations, i) = StillRuns
                        /\ \A t \in since .. now - 1 : (\E k \in Mine(stream) : log[k].at <= t) =>
                            \E i \in activations : \A j \in activations :
                                Spans(t, activations, j) <=> j = i
    BY DEF SpansTellWhatRan
<1> DEFINE A == Activations(stream, since)
<1>1. GenerationTypeOK /\ LogIsOrdered
    BY DEF GenerationInv
<1>2. /\ Mine(stream) \subseteq 1 .. Len(log) /\ Len(log) \in Nat /\ now \in Nat /\ MaxTime \in Nat
      /\ \A j \in Mine(stream) : log[j].at \in Nat /\ log[j].at < now
    BY <1>1, LogIsTyped DEF Mine, LogIsOrdered
<1>3. ASSUME NEW x \in Stamped(stream, since)
      PROVE  \E i \in A : \A j \in A : x \in Attributed(stream, since, j) <=> j = i
  <2>1. x \in stamps /\ x.stream = stream /\ x.at >= since /\ x.at \in 1 .. now - 1
      BY <1>1 DEF Stamped, GenerationTypeOK
  <2>2. PICK i \in Mine(stream) : /\ log[i].at <= x.at /\ log[i].generation = x.generation
                                  /\ \A j \in Mine(stream) : j > i => log[j].at > x.at
      BY <2>1 DEF GenerationInv, StampsAreTraced, IsTraced
  <2>3. x.at \in since .. now - 1
      BY <1>2, <2>1
  <2>4. i \in A /\ \A j \in A : Spans(x.at, A, j) <=> j = i
      BY <1>1, <2>2, <2>3, SpansMeet
  <2> HIDE DEF A
  <2>5. \A j \in A : x \in Attributed(stream, since, j) <=> x.generation = log[j].generation /\ Spans(x.at, A, j)
      BY DEF Attributed, A
  <2> QED BY <2>2, <2>4, <2>5
<1>4. ASSUME running[stream] # Nothing
      PROVE  \E i \in A : log[i].generation = running[stream] /\ RanUntil(A, i) = StillRuns
  <2>1. PICK i \in Mine(stream) :
            (\A j \in Mine(stream) : j <= i) /\ log[i].generation = running[stream]
      BY <1>4 DEF GenerationInv, CurrentIsLogged, IsCurrent
  <2> DEFINE earlier == {j \in Mine(stream) : log[j].at < since}
  <2>2. A \subseteq Mine(stream)
    <3>1. earlier # {} => Newest(earlier) \in earlier
        BY <1>2, SomeRowIsNewest
    <3> QED BY <3>1 DEF Activations, CarriedIn
  <2>3. i \in A
    <3>1. CASE log[i].at >= since
        BY <3>1 DEF Activations
    <3>2. CASE log[i].at < since
      <4>1. i \in earlier /\ earlier \subseteq 1 .. Len(log)
          BY <1>2, <3>2
      <4> DEFINE m == Newest(earlier)
      <4>2. m \in earlier /\ i <= m
        <5> HIDE DEF earlier
        <5>1. m \in earlier /\ \A j \in earlier : j <= m
            BY <1>2, <4>1, SomeRowIsNewest
        <5> QED BY <4>1, <5>1
      <4>3. m \in Mine(stream) /\ m <= i
          BY <2>1, <4>2
      <4> HIDE DEF m
      <4>4. m = i
          BY <1>2, <4>2, <4>3
      <4> QED BY <4>1, <4>4 DEF Activations, CarriedIn, m
    <3> QED BY <1>2, <3>1, <3>2
  <2>4. {k \in A : k > i} = {}
      BY <1>2, <2>1, <2>2
  <2>5. RanUntil(A, i) = StillRuns
      BY <2>4 DEF RanUntil
  <2> QED BY <2>1, <2>3, <2>5
<1>5. ASSUME NEW t \in since .. now - 1, NEW k \in Mine(stream), log[k].at <= t
      PROVE  \E i \in A : \A j \in A : Spans(t, A, j) <=> j = i
  <2> DEFINE before == {j \in Mine(stream) : log[j].at <= t}
  <2> DEFINE i == Newest(before)
  <2>1. before \subseteq 1 .. Len(log) /\ before # {}
      BY <1>2, <1>5
  <2>2. i \in before /\ \A j \in before : j <= i
    <3> HIDE DEF before
    <3> QED BY <1>2, <2>1, SomeRowIsNewest
  <2>3. \A j \in Mine(stream) : j > i => log[j].at > t
    <3> HIDE DEF i
    <3>1. ASSUME NEW j \in Mine(stream), j > i PROVE log[j].at > t
      <4>1. j \notin before
          BY <1>2, <2>2, <3>1
      <4> QED BY <1>2, <4>1
    <3> QED BY <3>1
  <2>4. i \in Mine(stream) /\ log[i].at <= t
      BY <2>2
  <2> HIDE DEF i
  <2>5. i \in A /\ \A j \in A : Spans(t, A, j) <=> j = i
      BY <1>1, <2>3, <2>4, SpansMeet
  <2> QED BY <2>5
<1> QED BY <1>3, <1>4, <1>5

LEMMA GenerationsStart == GenerationInit => GenerationInv
<1> SUFFICES ASSUME GenerationInit PROVE GenerationInv
    OBVIOUS
<1>1. log = <<>> /\ history = <<>> /\ Len(log) = 0 /\ Len(history) = 0 /\ DOMAIN log = {}
    BY DEF GenerationInit
<1>2. GenerationTypeOK
    BY <1>1, GenerationAssumption DEF GenerationInit, GenerationTypeOK
<1>3. CurrentIsLogged
    BY DEF GenerationInit, CurrentIsLogged
<1> QED BY <1>1, <1>2, <1>3
        DEF GenerationInit, GenerationInv, LogIsOrdered, LogIsComplete, StampsAreTraced, RollbacksAreTrue

\* A row that is appended is the newest; those before it stay.
LEMMA LogGrows ==
    ASSUME GenerationTypeOK, NEW stream \in Stream, NEW generation \in Generation,
           log' = Append(log, Activation(stream, generation))
    PROVE  /\ log' \in Seq(Activated) /\ Len(log') = Len(log) + 1
           /\ DOMAIN log' = 1 .. Len(log) + 1
           /\ \A i \in 1 .. Len(log) : log'[i] = log[i]
           /\ log'[Len(log) + 1] = Activation(stream, generation)
           /\ Mine(stream)' = Mine(stream) \union {Len(log) + 1}
           /\ \A s \in Stream : s # stream => Mine(s)' = Mine(s)
<1>1. /\ Len(log) \in Nat /\ DOMAIN log = 1 .. Len(log) /\ log \in Seq(Activated) /\ now \in Nat
    BY LogIsTyped DEF GenerationTypeOK
<1>2. Activation(stream, generation) \in Activated
    BY <1>1 DEF Activation, Activated, DeriveReason
<1> DEFINE new == Activation(stream, generation)
<1>3. new.stream = stream
    BY DEF Activation
<1> HIDE DEF new
<1>4. /\ log' \in Seq(Activated) /\ Len(log') = Len(log) + 1
      /\ DOMAIN log' = 1 .. Len(log) + 1
      /\ \A i \in 1 .. Len(log) : log'[i] = log[i]
      /\ log'[Len(log) + 1] = new
    BY <1>1, <1>2 DEF new
<1>5. Mine(stream)' = Mine(stream) \union {Len(log) + 1}
    BY <1>1, <1>3, <1>4 DEF Mine
<1>6. \A s \in Stream : s # stream => Mine(s)' = Mine(s)
    BY <1>1, <1>3, <1>4 DEF Mine
<1> QED BY <1>4, <1>5, <1>6 DEF new

\* GivenBack, of any rows.
Regains(before, rows, i) == \E k, l \in before :
    /\ rows[k].generation = rows[i].generation
    /\ \A m \in before : m <= l
    /\ rows[l].generation # rows[i].generation

LEMMA RegainsAlike ==
    ASSUME NEW before, NEW rows, NEW other, NEW i,
           rows[i] = other[i], \A k \in before : rows[k] = other[k]
    PROVE  Regains(before, rows, i) <=> Regains(before, other, i)
<1>1. Regains(before, rows, i) => Regains(before, other, i)
  <2> SUFFICES ASSUME Regains(before, rows, i) PROVE Regains(before, other, i)
      OBVIOUS
  <2>1. PICK k \in before, l \in before :
            /\ rows[k].generation = rows[i].generation
            /\ \A m \in before : m <= l
            /\ rows[l].generation # rows[i].generation
      BY DEF Regains
  <2>2. other[k].generation = other[i].generation /\ other[l].generation # other[i].generation
      BY <2>1
  <2> QED BY <2>1, <2>2 DEF Regains
<1>2. Regains(before, other, i) => Regains(before, rows, i)
  <2> SUFFICES ASSUME Regains(before, other, i) PROVE Regains(before, rows, i)
      OBVIOUS
  <2>1. PICK k \in before, l \in before :
            /\ other[k].generation = other[i].generation
            /\ \A m \in before : m <= l
            /\ other[l].generation # other[i].generation
      BY DEF Regains
  <2>2. rows[k].generation = rows[i].generation /\ rows[l].generation # rows[i].generation
      BY <2>1
  <2> QED BY <2>1, <2>2 DEF Regains
<1> QED BY <1>1, <1>2

\* A generation is given to a stream: by the engine, which runs it then, or by a tool.
LEMMA AssembledKeeps ==
    ASSUME GenerationInv, now < MaxTime, NEW stream \in Stream, NEW generation \in Generation,
           Assembled(stream, generation), now' = now + 1,
           history' = Append(history, [stream |-> stream, generation |-> generation]),
           stamps' = stamps, beside \subseteq beside', beside' \subseteq Stream,
           running' \in [Stream -> Generation \union {Nothing}],
           \A s \in Stream : s # stream => running'[s] = running[s],
           stream \notin beside' => running'[stream] = generation
    PROVE  GenerationInv'
<1>1. /\ Len(log) \in Nat /\ DOMAIN log = 1 .. Len(log) /\ log \in Seq(Activated)
      /\ now \in Nat /\ now >= 1 /\ MaxTime \in Nat /\ unwritten \in Nat
      /\ history \in Seq(Assembly) /\ Len(history) \in Nat /\ DOMAIN history = 1 .. Len(history)
    BY LogIsTyped DEF GenerationInv, GenerationTypeOK
<1> DEFINE entry == [stream |-> stream, generation |-> generation]
<1>2. entry \in Assembly /\ entry.stream = stream /\ entry.generation = generation
    BY DEF Assembly
<1> HIDE DEF entry
<1>3. /\ history' \in Seq(Assembly) /\ Len(history') = Len(history) + 1
      /\ \A i \in 1 .. Len(history) : history'[i] = history[i]
      /\ history'[Len(history) + 1] = entry
    BY <1>1, <1>2 DEF entry
<1>4. /\ now' \in 1 .. MaxTime /\ 1 .. now - 1 \subseteq 1 .. now' - 1 /\ now \in 1 .. now' - 1
      /\ stamps' \subseteq [stream : Stream, generation : Generation, at : 1 .. now' - 1]
  <2>1. now' \in 1 .. MaxTime /\ 1 .. now - 1 \subseteq 1 .. now' - 1 /\ now \in 1 .. now' - 1
      BY <1>1
  <2>2. stamps \subseteq [stream : Stream, generation : Generation, at : 1 .. now - 1]
      BY DEF GenerationInv, GenerationTypeOK
  <2> HIDE DEF entry
  <2> QED BY <2>1, <2>2
<1>5. CASE /\ log' = Append(log, Activation(stream, generation)) /\ unwritten' = unwritten
  <2> DEFINE new == Len(log) + 1
  <2>1. /\ log' \in Seq(Activated) /\ Len(log') = new
        /\ DOMAIN log' = 1 .. new
        /\ \A i \in 1 .. Len(log) : log'[i] = log[i]
        /\ log'[new] = Activation(stream, generation)
        /\ Mine(stream)' = Mine(stream) \union {new}
        /\ \A s \in Stream : s # stream => Mine(s)' = Mine(s)
      BY <1>5, LogGrows DEF GenerationInv
  <2>2. /\ log'[new].stream = stream /\ log'[new].generation = generation /\ log'[new].at = now
        /\ log'[new].reason = DeriveReason(stream, generation)
      BY <2>1 DEF Activation
  <2>3. \A s : Mine(s) \subseteq 1 .. Len(log)
      BY <1>1 DEF Mine
  <2> HIDE DEF new
  <2>4. new \in Nat /\ new > Len(log) /\ new = Len(log) + 1
      BY <1>1 DEF new
  <2>5. GenerationTypeOK'
      BY <1>1, <1>3, <1>4, <1>5, <2>1 DEF GenerationTypeOK
  <2>6. LogIsOrdered'
    <3>1. \A i \in 1 .. Len(log) : log[i].at \in 1 .. now - 1 /\ log[i].at \in Nat /\ log[i].at < now
        BY <1>1 DEF GenerationInv, LogIsOrdered
    <3>2. \A i \in 1 .. new : i \in 1 .. Len(log) \/ i = new
        BY <1>1, <2>4
    <3>3. ASSUME NEW i \in 1 .. new PROVE log'[i].at \in 1 .. now' - 1
        BY <1>4, <2>1, <2>2, <3>1, <3>2
    <3>4. ASSUME NEW i \in 1 .. new, NEW j \in 1 .. new, i < j PROVE log'[i].at < log'[j].at
      <4>1. i \in 1 .. Len(log)
          BY <1>1, <2>4, <3>4
      <4>2. CASE j = new
          BY <2>1, <2>2, <3>1, <4>1, <4>2
      <4>3. CASE j \in 1 .. Len(log)
        <5>1. log[i].at < log[j].at
            BY <1>1, <3>4, <4>1, <4>3 DEF GenerationInv, LogIsOrdered
        <5> QED BY <2>1, <4>1, <4>3, <5>1
      <4> QED BY <3>2, <4>2, <4>3
    <3> QED BY <2>1, <3>3, <3>4 DEF LogIsOrdered
  <2>7. LogIsComplete'
    <3> SUFFICES ASSUME unwritten = 0
                 PROVE  /\ Len(log') = Len(history')
                        /\ \A i \in DOMAIN log' : /\ log'[i].stream = history'[i].stream
                                                  /\ log'[i].generation = history'[i].generation
        BY <1>5 DEF LogIsComplete
    <3>1. Len(log) = Len(history) /\ \A i \in 1 .. Len(log) : /\ log[i].stream = history[i].stream
                                                              /\ log[i].generation = history[i].generation
        BY <1>1 DEF GenerationInv, LogIsComplete
    <3>2. new = Len(history) + 1
        BY <2>4, <3>1
    <3>3. ASSUME NEW i \in 1 .. new
          PROVE  /\ log'[i].stream = history'[i].stream
                 /\ log'[i].generation = history'[i].generation
      <4>1. CASE i = new
          BY <1>2, <1>3, <2>2, <3>2, <4>1
      <4>2. CASE i \in 1 .. Len(log)
        <5>1. i \in 1 .. Len(history)
            BY <3>1, <4>2
        <5>2. log'[i] = log[i] /\ history'[i] = history[i]
            BY <1>3, <2>1, <4>2, <5>1
        <5>3. log[i].stream = history[i].stream /\ log[i].generation = history[i].generation
            BY <3>1, <4>2
        <5> QED BY <5>2, <5>3
      <4>3. i = new \/ i \in 1 .. Len(log)
          BY <1>1, <2>4
      <4> QED BY <4>1, <4>2, <4>3
    <3> QED BY <1>3, <2>1, <3>1, <3>2, <3>3
  <2>8. CurrentIsLogged'
    <3> SUFFICES ASSUME NEW s \in Stream, Trusted(s)', running'[s] # Nothing PROVE IsCurrent(s)'
        BY DEF CurrentIsLogged
    <3>1. Trusted(s)
        BY <1>5 DEF Trusted
    <3>2. CASE s = stream
      <4>1. running'[s] = generation
          BY <3>2 DEF Trusted
      <4>2. new \in Mine(s)' /\ \A j \in Mine(s)' : j <= new
          BY <1>1, <2>1, <2>3, <2>4, <3>2
      <4> QED BY <2>2, <4>1, <4>2 DEF IsCurrent
    <3>3. CASE s # stream
      <4>1. PICK i \in Mine(s) : (\A j \in Mine(s) : j <= i) /\ log[i].generation = running[s]
          BY <3>1, <3>3 DEF GenerationInv, CurrentIsLogged, IsCurrent
      <4>2. Mine(s)' = Mine(s) /\ log'[i] = log[i] /\ running'[s] = running[s]
          BY <2>1, <2>3, <3>3, <4>1
      <4> QED BY <4>1, <4>2 DEF IsCurrent
    <3> QED BY <3>2, <3>3
  <2>9. StampsAreTraced'
    <3> SUFFICES ASSUME NEW x \in stamps, Trusted(x.stream)' PROVE IsTraced(x)'
        BY DEF StampsAreTraced
    <3>1. x.stream \in Stream /\ x.at \in 1 .. now - 1 /\ x.at < now
        BY <1>1 DEF GenerationInv, GenerationTypeOK
    <3>2. Trusted(x.stream)
        BY <1>5 DEF Trusted
    <3>3. PICK i \in Mine(x.stream) :
              /\ log[i].at <= x.at /\ log[i].generation = x.generation
              /\ \A j \in Mine(x.stream) : j > i => log[j].at > x.at
        BY <3>2 DEF GenerationInv, StampsAreTraced, IsTraced
    <3>4. Mine(x.stream)' \in {Mine(x.stream), Mine(x.stream) \union {new}}
        BY <2>1, <3>1
    <3>5. i \in Mine(x.stream)' /\ log'[i] = log[i]
        BY <2>1, <2>3, <3>4
    <3>6. ASSUME NEW j \in Mine(x.stream)', j > i PROVE log'[j].at > x.at
      <4>1. CASE j = new
          BY <1>1, <2>2, <3>1, <4>1
      <4>2. CASE j \in Mine(x.stream)
        <5>1. log'[j] = log[j]
            BY <2>1, <2>3, <4>2
        <5> QED BY <3>3, <3>6, <4>2, <5>1
      <4> QED BY <3>4, <4>1, <4>2
    <3> QED BY <3>3, <3>5, <3>6 DEF IsTraced
  <2>10. RollbacksAreTrue'
    <3> SUFFICES ASSUME unwritten = 0, NEW i \in 1 .. new
                 PROVE  log'[i].reason = "rollback" <=> GivenBack(i)'
        BY <1>5, <2>1 DEF RollbacksAreTrue
    <3>1. Len(log) = Len(history) /\ \A k \in 1 .. Len(log) : /\ log[k].stream = history[k].stream
                                                              /\ log[k].generation = history[k].generation
        BY <1>1 DEF GenerationInv, LogIsComplete
    <3>2. \A k \in 1 .. Len(log) : history'[k] = history[k]
        BY <1>3, <3>1
    <3>3. CASE i \in 1 .. Len(log)
      <4>1. GivenBefore(i)' = GivenBefore(i) /\ GivenBefore(i) \subseteq 1 .. Len(log)
        <5>1. 1 .. i - 1 \subseteq 1 .. Len(log)
            BY <1>1, <3>3
        <5>2. history'[i] = history[i] /\ \A k \in 1 .. i - 1 : history'[k] = history[k]
            BY <3>2, <3>3, <5>1
        <5> QED BY <5>1, <5>2 DEF GivenBefore
      <4>2. GivenBack(i)' <=> GivenBack(i)
        <5>1. history'[i] = history[i] /\ \A k \in GivenBefore(i) : history'[k] = history[k]
            BY <3>2, <3>3, <4>1
        <5>2. GivenBack(i)' <=> Regains(GivenBefore(i), history', i)
            BY <4>1 DEF GivenBack, Regains
        <5>3. GivenBack(i) <=> Regains(GivenBefore(i), history, i)
            BY DEF GivenBack, Regains
        <5>4. Regains(GivenBefore(i), history', i) <=> Regains(GivenBefore(i), history, i)
          <6> DEFINE before == GivenBefore(i)
          <6> DEFINE rows == history'
          <6>1. rows[i] = history[i] /\ \A k \in before : rows[k] = history[k]
              BY <5>1
          <6> HIDE DEF before, rows
          <6>2. Regains(before, rows, i) <=> Regains(before, history, i)
              BY <6>1, RegainsAlike
          <6> QED BY <6>2 DEF before, rows
        <5> QED BY <5>2, <5>3, <5>4
      <4>3. log[i].reason = "rollback" <=> GivenBack(i)
          BY <1>1, <3>3 DEF GenerationInv, RollbacksAreTrue
      <4> QED BY <2>1, <3>3, <4>2, <4>3
    <3>4. CASE i = new
      <4>1. history'[new].stream = stream /\ history'[new].generation = generation
          BY <1>2, <1>3, <2>4, <3>1
      <4>2. GivenBefore(i)' = Mine(stream)
        <5>1. GivenBefore(i)' = {k \in 1 .. new - 1 : history'[k].stream = stream}
            BY <3>4, <4>1 DEF GivenBefore
        <5>2. 1 .. new - 1 = 1 .. Len(log)
            BY <1>1, <2>4
        <5> QED BY <1>1, <3>1, <3>2, <5>1, <5>2 DEF Mine
      <4>3. \A k \in Mine(stream) : history'[k].generation = log[k].generation /\ k \in Nat
          BY <1>1, <2>3, <3>1, <3>2
      <4>4. GivenBack(i)' <=> \E k, l \in Mine(stream) :
                /\ log[k].generation = generation /\ (\A m \in Mine(stream) : m <= l)
                /\ log[l].generation # generation
        <5>1. GivenBack(i)' <=> Regains(GivenBefore(i)', history', i)
            BY DEF GivenBack, Regains
        <5>2. GivenBack(i)' <=> Regains(Mine(stream), history', i)
          <6> DEFINE before == GivenBefore(i)'
          <6>1. before = Mine(stream) /\ (GivenBack(i)' <=> Regains(before, history', i))
              BY <4>2, <5>1
          <6> HIDE DEF before
          <6> QED BY <6>1
        <5>3. history'[i].generation = generation
            BY <3>4, <4>1
        <5>4. GivenBack(i)' => \E k, l \in Mine(stream) :
                /\ log[k].generation = generation /\ (\A m \in Mine(stream) : m <= l)
                /\ log[l].generation # generation
            BY <4>3, <5>2, <5>3 DEF Regains
        <5>5. ASSUME NEW k \in Mine(stream), NEW l \in Mine(stream),
                     log[k].generation = generation, \A m \in Mine(stream) : m <= l,
                     log[l].generation # generation
              PROVE  GivenBack(i)'
          <6>1. history'[k].generation = history'[i].generation
              BY <4>3, <5>3, <5>5
          <6>2. history'[l].generation # history'[i].generation
              BY <4>3, <5>3, <5>5
          <6> QED BY <5>2, <5>5, <6>1, <6>2 DEF Regains
        <5> QED BY <5>4, <5>5
      <4>5. Mine(stream) # {} => /\ Newest(Mine(stream)) \in Mine(stream)
                                 /\ \A j \in Mine(stream) : j <= Newest(Mine(stream))
          BY <1>1, <2>3, SomeRowIsNewest
      <4>6. \A l \in Mine(stream) : (\A m \in Mine(stream) : m <= l) => l = Newest(Mine(stream))
          BY <4>3, <4>5
      <4>7. DeriveReason(stream, generation) = "rollback" <=>
                /\ Mine(stream) # {} /\ log[Newest(Mine(stream))].generation # generation
                /\ \E k \in Mine(stream) : log[k].generation = generation
          BY DEF DeriveReason
      <4> QED BY <2>2, <3>4, <4>4, <4>5, <4>6, <4>7
    <3> QED BY <1>1, <2>4, <3>3, <3>4
  <2> QED BY <2>5, <2>6, <2>7, <2>8, <2>9, <2>10 DEF GenerationInv
<1>6. CASE log' = log /\ unwritten' = unwritten + 1
  <2>1. unwritten' # 0 /\ unwritten' \in Nat
      BY <1>1, <1>6
  <2>2. GenerationTypeOK'
      BY <1>1, <1>3, <1>4, <1>6, <2>1 DEF GenerationTypeOK
  <2>3. LogIsOrdered'
      BY <1>4, <1>6 DEF GenerationInv, LogIsOrdered
  <2>4. \A s : ~Trusted(s)'
      BY <2>1 DEF Trusted
  <2> QED BY <2>1, <2>2, <2>3, <2>4
          DEF GenerationInv, LogIsComplete, CurrentIsLogged, StampsAreTraced, RollbacksAreTrue
<1> QED BY <1>5, <1>6 DEF Assembled

LEMMA PassKeeps ==
    ASSUME GenerationInv, now < MaxTime, NEW stream \in Stream, Pass(stream)
    PROVE  GenerationInv'
<1>1. /\ now \in Nat /\ now >= 1 /\ MaxTime \in Nat /\ DOMAIN log = 1 .. Len(log) /\ Len(log) \in Nat
      /\ running \in [Stream -> Generation \union {Nothing}]
      /\ stamps \subseteq [stream : Stream, generation : Generation, at : 1 .. now - 1]
    BY LogIsTyped DEF GenerationInv, GenerationTypeOK
<1> DEFINE new == [stream |-> stream, generation |-> running[stream], at |-> now]
<1>2. /\ stamps' = stamps \union {new} /\ running[stream] \in Generation /\ now' = now + 1
      /\ UNCHANGED <<running, registry, log, unwritten, beside, history>>
    BY <1>1 DEF Pass
<1>3. /\ now' \in 1 .. MaxTime /\ 1 .. now - 1 \subseteq 1 .. now' - 1 /\ now \in 1 .. now' - 1
    BY <1>1, <1>2
<1>4. stamps' \subseteq [stream : Stream, generation : Generation, at : 1 .. now' - 1]
    BY <1>1, <1>2, <1>3
<1>5. new.stream = stream /\ new.generation = running[stream] /\ new.at = now
    OBVIOUS
<1> HIDE DEF new
<1>6. /\ \A s : (Trusted(s)' <=> Trusted(s)) /\ Mine(s)' = Mine(s)
      /\ \A x : IsTraced(x)' <=> IsTraced(x)
    BY <1>2 DEF Trusted, Mine, IsTraced
<1>7. GenerationTypeOK'
    BY <1>2, <1>3, <1>4 DEF GenerationInv, GenerationTypeOK
<1>8. LogIsOrdered'
    BY <1>2, <1>3 DEF GenerationInv, LogIsOrdered
<1>9. StampsAreTraced'
  <2> SUFFICES ASSUME NEW x \in stamps', Trusted(x.stream) PROVE IsTraced(x)
      BY <1>6 DEF StampsAreTraced
  <2>1. CASE x \in stamps
      BY <2>1 DEF GenerationInv, StampsAreTraced
  <2>2. CASE x = new
    <3>1. running[stream] # Nothing
        BY <1>2, GenerationAssumption DEF Nothing
    <3>2. PICK i \in Mine(stream) : (\A j \in Mine(stream) : j <= i) /\ log[i].generation = running[stream]
        BY <1>5, <2>2, <3>1 DEF GenerationInv, CurrentIsLogged, IsCurrent
    <3>3. i \in 1 .. Len(log) /\ log[i].at \in 1 .. now - 1 /\ \A j \in Mine(stream) : j \in Nat
        BY <1>1 DEF Mine, GenerationInv, LogIsOrdered
    <3>4. log[i].at <= now
        BY <1>1, <3>3
    <3>5. \A j \in Mine(stream) : ~(j > i)
      <4> TAKE j \in Mine(stream)
      <4>1. j <= i /\ j \in Nat /\ i \in Nat
          BY <1>1, <3>2, <3>3
      <4> QED BY <4>1
    <3> QED BY <1>5, <2>2, <3>2, <3>4, <3>5 DEF IsTraced
  <2> QED BY <1>2, <2>1, <2>2
<1>10. LogIsComplete' /\ CurrentIsLogged' /\ RollbacksAreTrue'
    BY <1>2, <1>6 DEF GenerationInv, LogIsComplete, CurrentIsLogged, IsCurrent,
                      RollbacksAreTrue, GivenBack, GivenBefore
<1> QED BY <1>7, <1>8, <1>9, <1>10 DEF GenerationInv

LEMMA GenerationStep == GenerationInv /\ [GenerationNext]_generationVars => GenerationInv'
<1> SUFFICES ASSUME GenerationInv, [GenerationNext]_generationVars PROVE GenerationInv'
    OBVIOUS
<1>1. /\ running \in [Stream -> Generation \union {Nothing}] /\ beside \subseteq Stream
    BY DEF GenerationInv, GenerationTypeOK
<1>2. ASSUME now < MaxTime, NEW stream \in Stream, Boot(stream) PROVE GenerationInv'
  <2>1. PICK generation \in Generation :
            /\ Assembled(stream, generation)
            /\ running' = [running EXCEPT ![stream] = generation]
            /\ history' = Append(history, [stream |-> stream, generation |-> generation])
      BY <1>2 DEF Boot
  <2>2. now' = now + 1 /\ stamps' = stamps /\ beside' = beside
      BY <1>2 DEF Boot
  <2>3. /\ running' \in [Stream -> Generation \union {Nothing}]
        /\ \A s \in Stream : s # stream => running'[s] = running[s]
        /\ running'[stream] = generation
      BY <1>1, <2>1
  <2> QED BY <1>1, <1>2, <2>1, <2>2, <2>3, AssembledKeeps
<1>3. ASSUME now < MaxTime, NEW stream \in Stream, ToolAssembles(stream) PROVE GenerationInv'
  <2>1. PICK generation \in Generation :
            /\ Assembled(stream, generation)
            /\ history' = Append(history, [stream |-> stream, generation |-> generation])
            /\ beside' = IF generation = running[stream] THEN beside ELSE beside \union {stream}
      BY <1>3 DEF ToolAssembles
  <2>2. now' = now + 1 /\ stamps' = stamps /\ running' = running
      BY <1>3 DEF ToolAssembles
  <2>3. /\ beside \subseteq beside' /\ beside' \subseteq Stream
        /\ stream \notin beside' => running'[stream] = generation
      BY <1>1, <2>1, <2>2
  <2> QED BY <1>1, <1>3, <2>1, <2>2, <2>3, AssembledKeeps
<1>4. ASSUME UNCHANGED generationVars PROVE GenerationInv'
    BY <1>4 DEF generationVars, GenerationInv, GenerationTypeOK, LogIsOrdered, LogIsComplete,
                CurrentIsLogged, IsCurrent, StampsAreTraced, IsTraced, RollbacksAreTrue, GivenBack,
                GivenBefore, Trusted, Mine
<1> QED BY <1>2, <1>3, <1>4, PassKeeps DEF GenerationNext

\* Provenance (generations_report.py, config_generation_store.py): for any streams,
\* boots, rollbacks and tools beside the engine, every envelope of a window is claimed by
\* the one span it was made in, the open span is what runs, and a rollback is told as one.
THEOREM ProvenanceIsKept == GenerationSpec => []ProvenanceIsTrue
<1>1. GenerationInit => GenerationInv
    BY GenerationsStart
<1>2. GenerationInv /\ [GenerationNext]_generationVars => GenerationInv'
    BY GenerationStep
<1>3. GenerationInv => ProvenanceIsTrue
    BY SpansAreTrue DEF ProvenanceIsTrue, GenerationInv
<1> QED BY <1>1, <1>2, <1>3, PTL DEF GenerationSpec

(***************************************************************************)
(* The connectivity watcher.                                               *)
(***************************************************************************)

\* The log and the trail are in the order of the clock, and the watcher remembers the state it
\* wrote last.
NetStates == {"ok", "dns_pending", "dns_only", "transport_only", "connect_blocked", "blocked"}
NetLines == [kind : {"state", "gap", "stopped"}, at : Nat, state : NetStates \union {""}]
Samples == [at : Nat, ends : Nat, state : NetStates, lookup : [from : Nat, ends : Nat]]

NetTypeOK ==
    /\ heartbeat \in Nat
    /\ watcher \in [up : BOOLEAN, clock : Nat, last : Nat, beat : Nat,
                    said : NetStates \union {""}]
    /\ lookup \in [from : Nat, ends : Nat]
    /\ netlog \in Seq(NetLines) /\ trail \in Seq(Samples)

LogIsPast == \A l \in Indices(netlog) :
    netlog[l].kind # "stopped" => netlog[l].at < watcher.clock /\ netlog[l].at <= watcher.last

TrailIsPast ==
    /\ \A i \in Indices(trail) : trail[i].at < watcher.clock /\ trail[i].ends < watcher.clock
    /\ trail = <<>> => watcher.last = 0 /\ watcher.said = ""
    /\ trail # <<>> => /\ watcher.last = trail[Len(trail)].at
                       /\ watcher.said = trail[Len(trail)].state

NetInv == NetTypeOK /\ LogIsPast /\ TrailIsPast /\ OutagesAreRecorded

\* What an iteration adds to the log: everything it writes is of this sample, a hole comes
\* before the state, and what is not written is what the log already says.
IsStateOf(line, sample) ==
    line.kind = "state" /\ line.at = sample.at /\ line.state = sample.state

Extends(lines, sample, hole, writes) ==
    /\ lines \in Seq(NetLines) /\ Len(lines) >= Len(netlog)
    /\ \A l \in Indices(netlog) : lines[l] = netlog[l]
    /\ \A l \in (Len(netlog) + 1) .. Len(lines) :
        /\ lines[l].kind = "state" =>
            lines[l].at = sample.at /\ lines[l].state = sample.state /\ writes
        /\ lines[l].kind = "gap" => lines[l].at = sample.at /\ hole
    /\ writes =>
        /\ Len(lines) > Len(netlog) /\ IsStateOf(lines[Len(lines)], sample)
        /\ hole => \E g \in (Len(netlog) + 1) .. (Len(lines) - 1) :
            lines[g].kind = "gap" /\ lines[g].at = sample.at

\* The lines of one iteration extend the log as they must.
LEMMA LinesExtend ==
    ASSUME NEW at \in Nat, NEW state \in NetStates, NEW hole \in BOOLEAN, NEW writes \in BOOLEAN,
           NEW sample \in Samples, sample.at = at, sample.state = state, NetTypeOK
    PROVE  Extends(netlog \o (IF hole THEN <<NetLine("gap", at, "")>> ELSE <<>>)
                          \o (IF writes THEN <<NetLine("state", at, state)>> ELSE <<>>),
                   sample, hole, writes)
<1> DEFINE gap == NetLine("gap", at, "")
           line == NetLine("state", at, state)
           n == Len(netlog)
<1>1. /\ gap \in NetLines /\ gap.kind = "gap" /\ gap.at = at
      /\ line \in NetLines /\ line.kind = "state" /\ line.at = at /\ line.state = state
  <2>2. /\ gap = [kind |-> "gap", at |-> at, state |-> ""]
        /\ line = [kind |-> "state", at |-> at, state |-> state]
      BY DEF NetLine
  <2> HIDE DEF gap, line
  <2> QED BY <2>2 DEF NetLines
<1>2. netlog \in Seq(NetLines) /\ n \in Nat /\ Indices(netlog) = 1 .. n
  <2>1. netlog \in Seq(NetLines)
      BY DEF NetTypeOK
  <2> QED BY <2>1 DEF Indices
<1>3. IsStateOf(line, sample)
    BY <1>1 DEF IsStateOf
<1> HIDE DEF gap, line, Indices
<1>4. CASE hole /\ writes
  <2> DEFINE lines == netlog \o <<gap>> \o <<line>>
  <2>1. /\ lines \in Seq(NetLines) /\ Len(lines) = n + 2
        /\ \A l \in 1 .. n : lines[l] = netlog[l]
        /\ lines[n + 1] = gap /\ lines[n + 2] = line
      BY <1>1, <1>2
  <2> HIDE DEF lines
  <2>2. \A l \in (n + 1) .. Len(lines) : lines[l] = gap \/ lines[l] = line
      BY <1>2, <2>1
  <2>3. n + 1 \in (n + 1) .. (Len(lines) - 1) /\ lines[Len(lines)] = line
      BY <1>2, <2>1
  <2>4. Extends(lines, sample, hole, writes)
      BY <1>1, <1>2, <1>4, <1>3, <2>1, <2>2, <2>3 DEF Extends
  <2> QED BY <1>4, <2>4 DEF lines, gap, line
<1>5. CASE hole /\ ~writes
  <2> DEFINE lines == netlog \o <<gap>>
  <2>1. /\ lines \in Seq(NetLines) /\ Len(lines) = n + 1
        /\ \A l \in 1 .. n : lines[l] = netlog[l]
        /\ lines[n + 1] = gap
      BY <1>1, <1>2
  <2>2. lines \o <<>> = lines
      BY <2>1
  <2> HIDE DEF lines
  <2>3. \A l \in (n + 1) .. Len(lines) : lines[l] = gap
      BY <1>2, <2>1
  <2>4. Extends(lines, sample, hole, writes)
      BY <1>1, <1>2, <1>5, <2>1, <2>3 DEF Extends
  <2> QED BY <1>5, <2>2, <2>4 DEF lines, gap, line
<1>6. CASE ~hole /\ writes
  <2> DEFINE lines == netlog \o <<line>>
  <2>1. /\ lines \in Seq(NetLines) /\ Len(lines) = n + 1
        /\ \A l \in 1 .. n : lines[l] = netlog[l]
        /\ lines[n + 1] = line
      BY <1>1, <1>2
  <2>2. netlog \o <<>> = netlog
      BY <1>2
  <2> HIDE DEF lines
  <2>3. \A l \in (n + 1) .. Len(lines) : lines[l] = line
      BY <1>2, <2>1
  <2>4. lines[Len(lines)] = line
      BY <1>2, <2>1
  <2>5. Extends(lines, sample, hole, writes)
    <3>1. lines \in Seq(NetLines) /\ Len(lines) >= Len(netlog)
        BY <1>2, <2>1
    <3>2. \A l \in Indices(netlog) : lines[l] = netlog[l]
        BY <1>2, <2>1
    <3>3. \A l \in (n + 1) .. Len(lines) :
            /\ lines[l].kind = "state" =>
                lines[l].at = sample.at /\ lines[l].state = sample.state /\ writes
            /\ lines[l].kind = "gap" => lines[l].at = sample.at /\ hole
        BY <1>1, <1>6, <2>3
    <3>4. Len(lines) > Len(netlog) /\ IsStateOf(lines[Len(lines)], sample) /\ ~hole
        BY <1>2, <1>6, <1>3, <2>1, <2>4
    <3> QED BY <3>1, <3>2, <3>3, <3>4 DEF Extends
  <2> QED BY <1>6, <2>2, <2>5 DEF lines, gap, line
<1>7. CASE ~hole /\ ~writes
  <2>1. netlog \o <<>> = netlog /\ netlog \o <<>> \o <<>> = netlog
      BY <1>2
  <2>2. \A l \in (n + 1) .. n : FALSE
      BY <1>2
  <2>3. Extends(netlog, sample, hole, writes)
      BY <1>2, <1>7, <2>2 DEF Extends
  <2> QED BY <1>7, <2>1, <2>3
<1> QED BY <1>4, <1>5, <1>6, <1>7

\* A state is told of every pair of answers.
LEMMA EveryStateIsNamed ==
    ASSUME NEW tcp \in BOOLEAN, NEW dns \in {"pending", "alive", "silent"},
           NEW icmp \in {"none", "ok"}
    PROVE  /\ Describe(tcp, dns, icmp) \in NetStates
           /\ Describe(tcp, dns, icmp) \in {"ok", "transport_only"} => dns = "alive"
           /\ Describe(tcp, dns, icmp) = "dns_only" => dns = "silent"
<1>1. CASE ~tcp
    BY <1>1 DEF Describe, NetStates
<1>2. CASE tcp /\ dns = "pending"
    BY <1>2 DEF Describe, NetStates
<1>3. CASE tcp /\ dns = "alive"
    BY <1>3 DEF Describe, NetStates
<1>4. CASE tcp /\ dns = "silent"
    BY <1>4 DEF Describe, NetStates
<1> QED BY <1>1, <1>2, <1>3, <1>4

\* What one iteration does, its choices named.
Sampled(sample, hole, writes, lines) ==
    /\ sample \in Samples
    /\ sample.at >= watcher.clock
    /\ hole \in BOOLEAN /\ writes \in BOOLEAN
    /\ hole <=> sample.at - watcher.last > 2 * heartbeat
    /\ hole => writes
    /\ ~writes => sample.state = watcher.said
    /\ Extends(lines, sample, hole, writes)
    /\ trail' = Append(trail, sample) /\ heartbeat' = heartbeat
    /\ lookup' = sample.lookup
    /\ watcher' = [up |-> ~LogFull(lines), clock |-> sample.ends + 1, last |-> sample.at,
                   beat |-> IF writes THEN sample.at + heartbeat ELSE watcher.beat,
                   said |-> sample.state]
    /\ netlog' = IF LogFull(lines) THEN Append(lines, NetLine("stopped", sample.ends, ""))
                 ELSE lines

\* The verdict of one sample.
IsFresh(sample) ==
    /\ sample.state \in {"ok", "transport_only"} =>
        /\ sample.lookup.ends \in sample.at .. sample.ends
        /\ sample.lookup.ends - sample.lookup.from < AliveBound
    /\ sample.state = "dns_only" => sample.ends - sample.lookup.from >= AliveBound
    /\ sample.ends - sample.at < Unfrozen /\ sample.at <= sample.ends

\* An iteration takes one sample, with a verdict that is fresh.
LEMMA IterationSamples ==
    ASSUME NetTypeOK, Iterate
    PROVE  \E sample, hole, writes, lines :
                Sampled(sample, hole, writes, lines) /\ IsFresh(sample)
<1>1. PICK frozen \in Freezes, tcp \in BOOLEAN, refused \in BOOLEAN, takes \in Answering,
           icmp \in {"none", "ok"} :
    LET at == watcher.clock + frozen
        hole == at - watcher.last > 2 * heartbeat
        said == IF hole THEN "" ELSE watcher.said
        connected == at + (IF tcp \/ refused THEN 0 ELSE Deadline)
        asking == Asked(connected, takes)
        state == Describe(tcp, Answer(asking, connected), icmp)
        writes == state # said \/ at >= watcher.beat
        ends == Earlier(asking.ends, connected + Deadline)
                + (IF tcp \/ icmp = "ok" THEN 0 ELSE Deadline)
        lines == netlog \o (IF hole THEN <<NetLine("gap", at, "")>> ELSE <<>>)
                        \o (IF writes THEN <<NetLine("state", at, state)>> ELSE <<>>)
    IN
    /\ watcher.up /\ Len(trail) < MaxSamples
    /\ tcp => icmp = "none" /\ ~refused
    /\ watcher' = [up |-> ~LogFull(lines), clock |-> ends + 1, last |-> at,
                   beat |-> IF writes THEN at + heartbeat ELSE watcher.beat,
                   said |-> IF writes THEN state ELSE said]
    /\ lookup' = asking
    /\ trail' = Append(trail, [at |-> at, ends |-> ends, state |-> state, lookup |-> asking])
    /\ netlog' = IF LogFull(lines) THEN Append(lines, NetLine("stopped", ends, "")) ELSE lines
    /\ UNCHANGED heartbeat
    BY DEF Iterate
<1> DEFINE at == watcher.clock + frozen
           hole == at - watcher.last > 2 * heartbeat
           said == IF hole THEN "" ELSE watcher.said
           connected == at + (IF tcp \/ refused THEN 0 ELSE Deadline)
           asking == Asked(connected, takes)
           dns == Answer(asking, connected)
           state == Describe(tcp, dns, icmp)
           writes == state # said \/ at >= watcher.beat
           waited == Earlier(asking.ends, connected + Deadline)
           ends == waited + (IF tcp \/ icmp = "ok" THEN 0 ELSE Deadline)
           lines == netlog \o (IF hole THEN <<NetLine("gap", at, "")>> ELSE <<>>)
                           \o (IF writes THEN <<NetLine("state", at, state)>> ELSE <<>>)
           sample == [at |-> at, ends |-> ends, state |-> state, lookup |-> asking]
<1>2. /\ watcher' = [up |-> ~LogFull(lines), clock |-> ends + 1, last |-> at,
                     beat |-> IF writes THEN at + heartbeat ELSE watcher.beat,
                     said |-> IF writes THEN state ELSE said]
      /\ lookup' = asking
      /\ trail' = Append(trail, sample)
      /\ netlog' = IF LogFull(lines) THEN Append(lines, NetLine("stopped", ends, "")) ELSE lines
      /\ heartbeat' = heartbeat
    BY <1>1
<1>3. /\ watcher.clock \in Nat /\ watcher.last \in Nat /\ heartbeat \in Nat /\ frozen \in Nat
      /\ takes \in Nat /\ Deadline \in Nat /\ AliveBound \in Nat
      /\ lookup.from \in Nat /\ lookup.ends \in Nat /\ lookup \in [from : Nat, ends : Nat]
    BY NetwatchAssumption DEF NetTypeOK
<1>4. at \in Nat /\ connected \in Nat /\ at <= connected /\ connected <= at + Deadline
    BY <1>3
<1> HIDE DEF connected
<1>5. /\ asking \in [from : Nat, ends : Nat] /\ asking.ends \in Nat /\ asking.from \in Nat
      /\ asking.ends >= connected
  <2>1. CASE lookup.ends <= connected
      BY <1>3, <1>4, <2>1 DEF Asked
  <2>2. CASE ~(lookup.ends <= connected)
      BY <1>3, <1>4, <2>2 DEF Asked
  <2> QED BY <2>1, <2>2
<1> HIDE DEF asking
<1>6. /\ dns \in {"pending", "alive", "silent"}
      /\ dns \in {"alive", "silent"} => asking.ends <= connected + Deadline
      /\ dns = "alive" => asking.ends - asking.from < AliveBound
      /\ dns = "silent" => asking.ends - asking.from >= AliveBound
    BY <1>3, <1>4, <1>5 DEF Answer
<1> HIDE DEF dns
<1>7. /\ state \in NetStates
      /\ state \in {"ok", "transport_only"} => dns = "alive"
      /\ state = "dns_only" => dns = "silent"
    BY <1>6, EveryStateIsNamed
<1> HIDE DEF state
<1>8. /\ waited \in Nat /\ connected <= waited /\ waited <= connected + Deadline
      /\ asking.ends <= connected + Deadline => waited = asking.ends
    BY <1>3, <1>4, <1>5 DEF Earlier
<1> HIDE DEF waited
<1>9. ends \in Nat /\ waited <= ends /\ ends <= waited + Deadline
    BY <1>3, <1>8
<1> HIDE DEF ends
<1>10. /\ sample \in Samples /\ sample.at = at /\ sample.ends = ends /\ sample.state = state
       /\ sample.lookup = asking
    BY <1>4, <1>5, <1>7, <1>9 DEF Samples
<1>11. IsFresh(sample)
  <2>1. state \in {"ok", "transport_only"} =>
            asking.ends \in at .. ends /\ asking.ends - asking.from < AliveBound
      BY <1>3, <1>4, <1>5, <1>6, <1>7, <1>8, <1>9
  <2>2. state = "dns_only" => ends - asking.from >= AliveBound
      BY <1>3, <1>4, <1>5, <1>6, <1>7, <1>8, <1>9
  <2>3. ends - at < Unfrozen /\ at <= ends
      BY <1>3, <1>4, <1>8, <1>9 DEF Unfrozen
  <2> HIDE DEF sample
  <2> QED BY <1>10, <2>1, <2>2, <2>3 DEF IsFresh
<1>12. state # ""
    BY <1>7 DEF NetStates
<1>13. (hole => writes) /\ (~writes => state = watcher.said) /\ (IF writes THEN state ELSE said) = state
    BY <1>12
<1>14. Extends(lines, sample, hole, writes)
  <2>1. hole \in BOOLEAN /\ writes \in BOOLEAN
      OBVIOUS
  <2> HIDE DEF hole, writes, sample
  <2> QED BY <1>4, <1>7, <1>10, <2>1, LinesExtend
<1>15. Sampled(sample, hole, writes, lines)
  <2>1. hole \in BOOLEAN /\ writes \in BOOLEAN /\ (hole <=> at - watcher.last > 2 * heartbeat)
      OBVIOUS
  <2>2. at >= watcher.clock
      BY <1>3
  <2> HIDE DEF hole, writes, sample, lines, said, at
  <2> QED BY <1>2, <1>10, <1>13, <1>14, <2>1, <2>2 DEF Sampled
<1> QED BY <1>11, <1>15

\* The log after an iteration: what it wrote, and the line that stops it.
LEMMA NetLogGrows ==
    ASSUME NetTypeOK, NEW sample, NEW hole, NEW writes, NEW lines,
           Sampled(sample, hole, writes, lines)
    PROVE  /\ lines \in Seq(NetLines) /\ netlog' \in Seq(NetLines)
           /\ Len(netlog) <= Len(lines) /\ Len(lines) <= Len(netlog')
           /\ \A l \in Indices(netlog) : netlog'[l] = netlog[l]
           /\ \A l \in 1 .. Len(lines) : netlog'[l] = lines[l]
           /\ \A l \in (Len(lines) + 1) .. Len(netlog') : netlog'[l].kind = "stopped"
           /\ \A l \in (Len(netlog) + 1) .. Len(netlog') :
                /\ netlog'[l].kind = "state" =>
                    netlog'[l].at = sample.at /\ netlog'[l].state = sample.state /\ writes
                /\ netlog'[l].kind = "gap" => netlog'[l].at = sample.at /\ hole
<1>1. Extends(lines, sample, hole, writes) /\ sample \in Samples
    BY DEF Sampled
<1>2. lines \in Seq(NetLines) /\ netlog \in Seq(NetLines) /\ Len(netlog) <= Len(lines)
    BY <1>1 DEF Extends, NetTypeOK
<1>3. /\ netlog' \in Seq(NetLines) /\ Len(lines) <= Len(netlog')
      /\ \A l \in 1 .. Len(lines) : netlog'[l] = lines[l]
      /\ \A l \in (Len(lines) + 1) .. Len(netlog') : netlog'[l].kind = "stopped"
  <2>1. CASE LogFull(lines)
    <3> DEFINE line == NetLine("stopped", sample.ends, "")
    <3>1. line \in NetLines /\ line.kind = "stopped"
        BY <1>1 DEF NetLine, NetLines, Samples
    <3> HIDE DEF line
    <3>2. netlog' = Append(lines, line)
        BY <2>1 DEF Sampled, line
    <3>3. \A l \in (Len(lines) + 1) .. Len(netlog') : netlog'[l] = line
        BY <1>2, <3>1, <3>2
    <3> QED BY <1>2, <3>1, <3>2, <3>3
  <2>2. CASE ~LogFull(lines)
      BY <1>2, <2>2 DEF Sampled
  <2> QED BY <2>1, <2>2
<1>4. \A l \in Indices(netlog) : netlog'[l] = netlog[l]
    BY <1>1, <1>2, <1>3 DEF Extends, Indices
<1>5. ASSUME NEW l \in (Len(netlog) + 1) .. Len(netlog')
      PROVE  /\ netlog'[l].kind = "state" =>
                    netlog'[l].at = sample.at /\ netlog'[l].state = sample.state /\ writes
             /\ netlog'[l].kind = "gap" => netlog'[l].at = sample.at /\ hole
  <2>1. CASE l \in (Len(netlog) + 1) .. Len(lines)
    <3>1. netlog'[l] = lines[l]
        BY <1>2, <1>3, <2>1
    <3> QED BY <1>1, <2>1, <3>1 DEF Extends
  <2>2. CASE l \in (Len(lines) + 1) .. Len(netlog')
      BY <1>3, <2>2
  <2>3. l \in (Len(netlog) + 1) .. Len(lines) \/ l \in (Len(lines) + 1) .. Len(netlog')
      BY <1>2, <1>3
  <2> QED BY <2>1, <2>2, <2>3
<1> QED BY <1>2, <1>3, <1>4, <1>5

LEMMA SampleKeeps ==
    ASSUME NetInv, NEW sample, NEW hole, NEW writes, NEW lines,
           Sampled(sample, hole, writes, lines), IsFresh(sample)
    PROVE  NetInv'
<1> DEFINE n == Len(trail)
           next == n + 1
<1>1. /\ NetTypeOK /\ heartbeat \in Nat /\ watcher.clock \in Nat /\ watcher.last \in Nat
      /\ trail \in Seq(Samples) /\ n \in Nat /\ netlog \in Seq(NetLines)
      /\ Deadline \in Nat
  <2>1. NetTypeOK
      BY DEF NetInv
  <2>2. heartbeat \in Nat /\ trail \in Seq(Samples) /\ netlog \in Seq(NetLines)
      BY <2>1 DEF NetTypeOK
  <2>3. watcher.clock \in Nat /\ watcher.last \in Nat
      BY <2>1 DEF NetTypeOK
  <2>4. n \in Nat
      BY <2>2
  <2> QED BY <2>1, <2>2, <2>3, <2>4, NetwatchAssumption
<1>2. /\ sample \in Samples /\ sample.at \in Nat /\ sample.ends \in Nat /\ sample.state \in NetStates
      /\ sample.lookup \in [from : Nat, ends : Nat]
      /\ sample.at >= watcher.clock /\ sample.at <= sample.ends
    BY DEF Sampled, Samples, IsFresh
<1>3. /\ trail' = Append(trail, sample) /\ heartbeat' = heartbeat /\ lookup' = sample.lookup
      /\ watcher' = [up |-> ~LogFull(lines), clock |-> sample.ends + 1, last |-> sample.at,
                     beat |-> IF writes THEN sample.at + heartbeat ELSE watcher.beat,
                     said |-> sample.state]
    BY DEF Sampled
<1>4. /\ watcher'.clock = sample.ends + 1 /\ watcher'.last = sample.at
      /\ watcher'.said = sample.state
    BY <1>3
<1>5. /\ trail' \in Seq(Samples) /\ Len(trail') = next /\ trail'[next] = sample
      /\ \A i \in 1 .. n : trail'[i] = trail[i]
      /\ Indices(trail) = 1 .. n /\ Indices(trail') = 1 .. next
      /\ \A i \in 1 .. next : i \in 1 .. n \/ i = next
    BY <1>1, <1>2, <1>3 DEF Indices
<1>6. /\ netlog' \in Seq(NetLines)
      /\ Len(netlog) <= Len(lines) /\ Len(lines) <= Len(netlog')
      /\ \A l \in Indices(netlog) : netlog'[l] = netlog[l]
      /\ \A l \in 1 .. Len(lines) : netlog'[l] = lines[l]
      /\ \A l \in (Len(lines) + 1) .. Len(netlog') : netlog'[l].kind = "stopped"
      /\ \A l \in (Len(netlog) + 1) .. Len(netlog') :
            /\ netlog'[l].kind = "state" =>
                netlog'[l].at = sample.at /\ netlog'[l].state = sample.state /\ writes
            /\ netlog'[l].kind = "gap" => netlog'[l].at = sample.at /\ hole
    BY <1>1, NetLogGrows
<1>7. /\ Indices(netlog) = 1 .. Len(netlog) /\ Indices(netlog') = 1 .. Len(netlog')
      /\ Len(netlog) \in Nat /\ Len(lines) \in Nat /\ Len(netlog') \in Nat
      /\ \A l \in Indices(netlog') : l \in Indices(netlog)
                                     \/ l \in (Len(netlog) + 1) .. Len(netlog')
      /\ \A l \in Indices(netlog) : l \in Indices(netlog')
  <2>1. Len(netlog) \in Nat /\ Len(netlog') \in Nat /\ lines \in Seq(NetLines)
      BY <1>1, <1>6, NetLogGrows
  <2> QED BY <1>6, <2>1 DEF Indices
<1>8. /\ Len(netlog) <= Len(lines) /\ Len(lines) <= Len(netlog')
      /\ Len(netlog) \in Nat /\ Len(lines) \in Nat /\ Len(netlog') \in Nat
    BY <1>6, <1>7
<1> HIDE DEF next
<1>9. NetTypeOK'
  <2> DEFINE beat == IF writes THEN sample.at + heartbeat ELSE watcher.beat
             up == ~LogFull(lines)
  <2>1. watcher.beat \in Nat
      BY <1>1 DEF NetTypeOK
  <2>2. beat \in Nat
      BY <1>1, <1>2, <2>1
  <2>3. up \in BOOLEAN
      BY DEF LogFull
  <2>4. watcher' = [up |-> up, clock |-> sample.ends + 1, last |-> sample.at, beat |-> beat,
                    said |-> sample.state]
      BY <1>3
  <2> HIDE DEF beat, up
  <2>5. sample.ends + 1 \in Nat
      BY <1>2
  <2>6. watcher' \in [up : BOOLEAN, clock : Nat, last : Nat, beat : Nat,
                      said : NetStates \union {""}]
      BY <1>2, <2>2, <2>3, <2>4, <2>5
  <2> QED BY <1>1, <1>2, <1>3, <1>5, <1>6, <2>6 DEF NetTypeOK
<1>10. ASSUME NEW l \in Indices(netlog)
      PROVE  /\ netlog[l] \in NetLines /\ netlog[l].at \in Nat
             /\ netlog[l].kind # "stopped" =>
                    netlog[l].at < sample.at /\ netlog[l].at <= watcher.last
  <2>1. netlog[l] \in NetLines
      BY <1>1, <1>7
  <2>2. netlog[l].at \in Nat
      BY <2>1 DEF NetLines
  <2>3. netlog[l].kind # "stopped" =>
            netlog[l].at < watcher.clock /\ netlog[l].at <= watcher.last
      BY DEF NetInv, LogIsPast
  <2> QED BY <1>1, <1>2, <2>1, <2>2, <2>3
<1>11. LogIsPast'
  <2> SUFFICES ASSUME NEW l \in Indices(netlog'), netlog'[l].kind # "stopped"
               PROVE  netlog'[l].at < sample.ends + 1 /\ netlog'[l].at <= sample.at
      BY <1>4 DEF LogIsPast
  <2>1. CASE l \in Indices(netlog)
    <3>1. netlog'[l] = netlog[l] /\ netlog[l].kind # "stopped"
        BY <1>6, <2>1
    <3>2. netlog[l].at \in Nat /\ netlog[l].at < sample.at
        BY <1>10, <2>1, <3>1
    <3> QED BY <1>2, <3>1, <3>2
  <2>2. CASE l \in (Len(netlog) + 1) .. Len(netlog')
    <3>1. netlog'[l] \in NetLines
        BY <1>6, <1>7
    <3>2. netlog'[l].kind \in {"state", "gap"}
        BY <3>1 DEF NetLines
    <3>3. netlog'[l].at = sample.at
        BY <1>6, <2>2, <3>2
    <3> QED BY <1>2, <3>3
  <2> QED BY <1>7, <2>1, <2>2
<1>12. ASSUME NEW i \in 1 .. n
       PROVE  /\ trail[i] \in Samples /\ trail[i].at \in Nat /\ trail[i].ends \in Nat
              /\ trail[i].at < watcher.clock /\ trail[i].ends < watcher.clock
  <2>1. trail[i] \in Samples
      BY <1>1
  <2>2. trail[i].at \in Nat /\ trail[i].ends \in Nat
      BY <2>1 DEF Samples
  <2> QED BY <1>5, <2>1, <2>2 DEF NetInv, TrailIsPast
<1>13. TrailIsPast'
  <2>1. \A i \in 1 .. next : trail'[i].at < sample.ends + 1 /\ trail'[i].ends < sample.ends + 1
    <3> TAKE i \in 1 .. next
    <3>1. CASE i = next
        BY <1>2, <1>5, <3>1
    <3>2. CASE i \in 1 .. n
      <4>1. trail'[i] = trail[i]
          BY <1>5, <3>2
      <4>2. /\ trail[i].at \in Nat /\ trail[i].ends \in Nat
            /\ trail[i].at < watcher.clock /\ trail[i].ends < watcher.clock
          BY <1>12, <3>2
      <4>3. watcher.clock \in Nat /\ watcher.clock <= sample.ends /\ sample.ends \in Nat
          BY <1>1, <1>2
      <4> QED BY <4>1, <4>2, <4>3
    <3> QED BY <1>5, <3>1, <3>2
  <2>2. trail' # <<>>
      BY <1>1, <1>2, <1>3
  <2> QED BY <1>4, <1>5, <2>1, <2>2 DEF TrailIsPast
<1>14. LogReplaysTheSamples'
  <2> SUFFICES ASSUME NEW i \in 1 .. next
               PROVE  \E l \in Indices(netlog') :
                        /\ netlog'[l].kind = "state" /\ netlog'[l].at <= trail'[i].at
                        /\ netlog'[l].state = trail'[i].state
                        /\ \A later \in (l + 1) .. Len(netlog') :
                            netlog'[later].kind = "state" => netlog'[later].at > trail'[i].at
      BY <1>5 DEF LogReplaysTheSamples
  <2>1. CASE i \in 1 .. n
    <3>1. PICK l \in Indices(netlog) :
            /\ netlog[l].kind = "state" /\ netlog[l].at <= trail[i].at
            /\ netlog[l].state = trail[i].state
            /\ \A later \in (l + 1) .. Len(netlog) :
                netlog[later].kind = "state" => netlog[later].at > trail[i].at
        BY <1>5, <2>1 DEF NetInv, OutagesAreRecorded, LogReplaysTheSamples
    <3>2. l \in Indices(netlog') /\ netlog'[l] = netlog[l] /\ trail'[i] = trail[i]
        BY <1>5, <1>6, <1>7, <2>1
    <3>3. ASSUME NEW later \in (l + 1) .. Len(netlog'), netlog'[later].kind = "state"
          PROVE  netlog'[later].at > trail[i].at
      <4>1. CASE later \in (l + 1) .. Len(netlog)
        <5>1. later \in Indices(netlog)
            BY <1>7, <4>1
        <5> QED BY <1>6, <3>1, <3>3, <4>1, <5>1
      <4>2. CASE later \in (Len(netlog) + 1) .. Len(netlog')
        <5>1. netlog'[later].at = sample.at
            BY <1>6, <3>3, <4>2
        <5> QED BY <1>1, <1>2, <1>12, <2>1, <5>1
      <4>3. later \in (l + 1) .. Len(netlog) \/ later \in (Len(netlog) + 1) .. Len(netlog')
          BY <1>7
      <4> QED BY <4>1, <4>2, <4>3
    <3> QED BY <3>1, <3>2, <3>3
  <2>2. CASE i = next /\ writes
    <3> DEFINE l == Len(lines)
    <3>1. l > Len(netlog) /\ IsStateOf(lines[l], sample)
        BY <2>2 DEF Sampled, Extends
    <3>2. l \in 1 .. Len(lines) /\ l \in Indices(netlog') /\ netlog'[l] = lines[l]
        BY <1>6, <1>7, <3>1
    <3>3. \A later \in (l + 1) .. Len(netlog') : netlog'[later].kind # "state"
      <4> TAKE later \in (l + 1) .. Len(netlog')
      <4>1. later \in (Len(lines) + 1) .. Len(netlog')
          OBVIOUS
      <4>2. netlog'[later].kind = "stopped"
          BY <1>6, <4>1
      <4>3. "stopped" # "state"
          OBVIOUS
      <4> QED BY <4>2, <4>3
    <3> HIDE DEF l
    <3>4. trail'[i] = sample
        BY <1>5, <2>2
    <3>5. netlog'[l].kind = "state" /\ netlog'[l].at = sample.at /\ netlog'[l].state = sample.state
        BY <3>1, <3>2 DEF IsStateOf
    <3>6. netlog'[l].at <= sample.at
        BY <1>2, <3>5
    <3> QED BY <3>2, <3>3, <3>4, <3>5, <3>6
  <2>3. CASE i = next /\ ~writes
    <3>1. sample.state = watcher.said /\ sample.state # ""
      <4>1. sample.state = watcher.said
          BY <2>3 DEF Sampled
      <4>2. sample.state \in NetStates
          BY <1>2
      <4>3. \A name \in NetStates : name # ""
          BY DEF NetStates
      <4> QED BY <4>1, <4>2, <4>3
    <3>2. trail # <<>> /\ n \in 1 .. n /\ watcher.last = trail[n].at /\ trail[n].state = sample.state
      <4>1. TrailIsPast
          BY DEF NetInv
      <4>2. trail # <<>>
          BY <3>1, <4>1 DEF TrailIsPast
      <4>3. n \in 1 .. n
          BY <1>1, <4>2
      <4> QED BY <3>1, <4>1, <4>2, <4>3 DEF TrailIsPast
    <3>3. PICK l \in Indices(netlog) :
            /\ netlog[l].kind = "state" /\ netlog[l].at <= trail[n].at
            /\ netlog[l].state = trail[n].state
            /\ \A later \in (l + 1) .. Len(netlog) :
                netlog[later].kind = "state" => netlog[later].at > trail[n].at
        BY <1>5, <3>2 DEF NetInv, OutagesAreRecorded, LogReplaysTheSamples
    <3>4. netlog[l].at <= sample.at
        BY <1>2, <1>10, <3>3
    <3>5. ASSUME NEW later \in (l + 1) .. Len(netlog'), netlog'[later].kind = "state"
          PROVE  FALSE
      <4>1. CASE later \in (l + 1) .. Len(netlog)
        <5>1. later \in Indices(netlog)
            BY <1>7, <4>1
        <5>2. netlog[later].kind = "state" /\ netlog[later].at > trail[n].at
            BY <1>6, <3>3, <3>5, <4>1, <5>1
        <5>3. netlog[later].at <= trail[n].at /\ netlog[later].at \in Nat /\ trail[n].at \in Nat
            BY <1>10, <1>12, <3>2, <5>1, <5>2
        <5> QED BY <5>2, <5>3
      <4>2. CASE later \in (Len(netlog) + 1) .. Len(netlog')
          BY <1>6, <2>3, <3>5, <4>2
      <4>3. later \in (l + 1) .. Len(netlog) \/ later \in (Len(netlog) + 1) .. Len(netlog')
          BY <1>7
      <4> QED BY <4>1, <4>2, <4>3
    <3> QED BY <1>2, <1>5, <1>6, <1>7, <2>3, <3>2, <3>3, <3>4, <3>5
  <2> QED BY <1>5, <2>1, <2>2, <2>3
<1>15. ASSUME n > 0 PROVE trail[n].at = watcher.last /\ trail'[n] = trail[n] /\ n \in 1 .. n
  <2>1. trail # <<>> /\ n \in 1 .. n
      BY <1>1, <1>15
  <2> QED BY <1>5, <2>1 DEF NetInv, TrailIsPast
<1>16. hole <=> sample.at - watcher.last > 2 * heartbeat
    BY DEF Sampled
<1>17. ASSUME NEW i \in Holes'
       PROVE  \E l \in Indices(netlog') :
                /\ netlog'[l].kind = "gap" /\ netlog'[l].at = trail'[i].at
                /\ \E after \in (l + 1) .. Len(netlog') :
                    netlog'[after].kind = "state" /\ netlog'[after].at = trail'[i].at
  <2>1. /\ i \in 2 .. next /\ trail'[i].at - trail'[i - 1].at > 2 * heartbeat
      BY <1>3, <1>5 DEF Holes
  <2>2. CASE i \in 1 .. n
    <3>1. i - 1 \in 1 .. n /\ i \in 2 .. n
        BY <1>1, <2>1, <2>2
    <3>2. i \in Holes
        BY <1>5, <2>1, <2>2, <3>1 DEF Holes
    <3>3. PICK l \in Indices(netlog) :
            /\ netlog[l].kind = "gap" /\ netlog[l].at = trail[i].at
            /\ \E after \in (l + 1) .. Len(netlog) :
                netlog[after].kind = "state" /\ netlog[after].at = trail[i].at
        BY <3>2 DEF NetInv, OutagesAreRecorded, HolesAreMarked
    <3>4. PICK after \in (l + 1) .. Len(netlog) :
            netlog[after].kind = "state" /\ netlog[after].at = trail[i].at
        BY <3>3
    <3>5. after \in Indices(netlog) /\ after \in (l + 1) .. Len(netlog')
      <4>1. l \in 1 .. Len(netlog)
          BY <1>7
      <4>2. after \in 1 .. Len(netlog) /\ after \in (l + 1) .. Len(netlog')
          BY <1>8, <4>1
      <4> QED BY <1>7, <4>2
    <3>6. netlog'[l] = netlog[l] /\ netlog'[after] = netlog[after] /\ l \in Indices(netlog')
        BY <1>6, <1>7, <3>5
    <3>7. trail'[i] = trail[i]
        BY <1>5, <2>2
    <3> QED BY <3>3, <3>4, <3>5, <3>6, <3>7
  <2>3. CASE i = next
    <3>1. n > 0 /\ i - 1 = n
        BY <1>1, <1>5, <2>1, <2>3 DEF next
    <3>2. hole /\ writes /\ trail'[i] = sample
        BY <1>5, <1>15, <1>16, <2>1, <2>3, <3>1 DEF Sampled
    <3>3. /\ Len(lines) > Len(netlog) /\ IsStateOf(lines[Len(lines)], sample)
          /\ \E g \in (Len(netlog) + 1) .. (Len(lines) - 1) :
                lines[g].kind = "gap" /\ lines[g].at = sample.at
        BY <3>2 DEF Sampled, Extends
    <3>4. PICK g \in (Len(netlog) + 1) .. (Len(lines) - 1) :
            lines[g].kind = "gap" /\ lines[g].at = sample.at
        BY <3>3
    <3>5. /\ g \in 1 .. Len(lines) /\ g \in Indices(netlog') /\ Len(lines) \in 1 .. Len(lines)
          /\ Len(lines) \in (g + 1) .. Len(netlog')
        BY <1>6, <1>7, <3>3
    <3>6. netlog'[g] = lines[g] /\ netlog'[Len(lines)] = lines[Len(lines)]
        BY <1>6, <3>5
    <3> QED BY <3>2, <3>3, <3>4, <3>5, <3>6 DEF IsStateOf
  <2> QED BY <1>5, <2>1, <2>2, <2>3
<1>18. ASSUME 2 * heartbeat >= Unfrozen, NEW l \in Indices(netlog'), netlog'[l].kind = "gap"
       PROVE  \E i \in Indices(trail') :
                /\ trail'[i].at = netlog'[l].at
                /\ trail'[i].at > IF i = 1 THEN 0 ELSE trail'[i - 1].ends + 1
  <2>1. CASE l \in Indices(netlog)
    <3>1. netlog[l].kind = "gap" /\ netlog'[l] = netlog[l]
        BY <1>6, <1>18, <2>1
    <3>2. PICK i \in Indices(trail) :
            /\ trail[i].at = netlog[l].at
            /\ trail[i].at > IF i = 1 THEN 0 ELSE trail[i - 1].ends + 1
        BY <1>18, <2>1, <3>1 DEF NetInv, OutagesAreRecorded, HolesAreMarked
    <3>3. i \in Indices(trail') /\ trail'[i] = trail[i] /\ (i # 1 => trail'[i - 1] = trail[i - 1])
        BY <1>1, <1>5, <3>2 DEF next
    <3> QED BY <3>1, <3>2, <3>3
  <2>2. CASE l \in (Len(netlog) + 1) .. Len(netlog')
    <3>1. hole /\ netlog'[l].at = sample.at
        BY <1>6, <1>18, <2>2
    <3>2. sample.at - watcher.last > 3 * Deadline + 1
        BY <1>1, <1>2, <1>16, <1>18, <3>1 DEF Unfrozen
    <3>3. CASE n = 0
      <4>1. next = 1 /\ sample.at > 0
          BY <1>1, <1>2, <3>2, <3>3 DEF next
      <4> QED BY <1>5, <3>1, <4>1
    <3>4. CASE n > 0
      <4>1. trail[n].at = watcher.last /\ trail'[n] = trail[n] /\ n \in 1 .. n
          BY <1>15, <3>4
      <4>2. trail[n].ends - trail[n].at < 3 * Deadline + 1
          BY <1>5, <4>1 DEF NetInv, OutagesAreRecorded, VerdictsAreFresh, Unfrozen
      <4>3. sample.at > trail[n].ends + 1
        <5>1. trail[n].at \in Nat /\ trail[n].ends \in Nat
            BY <1>12, <4>1
        <5>2. Deadline \in Nat /\ sample.at \in Nat
            BY <1>1, <1>2
        <5> DEFINE from == trail[n].at
                   to == trail[n].ends
                   until == sample.at
        <5>3. /\ from \in Nat /\ to \in Nat /\ until \in Nat /\ to - from < 3 * Deadline + 1
              /\ until - from > 3 * Deadline + 1
            BY <3>2, <4>1, <4>2, <5>1, <5>2
        <5> HIDE DEF from, to, until
        <5>4. until > to + 1
            BY <5>2, <5>3
        <5> QED BY <5>4 DEF to, until
      <4>4. next # 1 /\ next - 1 = n /\ next \in 1 .. next
          BY <1>1, <3>4 DEF next
      <4> QED BY <1>5, <3>1, <4>1, <4>3, <4>4
    <3> QED BY <1>1, <3>3, <3>4
  <2> QED BY <1>7, <2>1, <2>2
<1>19. HolesAreMarked'
  <2>1. Unfrozen' = Unfrozen
      BY DEF Unfrozen
  <2> QED BY <1>3, <1>17, <1>18, <2>1 DEF HolesAreMarked
<1>20. VerdictsAreFresh'
  <2> SUFFICES ASSUME NEW i \in 1 .. next
               PROVE  /\ trail'[i].state \in {"ok", "transport_only"} =>
                            /\ trail'[i].lookup.ends \in trail'[i].at .. trail'[i].ends
                            /\ trail'[i].lookup.ends - trail'[i].lookup.from < AliveBound
                      /\ trail'[i].state = "dns_only" =>
                            trail'[i].ends - trail'[i].lookup.from >= AliveBound
                      /\ trail'[i].ends - trail'[i].at < Unfrozen
      BY <1>5 DEF VerdictsAreFresh, Unfrozen
  <2>1. CASE i = next
      BY <1>5, <2>1 DEF IsFresh
  <2>2. CASE i \in 1 .. n
      BY <1>5, <2>2 DEF NetInv, OutagesAreRecorded, VerdictsAreFresh
  <2> QED BY <1>5, <2>1, <2>2
<1> QED BY <1>9, <1>11, <1>13, <1>14, <1>19, <1>20 DEF NetInv, OutagesAreRecorded

LEMMA NetwatchStep == NetInv /\ [NetwatchNext]_netwatchVars => NetInv'
<1> SUFFICES ASSUME NetInv, [NetwatchNext]_netwatchVars PROVE NetInv'
    OBVIOUS
<1>1. CASE Iterate
  <2>1. PICK sample, hole, writes, lines :
            Sampled(sample, hole, writes, lines) /\ IsFresh(sample)
      BY <1>1, IterationSamples DEF NetInv
  <2> QED BY <2>1, SampleKeeps
<1>2. CASE Interrupted
  <2> DEFINE line == NetLine("stopped", watcher.clock, "")
  <2>1. /\ heartbeat \in Nat /\ trail \in Seq(Samples) /\ netlog \in Seq(NetLines)
        /\ watcher \in [up : BOOLEAN, clock : Nat, last : Nat, beat : Nat,
                        said : NetStates \union {""}]
        /\ lookup \in [from : Nat, ends : Nat] /\ Len(netlog) \in Nat
    <3>1. NetTypeOK
        BY DEF NetInv
    <3>2. heartbeat \in Nat /\ trail \in Seq(Samples) /\ netlog \in Seq(NetLines)
        BY <3>1 DEF NetTypeOK
    <3>3. /\ watcher \in [up : BOOLEAN, clock : Nat, last : Nat, beat : Nat,
                          said : NetStates \union {""}]
          /\ lookup \in [from : Nat, ends : Nat]
        BY <3>1 DEF NetTypeOK
    <3>4. Len(netlog) \in Nat
        BY <3>2
    <3> QED BY <3>2, <3>3, <3>4
  <2>2. line \in NetLines /\ line.kind = "stopped"
      BY <2>1 DEF NetLine, NetLines
  <2> HIDE DEF line
  <2>3. /\ netlog' = Append(netlog, line) /\ trail' = trail /\ heartbeat' = heartbeat
        /\ lookup' = lookup /\ watcher' = [watcher EXCEPT !.up = FALSE]
      BY <1>2 DEF Interrupted, line
  <2>4. /\ watcher' \in [up : BOOLEAN, clock : Nat, last : Nat, beat : Nat,
                        said : NetStates \union {""}]
        /\ watcher'.clock = watcher.clock /\ watcher'.last = watcher.last
        /\ watcher'.said = watcher.said
      BY <2>1, <2>3
  <2>5. /\ netlog' \in Seq(NetLines) /\ Len(netlog') = Len(netlog) + 1
        /\ \A l \in 1 .. Len(netlog) : netlog'[l] = netlog[l]
        /\ netlog'[Len(netlog) + 1].kind = "stopped"
    <3>1. netlog \in Seq(NetLines) /\ netlog' = Append(netlog, line)
        BY <2>1, <2>3
    <3>2. /\ netlog' \in Seq(NetLines) /\ Len(netlog') = Len(netlog) + 1
          /\ \A l \in 1 .. Len(netlog) : netlog'[l] = netlog[l]
          /\ netlog'[Len(netlog) + 1] = line
        BY <2>2, <3>1
    <3> QED BY <2>2, <3>2
  <2>6. /\ Indices(netlog) = 1 .. Len(netlog) /\ Indices(netlog') = 1 .. Len(netlog')
        /\ \A l \in Indices(netlog') : l \in Indices(netlog) \/ l = Len(netlog) + 1
        /\ \A l \in Indices(netlog) : l \in Indices(netlog') /\ netlog'[l] = netlog[l]
        /\ Indices(trail') = Indices(trail) /\ Holes' = Holes
    <3>1. Indices(netlog) = 1 .. Len(netlog) /\ Indices(netlog') = 1 .. Len(netlog')
        BY DEF Indices
    <3>2. Indices(trail') = Indices(trail) /\ Holes' = Holes
        BY <2>3 DEF Indices, Holes
    <3>3. Len(netlog) \in Nat /\ Len(netlog') = Len(netlog) + 1
        BY <2>1, <2>5
    <3> QED BY <2>5, <3>1, <3>2, <3>3
  <2>7. Len(netlog) \in Nat /\ Len(netlog') = Len(netlog) + 1
      BY <2>1, <2>5
  <2>8. /\ \A l \in Indices(netlog) : l \in 1 .. Len(netlog) /\ l \in Nat
        /\ \A l \in Indices(netlog') : l \in 1 .. (Len(netlog) + 1)
      BY <2>6, <2>7
  <2>9. NetTypeOK' /\ TrailIsPast'
      BY <2>1, <2>3, <2>4, <2>5, <2>6 DEF NetInv, NetTypeOK, TrailIsPast
  <2>10. LogIsPast'
      BY <2>4, <2>5, <2>6 DEF NetInv, LogIsPast
  <2>11. \A l \in Indices(netlog) : \A later \in (l + 1) .. Len(netlog') :
            netlog'[later].kind = "state" =>
                later \in (l + 1) .. Len(netlog) /\ netlog'[later] = netlog[later]
    <3> SUFFICES ASSUME NEW l \in Indices(netlog), NEW later \in (l + 1) .. Len(netlog'),
                        netlog'[later].kind = "state"
                 PROVE  later \in (l + 1) .. Len(netlog) /\ netlog'[later] = netlog[later]
        OBVIOUS
    <3>1. later # Len(netlog) + 1
        BY <2>5
    <3>2. l \in 1 .. Len(netlog)
        BY <2>8
    <3>3. later \in (l + 1) .. Len(netlog) /\ later \in 1 .. Len(netlog)
        BY <2>7, <3>1, <3>2
    <3> QED BY <2>5, <3>3
  <2>12. LogReplaysTheSamples'
      BY <2>3, <2>6, <2>11 DEF NetInv, OutagesAreRecorded, LogReplaysTheSamples
  <2>13. HolesAreMarked'
    <3>1. Unfrozen' = Unfrozen
        BY DEF Unfrozen
    <3>2. ASSUME NEW i \in Holes'
          PROVE  \E l \in Indices(netlog') :
                    /\ netlog'[l].kind = "gap" /\ netlog'[l].at = trail'[i].at
                    /\ \E after \in (l + 1) .. Len(netlog') :
                        netlog'[after].kind = "state" /\ netlog'[after].at = trail'[i].at
      <4>1. PICK l \in Indices(netlog) :
                /\ netlog[l].kind = "gap" /\ netlog[l].at = trail[i].at
                /\ \E after \in (l + 1) .. Len(netlog) :
                    netlog[after].kind = "state" /\ netlog[after].at = trail[i].at
          BY <2>6, <3>2 DEF NetInv, OutagesAreRecorded, HolesAreMarked
      <4>2. PICK after \in (l + 1) .. Len(netlog) :
                netlog[after].kind = "state" /\ netlog[after].at = trail[i].at
          BY <4>1
      <4>3. after \in Indices(netlog) /\ after \in (l + 1) .. Len(netlog')
        <5>1. l \in 1 .. Len(netlog)
            BY <2>8
        <5>2. after \in 1 .. Len(netlog) /\ after \in (l + 1) .. Len(netlog')
            BY <2>7, <5>1
        <5> QED BY <2>6, <5>2
      <4> QED BY <2>3, <2>6, <4>1, <4>2, <4>3
    <3>3. ASSUME 2 * heartbeat >= Unfrozen, NEW l \in Indices(netlog'), netlog'[l].kind = "gap"
          PROVE  \E i \in Indices(trail) :
                    /\ trail[i].at = netlog'[l].at
                    /\ trail[i].at > IF i = 1 THEN 0 ELSE trail[i - 1].ends + 1
      <4>1. l \in Indices(netlog) /\ netlog'[l] = netlog[l]
          BY <2>5, <2>6, <3>3
      <4> QED BY <3>3, <4>1 DEF NetInv, OutagesAreRecorded, HolesAreMarked
    <3> QED BY <2>3, <2>6, <3>1, <3>2, <3>3 DEF HolesAreMarked
  <2>14. VerdictsAreFresh'
      BY <2>3, <2>6 DEF NetInv, OutagesAreRecorded, VerdictsAreFresh, Unfrozen
  <2> QED BY <2>9, <2>10, <2>12, <2>13, <2>14 DEF NetInv, OutagesAreRecorded
<1>3. CASE UNCHANGED netwatchVars
  <2>1. /\ heartbeat' = heartbeat /\ watcher' = watcher /\ lookup' = lookup
        /\ netlog' = netlog /\ trail' = trail
      BY <1>3 DEF netwatchVars
  <2>2. Indices(netlog') = Indices(netlog) /\ Indices(trail') = Indices(trail) /\ Holes' = Holes
      BY <2>1 DEF Indices, Holes
  <2>3. NetTypeOK' /\ LogIsPast' /\ TrailIsPast'
      BY <2>1, <2>2 DEF NetInv, NetTypeOK, LogIsPast, TrailIsPast
  <2>4. LogReplaysTheSamples'
      BY <2>1, <2>2 DEF NetInv, OutagesAreRecorded, LogReplaysTheSamples
  <2>5. HolesAreMarked'
      BY <2>1, <2>2 DEF NetInv, OutagesAreRecorded, HolesAreMarked, Unfrozen
  <2>6. VerdictsAreFresh'
      BY <2>1, <2>2 DEF NetInv, OutagesAreRecorded, VerdictsAreFresh, Unfrozen
  <2> QED BY <2>3, <2>4, <2>5, <2>6 DEF NetInv, OutagesAreRecorded
<1> QED BY <1>1, <1>2, <1>3 DEF NetwatchNext

\* The log of the connectivity watcher says what it measured: it replays the samples, marks
\* every stretch nobody measured and calls no other one so, and its verdicts are of this
\* sample's answer (netwatch.py watch, _DnsProbe), whatever the deadlines and the heartbeat.
THEOREM OutagesStayRecorded == NetwatchSpec => []OutagesAreRecorded
<1>1. NetwatchInit => NetInv
  <2> SUFFICES ASSUME NetwatchInit PROVE NetInv
      OBVIOUS
  <2>1. netlog = <<>> /\ trail = <<>>
      BY DEF NetwatchInit
  <2>2. /\ heartbeat \in Nat
        /\ watcher = [up |-> TRUE, clock |-> 0, last |-> 0, beat |-> 0, said |-> ""]
        /\ lookup = [from |-> 0, ends |-> 0]
      BY NetwatchAssumption DEF NetwatchInit
  <2>3. netlog \in Seq(NetLines) /\ trail \in Seq(Samples)
      BY <2>1
  <2>4. /\ watcher \in [up : BOOLEAN, clock : Nat, last : Nat, beat : Nat,
                        said : NetStates \union {""}]
        /\ lookup \in [from : Nat, ends : Nat] /\ watcher.last = 0 /\ watcher.said = ""
      BY <2>2
  <2>5. NetTypeOK
      BY <2>2, <2>3, <2>4 DEF NetTypeOK
  <2>6. Indices(netlog) = {} /\ Indices(trail) = {} /\ Holes = {}
      BY <2>1 DEF Indices, Holes
  <2> QED BY <2>1, <2>2, <2>4, <2>5, <2>6
          DEF NetInv, LogIsPast, TrailIsPast, OutagesAreRecorded, LogReplaysTheSamples,
              HolesAreMarked, VerdictsAreFresh
<1>2. NetInv => OutagesAreRecorded
    BY DEF NetInv
<1> QED BY <1>1, <1>2, NetwatchStep, PTL DEF NetwatchSpec

(***************************************************************************)
(* The panel.                                                              *)
(***************************************************************************)

Tickers == {TickerOf[p] : p \in Follower}
Counts == [detected : Nat, confirmed : Nat, split : [Triggers -> Nat]]
Records == [symbol : Tickers, seen : Nat \ {0}]
Verdicts == {{}, Follower, Unknown}
Engines == [up : {TRUE}, live : BOOLEAN, count : Counts, stalled : Verdicts, recent : Seq(Records)]
Readings == [part : {"answer"}, at : Nat, stamp : Nat, recent : Seq(Records), stalled : Verdicts,
             open : SUBSET Tickers]

DashboardTypeOK ==
    /\ hour \in Nat \ {0} /\ stories \in [Follower -> Nat] /\ told \in Counts
    /\ stats \in {NoEngine} \union Engines
    /\ writing \subseteq [by : Follower \union {"ingest"}, base : Counts, adds : Counts]
    /\ asked \in {NoPart} \union [part : {"sent", "broken"}, at : Nat] \union Readings
    /\ panel \in [good : {NoPart} \union Readings, red : BOOLEAN, polled : Nat]

Counting(p) == \E w \in writing : w.by = p

\* Who holds the lock read the counters that stand, and a worker counts the story its
\* tracker has just opened.
TheLockHolds ==
    /\ \A v, w \in writing : v = w
    /\ \A w \in writing :
        /\ stats.up /\ stats.live /\ w.base = stats.count
        /\ w.adds.detected = FlagsOf(w.adds)
        /\ w.by \in Follower => stories[w.by] = hour

\* A record drawn live is of a story some pipeline holds and has counted.
RecordsAreBacked == stats.up => \A i \in DOMAIN stats.recent :
    hour - stats.recent[i].seen <= StoryGap =>
        \E p \in Follower : /\ TickerOf[p] = stats.recent[i].symbol
                            /\ stories[p] >= stats.recent[i].seen /\ ~Counting(p)

\* A story held and counted has a record as new as it, or the panel is full.
StoriesAreRecorded == stats.up /\ Len(stats.recent) # ShownEpisodes =>
    \A p \in Follower : Open(p) /\ ~Counting(p) =>
        \E i \in DOMAIN stats.recent : /\ stats.recent[i].symbol = TickerOf[p]
                                       /\ stats.recent[i].seen >= stories[p]

Honest(reading) ==
    LET live == DrawnLive(reading.recent, reading.stamp)
    IN  /\ live \subseteq reading.open
        /\ \A symbol \in reading.open \ live : Len(reading.recent) = ShownEpisodes

ReadingsAreHonest ==
    /\ asked # NoPart => asked.at <= hour
    /\ asked.part = "answer" => Honest(asked) /\ asked.stamp >= asked.at
    /\ panel.good # NoPart => Honest(panel.good)
    /\ ~panel.red => panel.good # NoPart /\ panel.good.stamp >= panel.polled

DashboardInv ==
    /\ DashboardTypeOK
    /\ stats.up => Len(stats.recent) <= ShownEpisodes
    /\ \A p \in Follower : stories[p] <= hour
    /\ CountsAddUp /\ TheLockHolds /\ RecordsAreBacked /\ StoriesAreRecorded
    /\ ReadingsAreHonest

LEMMA FittingKeepsTheNewest ==
    ASSUME NEW records \in Seq(Records)
    PROVE  /\ Fitting(records) \in Seq(Records) /\ Len(Fitting(records)) <= ShownEpisodes
           /\ Len(records) <= ShownEpisodes => Fitting(records) = records
           /\ Len(records) >= ShownEpisodes => Len(Fitting(records)) = ShownEpisodes
           /\ \A i \in DOMAIN Fitting(records) :
                \E j \in DOMAIN records : Fitting(records)[i] = records[j]
<1> DEFINE n == Len(records)
           fallen == IF n > ShownEpisodes THEN n - ShownEpisodes ELSE 0
           kept == n - fallen
<1>1. ShownEpisodes \in Nat /\ n \in Nat /\ DOMAIN records = 1 .. n
    BY DashboardAssumption
<1>5. Fitting(records) = [i \in 1 .. kept |-> records[fallen + i]]
    BY DEF Fitting
<1> HIDE DEF n
<1>2. fallen \in Nat /\ kept \in Nat /\ kept <= ShownEpisodes /\ fallen + kept = n
  <2>1. CASE n > ShownEpisodes
      BY <1>1, <2>1
  <2>2. CASE ~(n > ShownEpisodes)
      BY <1>1, <2>2
  <2> QED BY <2>1, <2>2
<1>3. ASSUME n <= ShownEpisodes PROVE fallen = 0 /\ kept = n
  <2>1. ~(n > ShownEpisodes)
      BY <1>1, <1>3
  <2>2. fallen = 0
      BY <2>1
  <2> HIDE DEF fallen
  <2> QED BY <2>2, <1>1
<1>4. ASSUME n >= ShownEpisodes PROVE kept = ShownEpisodes
  <2>1. CASE n > ShownEpisodes
    <3>1. fallen = n - ShownEpisodes
        BY <2>1
    <3> HIDE DEF fallen
    <3> QED BY <3>1, <1>1
  <2>2. CASE ~(n > ShownEpisodes)
    <3>1. fallen = 0 /\ n = ShownEpisodes
        BY <2>2, <1>1, <1>4
    <3> HIDE DEF fallen
    <3> QED BY <3>1, <1>1
  <2> QED BY <2>1, <2>2
<1> HIDE DEF fallen, kept
<1>6. ASSUME NEW i \in 1 .. kept PROVE fallen + i \in DOMAIN records
    BY <1>1, <1>2
<1>7. Fitting(records) \in [1 .. kept -> Records]
  <2>1. ASSUME NEW i \in 1 .. kept PROVE records[fallen + i] \in Records
      BY <1>6, ElementOfSeq, <1>1 DEF n
  <2> QED BY <1>5, <2>1
<1>8. Fitting(records) \in Seq(Records) /\ Len(Fitting(records)) = kept
  <2>1. Fitting(records) \in Seq(Records)
      BY <1>7, <1>2, SeqDef
  <2>2. DOMAIN Fitting(records) = 1 .. kept
      BY <1>5
  <2> QED BY <2>1, <2>2, <1>2, LenProperties
<1>9. ASSUME n <= ShownEpisodes PROVE Fitting(records) = records
  <2>1. \A i \in 1 .. n : fallen + i = i
      BY <1>9, <1>3, <1>1
  <2>2. Fitting(records) = [i \in 1 .. n |-> records[i]]
      BY <2>1, <1>9, <1>3, <1>5
  <2> QED BY <2>2, <1>1
<1>10. ASSUME NEW i \in DOMAIN Fitting(records)
       PROVE  \E j \in DOMAIN records : Fitting(records)[i] = records[j]
  <2>1. i \in 1 .. kept
      BY <1>5
  <2> QED BY <2>1, <1>5, <1>6
<1> QED BY <1>2, <1>4, <1>8, <1>9, <1>10 DEF n

LEMMA AppendedIs ==
    ASSUME NEW records \in Seq(Records), NEW record \in Records,
           Len(records) <= ShownEpisodes
    PROVE  /\ Appended(records, record) \in Seq(Records)
           /\ Len(Appended(records, record)) <= ShownEpisodes
           /\ \A i \in DOMAIN Appended(records, record) :
                \/ Appended(records, record)[i] = record
                \/ \E j \in DOMAIN records : Appended(records, record)[i] = records[j]
           /\ Len(Appended(records, record)) # ShownEpisodes =>
                /\ Len(records) # ShownEpisodes
                /\ \E i \in DOMAIN Appended(records, record) : Appended(records, record)[i] = record
                /\ \A j \in DOMAIN records :
                    \E i \in DOMAIN Appended(records, record) :
                        Appended(records, record)[i] = records[j]
<1> DEFINE more == Append(records, record)
<1>1. /\ more \in Seq(Records) /\ Len(more) = Len(records) + 1
      /\ \A i \in 1 .. Len(records) : more[i] = records[i]
      /\ more[Len(records) + 1] = record
    BY AppendProperties
<1>2. Appended(records, record) = Fitting(more)
    BY DEF Appended
<1> HIDE DEF more
<1>3. /\ Len(records) \in Nat /\ ShownEpisodes \in Nat /\ DOMAIN records = 1 .. Len(records)
      /\ DOMAIN more = 1 .. Len(records) + 1
    BY <1>1, DashboardAssumption
<1>4. \A i \in DOMAIN more : more[i] = record \/ (i \in DOMAIN records /\ more[i] = records[i])
    BY <1>1, <1>3
<1>5. Len(Fitting(more)) # ShownEpisodes => Len(records) # ShownEpisodes /\ Fitting(more) = more
  <2>1. ASSUME Len(Fitting(more)) # ShownEpisodes
        PROVE  Len(records) # ShownEpisodes /\ Fitting(more) = more
    <3>1. ~(Len(more) >= ShownEpisodes)
        BY <2>1, <1>1, FittingKeepsTheNewest
    <3>2. Len(more) <= ShownEpisodes /\ Len(records) # ShownEpisodes
        BY <3>1, <1>1, <1>3
    <3> QED BY <3>2, <1>1, FittingKeepsTheNewest
  <2> QED BY <2>1
<1>6. Len(records) + 1 \in DOMAIN more /\ \A j \in DOMAIN records : j \in DOMAIN more
    BY <1>3
<1>7. /\ Fitting(more) \in Seq(Records) /\ Len(Fitting(more)) <= ShownEpisodes
      /\ \A i \in DOMAIN Fitting(more) : \E j \in DOMAIN more : Fitting(more)[i] = more[j]
    BY <1>1, FittingKeepsTheNewest
<1>8. ASSUME NEW i \in DOMAIN Fitting(more)
      PROVE  Fitting(more)[i] = record \/ \E j \in DOMAIN records : Fitting(more)[i] = records[j]
  <2>1. PICK j \in DOMAIN more : Fitting(more)[i] = more[j]
      BY <1>7
  <2> QED BY <2>1, <1>4
<1>9. ASSUME Len(Fitting(more)) # ShownEpisodes
      PROVE  /\ Len(records) # ShownEpisodes
             /\ \E i \in DOMAIN Fitting(more) : Fitting(more)[i] = record
             /\ \A j \in DOMAIN records : \E i \in DOMAIN Fitting(more) :
                    Fitting(more)[i] = records[j]
  <2>1. Fitting(more) = more /\ Len(records) # ShownEpisodes
      BY <1>5, <1>9
  <2>2. \E i \in DOMAIN more : more[i] = record
      BY <1>1, <1>6
  <2>3. ASSUME NEW j \in DOMAIN records PROVE \E i \in DOMAIN more : more[i] = records[j]
    <3>1. j \in DOMAIN more /\ more[j] = records[j]
        BY <1>1, <1>3, <1>6
    <3> QED BY <3>1
  <2> QED BY <2>1, <2>2, <2>3
<1> QED BY <1>2, <1>7, <1>8, <1>9

LEMMA SumsAdd ==
    ASSUME NEW c \in Counts, NEW d \in Counts
    PROVE  /\ Sum(c, d) \in Counts /\ FlagsOf(Sum(c, d)) = FlagsOf(c) + FlagsOf(d)
           /\ Sum(c, d).detected = c.detected + d.detected
<1> DEFINE split == [t \in Triggers |-> c.split[t] + d.split[t]]
<1>1. /\ c.detected \in Nat /\ d.detected \in Nat /\ c.confirmed \in Nat /\ d.confirmed \in Nat
      /\ c.split \in [Triggers -> Nat] /\ d.split \in [Triggers -> Nat]
    BY DEF Counts
<1>2. split \in [Triggers -> Nat]
  <2>1. ASSUME NEW t \in Triggers PROVE c.split[t] + d.split[t] \in Nat
    <3>1. c.split[t] \in Nat /\ d.split[t] \in Nat
        BY <1>1
    <3> QED BY <3>1
  <2> QED BY <2>1
<1>3. Sum(c, d) = [detected |-> c.detected + d.detected, confirmed |-> c.confirmed + d.confirmed,
                   split |-> split]
    BY DEF Sum
<1>4. split["keyword"] = c.split["keyword"] + d.split["keyword"]
    BY DEF Triggers
<1>5. split["cluster"] = c.split["cluster"] + d.split["cluster"]
    BY DEF Triggers
<1> HIDE DEF split
<1>6. c.detected + d.detected \in Nat /\ c.confirmed + d.confirmed \in Nat
    BY <1>1
<1>7. Sum(c, d) \in Counts
    BY <1>2, <1>3, <1>6 DEF Counts
<1>8. /\ c.split["keyword"] \in Nat /\ c.split["cluster"] \in Nat
      /\ d.split["keyword"] \in Nat /\ d.split["cluster"] \in Nat
    BY <1>1 DEF Triggers
<1>9. /\ FlagsOf(Sum(c, d)) = split["keyword"] + split["cluster"]
      /\ FlagsOf(c) = c.split["keyword"] + c.split["cluster"]
      /\ FlagsOf(d) = d.split["keyword"] + d.split["cluster"]
    BY <1>3 DEF FlagsOf
<1>10. FlagsOf(Sum(c, d)) = FlagsOf(c) + FlagsOf(d)
    BY <1>4, <1>5, <1>8, <1>9
<1> QED BY <1>3, <1>7, <1>10

LEMMA ZeroIsNothing == Zero \in Counts /\ FlagsOf(Zero) = 0 /\ Zero.detected = 0
<1>1. [t \in Triggers |-> 0] \in [Triggers -> Nat]
    OBVIOUS
<1>2. Zero \in Counts
    BY <1>1 DEF Zero, Counts
<1> QED BY <1>2 DEF Zero, FlagsOf, Triggers

\* What a running engine holds, read off the types.
LEMMA RunningEngine ==
    ASSUME DashboardTypeOK, stats.up
    PROVE  /\ stats \in Engines /\ stats.recent \in Seq(Records) /\ stats.count \in Counts
           /\ stats.live \in BOOLEAN /\ stats.stalled \in Verdicts
           /\ DOMAIN stats.recent = 1 .. Len(stats.recent) /\ Len(stats.recent) \in Nat
<1>1. stats \in Engines
    BY DEF DashboardTypeOK, NoEngine
<1>2. stats.recent \in Seq(Records) /\ stats.count \in Counts
    BY <1>1 DEF Engines
<1>3. stats.live \in BOOLEAN /\ stats.stalled \in Verdicts
    BY <1>1 DEF Engines
<1> QED BY <1>1, <1>2, <1>3

LEMMA PanelStarts == DashboardInit => DashboardInv
<1> SUFFICES ASSUME DashboardInit PROVE DashboardInv
    OBVIOUS
<1>1. ~stats.up /\ writing = {} /\ asked = NoPart /\ stats = NoEngine
    BY DEF DashboardInit, NoEngine
<1>2. hour = 1 /\ stories = [p \in Follower |-> 0] /\ told = Zero
    BY DEF DashboardInit, NoStory
<1>3. panel = [good |-> NoPart, red |-> TRUE, polled |-> 0]
    BY DEF DashboardInit
<1>4. asked.part # "answer"
    BY <1>1 DEF NoPart
<1>5. DashboardTypeOK
    BY <1>1, <1>2, <1>3, ZeroIsNothing DEF DashboardTypeOK
<1>6. ReadingsAreHonest
    BY <1>1, <1>3, <1>4 DEF ReadingsAreHonest
<1>7. \A p \in Follower : stories[p] <= hour
    BY <1>2
<1> QED BY <1>1, <1>5, <1>6, <1>7 DEF DashboardInv, CountsAddUp, TheLockHolds, RecordsAreBacked,
                                      StoriesAreRecorded

LEMMA EngineStartsKeeps ==
    ASSUME DashboardInv, NEW live \in BOOLEAN, NEW watched \in BOOLEAN,
           EngineStarts(live, watched)
    PROVE  DashboardInv'
<1> DEFINE held == {p \in Follower : Open(p)}
<1>1. PICK order \in Assemblies(held) :
        stats' = [up |-> TRUE, live |-> live, count |-> Zero,
                  stalled |-> IF watched THEN {} ELSE Unknown,
                  recent |-> Fitting([i \in DOMAIN order |-> Record(order[i], stories[order[i]])])]
    BY DEF EngineStarts
<1> DEFINE all == [i \in DOMAIN order |-> Record(order[i], stories[order[i]])]
<1>2. /\ stats = NoEngine /\ told' = Zero
      /\ UNCHANGED <<writing, stories, asked, panel, hour, sent>>
    BY DEF EngineStarts
<1>3. writing = {} /\ ~ \E p \in Follower : Counting(p)'
    BY <1>2 DEF DashboardInv, TheLockHolds, NoEngine, Counting
<1>4. /\ stories \in [Follower -> Nat] /\ hour \in Nat \ {0}
      /\ \A p \in Follower : stories[p] <= hour
    BY DEF DashboardInv, DashboardTypeOK
<1>5. Cardinality(held) \in Nat
    BY DashboardAssumption, FS_Subset, FS_CardinalityType
<1>6. /\ order \in [1 .. Cardinality(held) -> held]
      /\ \A p \in held : \E i \in DOMAIN order : order[i] = p
    BY <1>1 DEF Assemblies
<1>7. ASSUME NEW p \in held
      PROVE  /\ p \in Follower /\ stories[p] \in Nat \ {0} /\ Record(p, stories[p]) \in Records
             /\ Record(p, stories[p]).symbol = TickerOf[p]
             /\ Record(p, stories[p]).seen = stories[p]
  <2>1. p \in Follower /\ stories[p] # 0
      BY DEF Open, NoStory
  <2>2. stories[p] \in Nat \ {0} /\ TickerOf[p] \in Tickers
      BY <2>1, <1>4 DEF Tickers
  <2> QED BY <2>1, <2>2 DEF Record, Records
<1> HIDE DEF held
<1>8. all \in Seq(Records)
  <2>1. ASSUME NEW i \in 1 .. Cardinality(held)
        PROVE  Record(order[i], stories[order[i]]) \in Records
      BY <1>6, <1>7
  <2>2. all \in [1 .. Cardinality(held) -> Records]
      BY <2>1, <1>6
  <2> HIDE DEF all
  <2> QED BY <2>2, <1>5, SeqDef
<1>9. \A i \in DOMAIN all : \E p \in held : all[i] = Record(p, stories[p])
    BY <1>6
<1>10. \A p \in held : \E i \in DOMAIN all : all[i] = Record(p, stories[p])
    BY <1>6
<1> DEFINE recent == Fitting(all)
<1>11. stats' = [up |-> TRUE, live |-> live, count |-> Zero,
                 stalled |-> IF watched THEN {} ELSE Unknown, recent |-> recent]
    BY <1>1
<1> HIDE DEF all
<1>12. /\ recent \in Seq(Records) /\ Len(recent) <= ShownEpisodes
       /\ Len(recent) # ShownEpisodes => recent = all
       /\ \A i \in DOMAIN recent : \E j \in DOMAIN all : recent[i] = all[j]
  <2>1. Len(all) \in Nat /\ ShownEpisodes \in Nat
      BY <1>8, DashboardAssumption
  <2>2. Len(all) <= ShownEpisodes \/ Len(all) >= ShownEpisodes
      BY <2>1
  <2> QED BY <2>2, <1>8, FittingKeepsTheNewest
<1> HIDE DEF recent
<1>13. (IF watched THEN {} ELSE Unknown) \in Verdicts
    BY DEF Verdicts
<1>14. stats' \in Engines
    BY <1>11, <1>12, <1>13, ZeroIsNothing DEF Engines
<1>15. /\ stats'.up /\ stats'.live = live /\ stats'.count = Zero /\ stats'.recent = recent
    BY <1>11
<1>16. DashboardTypeOK'
    BY <1>2, <1>14, ZeroIsNothing DEF DashboardInv, DashboardTypeOK
<1>17. CountsAddUp' /\ TheLockHolds'
    BY <1>2, <1>3, <1>15, ZeroIsNothing DEF CountsAddUp, TheLockHolds
<1>18. RecordsAreBacked'
  <2>1. ASSUME NEW i \in DOMAIN recent
        PROVE  \E p \in Follower : /\ TickerOf[p] = recent[i].symbol
                                   /\ stories[p] >= recent[i].seen /\ ~Counting(p)'
    <3>1. PICK j \in DOMAIN all : recent[i] = all[j]
        BY <1>12
    <3>2. PICK p \in held : all[j] = Record(p, stories[p])
        BY <1>9
    <3>3. p \in Follower /\ recent[i].symbol = TickerOf[p] /\ recent[i].seen = stories[p]
          /\ stories[p] \in Nat
        BY <3>1, <3>2, <1>7
    <3>4. stories[p] >= recent[i].seen
        BY <3>3
    <3> QED BY <3>3, <3>4, <1>3
  <2>2. ASSUME NEW i \in DOMAIN stats'.recent, hour' - stats'.recent[i].seen <= StoryGap
        PROVE  \E p \in Follower : /\ TickerOf[p] = stats'.recent[i].symbol
                                   /\ stories'[p] >= stats'.recent[i].seen /\ ~Counting(p)'
      BY <2>1, <1>15, <1>2
  <2> QED BY <2>2 DEF RecordsAreBacked
<1>19. StoriesAreRecorded'
  <2>1. ASSUME Len(recent) # ShownEpisodes, NEW p \in Follower, Open(p)
        PROVE  \E i \in DOMAIN recent : /\ recent[i].symbol = TickerOf[p]
                                        /\ recent[i].seen >= stories[p]
    <3>1. p \in held
        BY <2>1 DEF held
    <3>2. PICK i \in DOMAIN all : all[i] = Record(p, stories[p])
        BY <3>1, <1>10
    <3>3. /\ all[i].symbol = TickerOf[p] /\ all[i].seen = stories[p] /\ stories[p] \in Nat
          /\ recent = all
        BY <3>1, <3>2, <1>7, <1>12, <2>1
    <3>4. all[i].seen >= stories[p]
        BY <3>3
    <3> QED BY <3>3, <3>4
  <2>2. ASSUME NEW p \in Follower PROVE Open(p)' <=> Open(p)
      BY <1>2 DEF Open
  <2>3. ASSUME stats'.up /\ Len(stats'.recent) # ShownEpisodes, NEW p \in Follower,
               Open(p)' /\ ~Counting(p)'
        PROVE  \E i \in DOMAIN stats'.recent : /\ stats'.recent[i].symbol = TickerOf[p]
                                               /\ stats'.recent[i].seen >= stories'[p]
      BY <2>1, <2>2, <2>3, <1>15, <1>2
  <2> QED BY <2>3 DEF StoriesAreRecorded
<1>20. ReadingsAreHonest'
    BY <1>2 DEF DashboardInv, ReadingsAreHonest
<1>21. stats'.up => Len(stats'.recent) <= ShownEpisodes
    BY <1>12, <1>15
<1> QED BY <1>2, <1>4, <1>16, <1>17, <1>18, <1>19, <1>20, <1>21 DEF DashboardInv

LEMMA DiesKeeps ==
    ASSUME DashboardInv, Dies PROVE DashboardInv'
<1>1. /\ stats' = NoEngine /\ writing' = {} /\ ~stats'.up
      /\ asked' = IF asked = NoPart THEN asked ELSE [part |-> "broken", at |-> asked.at]
      /\ UNCHANGED <<stories, told, panel, hour, sent, boots>>
    BY DEF Dies, NoEngine
<1>2. asked # NoPart => asked.at \in Nat
  <2>1. asked \in {NoPart} \union [part : {"sent", "broken"}, at : Nat] \union Readings
      BY DEF DashboardInv, DashboardTypeOK
  <2> QED BY <2>1 DEF Readings
<1>3. asked' \in {NoPart} \union [part : {"sent", "broken"}, at : Nat]
    BY <1>1, <1>2
<1>4. DashboardTypeOK'
    BY <1>1, <1>3 DEF DashboardInv, DashboardTypeOK
<1>5. ReadingsAreHonest'
  <2>1. asked'.part # "answer"
      BY <1>3 DEF NoPart
  <2>2. asked' # NoPart => asked'.at <= hour'
    <3>1. asked' # NoPart => asked # NoPart /\ asked'.at = asked.at
        BY <1>1
    <3> QED BY <3>1, <1>1 DEF DashboardInv, ReadingsAreHonest
  <2> QED BY <2>1, <2>2, <1>1 DEF DashboardInv, ReadingsAreHonest
<1> QED BY <1>1, <1>4, <1>5 DEF DashboardInv, CountsAddUp, TheLockHolds, RecordsAreBacked,
                                StoriesAreRecorded

\* The lock taken: who takes it read what stands, and nobody else does.
LEMMA ReadsKeeps ==
    ASSUME DashboardTypeOK, TheLockHolds, NEW w \in Follower \union {"ingest"},
           NEW adds \in Counts, adds.detected = FlagsOf(adds), Reads(w, adds),
           stats.up, stats.live, UNCHANGED stats, w \in Follower => stories'[w] = hour'
    PROVE  /\ TheLockHolds'
           /\ writing' \subseteq [by : Follower \union {"ingest"}, base : Counts, adds : Counts]
           /\ \A p \in Follower : Counting(p)' <=> p = w
           /\ ~ \E p \in Follower : Counting(p)
<1> DEFINE mine == [by |-> w, base |-> stats.count, adds |-> adds]
<1>1. writing = {} /\ writing' = {mine}
    BY DEF Reads, LockFree
<1>2. stats.count \in Counts
    BY RunningEngine
<1>3. mine.by = w /\ mine.base = stats.count /\ mine.adds = adds
    OBVIOUS
<1>4. mine \in [by : Follower \union {"ingest"}, base : Counts, adds : Counts]
    BY <1>2
<1> HIDE DEF mine
<1>5. ASSUME NEW p \in Follower PROVE Counting(p)' <=> p = w
    BY <1>1, <1>3 DEF Counting
<1>6. TheLockHolds'
    BY <1>1, <1>3 DEF TheLockHolds
<1>7. ~ \E p \in Follower : Counting(p)
    BY <1>1 DEF Counting
<1> QED BY <1>1, <1>4, <1>5, <1>6, <1>7

LEMMA FlagsKeeps ==
    ASSUME DashboardInv, NEW trigger \in Triggers, Flags(trigger) PROVE DashboardInv'
<1> DEFINE split == [t \in Triggers |-> IF t = trigger THEN 1 ELSE 0]
           adds == [detected |-> 1, confirmed |-> 0, split |-> split]
<1>1. /\ stats.up /\ stats.live /\ Reads("ingest", adds)
      /\ UNCHANGED <<stats, stories, told, asked, panel, hour, sent, boots>>
    BY DEF Flags
<1>2. split \in [Triggers -> Nat] /\ split["keyword"] + split["cluster"] = 1
    BY DEF Triggers
<1> HIDE DEF split
<1>3. adds \in Counts /\ adds.detected = FlagsOf(adds)
    BY <1>2 DEF Counts, FlagsOf
<1> HIDE DEF adds
<1>4. "ingest" \notin Follower
    BY DashboardAssumption
<1>5. /\ TheLockHolds'
      /\ writing' \subseteq [by : Follower \union {"ingest"}, base : Counts, adds : Counts]
      /\ \A p \in Follower : ~Counting(p)' /\ ~Counting(p)
  <2>1. DashboardTypeOK /\ TheLockHolds /\ UNCHANGED stats
      BY <1>1 DEF DashboardInv
  <2> QED BY <2>1, <1>1, <1>3, <1>4, ReadsKeeps
<1>6. DashboardTypeOK'
    BY <1>1, <1>5 DEF DashboardInv, DashboardTypeOK
<1>7. RecordsAreBacked'
    BY <1>1, <1>5 DEF DashboardInv, RecordsAreBacked
<1>8. StoriesAreRecorded'
    BY <1>1, <1>5 DEF DashboardInv, StoriesAreRecorded, Open
<1>9. ReadingsAreHonest' /\ CountsAddUp'
    BY <1>1 DEF DashboardInv, ReadingsAreHonest, CountsAddUp
<1> QED BY <1>1, <1>5, <1>6, <1>7, <1>8, <1>9 DEF DashboardInv

LEMMA OpensStoryKeeps ==
    ASSUME DashboardInv, NEW p \in Follower, OpensStory(p) PROVE DashboardInv'
<1>1. /\ stats.up /\ stats.live /\ ~Open(p) /\ Reads(p, [Zero EXCEPT !.confirmed = 1])
      /\ stories' = [stories EXCEPT ![p] = hour]
      /\ UNCHANGED <<stats, told, asked, panel, hour, sent, boots>>
    BY DEF OpensStory
<1> DEFINE adds == [Zero EXCEPT !.confirmed = 1]
<1>2. adds \in Counts /\ adds.detected = FlagsOf(adds)
    BY ZeroIsNothing DEF Counts, FlagsOf
<1> HIDE DEF adds
<1>3. /\ stories \in [Follower -> Nat] /\ hour \in Nat \ {0}
      /\ \A q \in Follower : stories[q] <= hour
    BY DEF DashboardInv, DashboardTypeOK
<1>4. stories' \in [Follower -> Nat] /\ stories'[p] = hour'
    BY <1>1, <1>3
<1>5. /\ TheLockHolds'
      /\ writing' \subseteq [by : Follower \union {"ingest"}, base : Counts, adds : Counts]
      /\ \A q \in Follower : (Counting(q)' <=> q = p) /\ ~Counting(q)
  <2>1. DashboardTypeOK /\ TheLockHolds /\ UNCHANGED stats /\ Reads(p, adds)
      BY <1>1 DEF DashboardInv, adds
  <2> QED BY <2>1, <1>1, <1>2, <1>4, ReadsKeeps
<1>6. DashboardTypeOK'
    BY <1>1, <1>4, <1>5 DEF DashboardInv, DashboardTypeOK
<1>7. RecordsAreBacked'
  <2>1. ASSUME NEW i \in DOMAIN stats.recent, hour - stats.recent[i].seen <= StoryGap
        PROVE  \E q \in Follower : /\ TickerOf[q] = stats.recent[i].symbol
                                   /\ stories'[q] >= stats.recent[i].seen /\ ~Counting(q)'
    <3>1. PICK q \in Follower : /\ TickerOf[q] = stats.recent[i].symbol
                                /\ stories[q] >= stats.recent[i].seen
        BY <1>1, <2>1 DEF DashboardInv, RecordsAreBacked
    <3>2. stats.recent[i] \in Records
        BY <1>1, RunningEngine, ElementOfSeq DEF DashboardInv
    <3>3. stats.recent[i].seen \in Nat \ {0}
        BY <3>2 DEF Records
    <3> DEFINE seen == stats.recent[i].seen
    <3>4. StoryGap \in Nat /\ stories[q] \in Nat
        BY <1>3, DashboardAssumption
    <3>5. hour - stories[q] <= StoryGap /\ stories[q] # 0
      <4>1. seen \in Nat \ {0} /\ stories[q] >= seen /\ hour - seen <= StoryGap
          BY <2>1, <3>1, <3>3
      <4> HIDE DEF seen
      <4> QED BY <4>1, <3>4, <1>3
    <3>6. q # p
        BY <1>1, <3>5 DEF Open, NoStory
    <3> QED BY <3>1, <3>6, <1>1, <1>3, <1>5
  <2> QED BY <2>1, <1>1 DEF RecordsAreBacked
<1>8. StoriesAreRecorded'
  <2>1. ASSUME Len(stats.recent) # ShownEpisodes, NEW q \in Follower, Open(q)', ~Counting(q)'
        PROVE  \E i \in DOMAIN stats.recent : /\ stats.recent[i].symbol = TickerOf[q]
                                              /\ stats.recent[i].seen >= stories'[q]
    <3>1. q # p /\ ~Counting(q)
        BY <2>1, <1>5
    <3>2. stories'[q] = stories[q]
        BY <3>1, <1>1, <1>3
    <3>3. Open(q)
        BY <2>1, <3>2, <1>1 DEF Open
    <3> QED BY <3>1, <3>2, <3>3, <2>1, <1>1 DEF DashboardInv, StoriesAreRecorded
  <2> QED BY <2>1, <1>1 DEF StoriesAreRecorded
<1>9. ReadingsAreHonest' /\ CountsAddUp'
    BY <1>1 DEF DashboardInv, ReadingsAreHonest, CountsAddUp
<1>10. \A q \in Follower : stories'[q] <= hour'
    BY <1>1, <1>3
<1> QED BY <1>1, <1>5, <1>6, <1>7, <1>8, <1>9, <1>10 DEF DashboardInv

\* The panel after a record of p, its story seen now.
LEMMA WritesKeeps ==
    ASSUME DashboardInv, NEW w \in writing, Writes(w) PROVE DashboardInv'
<1>1. /\ writing' = writing \ {w} /\ told' = Sum(told, w.adds)
      /\ stats' = [up |-> TRUE, live |-> stats.live, count |-> Sum(w.base, w.adds),
                   stalled |-> stats.stalled,
                   recent |-> IF w.by \in Follower
                              THEN Appended(stats.recent, Record(w.by, hour)) ELSE stats.recent]
      /\ UNCHANGED <<stories, asked, panel, hour, sent, boots>>
    BY DEF Writes
<1>2. /\ writing' = {} /\ stats.up /\ w.base = stats.count /\ stats.count = told
      /\ w.adds.detected = FlagsOf(w.adds) /\ told.detected = FlagsOf(told)
      /\ \A v \in writing : v = w
    BY <1>1 DEF DashboardInv, TheLockHolds, CountsAddUp
<1>3. /\ w.by \in Follower \union {"ingest"} /\ w.adds \in Counts /\ told \in Counts
      /\ hour \in Nat \ {0} /\ stories \in [Follower -> Nat]
      /\ w.by \in Follower => stories[w.by] = hour
    BY DEF DashboardInv, DashboardTypeOK, TheLockHolds
<1> DEFINE recent == IF w.by \in Follower
                     THEN Appended(stats.recent, Record(w.by, hour)) ELSE stats.recent
           count == Sum(told, w.adds)
<1>4. /\ stats.recent \in Seq(Records) /\ Len(stats.recent) <= ShownEpisodes
      /\ stats.live \in BOOLEAN /\ stats.stalled \in Verdicts
    BY <1>2, RunningEngine DEF DashboardInv
<1>5. w.by \in Follower =>
        /\ Record(w.by, hour) \in Records /\ Record(w.by, hour).symbol = TickerOf[w.by]
        /\ Record(w.by, hour).seen = hour
    BY <1>3 DEF Record, Records, Tickers
<1>6. count \in Counts /\ count.detected = FlagsOf(count)
  <2>1. /\ told.detected \in Nat /\ w.adds.detected \in Nat
      BY <1>3 DEF Counts
  <2> QED BY <2>1, <1>2, <1>3, SumsAdd
<1>7. /\ recent \in Seq(Records) /\ Len(recent) <= ShownEpisodes
      /\ \A i \in DOMAIN recent :
            \/ w.by \in Follower /\ recent[i] = Record(w.by, hour)
            \/ \E j \in DOMAIN stats.recent : recent[i] = stats.recent[j]
      /\ Len(recent) # ShownEpisodes =>
            /\ Len(stats.recent) # ShownEpisodes
            /\ \A j \in DOMAIN stats.recent :
                 \E i \in DOMAIN recent : recent[i] = stats.recent[j]
            /\ w.by \in Follower => \E i \in DOMAIN recent : recent[i] = Record(w.by, hour)
  <2>1. CASE w.by \in Follower
    <3>1. recent = Appended(stats.recent, Record(w.by, hour))
        BY <2>1
    <3> DEFINE old == stats.recent
               record == Record(w.by, hour)
    <3>2. /\ old \in Seq(Records) /\ Len(old) <= ShownEpisodes /\ record \in Records
          /\ recent = Appended(old, record)
        BY <3>1, <2>1, <1>4, <1>5
    <3> HIDE DEF recent, old, record
    <3>3. recent \in Seq(Records) /\ Len(recent) <= ShownEpisodes
        BY <3>2, AppendedIs
    <3>4. \A i \in DOMAIN recent : recent[i] = record \/ \E j \in DOMAIN old : recent[i] = old[j]
        BY <3>2, AppendedIs
    <3>5. ASSUME Len(recent) # ShownEpisodes
          PROVE  /\ Len(old) # ShownEpisodes /\ \E i \in DOMAIN recent : recent[i] = record
                 /\ \A j \in DOMAIN old : \E i \in DOMAIN recent : recent[i] = old[j]
        BY <3>2, <3>5, AppendedIs
    <3> QED BY <3>3, <3>4, <3>5, <2>1 DEF old, record
  <2>2. CASE w.by \notin Follower
      BY <2>2, <1>4
  <2> QED BY <2>1, <2>2
<1>8. stats' = [up |-> TRUE, live |-> stats.live, count |-> count, stalled |-> stats.stalled,
                recent |-> recent]
    BY <1>1, <1>2
<1> HIDE DEF recent, count
<1>9. stats' \in Engines /\ stats'.recent = recent /\ stats'.count = count /\ stats'.up
    BY <1>4, <1>6, <1>7, <1>8 DEF Engines
<1>10. told' = count
    BY <1>1 DEF count
<1>11. DashboardTypeOK'
    BY <1>1, <1>2, <1>6, <1>9, <1>10 DEF DashboardInv, DashboardTypeOK
<1>12. CountsAddUp' /\ TheLockHolds'
    BY <1>2, <1>6, <1>9, <1>10 DEF CountsAddUp, TheLockHolds
<1>13. ASSUME NEW p \in Follower PROVE ~Counting(p)' /\ (Counting(p) => p = w.by)
    BY <1>2 DEF Counting
<1>14. RecordsAreBacked'
  <2>1. ASSUME NEW i \in DOMAIN recent, hour - recent[i].seen <= StoryGap
        PROVE  \E p \in Follower : TickerOf[p] = recent[i].symbol /\ stories[p] >= recent[i].seen
    <3>1. CASE w.by \in Follower /\ recent[i] = Record(w.by, hour)
        BY <3>1, <1>3, <1>5
    <3>2. CASE \E j \in DOMAIN stats.recent : recent[i] = stats.recent[j]
      <4>1. PICK j \in DOMAIN stats.recent : recent[i] = stats.recent[j]
          BY <3>2
      <4> QED BY <4>1, <2>1, <1>2 DEF DashboardInv, RecordsAreBacked
    <3> QED BY <3>1, <3>2, <1>7
  <2>2. ASSUME NEW i \in DOMAIN stats'.recent, hour' - stats'.recent[i].seen <= StoryGap
        PROVE  \E p \in Follower : /\ TickerOf[p] = stats'.recent[i].symbol
                                   /\ stories'[p] >= stats'.recent[i].seen /\ ~Counting(p)'
      BY <2>1, <2>2, <1>1, <1>9, <1>13
  <2> QED BY <2>2 DEF RecordsAreBacked
<1>15. StoriesAreRecorded'
  <2>1. ASSUME Len(recent) # ShownEpisodes, NEW p \in Follower, Open(p)
        PROVE  \E i \in DOMAIN recent : /\ recent[i].symbol = TickerOf[p]
                                        /\ recent[i].seen >= stories[p]
    <3>1. CASE p = w.by
      <4>1. PICK i \in DOMAIN recent : recent[i] = Record(w.by, hour)
          BY <3>1, <2>1, <1>7
      <4>2. recent[i].symbol = TickerOf[p] /\ recent[i].seen = hour /\ stories[p] = hour
          BY <4>1, <3>1, <1>3, <1>5
      <4>3. recent[i].seen >= stories[p]
          BY <4>2, <1>3
      <4> QED BY <4>2, <4>3
    <3>2. CASE p # w.by
      <4>1. Len(stats.recent) # ShownEpisodes /\ ~Counting(p)
          BY <3>2, <2>1, <1>7, <1>13
      <4>2. PICK j \in DOMAIN stats.recent : /\ stats.recent[j].symbol = TickerOf[p]
                                             /\ stats.recent[j].seen >= stories[p]
          BY <4>1, <2>1, <1>2 DEF DashboardInv, StoriesAreRecorded
      <4>3. PICK i \in DOMAIN recent : recent[i] = stats.recent[j]
          BY <4>2, <2>1, <1>7
      <4> QED BY <4>2, <4>3
    <3> QED BY <3>1, <3>2
  <2>2. ASSUME NEW p \in Follower PROVE Open(p)' <=> Open(p)
      BY <1>1 DEF Open
  <2>3. ASSUME stats'.up /\ Len(stats'.recent) # ShownEpisodes, NEW p \in Follower,
               Open(p)' /\ ~Counting(p)'
        PROVE  \E i \in DOMAIN stats'.recent : /\ stats'.recent[i].symbol = TickerOf[p]
                                               /\ stats'.recent[i].seen >= stories'[p]
      BY <2>1, <2>2, <2>3, <1>1, <1>9
  <2> QED BY <2>3 DEF StoriesAreRecorded
<1>16. ReadingsAreHonest' /\ \A p \in Follower : stories'[p] <= hour'
    BY <1>1 DEF DashboardInv, ReadingsAreHonest
<1> QED BY <1>7, <1>9, <1>11, <1>12, <1>14, <1>15, <1>16 DEF DashboardInv

LEMMA HoldsStoryKeeps ==
    ASSUME DashboardInv, NEW p \in Follower, HoldsStory(p) PROVE DashboardInv'
<1> DEFINE old == stats.recent
           recent == Touched(old, TickerOf[p])
           of == {i \in DOMAIN old : old[i].symbol = TickerOf[p]}
           touched == [symbol |-> TickerOf[p], seen |-> hour]
<1>1. /\ stats.up /\ Open(p) /\ stories[p] < hour /\ writing = {}
      /\ stories' = [stories EXCEPT ![p] = hour] /\ stats' = [stats EXCEPT !.recent = recent]
      /\ UNCHANGED <<writing, told, asked, panel, hour, sent, boots>>
    BY DEF HoldsStory
<1>2. /\ stories \in [Follower -> Nat] /\ hour \in Nat \ {0}
      /\ \A q \in Follower : stories[q] <= hour
    BY DEF DashboardInv, DashboardTypeOK
<1>3. /\ stats \in Engines /\ old \in Seq(Records) /\ Len(old) \in Nat /\ DOMAIN old = 1 .. Len(old)
      /\ Len(old) <= ShownEpisodes
    BY <1>1, RunningEngine DEF DashboardInv
<1>4. touched \in Records
    BY <1>2 DEF Records, Tickers
<1>5. recent = [i \in DOMAIN old |-> IF i \in of /\ \A j \in of : i >= j THEN touched ELSE old[i]]
    BY DEF Touched
<1>6. \A i \in of : i \in DOMAIN old /\ old[i].symbol = TickerOf[p]
    OBVIOUS
<1>7. \A i \in DOMAIN old : old[i].symbol = TickerOf[p] => i \in of
    OBVIOUS
<1>8. stats' = [stats EXCEPT !.recent = recent]
    BY <1>1
<1>9. touched.symbol = TickerOf[p] /\ touched.seen = hour
    OBVIOUS
<1> HIDE DEF recent, of, touched
<1>10. recent \in Seq(Records) /\ Len(recent) = Len(old) /\ DOMAIN recent = DOMAIN old
  <2>1. ASSUME NEW i \in 1 .. Len(old)
        PROVE  (IF i \in of /\ \A j \in of : i >= j THEN touched ELSE old[i]) \in Records
    <3>1. old[i] \in Records
        BY <1>3, ElementOfSeq
    <3> QED BY <3>1, <1>4
  <2>2. recent \in [1 .. Len(old) -> Records]
      BY <2>1, <1>3, <1>5
  <2>3. recent \in Seq(Records) /\ DOMAIN recent = DOMAIN old
      BY <2>2, <1>3, SeqDef
  <2> QED BY <2>3, <1>3, LenProperties
<1>11. stats' \in Engines /\ stats'.recent = recent /\ stats'.count = stats.count /\ stats'.up
    BY <1>1, <1>3, <1>8, <1>10 DEF Engines
<1>12. ASSUME NEW q \in Follower
       PROVE  /\ stories'[q] = (IF q = p THEN hour ELSE stories[q]) /\ stories'[q] >= stories[q]
              /\ ~Counting(q) /\ ~Counting(q)'
    BY <1>1, <1>2 DEF Counting
<1>13. DashboardTypeOK'
  <2>1. stories' \in [Follower -> Nat]
      BY <1>1, <1>2
  <2> QED BY <2>1, <1>1, <1>11 DEF DashboardInv, DashboardTypeOK
<1>14. ASSUME NEW i \in DOMAIN old
       PROVE  \/ recent[i] = touched /\ old[i].symbol = TickerOf[p]
              \/ recent[i] = old[i]
    BY <1>5, <1>6
<1>15. ASSUME NEW i \in DOMAIN old PROVE old[i].seen \in Nat /\ old[i] \in Records
  <2>1. old[i] \in Records
      BY <1>3, ElementOfSeq
  <2> QED BY <2>1 DEF Records
<1>16. RecordsAreBacked'
  <2>1. ASSUME NEW i \in DOMAIN old, hour - recent[i].seen <= StoryGap
        PROVE  \E q \in Follower : TickerOf[q] = recent[i].symbol /\ stories'[q] >= recent[i].seen
    <3>1. CASE recent[i] = touched
      <4>1. stories'[p] >= touched.seen
          BY <1>2, <1>9, <1>12
      <4> QED BY <3>1, <4>1, <1>9
    <3>2. CASE recent[i] = old[i]
      <4>1. PICK q \in Follower : TickerOf[q] = old[i].symbol /\ stories[q] >= old[i].seen
          BY <3>2, <2>1, <1>1 DEF DashboardInv, RecordsAreBacked
      <4>2. stories'[q] \in Nat /\ stories[q] \in Nat /\ stories'[q] >= stories[q]
          BY <1>2, <1>12
      <4>3. stories'[q] >= old[i].seen
          BY <4>1, <4>2, <1>15
      <4> QED BY <3>2, <4>1, <4>3
    <3> QED BY <3>1, <3>2, <1>14
  <2>2. ASSUME NEW i \in DOMAIN stats'.recent, hour' - stats'.recent[i].seen <= StoryGap
        PROVE  \E q \in Follower : /\ TickerOf[q] = stats'.recent[i].symbol
                                   /\ stories'[q] >= stats'.recent[i].seen /\ ~Counting(q)'
      BY <2>1, <2>2, <1>1, <1>10, <1>11, <1>12
  <2> QED BY <2>2 DEF RecordsAreBacked
<1>17. StoriesAreRecorded'
  <2>1. ASSUME Len(old) # ShownEpisodes, NEW q \in Follower, Open(q)'
        PROVE  \E i \in DOMAIN recent : /\ recent[i].symbol = TickerOf[q]
                                        /\ recent[i].seen >= stories'[q]
    <3>1. TickerOf[q] = TickerOf[p] => \E i \in DOMAIN recent : recent[i] = touched
      <4> SUFFICES ASSUME TickerOf[q] = TickerOf[p]
                   PROVE  \E i \in DOMAIN recent : recent[i] = touched
          OBVIOUS
      <4>1. \E i \in DOMAIN old : old[i].symbol = TickerOf[p]
          BY <2>1, <1>1, <1>12 DEF DashboardInv, StoriesAreRecorded
      <4>2. of # {} /\ of \subseteq 1 .. Len(old)
          BY <4>1, <1>3, <1>6, <1>7
      <4> DEFINE last == Newest(of)
      <4>3. last \in of /\ \A j \in of : j <= last
          BY <4>2, <1>3, SomeRowIsNewest
      <4> HIDE DEF last
      <4>4. \A j \in of : last >= j
          BY <4>2, <4>3, <1>3
      <4> QED BY <4>3, <4>4, <1>5, <1>6, <1>10
    <3>2. CASE TickerOf[q] = TickerOf[p]
      <4>1. PICK i \in DOMAIN recent : recent[i] = touched
          BY <3>1, <3>2
      <4>2. touched.seen >= stories'[q]
          BY <1>2, <1>9, <1>12
      <4> QED BY <4>1, <4>2, <3>2, <1>9
    <3>3. CASE TickerOf[q] # TickerOf[p]
      <4>1. stories'[q] = stories[q] /\ Open(q)
          BY <3>3, <2>1, <1>1, <1>12 DEF Open
      <4>2. PICK i \in DOMAIN old : old[i].symbol = TickerOf[q] /\ old[i].seen >= stories[q]
          BY <4>1, <2>1, <1>1, <1>12 DEF DashboardInv, StoriesAreRecorded
      <4>3. recent[i] = old[i]
          BY <4>2, <3>3, <1>14
      <4> QED BY <4>1, <4>2, <4>3, <1>10
    <3> QED BY <3>2, <3>3
  <2> QED BY <2>1, <1>1, <1>10, <1>11 DEF StoriesAreRecorded
<1>18. CountsAddUp' /\ TheLockHolds'
  <2>1. CountsAddUp' /\ writing' = {}
      BY <1>1, <1>11 DEF DashboardInv, CountsAddUp
  <2> QED BY <2>1 DEF TheLockHolds
<1>19. ReadingsAreHonest'
    BY <1>1 DEF DashboardInv, ReadingsAreHonest
<1>20. \A q \in Follower : stories'[q] <= hour'
    BY <1>1, <1>2, <1>12
<1> QED BY <1>3, <1>10, <1>11, <1>13, <1>16, <1>17, <1>18, <1>19, <1>20 DEF DashboardInv

LEMMA JudgesKeeps ==
    ASSUME DashboardInv, NEW workers \in {{}, Follower}, Judges(workers) PROVE DashboardInv'
<1>1. /\ stats.up /\ stats' = [stats EXCEPT !.stalled = workers]
      /\ UNCHANGED <<writing, stories, told, asked, panel, hour, sent, boots>>
    BY DEF Judges
<1>2. stats \in Engines /\ workers \in Verdicts
    BY <1>1, RunningEngine DEF DashboardInv, Verdicts
<1>3. /\ stats' \in Engines /\ stats'.recent = stats.recent /\ stats'.count = stats.count
      /\ stats'.live = stats.live /\ stats'.up
    BY <1>1, <1>2 DEF Engines
<1>4. DashboardTypeOK' /\ ReadingsAreHonest' /\ \A p \in Follower : stories'[p] <= hour'
    BY <1>1, <1>3 DEF DashboardInv, DashboardTypeOK, ReadingsAreHonest
<1>5. CountsAddUp' /\ TheLockHolds'
    BY <1>1, <1>3 DEF DashboardInv, CountsAddUp, TheLockHolds
<1>6. RecordsAreBacked'
    BY <1>1, <1>3 DEF DashboardInv, RecordsAreBacked, Counting
<1>7. StoriesAreRecorded'
    BY <1>1, <1>3 DEF DashboardInv, StoriesAreRecorded, Counting, Open
<1>8. Len(stats'.recent) <= ShownEpisodes
    BY <1>1, <1>3 DEF DashboardInv
<1> QED BY <1>4, <1>5, <1>6, <1>7, <1>8 DEF DashboardInv

\* A step that only asks, answers or takes leaves what the engine knows.
LEMMA TheWireKeeps ==
    ASSUME DashboardInv, UNCHANGED <<stats, writing, stories, told, hour>>,
           asked' \in {NoPart} \union [part : {"sent", "broken"}, at : Nat] \union Readings,
           panel' \in [good : {NoPart} \union Readings, red : BOOLEAN, polled : Nat],
           ReadingsAreHonest'
    PROVE  DashboardInv'
<1>1. DashboardTypeOK' /\ CountsAddUp' /\ TheLockHolds' /\ RecordsAreBacked'
    BY DEF DashboardInv, DashboardTypeOK, CountsAddUp, TheLockHolds, RecordsAreBacked, Counting
<1>2. StoriesAreRecorded'
    BY DEF DashboardInv, StoriesAreRecorded, Counting, Open
<1> QED BY <1>1, <1>2 DEF DashboardInv

LEMMA HourGoesKeeps ==
    ASSUME DashboardInv, HourGoes PROVE DashboardInv'
<1>1. /\ writing = {} /\ hour' = hour + 1 /\ hour \in Nat \ {0} /\ stories \in [Follower -> Nat]
      /\ UNCHANGED <<stats, writing, stories, told, asked, panel, sent, boots>>
    BY DEF HourGoes, DashboardInv, DashboardTypeOK
<1>2. hour' \in Nat \ {0}
    BY <1>1
<1>3. DashboardTypeOK' /\ CountsAddUp'
    BY <1>1, <1>2 DEF DashboardInv, DashboardTypeOK, CountsAddUp
<1>4. TheLockHolds'
    BY <1>1 DEF TheLockHolds
<1>5. RecordsAreBacked'
  <2>1. ASSUME stats.up, NEW i \in DOMAIN stats.recent, hour' - stats.recent[i].seen <= StoryGap
        PROVE  hour - stats.recent[i].seen <= StoryGap
    <3>1. stats.recent[i] \in Records
        BY <2>1, RunningEngine, ElementOfSeq DEF DashboardInv
    <3>2. stats.recent[i].seen \in Nat
        BY <3>1 DEF Records
    <3> QED BY <3>2, <2>1, <1>1, DashboardAssumption
  <2> QED BY <2>1, <1>1 DEF DashboardInv, RecordsAreBacked, Counting
<1>6. StoriesAreRecorded'
  <2>1. ASSUME NEW p \in Follower, Open(p)' PROVE Open(p)
    <3>1. stories[p] # NoStory /\ hour + 1 - stories[p] <= StoryGap
        BY <2>1, <1>1 DEF Open
    <3>2. hour - stories[p] <= StoryGap
        BY <3>1, <1>1, DashboardAssumption
    <3> QED BY <3>1, <3>2 DEF Open
  <2> QED BY <2>1, <1>1 DEF DashboardInv, StoriesAreRecorded, Counting
<1>7. ReadingsAreHonest'
  <2>1. asked # NoPart => asked.at \in Nat
    <3>1. asked \in {NoPart} \union [part : {"sent", "broken"}, at : Nat] \union Readings
        BY DEF DashboardInv, DashboardTypeOK
    <3> QED BY <3>1 DEF Readings
  <2>2. asked # NoPart => asked.at <= hour + 1
      BY <2>1, <1>1 DEF DashboardInv, ReadingsAreHonest
  <2> QED BY <2>2, <1>1 DEF DashboardInv, ReadingsAreHonest
<1>8. \A p \in Follower : stories'[p] <= hour'
    BY <1>1 DEF DashboardInv
<1>9. stats'.up => Len(stats'.recent) <= ShownEpisodes
    BY <1>1 DEF DashboardInv
<1> QED BY <1>3, <1>4, <1>5, <1>6, <1>7, <1>8, <1>9 DEF DashboardInv

HeldAndCounted == {TickerOf[p] : p \in {q \in Follower : Open(q) /\ \A w \in writing : w.by # q}}

LEMMA TheLiveAreHeld ==
    ASSUME DashboardInv, stats.up
    PROVE  /\ DrawnLive(stats.recent, hour) \subseteq HeldAndCounted
           /\ \A symbol \in HeldAndCounted \ DrawnLive(stats.recent, hour) :
                Len(stats.recent) = ShownEpisodes
<1>1. /\ stories \in [Follower -> Nat] /\ hour \in Nat \ {0} /\ StoryGap \in Nat
    BY DashboardAssumption DEF DashboardInv, DashboardTypeOK
<1>2. ASSUME NEW i \in DOMAIN stats.recent PROVE stats.recent[i].seen \in Nat \ {0}
  <2>1. stats.recent[i] \in Records
      BY RunningEngine, ElementOfSeq DEF DashboardInv
  <2> QED BY <2>1 DEF Records
<1>3. ASSUME NEW i \in DOMAIN stats.recent, hour - stats.recent[i].seen <= StoryGap
      PROVE  stats.recent[i].symbol \in HeldAndCounted
  <2>1. PICK p \in Follower : /\ TickerOf[p] = stats.recent[i].symbol
                              /\ stories[p] >= stats.recent[i].seen /\ ~Counting(p)
      BY <1>3 DEF DashboardInv, RecordsAreBacked
  <2> DEFINE seen == stats.recent[i].seen
  <2>2. seen \in Nat \ {0} /\ hour - seen <= StoryGap /\ stories[p] >= seen /\ stories[p] \in Nat
      BY <2>1, <1>1, <1>2, <1>3
  <2> HIDE DEF seen
  <2>3. stories[p] # 0 /\ hour - stories[p] <= StoryGap
      BY <2>2, <1>1
  <2> QED BY <2>1, <2>3 DEF Open, NoStory, HeldAndCounted, Counting
<1>4. DrawnLive(stats.recent, hour) \subseteq HeldAndCounted
    BY <1>3 DEF DrawnLive
<1>5. ASSUME NEW symbol \in HeldAndCounted, symbol \notin DrawnLive(stats.recent, hour)
      PROVE  Len(stats.recent) = ShownEpisodes
  <2> SUFFICES ASSUME Len(stats.recent) # ShownEpisodes PROVE FALSE
      OBVIOUS
  <2>1. PICK p \in Follower : TickerOf[p] = symbol /\ Open(p) /\ ~Counting(p)
      BY DEF HeldAndCounted, Counting
  <2>2. PICK i \in DOMAIN stats.recent : /\ stats.recent[i].symbol = symbol
                                         /\ stats.recent[i].seen >= stories[p]
      BY <2>1 DEF DashboardInv, StoriesAreRecorded
  <2> DEFINE seen == stats.recent[i].seen
  <2>3. /\ seen \in Nat /\ hour - stories[p] <= StoryGap /\ seen >= stories[p]
        /\ stories[p] \in Nat
      BY <2>1, <2>2, <1>1, <1>2 DEF Open
  <2>4. hour - seen <= StoryGap
    <3> HIDE DEF seen
    <3> QED BY <2>3, <1>1
  <2> QED BY <2>2, <2>4, <1>5 DEF DrawnLive
<1> QED BY <1>4, <1>5

LEMMA AnswersKeeps ==
    ASSUME DashboardInv, Answers PROVE DashboardInv'
<1> DEFINE reading == [part |-> "answer", at |-> asked.at, stamp |-> hour, recent |-> stats.recent,
                       stalled |-> stats.stalled, open |-> HeldAndCounted]
<1>1. /\ asked.part = "sent" /\ stats.up /\ asked' = reading
      /\ UNCHANGED <<stats, writing, stories, told, panel, hour, sent, boots>>
    BY DEF Answers, HeldAndCounted
<1>2. asked # NoPart /\ asked.at \in Nat /\ asked.at <= hour /\ hour \in Nat
  <2>1. asked # NoPart
      BY <1>1 DEF NoPart
  <2>2. asked \in {NoPart} \union [part : {"sent", "broken"}, at : Nat] \union Readings
      BY DEF DashboardInv, DashboardTypeOK
  <2>3. asked.at \in Nat
      BY <2>1, <2>2 DEF Readings
  <2> QED BY <2>1, <2>3 DEF DashboardInv, DashboardTypeOK, ReadingsAreHonest
<1>3. stats.recent \in Seq(Records) /\ stats.stalled \in Verdicts
    BY <1>1, RunningEngine DEF DashboardInv
<1>4. HeldAndCounted \subseteq Tickers
    BY DEF HeldAndCounted, Tickers
<1>5. reading \in Readings
    BY <1>2, <1>3, <1>4 DEF Readings
<1>6. /\ reading.recent = stats.recent /\ reading.stamp = hour /\ reading.open = HeldAndCounted
      /\ reading.at = asked.at /\ reading # NoPart
    BY DEF NoPart
<1> HIDE DEF reading
<1>7. Honest(reading) /\ reading.stamp >= reading.at
    BY <1>1, <1>2, <1>6, TheLiveAreHeld DEF Honest
<1>8. ReadingsAreHonest'
  <2>1. asked'.at <= hour' /\ Honest(asked') /\ asked'.stamp >= asked'.at
      BY <1>1, <1>2, <1>6, <1>7
  <2>2. Honest(asked)' /\ Honest(panel.good)' = Honest(panel'.good)
      BY <2>1 DEF Honest, DrawnLive
  <2> QED BY <2>1, <2>2, <1>1 DEF DashboardInv, ReadingsAreHonest
<1>9. panel' \in [good : {NoPart} \union Readings, red : BOOLEAN, polled : Nat]
    BY <1>1 DEF DashboardInv, DashboardTypeOK
<1> QED BY <1>1, <1>5, <1>8, <1>9, TheWireKeeps

LEMMA AsksAgainKeeps ==
    ASSUME DashboardInv, AsksAgain PROVE DashboardInv'
<1>1. /\ asked' = [part |-> "sent", at |-> hour] /\ hour \in Nat
      /\ UNCHANGED <<stats, writing, stories, told, panel, hour, boots>>
    BY DEF AsksAgain, DashboardInv, DashboardTypeOK
<1>2. asked' \in [part : {"sent", "broken"}, at : Nat] /\ asked'.at <= hour'
    BY <1>1
<1>3. asked'.part # "answer"
    BY <1>1
<1>4. ReadingsAreHonest'
    BY <1>1, <1>2, <1>3 DEF DashboardInv, ReadingsAreHonest
<1>5. panel' \in [good : {NoPart} \union Readings, red : BOOLEAN, polled : Nat]
    BY <1>1 DEF DashboardInv, DashboardTypeOK
<1> QED BY <1>1, <1>2, <1>4, <1>5, TheWireKeeps

LEMMA TakesKeep ==
    ASSUME DashboardInv, Fails \/ Arrives PROVE DashboardInv'
<1>1. /\ asked # NoPart /\ asked' = NoPart
      /\ UNCHANGED <<stats, writing, stories, told, hour, sent, boots>>
    BY DEF Fails, Arrives, NoPart
<1>2. /\ asked \in [part : {"sent", "broken"}, at : Nat] \union Readings
      /\ panel \in [good : {NoPart} \union Readings, red : BOOLEAN, polled : Nat]
      /\ panel.good # NoPart => Honest(panel.good)
    BY <1>1 DEF DashboardInv, DashboardTypeOK, ReadingsAreHonest
<1>3. asked'.part # "answer" /\ asked.at \in Nat
    BY <1>1, <1>2 DEF NoPart, Readings
<1>4. CASE Fails
  <2>1. panel' = [good |-> panel.good, red |-> TRUE, polled |-> asked.at]
      BY <1>2, <1>4 DEF Fails, Taken
  <2>2. /\ panel' \in [good : {NoPart} \union Readings, red : BOOLEAN, polled : Nat]
        /\ panel'.red /\ panel'.good = panel.good
      BY <2>1, <1>2, <1>3
  <2>3. ReadingsAreHonest'
      BY <2>2, <1>1, <1>2, <1>3 DEF ReadingsAreHonest, Honest, DrawnLive
  <2> QED BY <2>2, <2>3, <1>1, TheWireKeeps
<1>5. CASE Arrives
  <2>1. asked.part = "answer" /\ panel' = [good |-> asked, red |-> FALSE, polled |-> asked.at]
      BY <1>5 DEF Arrives
  <2>2. asked \in Readings /\ Honest(asked) /\ asked.stamp >= asked.at
      BY <2>1, <1>2 DEF DashboardInv, ReadingsAreHonest
  <2>3. /\ panel' \in [good : {NoPart} \union Readings, red : BOOLEAN, polled : Nat]
        /\ panel'.good = asked /\ panel'.polled = asked.at
      BY <2>1, <2>2, <1>3
  <2>4. ReadingsAreHonest'
      BY <2>2, <2>3, <1>1, <1>3 DEF ReadingsAreHonest, Honest, DrawnLive
  <2> QED BY <2>3, <2>4, <1>1, TheWireKeeps
<1> QED BY <1>4, <1>5

\* What is on the panel is so, or was: no flag and no episode is counted twice or lost between
\* two threads, a symbol is drawn live while a pipeline holds an episode of it, whoever
\* restarted, and a frame that is not red shows what the engine said after the last poll went
\* out (engine_stats.py, live_display.py, dashboard_viewer.py).
THEOREM ThePanelStaysTrue == DashboardSpec => []PanelTellsTheTruth
<1>1. DashboardInv /\ UNCHANGED dashboardVars => DashboardInv'
  <2> SUFFICES ASSUME DashboardInv, UNCHANGED dashboardVars PROVE DashboardInv'
      OBVIOUS
  <2>1. UNCHANGED <<stats, writing, stories, told, asked, panel, hour>>
      BY DEF dashboardVars
  <2>2. ReadingsAreHonest'
      BY <2>1 DEF DashboardInv, ReadingsAreHonest
  <2>3. /\ asked' \in {NoPart} \union [part : {"sent", "broken"}, at : Nat] \union Readings
        /\ panel' \in [good : {NoPart} \union Readings, red : BOOLEAN, polled : Nat]
      BY <2>1 DEF DashboardInv, DashboardTypeOK
  <2> QED BY <2>1, <2>2, <2>3, TheWireKeeps
<1>2. DashboardInv /\ [DashboardNext]_dashboardVars => DashboardInv'
  <2> SUFFICES ASSUME DashboardInv, DashboardNext PROVE DashboardInv'
      BY <1>1
  <2>1. CASE \E live, watched \in BOOLEAN : EngineStarts(live, watched)
      BY <2>1, EngineStartsKeeps
  <2>2. CASE \E t \in Triggers : Flags(t)
      BY <2>2, FlagsKeeps
  <2>3. CASE \E w \in writing : Writes(w)
      BY <2>3, WritesKeeps
  <2>4. CASE \E p \in Follower : OpensStory(p) \/ HoldsStory(p)
      BY <2>4, OpensStoryKeeps, HoldsStoryKeeps
  <2>5. CASE \E workers \in {{}, Follower} : Judges(workers)
      BY <2>5, JudgesKeeps
  <2>6. CASE Dies \/ AsksAgain \/ Answers \/ HourGoes
      BY <2>6, DiesKeeps, AsksAgainKeeps, AnswersKeeps, HourGoesKeeps
  <2>7. CASE Arrives \/ Fails
      BY <2>7, TakesKeep
  <2> QED BY <2>1, <2>2, <2>3, <2>4, <2>5, <2>6, <2>7 DEF DashboardNext
<1>3. DashboardInv => PanelTellsTheTruth
  <2> SUFFICES ASSUME DashboardInv PROVE PanelTellsTheTruth
      OBVIOUS
  <2>1. ASSUME stats.up, writing = {}
        PROVE  {TickerOf[p] : p \in {q \in Follower : Open(q)}} = HeldAndCounted
      BY <2>1 DEF HeldAndCounted
  <2>2. EpisodesAreShown
      BY <2>1, TheLiveAreHeld DEF EpisodesAreShown
  <2>3. ViewerIsHonest
    <3>1. ASSUME panel.good # NoPart, NEW w \in Follower, Colour(panel.good, w) = "neutral"
          PROVE  panel.good.stalled # Unknown /\ w \notin panel.good.stalled
        BY <3>1 DEF Colour
    <3>2. panel.good # NoPart => Honest(panel.good)
        BY DEF DashboardInv, ReadingsAreHonest
    <3>3. ~panel.red => panel.good # NoPart /\ panel.good.stamp >= panel.polled
        BY DEF DashboardInv, ReadingsAreHonest
    <3> QED BY <3>1, <3>2, <3>3 DEF ViewerIsHonest, Honest, FrameInstant
  <2> QED BY <2>2, <2>3 DEF PanelTellsTheTruth, DashboardInv
<1> QED BY <1>2, <1>3, PanelStarts, PTL DEF DashboardSpec
===============================================================================
