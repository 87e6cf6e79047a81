---------------------------- MODULE MCSupervision ----------------------------
(***************************************************************************)
(* The parts that keep an eye on the engine, around its passes.  They      *)
(* share no state and call no one of each other, so a behaviour moves one  *)
(* of them, the others stay as they start: every state and every behaviour *)
(* of each is explored, and none of their products.                        *)
(***************************************************************************)
EXTENDS SourceHealth, StallWatchdog, RunLock, Migrations, PaidCalls, HostAlerts,
        CommandPoller, ArchiveExport

VARIABLE focus

supervisionVars ==
    <<focus, healthVars, watchdogVars, runLockVars, migrationVars, paidVars, alertVars,
      pollerVars, archiveVars>>

Init ==
    /\ focus \in {"health", "watchdog", "lock", "migrations", "paid", "alerts", "poller", "archive"}
    /\ HealthInit /\ WatchdogInit /\ RunLockInit /\ MigrationsInit
    /\ PaidInit /\ AlertsInit /\ PollerInit /\ ArchiveInit

Only(part, step, others) == focus = part /\ step /\ UNCHANGED <<focus, others>>

\* The bounds on what an operator is sent are reached.
InboxFull ==
    /\ focus = "alerts" /\ ~ENABLED AlertsNext
    /\ UNCHANGED supervisionVars
Next ==
    \/ Only("health", HealthNext, <<watchdogVars, runLockVars, migrationVars, paidVars,
                                    alertVars, pollerVars, archiveVars>>)
    \/ Only("watchdog", WatchdogNext, <<healthVars, runLockVars, migrationVars, paidVars,
                                        alertVars, pollerVars, archiveVars>>)
    \/ Only("lock", RunLockNext, <<healthVars, watchdogVars, migrationVars, paidVars,
                                   alertVars, pollerVars, archiveVars>>)
    \/ Only("migrations", MigrationsNext, <<healthVars, watchdogVars, runLockVars, paidVars,
                                            alertVars, pollerVars, archiveVars>>)
    \/ Only("paid", PaidNext, <<healthVars, watchdogVars, runLockVars, migrationVars,
                                alertVars, pollerVars, archiveVars>>)
    \/ Only("alerts", AlertsNext, <<healthVars, watchdogVars, runLockVars, migrationVars,
                                    paidVars, pollerVars, archiveVars>>)
    \/ Only("poller", PollerNext, <<healthVars, watchdogVars, runLockVars, migrationVars,
                                    paidVars, alertVars, archiveVars>>)
    \/ Only("archive", ArchiveNext, <<healthVars, watchdogVars, runLockVars, migrationVars,
                                      paidVars, alertVars, pollerVars>>)
    \/ InboxFull

(***************************************************************************)
(* What each part's scheduling justifies while it is the one that moves.   *)
(***************************************************************************)

\* The clock runs; a pass polls a source as soon as its floor allows, accounts
\* for what it polled and leaves its scope.
HealthFairness ==
    /\ WF_healthVars(focus = "health" /\ Tick)
    /\ \A i \in Store :
        /\ WF_healthVars(focus = "health" /\ EndPass(i))
        /\ \A s \in Source : SF_healthVars(focus = "health" /\ Polls(i, s))

\* The clock runs, and the watchdog's loop survives a failing tick.
WatchdogFairness ==
    /\ WF_watchdogVars(focus = "watchdog" /\ TimePasses)
    /\ WF_watchdogVars(focus = "watchdog" /\ Check)

\* The clock runs, and /v1/health is read again and again.
RunLockFairness ==
    /\ WF_runLockVars(focus = "lock" /\ Second)
    /\ \A p \in Process :
        /\ WF_runLockVars(focus = "lock" /\ Ask(p))
        /\ WF_runLockVars(focus = "lock" /\ Reassert(p))

\* The passes go on calling, and a request is answered or fails.
PaidFairness ==
    /\ WF_paidVars(focus = "paid" /\ CoolOffRuns)
    /\ \A c \in Caller : WF_paidVars(focus = "paid" /\ Steps(c))

\* The loop survives every failure and polls again.
PollerFairness ==
    /\ WF_pollerVars(focus = "poller" /\ GetUpdates /\ ~Empty')
    /\ WF_pollerVars(focus = "poller" /\ Handle)

\* The weekly job comes round, and a started export goes on.
ArchiveFairness == WF_archiveVars(focus = "archive" /\ Exporting(Weekly))

Spec ==
    /\ Init /\ [][Next]_supervisionVars
    /\ HealthFairness /\ WatchdogFairness /\ RunLockFairness
    /\ PaidFairness /\ PollerFairness /\ ArchiveFairness

(***************************************************************************)
(* Properties of them all.                                                 *)
(***************************************************************************)

\* Every variable of every part has its type.
SupervisionTypeOK ==
    /\ HealthTypeOK /\ WatchdogTypeOK /\ RunLockTypeOK /\ MigrationsTypeOK
    /\ PaidTypeOK /\ AlertsTypeOK /\ PollerTypeOK /\ ArchiveTypeOK

\* What the engine stops doing it takes up again by itself: a quarantined feed is
\* polled, paid work resumes, a command is answered, a closed day is handed over, a
\* lost claim is retaken or told.
StoppedWorkResumes ==
    /\ QuarantineEnds /\ []SuspensionEnds /\ WorkResumes /\ CommandsAreServed
    /\ ClosedDaysAreHandedOver /\ LostClaimComesToLight
=============================================================================
