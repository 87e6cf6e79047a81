-------------------------- MODULE MCOutcomeJournal --------------------------
(***************************************************************************)
(* The journal in two environments.  In one, nothing takes the database    *)
(* back, but clocks are corrected, boots cannot read the cluster and boot  *)
(* reconciliation may fail; in the other, between runs of the engine, the  *)
(* database is restored, promoted or loses its counter, and boots see it.  *)
(***************************************************************************)
EXTENDS OutcomeJournal, TLC

VARIABLE environment

\* Writers are interchangeable threads.
WriterSymmetry == Permutations(Writer)

Steady == INSTANCE OutcomeJournal WITH
    Faults <- {"clock_step", "lost_ack", "unreadable_cluster", "reconcile_skipped"},
    MaxPublished <- 3, MaxWall <- 3, MaxRewinds <- 0
Rewound == INSTANCE OutcomeJournal WITH
    Faults <- {"clock_step", "lost_ack", "pitr", "promotion", "counter_reset"}

MCInit == environment \in {"steady", "rewound"} /\ Init
MCNext ==
    \/ environment = "steady" /\ Steady!Next /\ UNCHANGED environment
    \/ environment = "rewound" /\ Rewound!Next /\ UNCHANGED environment
MCSpec == MCInit /\ [][MCNext]_<<environment, vars>>

\* Where nothing rewinds the database, the journal implements the series that only grows,
\* one numbered envelope at a time (stream_sequencer.py mint, outcome_store.py save).
GrowsWhereNothingRewinds ==
    /\ Series!SeriesInit
    /\ [][environment = "steady" => Series!StableNext]_(Series!seriesVars)
=============================================================================
