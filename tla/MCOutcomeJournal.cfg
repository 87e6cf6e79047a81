\* Two overlapping writers, in either environment; the bounds here are those of the
\* environment that rewinds.
CONSTANTS
    Writer = {w1, w2}
    Faults = {"clock_step", "lost_ack", "unreadable_cluster", "reconcile_skipped", "pitr", "promotion", "counter_reset"}
    MaxPublished = 4
    MaxWall = 2
    MaxRewinds = 2
SYMMETRY WriterSymmetry
SPECIFICATION MCSpec
INVARIANTS
    TypeOK Gapless HeadIsJournalEnd AvailableNeverBackwards KeysInCommitOrder EpochsNeedRewinds
PROPERTIES GrowsWhereNothingRewinds RewoundSeries
