\* Bodies hang, raise and return late; one task may die.
CONSTANTS
    ingest = ingest
    eval = eval
    Fleet <- MCFleet
    FeedOf <- MCFeedOf
    Sensitivity <- MCSensitivity
    Tier = {1, 2}
    MaxStored = 2
    MaxDefects = 1
SPECIFICATION FairSpec
INVARIANTS TypeOK RoomForEveryPass NoNudgeLost
PROPERTIES CandidatesReachEval ShutdownEnds
CHECK_DEADLOCK FALSE
