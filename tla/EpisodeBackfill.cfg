\* A seed window twice the gap: a story that holds on outlives it.
CONSTANTS
    Pass = {p1}
    Gap = 1
    Window = 2
    Faults = {"crash", "save_fails", "seed_fails", "job_crash"}
    MaxLegacy = 4
    Since = {1, 2, 4}
    MaxClock = 5
    MaxRows = 5
SPECIFICATION BSpec
INVARIANTS RegistryFollowsJournal IdentityHolds BackfillsAgree
CHECK_DEADLOCK FALSE
