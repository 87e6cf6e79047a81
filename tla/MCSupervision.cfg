\* One part at a time: see the module.
CONSTANTS
    Source = {rss_a, rss_b}
    Store = {ingestor}
    FlagAfter = 2
    LastRung = 1
    MinPollable = 2
    Ratio = 85
    Backoff = 1
    MaxRestarts = 1
    MaxEpisodes = 2
    Watched = {ingest, eval}
    Threshold = 1
    FirstGap = 1
    MaxGap = 3
    Process = {service, console}
    Recheck = 2
    MaxLosses = 2
    Runner = {deploy_a, deploy_b}
    Version = {1, 2, 3}
    Transactional = {2}
    MaxFaults = 2
    Caller = {embed, complete}
    Reprobe = 2
    MaxBatches = 2
    MaxTroubles = 2
    Room = 2
    MaxAlerts = 5
    MaxDeliveries = 6
    MaxUpdates = 4
    MaxStarts = 2
    Exporter = {weekly, cli}
    Weekly = weekly
    LastDay = 2
    MaxRows = 1
    MaxCrashes = 1
SPECIFICATION Spec
INVARIANTS
     ClaimsAreTrue MigrationsApplyOnce
    AlertsTellTheStory EachCommandOnce 
PROPERTIES
     StallsAreTold StoppedWorkResumes
