\* One consumer across lost connections, restarts of the server and a restore of
\* the database.
CONSTANTS
    Client = {c1}
    Histories = {0, 1}
    QueueSize = 1
    BatchSize = 2
    ConcurrentAttach = FALSE
    MaxSeq = 2
    MaxFailures = 1
    MaxRestores = 1
    MaxReplayFrames = 1
    Epoch = {0, 1, 2}
SPECIFICATION FairStreamSpec
PROPERTIES Delivered ResumesInItsHistory
