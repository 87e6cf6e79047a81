\* Two first subscribers attach at once.
CONSTANTS
    Client = {c1, c2}
    Histories = {1}
    QueueSize = 2
    BatchSize = 2
    ConcurrentAttach = TRUE
    MaxSeq = 2
    MaxFailures = 0
    MaxRestores = 0
    MaxReplayFrames = 2
    Epoch = {0, 1}
SPECIFICATION StreamSpec
PROPERTY NoSilentGap
