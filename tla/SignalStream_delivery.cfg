\* Two consumers that come and go; first subscribers attach one at a time.
CONSTANTS
    Client = {c1, c2}
    Histories = {1}
    QueueSize = 1
    BatchSize = 2
    ConcurrentAttach = FALSE
    MaxSeq = 3
    MaxFailures = 1
    MaxRestores = 0
    MaxReplayFrames = 2
    Epoch = {0, 1}
SYMMETRY ClientSymmetry
SPECIFICATION StreamSpec
INVARIANT StreamTypeOK
PROPERTY NoSilentGap
