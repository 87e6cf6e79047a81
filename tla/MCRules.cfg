\* Journals of up to six envelopes, detection over three feeds and four articles,
\* corpora of up to five articles, passes over three symbols of which two share a
\* query, two processes of an operator, three hours of a dashboard, three cycles of a mock
\* archive, a journal of four passes behind the sample, three samples of the watcher.
CONSTANTS
    a1 = a1  a2 = a2  a3 = a3  b1 = b1  f1 = f1  f2 = f2
    f3 = f3  story = story  btc = btc  eth = eth  btce = btce  bitcoin = bitcoin
    ether = ether  s1 = s1  s2 = s2  g1 = g1  g2 = g2  p1 = p1
    p2 = p2
    MaxReplayFrames = 3
    MaxSeq = 6
    Article = {a1, a2, a3, b1}
    Feed = {f1, f2, f3}
    FeedOf <- ConstFeedOf
    StoryOf <- ConstStoryOf
    Matching = {a2, a3}
    Weight <- ConstWeight
    Settings <- ConstSettings
    Window = 1
    MaxLost = 1
    Kinds <- ConstKinds
    Retrievals <- ConstRetrievals
    Overfetch = 2
    MaxCorpus = 5
    Symbols <- ConstSymbols
    QueryOf <- ConstQueryOf
    Feeds = {f1}
    Documents <- ConstDocuments
    Overrides <- ConstOverrides
    Schema <- ConstSchema
    ListKeys = {"sources", "models"}
    Public <- ConstPublic
    File = {"app", "pipelines"}
    Stream = {s1, s2}
    Generation = {g1, g2}
    MaxTime = 6
    MaxUnwritten = 1
    Tools = TRUE
    Process = {p1, p2}
    Roles <- ConstRoles
    MaxStarts = 3
    Follower = {p1, p2}
    TickerOf <- ConstTickerOf
    StoryGap = 1
    ShownEpisodes = 2
    Skew = 1
    MaxHours = 3
    MaxFlagged = 1
    MaxOpened = 1
    MaxAsked = 2
    MaxBoots = 2
    Variant = {s1, s2}
    Facts <- ConstFacts
    Interval = 10
    FloorLag = 1
    TailLag = 9
    TimeoutLag = 1
    WriteLag = 1
    Day = 20
    MaxCycles = 3
    SampleGap = 1
    Cadence = 10
    FirstSeq = 1041
    MaxPasses = 4
    MaxPartial = 1
    Deadline = 2
    AliveBound = 2
    Heartbeats = {0, 5}
    Answering = {0, 3, 6}
    Freezes = {0, 11}
    MaxSamples = 3
    MaxLines = 4
SPECIFICATION Spec
INVARIANTS
     DetectionHolds AnswersAreHonest 
      ExperimentsAreTrue
CHECK_DEADLOCK FALSE
