\* Archives of five analyses, four hours of two feeds, four articles and envelopes behind
\* the flags, three passes or articles over three days and setups, a ceiling of a week
\* under windows of a day and of all time, two priced models.
CONSTANTS
    f1 = f1  f2 = f2  f3 = f3  btc = btc  eth = eth  bitcoin = bitcoin
    ether = ether  eur = eur  m1 = m1  m2 = m2
    Analyses <- ConstAnalyses
    EpisodeGap = 1
    StoryWindow = 4
    Cells = {2, 3}
    MaxArchive = 5
    PolledFeed = {f1, f2}
    GapFactor = 1
    GapFloor = 1
    Allowance <- ConstAllowance
    MaxNow = 4
    MaxPolls <- ConstMaxPolls
    MaxHeld <- ConstMaxHeld
    ArticleKinds <- ConstArticleKinds
    GatedFeeds = {f1}
    Inside <- ConstInside
    Radii = {0, 1}
    LiveRadius = 0
    ClusterWindow = 1
    MidSize = 2
    HighSize = 3
    WakeWindow = 1
    MaxStored = 3
    MaxEvents = 4
    MaxClock = 2
    Leg <- ConstLegs
    UnitOf <- ConstUnitOf
    Setups <- ConstSetups
    PassReadings <- ConstPassReadings
    FeedName = {f1, f2}
    DaysPerWeek = 2
    RecentPasses = 2
    MaxWork = 3
    MaxDay = 2
    Ceiling = 7
    AllTime = 99
    Malformed = 0
    Expressions = {1, 99}
    PricedModel = {m1, m2}
    TrackedPrice <- ConstTrackedPrice
    PageRows <- ConstPageRows
    Epsilon = 1
SPECIFICATION Spec
INVARIANTS
      PricesAreGuarded
CHECK_DEADLOCK FALSE
