----------------------------- MODULE Dashboard -----------------------------
(***************************************************************************)
(* The live state of an engine on a screen elsewhere: worker threads count *)
(* flags and record episodes in EngineStats, the dashboard route reads     *)
(* them part by part, a viewer on another machine, with a clock of its     *)
(* own, polls and draws.  The engine dies and comes back, the connection   *)
(* fails, the viewer keeps what it was told last.                          *)
(***************************************************************************)
EXTENDS Integers, Sequences, FiniteSets

CONSTANTS
    Follower,       \* pipelines, each with a worker
    TickerOf,       \* the symbol each follows; two may follow one
    StoryGap,       \* breaking episode gap
    ShownEpisodes,  \* maxlen of _recent_breaking
    Skew,           \* the viewer's clock minus the engine's
    MaxHours,       \* bound: the clock
    MaxFlagged,     \* bound: flags of a process
    MaxOpened,      \* bound: episodes of a process
    MaxAsked,       \* bound: polls
    MaxBoots        \* bound: starts of the engine

ASSUME DashboardAssumption ==
    /\ IsFiniteSet(Follower) /\ "ingest" \notin Follower
    /\ StoryGap \in Nat /\ ShownEpisodes \in Nat \ {0}

Triggers == {"keyword", "cluster"}
NoStory == 0
Unknown == {"unknown"}
NoPart == [part |-> "none"]

VARIABLES
    stats,      \* EngineStats of the running engine, or NoEngine
    writing,    \* the _counter_lock's holder: what it read and what it adds
    stories,    \* when each pipeline last held an episode, as its tracker has it
    told,       \* history: flags per trigger and episodes this process counted
    asked,      \* the poll on its way
    sent,       \* history: polls sent
    boots,      \* history: starts of the engine
    panel,      \* the viewer: good, the last reading, and whether the frame is red
    hour

dashboardVars == <<stats, writing, stories, told, asked, sent, boots, panel, hour>>

NoEngine == [up |-> FALSE]
Zero == [detected |-> 0, confirmed |-> 0, split |-> [t \in Triggers |-> 0]]
FlagsOf(c) == c.split["keyword"] + c.split["cluster"]
Open(p) == stories[p] # NoStory /\ hour - stories[p] <= StoryGap

Record(p, last) == [symbol |-> TickerOf[p], seen |-> last]
\* deque(maxlen): the oldest fall off.
Fitting(records) ==
    LET fallen == IF Len(records) > ShownEpisodes THEN Len(records) - ShownEpisodes ELSE 0
    IN  [i \in 1 .. Len(records) - fallen |-> records[fallen + i]]
Appended(records, record) == Fitting(Append(records, record))

\* The workers start in the order they were assembled in.
Assemblies(pipelines) ==
    {order \in [1 .. Cardinality(pipelines) -> pipelines] :
        \A p \in pipelines : \E i \in DOMAIN order : order[i] = p}

\* An engine starts: what a pipeline's tracker was seeded with is on the panel, its
\* counts are not.  Without workers there is no live state; the watchdog may be off.
EngineStarts(live, watched) ==
    /\ stats = NoEngine /\ boots < MaxBoots
    /\ boots' = boots + 1
    /\ \E inherited \in Assemblies({p \in Follower : Open(p)}) :
        stats' = [up |-> TRUE, live |-> live, count |-> Zero,
                  stalled |-> IF watched THEN {} ELSE Unknown,
                  recent |-> Fitting([i \in DOMAIN inherited |->
                                        Record(inherited[i], stories[inherited[i]])])]
    /\ told' = Zero
    /\ UNCHANGED <<writing, stories, asked, panel, hour, sent>>

\* A request in flight dies with the engine.
Dies ==
    /\ stats.up
    /\ stats' = NoEngine /\ writing' = {}
    /\ asked' = IF asked = NoPart THEN asked ELSE [part |-> "broken", at |-> asked.at]
    /\ UNCHANGED <<stories, told, panel, hour, sent, boots>>

\* Faulty variant of LockFree: nobody waits.
LockIgnored(w) == TRUE

LockFree(w) == writing = {}

\* Under the lock: a read of the counters, then the write of what it adds to them.
Reads(w, adds) ==
    /\ LockFree(w) /\ ~ \E other \in writing : other.by = w
    /\ writing' = writing \union {[by |-> w, base |-> stats.count, adds |-> adds]}

Flags(trigger) ==
    /\ stats.up /\ stats.live /\ told.detected < MaxFlagged
    /\ Reads("ingest", [detected |-> 1, confirmed |-> 0,
                        split |-> [t \in Triggers |-> IF t = trigger THEN 1 ELSE 0]])
    /\ UNCHANGED <<stats, stories, told, asked, panel, hour, sent, boots>>

\* A pass of the pipeline is breaking and no episode of it is open.
OpensStory(p) ==
    /\ stats.up /\ stats.live /\ ~Open(p) /\ told.confirmed < MaxOpened
    /\ stories' = [stories EXCEPT ![p] = hour]
    /\ Reads(p, [Zero EXCEPT !.confirmed = 1])
    /\ UNCHANGED <<stats, told, asked, panel, hour, sent, boots>>

Sum(c, d) ==
    [detected |-> c.detected + d.detected, confirmed |-> c.confirmed + d.confirmed,
     split |-> [t \in Triggers |-> c.split[t] + d.split[t]]]

Writes(w) ==
    /\ w \in writing
    /\ writing' = writing \ {w}
    /\ stats' = [up |-> TRUE, live |-> stats.live, count |-> Sum(w.base, w.adds),
                 stalled |-> stats.stalled,
                 recent |-> IF w.by \in Follower
                            THEN Appended(stats.recent, Record(w.by, hour)) ELSE stats.recent]
    /\ told' = Sum(told, w.adds)
    /\ UNCHANGED <<stories, asked, panel, hour, sent, boots>>

\* touch_breaking_episode: the newest record of the symbol; none is no error.
Touched(records, symbol) ==
    LET of == {i \in DOMAIN records : records[i].symbol = symbol}
    IN  [i \in DOMAIN records |-> IF i \in of /\ \A j \in of : i >= j
                                  THEN [symbol |-> symbol, seen |-> hour] ELSE records[i]]

\* A pass holds the open episode.
HoldsStory(p) ==
    /\ stats.up /\ stats.live /\ Open(p) /\ stories[p] < hour /\ writing = {}
    /\ stories' = [stories EXCEPT ![p] = hour]
    /\ stats' = [stats EXCEPT !.recent = Touched(@, TickerOf[p])]
    /\ UNCHANGED <<writing, told, asked, panel, hour, sent, boots>>

\* The watchdog's verdict, where there is one.  Of all the workers, or of none.
Judges(workers) ==
    /\ stats.up /\ stats.live /\ stats.stalled \notin {Unknown, workers}
    /\ stats' = [stats EXCEPT !.stalled = workers]
    /\ UNCHANGED <<writing, stories, told, asked, panel, hour, sent, boots>>

(***************************************************************************)
(* The wire and the viewer.                                                *)
(***************************************************************************)

\* reading.at is taken before the request goes out.
AsksAgain ==
    /\ asked = NoPart /\ sent < MaxAsked
    /\ sent' = sent + 1
    /\ asked' = [part |-> "sent", at |-> hour]
    /\ UNCHANGED <<stats, writing, stories, told, panel, hour, boots>>

\* sample_dashboard: part by part; no property relates two parts of a reading.
Answers ==
    /\ asked.part = "sent" /\ stats.up /\ stats.live
    /\ asked' = [part |-> "answer", at |-> asked.at, stamp |-> hour,
                 recent |-> stats.recent, stalled |-> stats.stalled,
                 open |-> {TickerOf[p] : p \in {q \in Follower : Open(q) /\ \A w \in writing : w.by # q}}]
    /\ UNCHANGED <<stats, writing, stories, told, panel, hour, sent, boots>>

\* take(): a failure keeps the last reading, and names its reason on a red frame.
Taken == [panel EXCEPT !.red = TRUE]

\* Refused by a dead engine, 503 from one without live state, or no answer in time.
Fails ==
    /\ asked # NoPart
    /\ asked' = NoPart
    /\ panel' = [good |-> Taken.good, red |-> Taken.red, polled |-> asked.at]
    /\ UNCHANGED <<stats, writing, stories, told, hour, sent, boots>>

Arrives ==
    /\ asked.part = "answer"
    /\ asked' = NoPart
    /\ panel' = [good |-> asked, red |-> FALSE, polled |-> asked.at]
    /\ UNCHANGED <<stats, writing, stories, told, hour, sent, boots>>

HourGoes ==
    /\ hour < MaxHours /\ writing = {}
    /\ hour' = hour + 1
    /\ UNCHANGED <<stats, writing, stories, told, asked, panel, sent, boots>>

DashboardInit ==
    /\ stats = NoEngine /\ writing = {} /\ told = Zero
    /\ stories = [p \in Follower |-> NoStory]
    /\ asked = NoPart /\ panel = [good |-> NoPart, red |-> TRUE, polled |-> 0]
    /\ hour = 1 /\ sent = 0 /\ boots = 0

DashboardNext ==
    \/ \E live, watched \in BOOLEAN : EngineStarts(live, watched)
    \/ Dies \/ (\E t \in Triggers : Flags(t)) \/ (\E w \in writing : Writes(w))
    \/ \E p \in Follower : OpensStory(p) \/ HoldsStory(p)
    \/ \E workers \in {{}, Follower} : Judges(workers)
    \/ AsksAgain \/ Answers \/ Arrives
    \/ Fails \/ HourGoes

DashboardSpec == DashboardInit /\ [][DashboardNext]_dashboardVars

(***************************************************************************)
(* What is drawn.                                                          *)
(***************************************************************************)

\* The ages of a frame are measured in the engine's clock.
FrameInstant(reading) == reading.stamp

DrawnLive(records, at) ==
    {records[i].symbol : i \in {j \in DOMAIN records : at - records[j].seen <= StoryGap}}

\* _last: three states.
Colour(reading, worker) ==
    IF reading.stalled = Unknown THEN "dim"
    ELSE IF worker \in reading.stalled THEN "red" ELSE "neutral"

(***************************************************************************)
(* Properties.                                                             *)
(***************************************************************************)

\* No flag and no episode is counted twice, or lost between two threads, and the
\* total is what the paths to it add up to (engine_stats.py add_breaking_detected,
\* add_breaking_episode).
CountsAddUp ==
    /\ stats.up => stats.count = told
    /\ stats.up => stats.count.detected = FlagsOf(stats.count)

\* A symbol is live on the engine's panel while a pipeline holds an episode of it,
\* whether or not two share it and whoever restarted; only one whose records fell
\* off the panel is missing (engine_stats.py touch_, restore_breaking_episode).
EpisodesAreShown == stats.up /\ stats.live /\ writing = {} =>
    LET held == {TickerOf[p] : p \in {q \in Follower : Open(q)}}
        live == DrawnLive(stats.recent, hour)
    IN  /\ live \subseteq held
        /\ \A symbol \in held \ live : Len(stats.recent) = ShownEpisodes

\* A frame that is not red shows what the engine said after the last poll went out;
\* an episode drawn live was held then, whatever the viewer's clock says; and a
\* worker is drawn well only if a watchdog said so (dashboard_viewer.py take, render).
ViewerIsHonest ==
    /\ ~panel.red => panel.good # NoPart /\ panel.good.stamp >= panel.polled
    /\ panel.good # NoPart =>
        LET live == DrawnLive(panel.good.recent, FrameInstant(panel.good)) IN
        /\ live \subseteq panel.good.open
        /\ \A symbol \in panel.good.open \ live :
            Len(panel.good.recent) = ShownEpisodes \/ ~ \E i \in DOMAIN panel.good.recent :
                panel.good.recent[i].symbol = symbol
        /\ \A w \in Follower : Colour(panel.good, w) = "neutral" =>
            panel.good.stalled # Unknown /\ w \notin panel.good.stalled

\* What is on the panel is so, or was.
PanelTellsTheTruth == CountsAddUp /\ EpisodesAreShown /\ ViewerIsHonest
=============================================================================
