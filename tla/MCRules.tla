------------------------------ MODULE MCRules ------------------------------
(***************************************************************************)
(* The rules that decide what a consumer reads, from the corpus to the     *)
(* wire.  One call of each leaves nothing behind for another: a behaviour  *)
(* moves one of them, the others stay as they start.                       *)
(***************************************************************************)
EXTENDS ReplayCases, BreakingDetection, Retrieval, AnalysisPass, ConfigLayers,
        ConfigGenerations, EngineProcess, Dashboard, MockArchive, FramesSample, Netwatch, TLC

VARIABLE focus

ruleVars == <<replayVars, detectionVars, retrievalVars, passVars, layerVars, generationVars>>
engineVars == <<processVars, dashboardVars>>
fixtureVars == <<mockVars, sampleVars, netwatchVars>>
rulesVars == <<focus, ruleVars, engineVars, fixtureVars>>

CONSTANTS a1, a2, a3, b1, f1, f2, f3, story, btc, eth, btce, bitcoin, ether, s1, s2, g1, g2,
    p1, p2

(***************************************************************************)
(* The instance.                                                           *)
(***************************************************************************)

ConstFeedOf == a1 :> f1 @@ a2 :> f1 @@ a3 :> f2 @@ b1 :> f3
ConstStoryOf == [a \in {a1, a2, a3, b1} |-> story]
ConstWeight == f1 :> 1 @@ f2 :> 2 @@ f3 :> 1
Setting(unit, enabled, mid, high, gate) ==
    [unit |-> unit, enabled |-> enabled, mid |-> mid, high |-> high, gate |-> gate]
ConstSettings ==
    {Setting("feeds", TRUE, 2, 3, 2), Setting("articles", TRUE, 2, 3, 2),
     Setting("feeds", FALSE, 2, 3, 1), Setting("feeds", TRUE, 1, 2, 3)}

Kind(topics, distance, age_, importance, weight) ==
    [topics |-> topics, distance |-> distance, age |-> age_, importance |-> importance,
     weight |-> weight]
ConstKinds ==
    {Kind({1}, 0, 0, -1, 1), Kind({1, 2}, 1, 0, -1, 2), Kind({2}, 0, 1, 2, 1), Kind({2}, 2, 0, 2, 1),
     Kind({3}, 4, 0, 3, 1), Kind({3}, 4, 1, 3, 1), Kind({1}, 0, 2, 3, 1), Kind({1}, 4, 0, -1, 1)}
ConstRetrievals == [topK : {2, 3}, floor : {2, AnyDistance}, deep : {2, NoTier}]

ConstSymbols == <<btc, eth, btce>>
ConstQueryOf == btc :> bitcoin @@ eth :> ether @@ btce :> bitcoin

yes == Number("yes")
no == Number("no")
Source(id, url, on) == Dict([id |-> Text(id), url |-> Text(url), enabled |-> on])
Model(id, name, on) == Dict([id |-> Text(id), name |-> Text(name), enabled |-> on])
One(name) == Dict([model |-> Text(name)])
Several(models) == Dict([models |-> List(models)])

ConstSchema == Dict([
    floor |-> Number("7"), telegram |-> Dict([token |-> Text("none"), enabled |-> no]),
    sources |-> List(<<Source("none", "none", yes)>>),
    llm |-> Dict([model |-> Optional, models |-> List(<<Model("none", "none", yes)>>)])])

\* A document of each record; an Absent key is left out.
With(records) == {Dict([key \in {k \in DOMAIN d : d[k] # Absent} |-> d[key]]) : d \in records}

ConstDocuments == With([
    floor : {Absent, Number("6")}, telegram : {Dict([enabled |-> no])},
    sources : {List(<<Source("a", "u", yes)>>),
               List(<<Source("a", "u", yes), Source("b", "w", no)>>)},
    llm : {One("m"), Several(<<Model("d", "m", yes), Model("v", "n", no)>>)}])

\* Among them what an operator gets wrong: a mistyped key at every depth.
ConstOverrides == With([
    floor : {Absent, Number("7"), Number("6")}, flor : {Absent, Text("secret")},
    telegram : {Absent, Dict([token |-> Text("secret")]),
                Dict([enabled |-> yes, tokn |-> Text("secret")])},
    sources : {Absent, List(<<Dict([id |-> Text("b"), enabled |-> yes])>>),
               List(<<Dict([id |-> Text("a"), enabld |-> no, url |-> Text("x")]),
                      Dict([id |-> Text("c"), url |-> Text("y"), urll |-> Text("secret")])>>)},
    llm : {Absent, One("k"), Several(<<Model("v", "n", yes)>>)}])

ConstPublic == {<<"sources", "*", "id">>, <<"sources", "*", "url">>, <<"llm", "model">>,
                <<"llm", "models", "*", "id">>, <<"llm", "models", "*", "name">>}

ConstRoles == {Parts \union {"named"}, {"workers", "stream", "weekly", "telegram"},
               {"named", "stream", "telegram"}}
ConstTickerOf == [p \in {p1, p2} |-> eth]

\* Minutes; an extra that starts late and runs long ends after the next bar's pass.
Drawn(partial, news, age_, extras) ==
    [partial |-> partial, news |-> news, age |-> age_, extras |-> extras]
ConstFacts ==
    {Drawn(FALSE, TRUE, 0, <<>>), Drawn(TRUE, TRUE, 3, <<>>), Drawn(FALSE, FALSE, 0, <<>>),
     Drawn(FALSE, TRUE, 0, <<[start |-> 1, lasts |-> 1]>>),
     Drawn(FALSE, TRUE, 0, <<[start |-> 9, lasts |-> 5]>>)}

(***************************************************************************)
(* One part at a time.                                                     *)
(***************************************************************************)

Init ==
    /\ focus \in {"replay", "detection", "retrieval", "pass", "layers", "generations",
                  "process", "dashboard", "mock", "sample", "netwatch"}
    /\ ReplayInit /\ PassInit /\ GenerationInit /\ ProcessInit /\ DashboardInit /\ MockInit
    \* A part that does not move needs one start, not every start there is.
    /\ DetectionInit
    /\ focus # "detection" => detection = Setting("feeds", TRUE, 2, 3, 2) /\ active = {}
    /\ RetrievalInit
    /\ focus # "retrieval" => retrieval = [topK |-> 2, floor |-> 2, deep |-> 2]
    /\ LayersInit
    /\ focus # "layers" => tracked = CHOOSE d \in Documents : TRUE
    /\ focus # "layers" => Keys(override) = {}
    /\ SampleInit
    /\ focus # "sample" => ~deployed /\ ~grouped
    /\ NetwatchInit
    /\ focus # "netwatch" => heartbeat = CHOOSE h \in Heartbeats : TRUE

Only(part, Moves, others) == focus = part /\ Moves /\ UNCHANGED <<focus, others>>
Rule(part, Moves, others) == Only(part, Moves, <<others, engineVars, fixtureVars>>)
Engine(part, Moves, others) == Only(part, Moves, <<others, ruleVars, fixtureVars>>)
Fixture(part, Moves, others) == Only(part, Moves, <<others, ruleVars, engineVars>>)

Next ==
    \/ Rule("replay", ReplayNext,
            <<detectionVars, retrievalVars, passVars, layerVars, generationVars>>)
    \/ Rule("detection", DetectionNext,
            <<replayVars, retrievalVars, passVars, layerVars, generationVars>>)
    \/ Rule("retrieval", RetrievalNext,
            <<replayVars, detectionVars, passVars, layerVars, generationVars>>)
    \/ Rule("pass", PassNext,
            <<replayVars, detectionVars, retrievalVars, layerVars, generationVars>>)
    \/ Rule("layers", LayersNext,
            <<replayVars, detectionVars, retrievalVars, passVars, generationVars>>)
    \/ Rule("generations", GenerationNext,
            <<replayVars, detectionVars, retrievalVars, passVars, layerVars>>)
    \/ Engine("process", ProcessNext, dashboardVars)
    \/ Engine("dashboard", DashboardNext, processVars)
    \/ Fixture("mock", MockNext, <<sampleVars, netwatchVars>>)
    \/ Fixture("sample", SampleNext, <<mockVars, netwatchVars>>)
    \/ Fixture("netwatch", NetwatchNext, <<mockVars, sampleVars>>)

Spec == Init /\ [][Next]_rulesVars

(***************************************************************************)
(* The properties, each read where its part moves.                         *)
(***************************************************************************)

\* What a prompt is given is fair, whatever the corpus, and what the pass makes of the
\* answers says what happened (retriever.py, pipeline_runner.py, envelope_contract.py).
AnswersAreHonest ==
    /\ focus = "retrieval" => ContextIsFair
    /\ focus = "pass" => EnvelopeContract

\* Every override is told, nothing secret is, and an envelope is traced to the
\* configuration that made it (config_merge.py, override_report.py,
\* config_generation_store.py, generations_report.py).
ConfigurationIsTold ==
    /\ focus = "layers" => OverridesAreTold
    /\ focus = "generations" => ProvenanceIsTrue

\* What the project hands a consumer to build against behaves as the engine does and shows
\* what the engine wrote, and the watcher beside it records what it measured (experiments).
ExperimentsAreTrue ==
    /\ focus = "mock" => MockIsASeries
    /\ focus = "sample" => SampleIsTrue /\ RefusalIsTrue
    /\ focus = "netwatch" => OutagesAreRecorded
=============================================================================
