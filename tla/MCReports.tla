------------------------------ MODULE MCReports ------------------------------
(***************************************************************************)
(* What the engine tells about itself: the reports over the archive, the   *)
(* feeds, the flags and the setups, the route that hands them out and the  *)
(* guard of the price table.  They share no state; a behaviour moves one   *)
(* of them, the others stay as they start.                                 *)
(***************************************************************************)
EXTENDS BreakingReports, FeedReports, DetectionReports, SetupReports, ReportRequests,
        PriceGuard, TLC

VARIABLE focus

reportsVars == <<focus, archive, feedVars, detectionReportVars, setupVars, requestVars, priceVars>>

CONSTANTS f1, f2, f3, btc, eth, bitcoin, ether, eur, m1, m2

(***************************************************************************)
(* The instance.                                                           *)
(***************************************************************************)

Analysed(after, unit, verdict, news) ==
    [after |-> after, unit |-> unit, verdict |-> verdict, news |-> news]
ConstAnalyses ==
    {Analysed(1, 1, "breaking", {1}), Analysed(2, 1, "breaking", {1, 2}),
     Analysed(2, 1, "breaking", {2}), Analysed(1, 1, "hold", {}), Analysed(0, 2, "breaking", {1}),
     Analysed(1, 1, "dip", {}), Analysed(1, 1, "mechanical", {}), Analysed(1, 1, "error", {})}

ConstAllowance == f1 :> 2 @@ f2 :> 1
ConstMaxPolls == f1 :> 3 @@ f2 :> 1
ConstMaxHeld == f1 :> 1 @@ f2 :> 0 @@ NoFeed :> 1

\* "decision" is found inside "rate decision".
ArticleKind(feed, terms, topic) == [feed |-> feed, terms |-> terms, topic |-> topic]
ConstArticleKinds ==
    {ArticleKind(f1, {}, 1), ArticleKind(f1, {"decision", "rate decision"}, 2),
     ArticleKind(f2, {"decision"}, 1), ArticleKind(f3, {}, 1)}
ConstInside == {<<"decision", "rate decision">>}

\* ether is quoted twice, and the two legs once disagreed.
ConstLegs == {btc, eth, eur}
ConstUnitOf == btc :> bitcoin @@ eth :> ether @@ eur :> ether
LegsRead(first, second, third) == eth :> first @@ eur :> second @@ btc :> third
ConstPassReadings ==
    {LegsRead("confirm", "calm", "mechanical"), LegsRead("mechanical", "hold", "confirm")}
SetupOf(fingerprint, version, floor) ==
    [fingerprint |-> fingerprint, version |-> version, floor |-> floor]
ConstSetups == {SetupOf("a", 1, 2), SetupOf("b", 1, 4), SetupOf("c", 2, 2)}

\* What m1 charges for output is not in the table.
ConstTrackedPrice ==
    <<m1, "input">> :> 200 @@ <<m1, "output">> :> 0 @@ <<m2, "input">> :> 100 @@
    <<m2, "output">> :> 50
PageRow(input, output) == [input |-> input, output |-> output]
ConstPageRows ==
    m1 :> {PageRow(201000, 50000), PageRow(300000, 0)} @@ m2 :> {PageRow(100000, 50000)}

(***************************************************************************)
(* One part at a time.                                                     *)
(***************************************************************************)

Init ==
    /\ focus \in {"news", "feeds", "flags", "setups", "requests", "prices"}
    /\ ReportsInit /\ FeedInit /\ DetectionReportInit /\ RequestInit /\ PriceInit
    /\ SetupInit
    /\ focus # "setups" => setup = SetupOf("a", 1, 2)

Only(part, Moves, others) == focus = part /\ Moves /\ UNCHANGED <<focus, others>>

Next ==
    \/ Only("news", ReportsNext,
            <<feedVars, detectionReportVars, setupVars, requestVars, priceVars>>)
    \/ Only("feeds", FeedNext,
            <<archive, detectionReportVars, setupVars, requestVars, priceVars>>)
    \/ Only("flags", DetectionReportNext,
            <<archive, feedVars, setupVars, requestVars, priceVars>>)
    \/ Only("setups", SetupNext,
            <<archive, feedVars, detectionReportVars, requestVars, priceVars>>)
    \/ Only("requests", RequestNext,
            <<archive, feedVars, detectionReportVars, setupVars, priceVars>>)
    \/ Only("prices", PriceNext,
            <<archive, feedVars, detectionReportVars, setupVars, requestVars>>)

Spec == Init /\ [][Next]_reportsVars

\* The reports say of the archive, the feeds, the flags and the setups what is in them,
\* each read where its part moves (core/observability/reports).
ReportsAreTrue ==
    /\ focus = "news" => ReportsTellTheNews
    /\ focus = "feeds" => FeedsAreReported
    /\ focus = "flags" => DetectionIsReported
    /\ focus = "setups" => SetupsAreCompared
=============================================================================
