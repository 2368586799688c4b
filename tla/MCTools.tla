------------------------------ MODULE MCTools ------------------------------
(***************************************************************************)
(* One instance for the capture and the tools that read it: the collector's   *)
(* set-up, snapshots and teardown, the golden gate, the driver of --analyze,  *)
(* the population tool and the sorts.  They share no state; a behavior is of  *)
(* one of them, chosen at the start, and the others stay as they began.       *)
(***************************************************************************)
EXTENDS Capture, Golden, Analyze, Population, Sort

VARIABLE subject

MCCommandLines ==
  {<<>>, <<"--json">>, <<"--report", "--pid">>, <<"--report?">>, <<"--update">>,
   <<"--golden">>, <<"--golden", "--json">>, <<"--golden", "--report">>, <<"--golden", "--reduce?">>,
   <<"--digest">>, <<"--digest", "--pid">>, <<"--digest", "--json">>, <<"--digest", "--sig?">>,
   <<"--l2-by-cpu">>, <<"--l2-by-cpu", "--window">>, <<"--by", "--full">>, <<"--by le">>,
   <<"--group">>, <<"--json", "--tid">>, <<"--bogus">>, <<"--window">>}
MCOffenderLists ==
  LET O(m, v, s) == [metric |-> m, value |-> v, sev |-> s] IN
  {<<>>, <<O("bytes", 256, 2), O("rate", 3, 2)>>,
   <<O("bytes", 1, 0), O("bytes", 3, 2), O("bytes", 2, 0), O("rate", 9, 0)>>,
   <<O("rate", 9, 0), O("bytes", 3, 0), O("bytes", 2, 2), O("rate", 7, 2), O("rate", 8, 2)>>}

TheInts == {<<k, 0>> : k \in 0 .. 3}
NotANumber == <<99, 9>>
TheFloats == {<<5, 0>>, <<6, 0>>, <<6, 1>>, <<7, 0>>, NotANumber}   \* 6: the two zeros

Asked(r, f, o, d, s, x, p, l) ==
    [ring |-> r, file |-> f, stream |-> o, detail |-> d, storm |-> s, scx |-> x,
     points |-> p, libs |-> l]

\* a ring of 0, a page, between two powers, and the largest power of the width
MCRequests ==
    {Asked(0, "good", "none", TRUE, sx[1], sx[2], p, {"libc"}) :
        sx \in {<<TRUE, TRUE>>, <<TRUE, FALSE>>, <<FALSE, TRUE>>},
        p \in {<<>>, <<"empty", "good", "good">>}}
    \cup {Asked(3, "good", "good", TRUE, FALSE, TRUE, <<"garbled", "good">>, {}),
          Asked(3, "good", "bad", FALSE, FALSE, TRUE, <<"good", "missing">>, {})}
    \cup {Asked(8, fo[1], fo[2], FALSE, FALSE, TRUE, <<"good">>, {"libc", "ntdll"}) :
             fo \in {<<"none", "bad">>, <<"bad", "none">>, <<"none", "good">>}}

\* recordings, families and options of the population tool
None == [l \in {} |-> 0]
Lab(w) == [workload |-> w]
Info(v) == [k |-> "info", version |-> v, commit |-> v]
Gauge(fam, labels, v) == [k |-> "gauge", fam |-> fam, labels |-> labels, val |-> v]
Type(fam) == [k |-> "type", fam |-> fam]
LeLine(fam, w, le, v) == [k |-> "bucket", fam |-> fam, labels |-> [workload |-> w, le |-> le], val |-> v]
V1 == <<1, Dot, 2>>
V2 == <<1, Dot, 10>>
R2 == <<1, Dot, 10, Dash, Rel, 1>>
Q == <<"lat">>
P == <<"lat", "p99">>
Other == <<"old">>
File(v, w, xs) == <<Info(v)>> \o [i \in 1..Len(xs) |-> Gauge(P, Lab(w), xs[i])]
HistFile(v, a, b) == <<Info(v), Type(Q), LeLine(Q, "x", 2, a), LeLine(Q, "x", 8, a + b), LeLine(Q, "x", Inf, a + b + 1),
                       Gauge(P, Lab("x"), a)>>
Line(kind, v) == [k |-> kind, val |-> v, cpu |-> v % 2, why |-> "watchdog"]
MCFamilies == <<Q, P, Other>>
MCRecordings ==
  {<<>>, <<File(V1, "x", <<3>>)>>, <<<<Gauge(P, None, 4)>>>>,
   <<<<Gauge(P, Lab("x"), 2)>>, File(V1, "x", <<5>>)>>,
   <<File(V1, "x", <<1, 2>>), File(V2, "x", <<2, 4>>)>>,
   <<File(V1, "x", <<1>>), File(R2, "y", <<2>>), File(V2, "x", <<3>>), File(R2, "x", <<9>>)>>,
   <<File(V1, "x", <<1>>), File(R2, "x", <<2>>), File(V2, "x", <<3>>), File(<<2>>, "x", <<4>>)>>,
   <<File(V1, "x", <<1, 1>>), File(R2, "x", <<3>>), File(V2, "x", <<1>>), File(<<2>>, "x", <<3>>)>>,
   <<HistFile(V1, 1, 2), HistFile(V2, 2, 0)>>,
   <<<<Gauge(Other, [workload |-> "x", version |-> V2], 7), Info(V1), Gauge(P, Lab("x"), 1),
       [k |-> "scalar"], LeLine(Q, "x", 2, 3)>>>>,
   <<<<Line("scrape", 0), Line("interval", 9), Line("l2", 6), Line("l2", 3), Line("ejected", 1), Line("power", 4), Line("energy", 3)>>,
     <<Line("scrape", 0), Line("interval", 2), Line("l2", 8), Line("ejected", 1), Line("cleanroom", 0), Line("watchdog", 7), Line("energy", 8)>>>>}
Plainly == [axis |-> "version", aliasFrom |-> <<>>, aliasTo |-> <<>>, dropLabels |-> {}, filter |-> <<>>,
         pairs |-> "auto", lowerBetter |-> TRUE, full |-> FALSE, trajectory |-> FALSE, scrapes |-> FALSE]
MCOptionSets ==
  {Plainly, [Plainly EXCEPT !.pairs = "vs-best", !.full = TRUE], [Plainly EXCEPT !.pairs = "all", !.dropLabels = {"workload"}],
   [Plainly EXCEPT !.axis = "capture", !.lowerBetter = FALSE, !.aliasFrom = Other, !.aliasTo = P],
   [Plainly EXCEPT !.axis = "workload", !.filter = P], [Plainly EXCEPT !.trajectory = TRUE],
   [Plainly EXCEPT !.scrapes = TRUE]}
MCAlpha == <<2, 3>>
MCFloor == <<147, 1000>>
MCVerdict(gs, k) == IF \A j \in 1..Len(gs) : AtMost(MeanOf(gs[k]), MeanOf(gs[j])) THEN 1 ELSE 0

-----------------------------------------------------------------------------
partVars == <<subject, captureVars, goldenVars, analyzeVars, popVars, sortVars>>

PartInit ==
  /\ subject \in {"capture", "golden", "analyze", "population", "sort"}
  /\ req \in IF subject = "capture" THEN Requests ELSE {CHOOSE r \in Requests : TRUE}
  /\ capture \in IF subject = "golden" THEN Captures ELSE {CHOOSE c \in Captures : TRUE}
  /\ subject # "analyze" => path = "absent" /\ line = <<>> /\ world = CHOOSE w \in Worlds : TRUE
  /\ files \in IF subject = "population" THEN Recordings ELSE {<<>>}
  /\ popt \in IF subject = "population" THEN OptionSets ELSE {Plainly}
  /\ subject # "sort" => entry = "plain" /\ input = <<>>
  /\ CaptureInit /\ GoldenInit /\ AnalyzeInit /\ PopInit /\ SortInit

\* the tools end
AtRest == subject \in {"golden", "sort"} /\ UNCHANGED partVars

PartNext ==
  \/ /\ subject = "capture" /\ CaptureNext
     /\ UNCHANGED <<subject, goldenVars, analyzeVars, popVars, sortVars>>
  \/ /\ subject = "golden" /\ GoldenNext
     /\ UNCHANGED <<subject, captureVars, analyzeVars, popVars, sortVars>>
  \/ /\ subject = "analyze" /\ AnalyzeNext
     /\ UNCHANGED <<subject, captureVars, goldenVars, popVars, sortVars>>
  \/ /\ subject = "population" /\ PopNext
     /\ UNCHANGED <<subject, captureVars, goldenVars, analyzeVars, sortVars>>
  \/ /\ subject = "sort" /\ SortNext
     /\ UNCHANGED <<subject, captureVars, goldenVars, analyzeVars, popVars>>
  \/ AtRest

PartSpec == PartInit /\ [][PartNext]_partVars
=============================================================================
