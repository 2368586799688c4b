------------------------------- MODULE Golden -------------------------------
(***************************************************************************)
(* --golden of src/src/tools/trace_analyze.cpp: a run's report classes and *)
(* chosen gauges are frozen into a file (--update), and a later run is     *)
(* compared with it.  The exit status is the result: 0 pass, 1 a fact      *)
(* moved, 2 declined.                                                      *)
(*                                                                         *)
(* The file holds its facts after a header, one line each: the classes and *)
(* the skipped reports in the order of the reports, then the gauges.  A    *)
(* value is a number; Printed is what %.10g keeps of it.                   *)
(***************************************************************************)
EXTENDS Maps, SequencesExt

CONSTANTS Tokens,         \* classes a report may publish
          ScrapeValues,   \* values of the counter in one scrape
          Tolerances,     \* --tolerance, in percent
          ExactBelow      \* below it a number is printed exactly

ASSUME GoldenAssumption ==
    /\ ScrapeValues \subseteq Nat /\ Tolerances \subseteq Nat
    /\ "" \notin Tokens

VARIABLES
    capture,   \* the recording under analysis
    file,      \* the golden on disk; label "" when none can be read
    goldenRc,        \* exit status of the last command, -1 before any
    did,       \* the last command: its options and what it compared
    source     \* ghost: the capture the file was frozen from, and how

goldenVars == <<capture, file, goldenRc, did, source>>

----------------------------------------------------------------------------
(* A capture: a readable trace, a recording directory with or without an   *)
(* event stream, or a trace that cannot be opened.  drops = -1: no drop    *)
(* snapshot in it.                                                         *)

\* Two of the reports of make_reports(), in its order.
GoldenReports == <<"sched", "slice">>

Unknown == -1
Limits == {"NO-TOPOLOGY", "NO-PICK-STREAM", "NO-IDLE-STREAM", "NO-WAKER-EDGES"}
is_capture_limitation(k) == k \in Limits

HasEvents(c) == c.form \in {"trace", "dir"}
HasScrapes(c) == c.form \in {"dir", "prom"}
ReportNames == ToSet(GoldenReports)
AllCaptures ==
    [form : {"trace", "dir", "prom", "unreadable"},
     drops : {Unknown, 0, 1},
     observed : {9},
     class : [ReportNames -> Tokens \cup {"", "NO-IDLE-STREAM"}],
     series : ScrapeValues \X ScrapeValues]
Captures ==
    {c \in AllCaptures : /\ ~HasEvents(c) => c.class = [r \in ReportNames |-> ""]
                        /\ ~HasScrapes(c) => c.series[1] = c.series[2]}

\* capture_completeness() is below 95%.
Incomplete(c) == 100 * c.observed < 95 * (c.observed + c.drops)

\* completeness_gate(): is the capture refused?
Declines(c, allow) == ~allow /\ (c.drops = Unknown \/ Incomplete(c))

----------------------------------------------------------------------------
(* Options, and what a command looks at.                                   *)

Options ==
    [label : {"", "w"}, func : BOOLEAN, perf : BOOLEAN, watch : {"", "pmu", "none"},
     allow : BOOLEAN, reduce : {"", "max"}, tol : Tolerances,
     exclude : {"", "slice", "unknown"}]
\* The options each command reads; the others are left at their defaults.
FreezeOptions == {o \in Options : o.func /\ o.perf}
CheckOptions == {o \in Options : o.label = "" /\ o.watch = "" /\ o.tol = 10}

\* select_reports(): none when a name is not known.
Selected(o) ==
    IF o.exclude \in ReportNames \cup {""} THEN ReportNames \ {o.exclude} ELSE {}

\* The number a series is reduced to.
Reduced(s, red) ==
    CASE red = "last" -> Last(s)
      [] red = "max" -> Max(ToSet(s))
      [] red = "min" -> Min(ToSet(s))
      [] OTHER -> FoldLeft(LAMBDA a, b : a + b, 0, s) \div Len(s)
Reduction(o) == IF o.reduce = "" THEN "last" ELSE o.reduce

\* The gauges of the run: of a directory, the reduced scrapes too.
Prom(c, o) ==
    IF ~HasScrapes(c) THEN {}
    ELSE {[key |-> "pmu_total", red |-> Reduction(o),
           val |-> Reduced(c.series, Reduction(o))]}

\* --functional is the default lane, and is set before the reports are read
\* in the directory form, after them in the trace form.
Functional(o) == o.func \/ ~o.perf

\* Why a command ends before write_golden() and check_golden(): the status.
\* A trace that cannot be opened returns 1.
Early(c, o) ==
    CASE c.form = "unreadable" -> 1
      [] c.form = "prom" /\ Functional(o) -> 2
      [] HasEvents(c) /\ Selected(o) = {} -> 2
      [] OTHER -> 0

----------------------------------------------------------------------------
(* write_golden() and read_golden().                                       *)

Printed(v) == IF v < ExactBelow THEN v ELSE ((v + 5) \div 10) * 10

\* The reports with a class; and those of them whose class says what could not
\* be recorded.
Classed(c, o) == {r \in Selected(o) : HasEvents(c) /\ c.class[r] # ""}
Limited(c, o) == {r \in Classed(c, o) : is_capture_limitation(c.class[r])}
ClassLines(c, rs) == {[key |-> r, val |-> c.class[r]] : r \in rs}
GaugeLines(c, o) ==
    {[key |-> p.key, val |-> Printed(p.val), red |-> p.red, tol |-> o.tol] :
        p \in IF o.watch = "pmu" THEN Prom(c, o) ELSE {}}
\* [label, classes, skipped, gauges]
Frozen(c, o) ==
    [label |-> o.label,
     classes |-> ClassLines(c, Classed(c, o) \ Limited(c, o)),
     skipped |-> ClassLines(c, Limited(c, o)),
     gauges |-> GaugeLines(c, o)]

\* What a write that stopped short, after a line, left of g: the lines of the
\* first n reports, and the gauges if it came past the last one.
LineOf(r) == CHOOSE i \in DOMAIN GoldenReports : GoldenReports[i] = r
Beginning(g, n) ==
    [label |-> g.label,
     classes |-> {f \in g.classes : LineOf(f.key) <= n},
     skipped |-> {f \in g.skipped : LineOf(f.key) <= n},
     gauges |-> {f \in g.gauges : n > Len(GoldenReports)}]

\* Mutant: a capture that lost events or was cut short is accepted.
RefusesNoDamage(c, o) ==
    LET g == Frozen(c, o)
    IN  \/ o.label = ""
        \/ o.watch # "" /\ g.gauges = {}
        \/ g.classes = {} /\ g.gauges = {}

\* Status 2: refused before the file is opened.
Refuses(c, o) ==
    LET g == Frozen(c, o)
    IN  \/ o.label = ""
        \/ Declines(c, o.allow)
        \/ o.watch # "" /\ g.gauges = {}
        \/ g.classes = {} /\ g.gauges = {}

NoFile == [label |-> "", classes |-> {}, skipped |-> {}, gauges |-> {}]
Nothing == [cmd |-> "none", func |-> FALSE, perf |-> FALSE, allow |-> FALSE,
            red |-> "", compared |-> {}, moved |-> {}]

GoldenInit ==
    /\ capture \in Captures
    /\ file = NoFile /\ goldenRc = -1 /\ did = Nothing
    /\ source = [cap |-> capture, red |-> "", tol |-> 0, allow |-> FALSE,
                 torn |-> FALSE]

\* --golden FILE --update: the whole command.  A short write leaves the lines
\* of the first n reports, or (n = -1) no readable header.  (A check changes
\* nothing the next command looks at, so none follows it here.)
Freeze(o, n) ==
    LET early == Early(capture, o)
        stops == early # 0 \/ Refuses(capture, o)
        all == Frozen(capture, o)
        left == IF n = -1 THEN NoFile ELSE Beginning(all, n)
    IN  /\ did' = [Nothing EXCEPT !.cmd = "freeze"]
        /\ goldenRc' = IF early # 0 THEN early
                       ELSE IF stops \/ left # all THEN 2 ELSE 0
        /\ IF stops THEN UNCHANGED <<file, source>>
           ELSE /\ file' = left
                /\ source' = [cap |-> capture, red |-> Reduction(o), tol |-> o.tol,
                              allow |-> o.allow, torn |-> left # all]
        /\ UNCHANGED capture

----------------------------------------------------------------------------
(* check_golden(): the facts in file order, until one cannot be compared.  *)

ClassOf(c, o, r) ==
    IF HasEvents(c) /\ r \in Selected(o) THEN c.class[r] ELSE ""

\* --floor is left at its default of 0, so the band is the percentage.
Within(value, golden, tol) ==
    LET off == IF value > golden THEN value - golden ELSE golden - value
    IN  100 * off <= golden * tol

\* The facts of a golden that the lanes asked for compare.
ClassFacts(g, o) == IF Functional(o) THEN g.classes ELSE {}
GaugeFacts(g, o) == IF o.perf THEN g.gauges ELSE {}
Keys(facts) == {f.key : f \in facts}

\* The gate cannot run: no golden, a refused capture, no fact, or one that this
\* run says nothing about.
CannotRun(c, g, o) ==
    \/ g.label = "" \/ Declines(c, o.allow)
    \/ ClassFacts(g, o) \cup GaugeFacts(g, o) = {}
    \/ o.perf /\ g.gauges = {}
    \/ \E f \in ClassFacts(g, o) : ClassOf(c, o, f.key) = ""
    \/ \E f \in GaugeFacts(g, o) : \A p \in Prom(c, o) : p.key # f.key

ClassesMoved(c, g, o) == {f \in ClassFacts(g, o) : ClassOf(c, o, f.key) # f.val}
GaugesMoved(c, g, o) ==
    {f \in GaugeFacts(g, o) :
        \E p \in Prom(c, o) : p.key = f.key /\ ~Within(p.val, f.val, f.tol)}

\* [rc, compared, moved]: the facts by their keys.
Compare(c, g, o) ==
    LET moved == Keys(ClassesMoved(c, g, o) \cup GaugesMoved(c, g, o))
    IN  IF CannotRun(c, g, o)
        THEN [rc |-> 2, compared |-> {}, moved |-> {}]
        ELSE [rc |-> IF moved = {} THEN 0 ELSE 1,
              compared |-> Keys(ClassFacts(g, o) \cup GaugeFacts(g, o)),
              moved |-> moved]

\* --golden FILE: the whole command.
Check(o) ==
    LET early == Early(capture, o)
        r == Compare(capture, file, o)
    IN  /\ did' = [cmd |-> "check", func |-> Functional(o), perf |-> o.perf,
                   allow |-> o.allow, red |-> Reduction(o),
                   compared |-> IF early = 0 THEN r.compared ELSE {},
                   moved |-> IF early = 0 THEN r.moved ELSE {}]
        /\ goldenRc' = IF early # 0 THEN early ELSE r.rc
        /\ UNCHANGED <<capture, file, source>>

\* Another run is recorded, after a freeze; it differs in one respect from
\* the one frozen.
Record ==
    /\ did.cmd = "freeze" /\ capture = source.cap /\ file # NoFile
    /\ capture' \in Captures
    /\ Cardinality({x \in DOMAIN capture : capture'[x] # capture[x]}) <= 1
    /\ goldenRc' = -1 /\ did' = Nothing
    /\ UNCHANGED <<file, source>>

\* a behavior ends with a check
GoldenNext ==
    /\ did.cmd # "check"
    /\ \/ /\ file = NoFile
          /\ \E o \in FreezeOptions, n \in -1 .. Len(GoldenReports) + 1 : Freeze(o, n)
       \/ \E o \in CheckOptions : Check(o)
       \/ Record

GoldenSpec == GoldenInit /\ [][GoldenNext]_goldenVars

----------------------------------------------------------------------------
(* Properties.                                                             *)

Checked == did.cmd = "check" /\ capture.form # "unreadable"

\* A run is never said to have moved from itself: against the golden frozen
\* from the same recording and written in full, with the same reduction and a
\* tolerance that covers what printing rounds off its samples, no fact is
\* outside its band.
RunMatchesItself ==
    /\ Checked /\ ~source.torn /\ source.cap = capture /\ did.red = source.red
    /\ \A v \in ToSet(capture.series) : Within(v, Printed(v), source.tol)
    => goldenRc # 1

\* A pass is earned: the golden was frozen from a run, and compared with a
\* run, that were each known to be 95% complete or were let through by
\* --allow-unknown; and every report that had a real class then (and was
\* frozen) has the same one now.
Trusted(c, allow) == allow \/ (c.drops # Unknown /\ ~Incomplete(c))
NoCheapPass ==
    Checked /\ goldenRc = 0 =>
        /\ did.compared # {}
        /\ Trusted(capture, did.allow) /\ Trusted(source.cap, source.allow)
        /\ did.func => \A f \in file.classes :
              /\ capture.class[f.key] = source.cap.class[f.key]
              /\ capture.class[f.key] \notin Limits \cup {""}

\* The gate passes what it should and only that.
PassIsEarned == RunMatchesItself /\ NoCheapPass

\* What the command says of its status: 1 is that a frozen fact moved, and a
\* gate that could not run says 2.
OneMeansMoved == did.cmd = "check" /\ goldenRc = 1 => did.moved # {}

\* What a golden says of its gauges: the checker applies the reduction that
\* was frozen.
SameReduction ==
    Checked /\ did.perf /\ goldenRc \in {0, 1} => did.red = source.red
=============================================================================
