------------------------------ MODULE Analyze -------------------------------
(***************************************************************************)
(* The driver of `montauk --analyze`: which mode a command line selects, how *)
(* its flags are read, how a trace is folded, and what is published on each  *)
(* surface (text, JSON, .prom, digest) with which exit status.  The reports  *)
(* themselves are SyncReports, HeapTrace, SchedReports and ShapeTrace;       *)
(* the golden comparison is Golden; population mode is Population.           *)
(***************************************************************************)
EXTENDS Integers, Sequences, FiniteSets, SequencesExt, FiniteSetsExt, Functions

CONSTANTS CommandLines,   \* the flag lists tried, sequences of tokens
          OffenderLists,  \* what the reports may contribute, sequences of records
          Addresses       \* the addresses a wait object may have

VARIABLES path,      \* what argv[1] is: "dir", "prom", "trace",
                     \* "help" (or --version), "absent"
          line,      \* the flags still to be read
          flags,     \* the flags read so far
          world,     \* what the run finds on disk, a record
          phase,     \* where montauk_analyze_main() is
          rc,        \* exit status, NoCode before
          folded,    \* TRUE once the event stream was folded into the reports
          warned,    \* TRUE once a damaged stream was reported
          out,       \* the surfaces written: "text", "json", "digest", ...
          said,      \* provenance stated on them: "loss", "writer", "qual", "conclusion"
          prom,      \* provenance inside the .prom file written, {"none"} if none
          ranked     \* the consolidated offenders
analyzeVars == <<path, line, flags, world, phase, rc, folded, warned, out, said, prom, ranked>>

NoCode == -1
DirVerbs   == {"--digest", "--l2-by-cpu", "--golden"}
GoldenOnly == {"--update", "--functional", "--performance", "--label", "--exclude",
               "--watch", "--allow-unknown"}
Qualifiers == {"--pid", "--tid", "--comm", "--sig"}        \* narrow the rows
BadQualifiers == {"--sig?", "--window<0"}                   \* malformed values
\* a malformed value of one of them is a token of its own, outside the set
PopulationFlags == {"--by", "--metric", "--full", "--higher-better", "--no-emit", "--pairs",
                    "--trajectory", "--threads", "--perms", "--alpha", "--min-effect",
                    "--group", "--alias", "--alias-axis", "--drop-label", "--seed",
                    "--quantile", "--redact"}
-----------------------------------------------------------------------------
(***************************************************************************)
(* Resolving an address against the captured maps: the last segment that     *)
(* starts at or below it, by binary search over segments sorted by start.    *)
(***************************************************************************)
FindSeg(segs, addr) ==
  LET Search[lo \in 0..Len(segs), hi \in 0..Len(segs)] ==
        IF lo >= hi THEN lo
        ELSE LET mid == (lo + hi) \div 2 IN
             IF segs[mid + 1].start <= addr THEN Search[mid + 1, hi] ELSE Search[lo, mid]
  IN  Search[0, Len(segs)]

Resolve(segs, addr) ==
  LET i == FindSeg(segs, addr) IN
  IF i = 0 THEN "none"
  ELSE IF addr >= segs[i].end THEN "none"
  ELSE segs[i].name

\* resolve_exec(): only a segment that is executable names a return address
ResolveExec(segs, addr) ==
  LET i == FindSeg(segs, addr) IN
  IF Resolve(segs, addr) = "none" THEN "none"
  ELSE IF segs[i].exec THEN segs[i].name ELSE "none"

LoadDir(segs) == SortSeq(segs, LAMBDA a, b : a.start < b.start)
-----------------------------------------------------------------------------
(***************************************************************************)
(* rank_offenders(): values of different metrics do not compare, so an        *)
(* offender's second key is its position within its own metric; then one      *)
(* stable descending pass by that key and one by severity.                    *)
(***************************************************************************)
Below(offs, i) == {j \in 1..Len(offs) : offs[j].metric = offs[i].metric
                     /\ (offs[j].value < offs[i].value \/ (offs[j].value = offs[i].value /\ j < i))}
Peers(offs, i) == {j \in 1..Len(offs) : offs[j].metric = offs[i].metric}

\* position / (peers - 1), as the pair compared by cross multiplication
Norm(offs, i) == IF Cardinality(Peers(offs, i)) < 2 THEN <<1, 1>>
                 ELSE <<Cardinality(Below(offs, i)), Cardinality(Peers(offs, i)) - 1>>
NormAbove(a, b) == a[1] * b[2] > b[1] * a[2]

\* a stable descending sort of the positions in s
StableDesc(s, Above(_, _)) ==
  LET Place(i) == Cardinality({j \in 1..Len(s) :
                    Above(s[j], s[i]) \/ (~Above(s[i], s[j]) /\ j <= i)})
  IN  [k \in 1..Len(s) |-> s[CHOOSE i \in 1..Len(s) : Place(i) = k]]

RankOffenders(offs) ==
  LET byNorm == StableDesc([i \in 1..Len(offs) |-> i],
                           LAMBDA i, j : NormAbove(Norm(offs, i), Norm(offs, j)))
      bySev  == StableDesc(byNorm, LAMBDA i, j : offs[i].sev > offs[j].sev)
  IN  [k \in 1..Len(offs) |-> offs[bySev[k]]]
Rankings == [offs \in OffenderLists |-> RankOffenders(offs)]
-----------------------------------------------------------------------------
Exits(code) == phase' = "done" /\ rc' = code
Stay(s) == UNCHANGED <<path, world>> /\ UNCHANGED s

(***************************************************************************)
(* Which mode: --report asks for a single trace unless a verb that names a   *)
(* recording directory is there too.                                        *)
(***************************************************************************)
DirMode ==
  LET given == Range(line) IN
  /\ "--report" \in given => given \cap DirVerbs # {}
  /\ path \in {"dir", "prom"} \/ "--group" \in given

Dispatch ==
  /\ phase = "dispatch"
  /\ IF path \in {"help", "absent"} THEN Exits(IF path = "help" THEN 0 ELSE 2)
     ELSE phase' = (IF DirMode THEN "dir_args" ELSE "args") /\ rc' = rc
  /\ Stay(<<line, flags, folded, warned, out, said, prom, ranked>>)

\* the loop of the recording modes: malformed qualifiers end it, other flags are read past
DirArgument ==
  /\ phase = "dir_args" /\ line # <<>>
  /\ LET a == Head(line) IN
       IF a \in BadQualifiers THEN Exits(2) /\ flags' = flags
       ELSE flags' = flags \cup {a} /\ UNCHANGED <<phase, rc>>
  /\ line' = Tail(line)
  /\ Stay(<<folded, warned, out, said, prom, ranked>>)

\* the golden verb first, then the digest, then the localization, else population
DirVerb ==
  /\ phase = "dir_args" /\ line = <<>>
  /\ IF "--golden" \in flags
     THEN IF "--reduce?" \in flags THEN Exits(2) ELSE phase' = "golden" /\ rc' = rc
     ELSE IF "--digest" \in flags THEN phase' = "digest" /\ rc' = rc
     ELSE IF "--l2-by-cpu" \in flags
     THEN IF flags \cap (Qualifiers \cup {"--window"}) # {} THEN Exits(2)
          ELSE phase' = "l2" /\ rc' = rc
     ELSE phase' = "population" /\ rc' = rc
  /\ Stay(<<line, flags, folded, warned, out, said, prom, ranked>>)

\* run_l2_by_cpu() and run_population() are in Population, run_golden_dir() in Golden:
\* here only the codes they may return
OtherTool ==
  /\ phase \in {"l2", "population", "golden"} /\ ~folded
  /\ CASE phase = "golden" -> \E code \in 0..2 : Exits(code)
       [] phase = "population" /\ ~(flags \subseteq PopulationFlags) -> Exits(2)
       [] OTHER -> \E code \in 0..1 : Exits(code)
  /\ Stay(<<line, flags, folded, warned, out, said, prom, ranked>>)

(***************************************************************************)
(* Single-trace mode reads every flag or refuses the line.                   *)
(***************************************************************************)
Known == {"--redact", "--json", "--report", "--report?", "--golden", "--window"}
           \cup GoldenOnly \cup Qualifiers

TraceArgument ==
  /\ phase = "args" /\ line # <<>>
  /\ LET a == Head(line) IN
       IF a \in Known THEN flags' = flags \cup {a} /\ UNCHANGED <<phase, rc>>
       ELSE Exits(2) /\ flags' = flags
  /\ line' = Tail(line)
  /\ Stay(<<folded, warned, out, said, prom, ranked>>)

\* stray golden flags, golden with JSON, a report nobody has: all refused before the trace is read
CheckFlags ==
  /\ phase = "args" /\ line = <<>>
  /\ IF \/ "--golden" \notin flags /\ flags \cap GoldenOnly # {}
        \/ {"--golden", "--json"} \subseteq flags
        \/ "--report?" \in flags
     THEN Exits(2)
     ELSE phase' = "open" /\ rc' = rc
  /\ Stay(<<line, flags, folded, warned, out, said, prom, ranked>>)

OpenTrace ==
  /\ phase = "open"
  /\ IF path # "trace" \/ world.header # "ok" THEN Exits(1)
     ELSE phase' = "fold" /\ rc' = rc
  /\ Stay(<<line, flags, folded, warned, out, said, prom, ranked>>)

\* every record goes to the driver's own state and to each active report, then compute()
FoldAndCompute ==
  /\ phase = "fold"
  /\ folded' = TRUE
  /\ warned' = (world.stream # "ok")
  /\ phase' = IF "--golden" \in flags THEN "golden" ELSE IF "--json" \in flags THEN "json" ELSE "text"
  /\ Stay(<<line, flags, rc, out, said, prom, ranked>>)
-----------------------------------------------------------------------------
\* Mutant: lost events are mentioned only when the writer failed too.
LossSaidWithWriter ==
    IF world.dropSeen /\ world.writerErrors THEN {"loss", "writer"} ELSE {}

\* emit_capture_loss(), and the qualifiers of the analysis header
LossSaid == (IF world.dropSeen THEN {"loss"} ELSE {})
            \cup (IF world.dropSeen /\ world.writerErrors THEN {"writer"} ELSE {})
QualSaid == IF flags \cap Qualifiers # {} THEN {"qual"} ELSE {}

EmitJson ==
  /\ phase = "json"
  /\ out' = out \cup {"json"}
  /\ said' = said \cup (LossSaid \ {"writer"}) \cup QualSaid \cup {"conclusion"}
  /\ Exits(0)
  /\ Stay(<<line, flags, folded, warned, prom, ranked>>)

EmitText ==
  /\ phase = "text"
  /\ \E offs \in OffenderLists : ranked' = Rankings[offs]
  /\ out' = out \cup {"text"}
  /\ said' = said \cup LossSaid \cup {"conclusion"}
  /\ phase' = "prom"
  /\ Stay(<<line, flags, rc, folded, warned, prom>>)

WriteProm ==
  /\ phase = "prom"
  /\ \/ prom' = (LossSaid \ {"writer"}) \cup QualSaid \cup {"info"} /\ Exits(0)
     \/ Exits(1) /\ prom' = prom
  /\ Stay(<<line, flags, folded, warned, out, said, ranked>>)

(***************************************************************************)
(* run_digest(): the event stream is a sibling of the directory or inside    *)
(* it, or missing; its read status is not looked at; the hot CPU of the       *)
(* scrapes is ranked with the reports' offenders; a failed write is ignored.  *)
(***************************************************************************)
HaveEvents == world.sibling \/ world.inside

RunDigest ==
  /\ phase = "digest"
  /\ folded' = HaveEvents
  /\ \E offs \in OffenderLists : ranked' = Rankings[offs]
  /\ out' = out \cup {IF "--json" \in flags THEN "digest_json" ELSE "digest"}
  /\ said' = said \cup IF ~HaveEvents THEN {"noevents"}
                       ELSE {"conclusion"} \cup IF "--json" \in flags THEN LossSaid \ {"writer"} ELSE LossSaid
  /\ \/ "--json" \notin flags /\ HaveEvents /\ prom' = LossSaid \ {"writer"}
     \/ prom' = prom
  /\ Exits(0)
  /\ Stay(<<line, flags, warned>>)

GoldenTool ==
  /\ phase = "golden" /\ folded
  /\ \E code \in 0..2 : Exits(code)
  /\ Stay(<<line, flags, folded, warned, out, said, prom, ranked>>)

AnalyzeEnded == phase = "done" /\ UNCHANGED analyzeVars
-----------------------------------------------------------------------------
Worlds == [header : {"ok", "short"}, stream : {"ok", "damaged"}, dropSeen : BOOLEAN,
           writerErrors : BOOLEAN, sibling : BOOLEAN, inside : BOOLEAN]

AnalyzeInit ==
  /\ path \in {"dir", "prom", "trace", "help", "absent"}
  /\ line \in CommandLines /\ flags = {}
  /\ world \in Worlds
  /\ phase = "dispatch" /\ rc = NoCode
  /\ folded = FALSE /\ warned = FALSE /\ out = {} /\ said = {}
  /\ prom = {"none"} /\ ranked = <<>>

AnalyzeNext ==
  \/ Dispatch \/ DirArgument \/ DirVerb \/ OtherTool
  \/ TraceArgument \/ CheckFlags \/ OpenTrace \/ FoldAndCompute
  \/ EmitJson \/ EmitText \/ WriteProm \/ RunDigest \/ GoldenTool
  \/ AnalyzeEnded

AnalyzeSpec == AnalyzeInit /\ [][AnalyzeNext]_analyzeVars
-----------------------------------------------------------------------------
Published(s) == phase = "done" /\ s \in out

(***************************************************************************)
(* No surface shows numbers of a capture that dropped events without saying  *)
(* so: the text report, the JSON envelope, both digests and the .prom file.  *)
(* (A digest that folded the stream without the driver's own state, as an    *)
(* earlier version did, showed a lossy capture as whole.)                    *)
(***************************************************************************)
LossIsSaid ==
  phase = "done" /\ folded /\ world.dropSeen =>
    /\ out # {} => "loss" \in said
    /\ prom # {"none"} => "loss" \in prom

(***************************************************************************)
(* Ranking: severity leads, and within one severity an offender never stands *)
(* before another of its own metric with a greater value.                    *)
(***************************************************************************)
RankingIsFair ==
  \A i, j \in 1..Len(ranked) : i < j =>
    /\ ranked[i].sev >= ranked[j].sev
    /\ ranked[i].sev = ranked[j].sev /\ ranked[i].metric = ranked[j].metric
         => ranked[i].value >= ranked[j].value

\* three segments with a hole, read from the sidecar in any order
Sidecars ==
  LET heap == [start |-> 0, end |-> 2, exec |-> FALSE, name |-> "heap"]
      text == [start |-> 2, end |-> 3, exec |-> TRUE, name |-> "text"]
      data == [start |-> 4, end |-> 6, exec |-> FALSE, name |-> "data"]
  IN  {<<heap, text, data>>, <<data, heap, text>>}

(***************************************************************************)
(* An address is named by the segment it lies in, and by no other: the hole  *)
(* between two segments and the end of the last name nothing, and only code   *)
(* names a return address.  (The sidecars are loaded when the trace opens.)  *)
(***************************************************************************)
AddressesResolve ==
  phase = "fold" => \A side \in Sidecars, addr \in Addresses :
    LET segs == LoadDir(side)
        within == {s \in Range(side) : s.start <= addr /\ addr < s.end} IN
    /\ Resolve(segs, addr) = IF within = {} THEN "none" ELSE (CHOOSE s \in within : TRUE).name
    /\ ResolveExec(segs, addr) \in {"none", "text"}

\* What a surface publishes carries its provenance, its order and its names truly.
LossIsStated == LossIsSaid /\ RankingIsFair /\ AddressesResolve

(***************************************************************************)
(* The comment at the header of the analysis file: "a filtered .prom must be *)
(* distinguishable from a whole-trace one".                                  *)
(***************************************************************************)
FilteredIsMarked ==
  prom # {"none"} /\ flags \cap Qualifiers # {} => "qual" \in prom

(***************************************************************************)
(* The comment at the JSON envelope: "Data-loss provenance: one field        *)
(* answers 'is this capture whole.'"                                         *)
(***************************************************************************)
OneFieldAnswers ==
  "json" \in out /\ world.dropSeen /\ world.writerErrors => "writer" \in said
=============================================================================
