----------------------------- MODULE ShapeTrace -----------------------------
(***************************************************************************)
(* What a report of src/src/tools/trace_analyze.cpp publishes.  Every       *)
(* report fills one slot (a class token, gauges, offenders) and each face    *)
(* of the program reads it: the text, the JSON envelope, the .prom file and  *)
(* the ranked list of offenders.  Here are the slot, the reports about the    *)
(* shape of a recording (summary, storm, fractal, locality, classmix,        *)
(* field-persist, iolat, matrix-profile) and what the scheduler reports of    *)
(* SchedReports hand to the ranked list.                                    *)
(*                                                                         *)
(* An offender is [kind, id, sev].  A class "" is a slot left empty.         *)
(*                                                                         *)
(* The module ends with the report driver of `montauk --analyze`: fold every  *)
(* record of a recording, in ring order (which is not quite time order),      *)
(* compute every report once, and render one face.                           *)
(***************************************************************************)
EXTENDS SchedReports

CONSTANTS Topology,       \* CPU -> <<l2, l3, socket>> of the cache_topology snapshot
          StormRate,      \* kStormReenqPerS
          HeldLong,       \* a strand this long is severe (100 ms)
          MinGates,       \* field-persist: gate fires of a recording that counts
          MinProfile,     \* matrix-profile: events below which there is none
          ProfileBins,    \* NBINS
          SlowIo,         \* iolat: a completion this slow is severe (1 s)
          Hurst(_),       \* dfa_hurst() against one half: "above", "below", "level"
          Distances(_)    \* sublimation_matrix_profile(): a distance per window

Result(class, gauges, offenders) ==
    [klass |-> class, gauges |-> gauges, offenders |-> offenders]

Field(s, Val(_)) == [i \in DOMAIN s |-> Val(s[i])]
Sum(s) == FoldLeft(LAMBDA a, b : a + b, 0, s)

\* the first n by falling value, as emit() and offenders() both cut their tables
Top(S, n, Val(_)) ==
    LET v == SortSeq(SetToSeq(S), LAMBDA a, b : Val(a) > Val(b))
    IN  {v[i] : i \in 1 .. Smaller(n, Len(v))}

----------------------------------------------------------------------------
(* summary: every record counts in the total; a whole record of a known     *)
(* type in its row; a row without records is not shown.                     *)

Lifecycle == {"fork", "exec", "exit", "comm"}
Known == {"sched", "io", "kstrand", "provider"} \cup Lifecycle

SummaryKey(e) == IF e.type \in Known THEN <<e.type, e.op>> ELSE <<"unknown", e.type>>
InRow(e) == e.type \in Lifecycle \/ e.type \notin Known \/ e.whole
Rows(log) ==
    LET es == SelectSeq(log, InRow)
    IN  [k \in {SummaryKey(es[i]) : i \in DOMAIN es} |->
            CountWhere(es, LAMBDA e : SummaryKey(e) = k)]

Dated(log) == {i \in DOMAIN log : /\ log[i].type \in Known \ Lifecycle /\ log[i].whole
                                  /\ log[i].ts # 0}
SummarySpan(log) ==
    LET ts == {log[i].ts : i \in Dated(log)}
    IN  IF ts = {} THEN 0 ELSE Max(ts) - Min(ts)

Summary(log) ==
    Result(IF Rows(log) = EmptyMap THEN "EMPTY" ELSE "EVENTS",
           {<<k, Rows(log)[k]>> : k \in DOMAIN Rows(log)}
           \cup (IF SummarySpan(log) = 0 THEN {}
                 ELSE {<<<<"rate", "PICK">>, Len(Ops(log, {"PICK"}))>>}), {})

----------------------------------------------------------------------------
(* storm: the samples of the sched_ext kick counters.                       *)

Samples(log) == SelectSeq(log, LAMBDA e : e.type = "storm")
ReenqRate(s) == IF s.ms = 0 THEN 0 ELSE s.reenq \div s.ms
\* Mutant: an interval at exactly the threshold is no storm.
StormIntervalsAbove(log) == CountWhere(Samples(log), LAMBDA s : ReenqRate(s) > StormRate)

StormIntervals(log) == CountWhere(Samples(log), LAMBDA s : ReenqRate(s) >= StormRate)
StormSilent(log) == Samples(log) = <<>> \/ Sum(Field(Samples(log), LAMBDA s : s.ms)) = 0
PeakReenq(log) == Max({0} \cup {ReenqRate(Samples(log)[i]) : i \in DOMAIN Samples(log)})

\* the preempt kicks are at least half of the re-enqueues
RealIpi(log) ==
    LET reenq == Sum(Field(Samples(log), LAMBDA s : s.reenq))
        kicks == Sum(Field(Samples(log), LAMBDA s : s.preempt))
    IN  reenq # 0 /\ 2 * kicks >= reenq

Storm(log) ==
    IF StormSilent(log) THEN Result("NONE", {<<"captured", 0>>}, {})
    ELSE Result(IF StormIntervals(log) = 0 THEN "CLEAN"
                ELSE IF RealIpi(log) THEN "REAL-IPI-STORM" ELSE "IDLE-REENQUEUE-CHURN",
                {<<"captured", 1>>, <<"peak", PeakReenq(log)>>},
                IF PeakReenq(log) < StormRate THEN {}
                ELSE {[kind |-> "scx-storm", id |-> 0,
                       sev |-> IF PeakReenq(log) > 5 * StormRate THEN 2 ELSE 1]})

----------------------------------------------------------------------------
(* bin_rate_series(), fractal and matrix-profile.                           *)

\* events per bin of width w from t0; the tail is clamped into the last bin
BinRates(ts, t0, w, n) ==
    LET bin(t) == Smaller(n, (t - t0) \div w + 1)
    IN  [b \in 1 .. n |-> CountWhere(ts, LAMBDA t : t >= t0 /\ bin(t) = b)]

Times(es) == Field(es, LAMBDA e : e.ts)
Dispatches(log) == Times(Ops(log, {"WAKE2RUN"}))
Crossings(log) == Times(SelectSeq(Ops(log, {"WAKE2RUN"}), LAMBDA e : e.sub # 0))

Span(ts) == Max(Range(ts)) - Min(Range(ts))

\* one bin per unit of time here: span / w + 1 bins cover the last event.  The
\* avalanche tail and the decades of scale (a severity) are numerics left out
FractalBins(log, ts) ==
    BinRates(ts, Min(Range(Dispatches(log))), 1, Span(Dispatches(log)) + 1)
Series(log) == <<FractalBins(log, Dispatches(log)), FractalBins(log, Crossings(log))>>

Fractal(log) ==
    CASE Dispatches(log) = <<>>      -> Result("NO-SCHED", {}, {})
      [] Span(Dispatches(log)) = 0   -> Result("ZERO-DURATION", {}, {})
      [] OTHER ->
           LET shape(i) == Hurst(Series(log)[i])
               some(s) == \E i \in 1 .. 2 : shape(i) = s
           IN  Result(CASE some("above") -> "PERSISTENT"
                        [] some("below") -> "ANTI-PERSISTENT"
                        [] OTHER         -> "UNCORRELATED",
                      {<<"bins", Len(Series(log)[1])>>},
                      {[kind |-> "hurst", id |-> i, sev |-> 0] :
                          i \in {j \in 1 .. 2 : shape(j) # "level"}})

\* fewer events than two per bin, or all at one instant: no profile
ProfileSeries(log) ==
    LET ts == Times(SelectSeq(log, LAMBDA e : e.type = "sched"))
    IN  IF Len(ts) < MinProfile \/ Span(ts) = 0 THEN <<>>
        ELSE BinRates(ts, Min(Range(ts)), Larger(1, Span(ts) \div ProfileBins), ProfileBins)

Discord(mp) ==
    LET worst == Max(Range(mp))
        atLeast(num, den) == Sum(mp) > 0 /\ den * worst * Len(mp) >= num * Sum(mp)
    IN  Result(IF atLeast(3, 1) THEN "DISCORD-STRONG"
               ELSE IF atLeast(3, 2) THEN "DISCORD" ELSE "UNIFORM",
               {<<"discord", worst>>},
               IF ~atLeast(3, 2) THEN {}
               ELSE {[kind |-> "discord", id |-> worst,
                      sev |-> IF atLeast(3, 1) THEN 2 ELSE 1]})
MatrixProfile(log) ==
    IF ProfileSeries(log) = <<>> THEN Result("NO-PROFILE", {}, {})
    ELSE Discord(Distances(ProfileSeries(log)))

----------------------------------------------------------------------------
(* locality: how far each migration went, and whether a steal or a           *)
(* placement caused it.                                                     *)

Tier(a, b) ==
    IF {a, b} \subseteq DOMAIN Topology
    THEN Min({4} \cup {l \in 1 .. 3 : Topology[a][l] = Topology[b][l]}) - 1
    ELSE -1

\* a snapshot counts for the migrations after it in the stream
LocalityFold(r, e) ==
    CASE e.type = "provider" -> [r EXCEPT !.topo = TRUE]
      [] e.op = "PICK"       -> [r EXCEPT !.lane = Put(@, e.pid, e.sub)]
      [] e.op = "WAKE2RUN" /\ e.last >= 0 /\ e.last # e.cpu ->
           LET far == IF r.topo THEN Tier(e.last, e.cpu) ELSE -1
               steal == At(r.lane, e.pid, 0) > 0
               before == At(r.lastMig, e.pid, e.ts)
           IN  [r EXCEPT !.moves = @ + 1,
                         !.tiers = Bump(@, far),
                         !.steals = @ + (IF steal THEN 1 ELSE 0),
                         !.gaps = IF e.ts > before THEN Append(@, e.ts - before) ELSE @,
                         !.lastMig = Put(@, e.pid, e.ts)]
      [] OTHER -> r

LocalityOf(log) ==
    FoldLeft(LocalityFold,
             [topo |-> FALSE, lane |-> EmptyMap, moves |-> 0, tiers |-> EmptyMap,
              steals |-> 0, gaps |-> <<>>, lastMig |-> EmptyMap],
             SelectSeq(log, LAMBDA e : e.type \in {"sched", "provider"} /\ e.whole))

\* density never rises with distance, from the first tier that has any
Decays(n) ==
    LET used == {t \in 0 .. 3 : n[t] > 0}
    IN  \A t \in Min(used) .. 2 : n[t + 1] <= n[t]

Locality(log) ==
    LET r == LocalityOf(log)
        n == [t \in 0 .. 3 |-> At(r.tiers, t, 0)]
        placed == n[0] + n[1] + n[2] + n[3]
    IN  IF ~r.topo THEN Result("NO-TOPOLOGY", {}, {})
        ELSE IF placed = 0 THEN Result("NONE", {}, {})
        ELSE Result(IF ~Decays(n) THEN "SCATTERED"
                    ELSE IF 10 * (n[0] + n[1]) >= 9 * placed THEN "CACHE-LOCAL" ELSE "SPREAD",
                    {<<"tier", t, n[t]>> : t \in 0 .. 3}, {})

----------------------------------------------------------------------------
(* classmix, field-persist and iolat.                                       *)

ClassMix(log) ==
    Result(IF Ops(log, {"ENQUEUE"}) = <<>> THEN "NO-ENQUEUE" ELSE "CLASS-MIX", {}, {})

\* the gate fires in time order: ring order is not
Gates(log) == ByTs(Ops(log, {"FIELD_GATE"}))
Signatures(log) == {Gates(log)[i].score : i \in DOMAIN Gates(log)}
Dwell(log, sig) ==
    LET g == Gates(log)
    IN  SumOf({i \in 1 .. Len(g) - 1 : g[i].score = sig}, LAMBDA i : g[i + 1].ts - g[i].ts)

\* compute() composes a class for the empty stream only
FieldPersist(log) ==
    IF Gates(log) = <<>> THEN Result("NO-FIELD-GATE", {}, {})
    ELSE Result("",
                {<<"signatures", Cardinality(Signatures(log))>>,
                 <<"rederivations", CountWhere(Gates(log), LAMBDA g : g.sub # 0)>>,
                 <<"dwell", Max({Dwell(log, s) : s \in Signatures(log)})>>},
                IF Cardinality(Signatures(log)) <= 1 /\ Len(Gates(log)) >= MinGates
                THEN {[kind |-> "field-latched", id |-> 0, sev |-> 2]} ELSE {})

\* what emit() says instead
FieldPersistText(log) ==
    IF Gates(log) = <<>> THEN "NO-FIELD-GATE"
    ELSE IF Cardinality(Signatures(log)) <= 1 THEN "LATCHED" ELSE "LIVE"

\* calls that were timed, by system call; the five slowest of each are offenders
Timed(log) == SelectSeq(log, LAMBDA e : e.type = "io" /\ e.whole /\ e.run # 0)
Iolat(log) ==
    LET calls == {[at |-> i, nr |-> Timed(log)[i].op, run |-> Timed(log)[i].run,
                   tid |-> Timed(log)[i].pid] : i \in DOMAIN Timed(log)}
        of(nr) == {c \in calls : c.nr = nr}
        slow == UNION {Top(of(c.nr), 5, LAMBDA x : x.run) : c \in calls}
    IN  IF calls = {} THEN Result("NO-IO", {}, {})
        ELSE Result("", {<<c.nr, Cardinality(of(c.nr))>> : c \in calls},
                    {[kind |-> c.nr, id |-> c.tid, sev |-> IF c.run >= SlowIo THEN 2
                             ELSE IF 10 * c.run >= SlowIo THEN 1 ELSE 0] : c \in slow})

----------------------------------------------------------------------------
(* What the scheduler reports hand to the ranked list.                      *)

\* dispatch-stall: the task its CPU took most often while a wakee waited, read
\* from the holder ledger (on a tie either one), and who held a CPU throughout
TookOver(log, w, t) ==
    CountWhere(Own(log, w.cpu), LAMBDA p : w.wake <= p.ts /\ p.ts < w.ran /\ p.pid = t)
TopPicked(log, w) ==
    LET tids == {p.pid : p \in Range(Own(log, w.cpu))} \ {w.pid, 0}
    IN  {t \in tids : /\ TookOver(log, w, t) > 0
                      /\ \A u \in tids : TookOver(log, w, u) <= TookOver(log, w, t)}
Blamed(log, w) ==
    IF ~Preempted(log, w)
    THEN [t \in TopPicked(log, w) |-> TookOver(log, w, t)]
    ELSE IF HeldThrough(log, w)
    THEN [t \in Dominant(log, w.cpu, w.wake, w.ran) \ {0} |->
             HeldFor(Own(log, w.cpu), t, w.wake, w.ran)]
    ELSE EmptyMap

\* per task what is added up over a sequence of maps
Ledger(maps) ==
    [t \in UNION {DOMAIN m : m \in Range(maps)} |-> Sum(Field(maps, LAMBDA m : At(m, t, 0)))]
Heaviest(ledger, k, s) ==
    {[kind |-> k, id |-> t, sev |-> s] : t \in Top(DOMAIN ledger, 3, LAMBDA t : ledger[t])}

\* of the n floored wakes: those passed over, those with no other pick, and which
\* of these were held
StallRanked(log, n, passed, pre, held) ==
    Heaviest(Ledger(Field(passed, LAMBDA w : Blamed(log, w))), "order-starved",
             IF 2 * Len(pre) <= n THEN 2 ELSE 1)
    \cup Heaviest(Ledger(Field(held, LAMBDA w : Blamed(log, w))), "held-cpu",
                  IF 2 * Len(held) >= Len(pre) THEN 2 ELSE 1)
StallOffenders(log) ==
    StallRanked(log, Len(Floored(log)),
                SelectSeq(Floored(log), LAMBDA w : ~Preempted(log, w)),
                SelectSeq(Floored(log), LAMBDA w : Preempted(log, w)),
                SelectSeq(Floored(log), LAMBDA w : HeldThrough(log, w)))

\* kstrand: the kernel threads with a held strand, at their worst strand of all
StrandsOf(log, name) == SelectSeq(Strands(log), LAMBDA e : e.comm = name)
KStrandOffenders(log) ==
    LET names == {Strands(log)[i].comm : i \in DOMAIN Strands(log)}
        held(n) == CountWhere(StrandsOf(log, n), LAMBDA e : ~StrandDark(log, e))
        worst(n) == Max(Range(Field(StrandsOf(log, n), LAMBDA e : e.run)))
    IN  {[kind |-> "kthread-strand", id |-> n, sev |-> IF worst(n) >= HeldLong THEN 2 ELSE 1] :
            n \in {m \in names : held(m) > 0}}

\* wakers: the hot ones, when the tail they inherit is clearly the longer one
HotRanked(log, hot, mp, wp) ==
    IF 2 * mp <= 3 * wp THEN {}
    ELSE {[kind |-> "hot-waker", id |-> t, sev |-> IF mp > 4 * wp THEN 2 ELSE 1] :
             t \in Top(hot, 3, LAMBDA t : WakesBy(log, t))}
WakersRanked(log, hot) == HotRanked(log, hot, W2rTail(log, hot), RestTail(log, hot))
WakersOffenders(log) == WakersRanked(log, HotWakers(log))

\* seat: the eight tasks scheduled in most often per wake, above one and a half
SeatRatio2(log, t) == (2 * StintsOf(log, t)) \div Larger(1, RunsOfWakes(log, t))
SeatOffenders(log) ==
    LET ins == Ops(log, {"SWITCH_IN"})
        churn == {t \in {ins[i].pid : i \in DOMAIN ins} :
                     /\ StintsOf(log, t) >= MinStints
                     /\ 2 * StintsOf(log, t) > 3 * Larger(1, RunsOfWakes(log, t))}
        over(t, k) == StintsOf(log, t) > k * Larger(1, RunsOfWakes(log, t))
    IN  {[kind |-> "self-preempt", id |-> t,
          sev |-> IF over(t, 4) THEN 2 ELSE IF over(t, 2) THEN 1 ELSE 0] :
            t \in Top(churn, 8, LAMBDA t : SeatRatio2(log, t))}

----------------------------------------------------------------------------
(* The faces.                                                               *)

\* compute() of every report, in its slot
Computed(log) ==
    [summary |-> Summary(log), storm |-> Storm(log), fractal |-> Fractal(log),
     profile |-> MatrixProfile(log), locality |-> Locality(log), classmix |-> ClassMix(log),
     gates |-> FieldPersist(log), iolat |-> Iolat(log),
     stall |-> Result(StallClass(log), {}, StallOffenders(log)),
     kstrand |-> Result(KStrandClass(log), {}, KStrandOffenders(log)),
     wakers |-> Result(WakersClass(log), {}, WakersOffenders(log)),
     seat |-> Result(SeatClass(log), {}, SeatOffenders(log)),
     slice |-> Result(SliceClass(log), {}, {}), service |-> Result(ServiceClass(log), {}, {})]

\* json_conclusion(): the class only if set.  emit() prints the stored one, but
\* two reports compose theirs as they print
Said(face, name, res, log) ==
    IF face = "text" /\ name = "gates" THEN FieldPersistText(log)
    ELSE IF face = "text" /\ name = "iolat" /\ res[name].klass = "" THEN "COMPLETIONS"
    ELSE IF face = "text" /\ res[name].klass = "" THEN "report bug"
    ELSE res[name].klass

----------------------------------------------------------------------------
CONSTANTS Alphabets,    \* kind of recording -> the records it may hold
          MaxRecords,   \* kind of recording -> how many of them
          KstrandNames  \* the per-CPU kernel threads

VARIABLES recording,    \* the kind of recording
          tape,         \* the records read so far
          slots,        \* the results, <<>> before compute()
          faceOf        \* the face rendered, "" before
shapeVars == <<recording, tape, slots, faceOf>>

ShapeInit ==
    /\ recording \in DOMAIN Alphabets
    /\ tape = <<>> /\ slots = <<>> /\ faceOf = ""

FoldRecord ==
    /\ slots = <<>> /\ Len(tape) < MaxRecords[recording]
    /\ \E e \in Alphabets[recording] : tape' = Append(tape, e)
    /\ UNCHANGED <<recording, slots, faceOf>>

ComputeAll ==
    /\ slots = <<>> /\ slots' = Computed(tape)
    /\ UNCHANGED <<recording, tape, faceOf>>

Render ==
    /\ slots # <<>> /\ faceOf = ""
    /\ faceOf' \in {"text", "json"}
    /\ UNCHANGED <<recording, tape, slots>>

Rendered == faceOf # "" /\ UNCHANGED shapeVars

ShapeNext == FoldRecord \/ ComputeAll \/ Render \/ Rendered
ShapeSpec == ShapeInit /\ [][ShapeNext]_shapeVars
----------------------------------------------------------------------------
(***************************************************************************)
(* "so they cannot disagree": a report's class and the offenders it ranks     *)
(* tell the same story, though each is derived by a threshold of its own.     *)
(***************************************************************************)
ClassAndOffendersAgree ==
    slots # <<>> =>
      LET blames(n) == slots[n].offenders # {}
          class(n) == slots[n].klass
      IN  /\ blames("storm") <=> class("storm") \in {"REAL-IPI-STORM", "IDLE-REENQUEUE-CHURN"}
          /\ <<"captured", 0>> \in slots.storm.gauges <=> class("storm") = "NONE"
          /\ blames("seat") <=> class("seat") = "SELF-PREEMPTING"
          /\ blames("profile") <=> class("profile") \in {"DISCORD", "DISCORD-STRONG"}
          /\ blames("fractal") <=> class("fractal") \in {"PERSISTENT", "ANTI-PERSISTENT"}
          /\ class("wakers") = "MESSENGER-CLIFF" => blames("wakers")
          /\ class("kstrand") = "STRAND-HELD" => blames("kstrand")
          /\ class("stall") = "NONE" => ~blames("stall")

(***************************************************************************)
(* Nothing is lost or counted twice on the way from the records to the       *)
(* figures, in whatever order the ring delivered them: the rows of the       *)
(* summary are the whole records, the bins hold every event, the tiers every *)
(* migration, and the dwell of the signatures divides the time of the gates.  *)
(***************************************************************************)
FiguresAddUp ==
    slots # <<>> =>
      LET rows == Rows(tape)
          r == LocalityOf(tape)
          gate == {e.ts : e \in Range(Ops(tape, {"FIELD_GATE"}))}
      IN  /\ SumOf(DOMAIN rows, LAMBDA k : rows[k]) = Len(SelectSeq(tape, InRow))
          /\ slots.fractal.gauges # {} =>
                /\ Sum(Series(tape)[1]) = Len(Ops(tape, {"WAKE2RUN"}))
                /\ Sum(Series(tape)[2]) = Len(Crossings(tape))
          /\ ProfileSeries(tape) # <<>> =>
                Sum(ProfileSeries(tape)) = CountWhere(tape, LAMBDA e : e.type = "sched")
          /\ SumOf(DOMAIN r.tiers, LAMBDA t : r.tiers[t]) = Len(Migrations(tape))
          /\ gate # {} =>
                SumOf(Signatures(tape), LAMBDA s : Dwell(tape, s)) = Max(gate) - Min(gate)

\* The three things a report publishes, its class, its offenders and its figures,
\* describe the same records.
ReportIsCoherent == ClassAndOffendersAgree /\ FiguresAddUp

(***************************************************************************)
(* ReportResult::verdict: "Composed in compute() and printed by emit(); never *)
(* composed inside emit()".  What the text concludes, the JSON envelope says. *)
(***************************************************************************)
ConclusionIsComputed ==
    slots # <<>> => \A n \in DOMAIN slots :
        Said("text", n, slots, tape) # "report bug" =>
            Said("json", n, slots, tape) = Said("text", n, slots, tape)

(***************************************************************************)
(* KStrandReport::offenders(): "sev: 100ms+ held strand wedges               *)
(* fsync/writeback (high)".  A thread ranked high has had such a strand.      *)
(***************************************************************************)
HighIsHeldLong ==
    slots # <<>> => \A o \in slots.kstrand.offenders :
        o.sev = 2 => \E e \in Range(StrandsOf(tape, o.id)) : e.run >= HeldLong /\ ~StrandDark(tape, e)

=============================================================================
