---------------------------- MODULE SchedReports ----------------------------
(***************************************************************************)
(* The scheduler reports of src/src/tools/trace_analyze.cpp.  Each is a    *)
(* fold over the events of the trace followed by compute(); since most of  *)
(* them keep every event they look at, a report is written here as an      *)
(* operator of the sequence of events, in ring order.  Shares are compared *)
(* as the code compares percentages, without dividing.  A trace is an      *)
(* unqualified one (qual_match() accepts every row).                       *)
(***************************************************************************)
EXTENDS Maps, SequencesExt

CONSTANTS FastNs,          \* kFastNs: below it a wake was fast
          TickFloor,       \* kTickNs, kTickFloorNs: at or above, floored
          ColdIdle,        \* kColdIdleNs
          StrandNs,        \* kStrandNs of work-conservation
          CensoredStrand,  \* kCensoredStrandNs
          SliceMax,        \* kStrandNs of slice and service: longer is idle
          TickFresh,       \* 5 ms: a tick stopped this recently is fresh
          MinStints,       \* seat ranks a pid with this many stints
          MinHot           \* wakers: least count of a hot waker

\* An event; `last` is last_cpu, or the waker in a WAKEUP (secondary_pid).
NoSched == [type |-> "sched", op |-> "", cpu |-> 0, pid |-> 0, last |-> -1,
            sub |-> 0, score |-> 0, run |-> 0, ts |-> 0, comm |-> ""]

Ops(log, ops) == SelectSeq(log, LAMBDA e : e.type = "sched" /\ e.op \in ops)
OnCpu(es, c) == SelectSeq(es, LAMBDA e : e.cpu = c)
CpusOf(es) == {es[i].cpu : i \in DOMAIN es}
ByTs(es) == SortSeq(es, LAMBDA a, b : a.ts < b.ts)
LastTs(log) == LET ss == SelectSeq(log, LAMBDA e : e.type = "sched")
               IN  FoldLeft(LAMBDA m, e : Larger(m, e.ts), 0, ss)
SumOf(S, Val(_)) == FoldSet(LAMBDA x, n : n + Val(x), 0, S)

----------------------------------------------------------------------------
(* sched: the modes of wake-to-run latency, and wakes onto a cold core.    *)

SchedInit == [idle |-> EmptyMap, lat |-> <<>>, cross |-> 0, cold |-> <<>>]

SchedFold(r, e) ==
    CASE e.op = "CPU_IDLE" ->
             [r EXCEPT !.idle = IF e.sub = 1 THEN Put(@, e.cpu, e.ts)
                                ELSE Erase(@, {e.cpu})]
      [] e.op = "WAKE2RUN" ->
             LET slept == e.ts - At(r.idle, e.cpu, e.ts)
             IN  [r EXCEPT !.lat = Append(@, e.run),
                           !.cross = @ + (IF e.sub # 0 THEN 1 ELSE 0),
                           !.cold = IF slept > 0 /\ slept >= ColdIdle
                                    THEN Append(@, [lat |-> e.run,
                                                    idle |-> slept,
                                                    cpu |-> e.cpu,
                                                    ts |-> e.ts])
                                    ELSE @]
      [] OTHER -> r

Sched(log) == FoldLeft(SchedFold, SchedInit,
                       SelectSeq(log, LAMBDA e : e.type = "sched"))

SchedClass(log) ==
    LET lat  == Sched(log).lat
        fast == CountWhere(lat, LAMBDA v : v < FastNs)
        tick == CountWhere(lat, LAMBDA v : v >= FastNs /\ v >= TickFloor)
    IN  CASE lat = <<>> -> "NO-WAKE2RUN"
          [] 2 * tick >= Len(lat) -> "TICK-FLOORED"
          [] 10 * fast >= 9 * Len(lat) -> "FAST"
          [] OTHER -> "MIXED"

----------------------------------------------------------------------------
(* work-conservation: long gaps between the picks of a CPU, by whether the *)
(* task that ended the gap came from another CPU.                          *)

WorkInit == [pick |-> EmptyMap, cpuOf |-> EmptyMap, strands |-> <<>>]

WorkFold(r, e) ==
    LET gap == e.ts - At(r.pick, e.cpu, e.ts)
        close == [cpu |-> e.cpu, from |-> e.ts - gap, to |-> e.ts,
                  pulled |-> At(r.cpuOf, e.pid, e.cpu) # e.cpu]
    IN  [pick |-> Put(r.pick, e.cpu, e.ts),
         cpuOf |-> Put(r.cpuOf, e.pid, e.cpu),
         strands |-> IF gap > 0 /\ gap >= StrandNs
                     THEN Append(r.strands, close) ELSE r.strands]

WorkStrands(log) == FoldLeft(WorkFold, WorkInit, Ops(log, {"PICK"})).strands

WorkClass(log) ==
    LET s == WorkStrands(log)
        pulled == CountWhere(s, LAMBDA x : x.pulled)
    IN  CASE s = <<>> -> "CONSERVING"
          [] 100 * (Len(s) - pulled) >= 66 * Len(s) -> "LOCAL-REWAKE-GAP"
          [] 100 * pulled >= 66 * Len(s) -> "PULL-CLOSED"
          [] OTHER -> "MIXED-CLOSE"

----------------------------------------------------------------------------
(* The tick-floored wakes, and placement-race: was a better CPU idle when  *)
(* the task became runnable?                                               *)

Floored(log) ==
    LET ws == SelectSeq(Ops(log, {"WAKE2RUN"}), LAMBDA e : e.run >= TickFloor)
    IN  [i \in DOMAIN ws |->
            [wake |-> IF ws[i].ts > ws[i].run THEN ws[i].ts - ws[i].run ELSE 0,
             ran |-> ws[i].ts, cpu |-> ws[i].cpu, pid |-> ws[i].pid]]

\* The flag of the last boundary at or before t; none: busy.
idle_at(log, c, t) ==
    LET ev == SelectSeq(ByTs(OnCpu(Ops(log, {"CPU_IDLE"}), c)),
                        LAMBDA e : e.ts <= t)
    IN  ev # <<>> /\ ev[Len(ev)].sub = 1

MaxCpu(log) == LET ss == SelectSeq(log, LAMBDA e : e.type = "sched")
               IN  FoldLeft(LAMBDA m, e : Larger(m, e.cpu), 0, ss)

\* Is the floored wake w a placement miss?
Missed(log, w) ==
    \E c \in 0 .. MaxCpu(log) : c # w.cpu /\ idle_at(log, c, w.wake)

\* n floored wakes, miss of them placement misses
PlacementVerdict(n, miss) ==
    CASE n = 0 -> "NONE"
      [] 100 * miss >= 66 * n -> "PLACEMENT-MISS"
      [] 100 * (n - miss) >= 66 * n -> "SATURATED"
      [] OTHER -> "MIXED"

PlacementClass(log) ==
    IF Ops(log, {"CPU_IDLE"}) = <<>> THEN "NO-IDLE-STREAM"
    ELSE PlacementVerdict(Len(Floored(log)),
                          CountWhere(Floored(log), LAMBDA w : Missed(log, w)))

----------------------------------------------------------------------------
(* The shared substrate: idle intervals, the holder ledger, the picks.     *)

IdleInit == [iv |-> {}, open |-> EmptyMap]

\* CpuIdleIntervals::fold(): a second enter restarts the interval, a leave
\* with none open, or at the instant it was opened, is ignored.
IdleFold(r, e) ==
    IF e.sub = 1 THEN [r EXCEPT !.open = Put(@, e.cpu, e.ts)]
    ELSE IF At(r.open, e.cpu, e.ts) < e.ts
    THEN [iv |-> r.iv \cup {[cpu |-> e.cpu, lo |-> r.open[e.cpu], hi |-> e.ts]},
          open |-> Erase(r.open, {e.cpu})]
    ELSE r

IdleOf(log) == FoldLeft(IdleFold, IdleInit, Ops(log, {"CPU_IDLE"}))

\* CpuIdleIntervals::overlap(): how much of [a, b) the CPU was idle.
Shared(lo, hi, a, b) == Larger(0, Smaller(hi, b) - Larger(lo, a))
overlap(log, c, a, b) ==
    SumOf({v \in IdleOf(log).iv : v.cpu = c}, LAMBDA v : Shared(v.lo, v.hi, a, b))

\* CpuHolderLedger: who took the CPU when.
Own(log, c) == ByTs(OnCpu(Ops(log, {"SWITCH_IN", "PICK"}), c))

HeldFor(own, t, a, b) ==
    SumOf({i \in DOMAIN own : own[i].pid = t},
          LAMBDA i : Shared(own[i].ts,
                            IF i < Len(own) THEN own[i + 1].ts ELSE b, a, b))

\* The tasks dominant() may name (it returns one of them; none: tid 0).
Dominant(log, c, a, b) ==
    LET own == Own(log, c)
        tids == {own[i].pid : i \in DOMAIN own}
    IN  {t \in tids : /\ HeldFor(own, t, a, b) > 0
                      /\ \A u \in tids : HeldFor(own, u, a, b) <= HeldFor(own, t, a, b)}

\* Names: an incidental source fills a gap, a report of a rename overwrites.
NameFold(r, e) ==
    CASE e.type \in {"exec", "comm_change", "thread_name"} -> Put(r, e.pid, e.comm)
      [] e.type \in {"fork", "kstrand", "io", "waitstack"} ->
             IF e.pid \in DOMAIN r THEN r ELSE Put(r, e.pid, e.comm)
      [] OTHER -> r
NameOf(log) == FoldLeft(NameFold, EmptyMap, log)

\* CpuPickTimeline: the scheduler's own picks; without any, the switches.
Reconstructed(log) == Ops(log, {"PICK"}) = <<>> /\ Ops(log, {"SWITCH_IN"}) # <<>>
Picks(log, c) ==
    ByTs(OnCpu(Ops(log, IF Reconstructed(log) THEN {"SWITCH_IN"} ELSE {"PICK"}), c))

----------------------------------------------------------------------------
(* dispatch-stall: why a floored wake waited.                              *)

Class(score) == score \div 4

PassOvers(log, w) ==
    SelectSeq(Picks(log, w.cpu),
              LAMBDA p : w.wake <= p.ts /\ p.ts < w.ran /\ p.pid # w.pid)

\* The pick that served the wakee: the first of it within a tick of its run.
Served(log, w) ==
    SelectSeq(Picks(log, w.cpu),
              LAMBDA p : w.ran <= p.ts /\ p.ts <= w.ran + TickFloor /\ p.pid = w.pid)

\* A pass-over is legitimate if it outranks the wakee by class, or by age in
\* the same class; without a serving pick it is counted as legitimate.
Legit(log, w) ==
    LET sv == Served(log, w)
    IN  SelectSeq(PassOvers(log, w),
                  LAMBDA p : \/ sv = <<>>
                             \/ Class(p.score) > Class(sv[1].score)
                             \/ /\ Class(p.score) = Class(sv[1].score)
                                /\ p.score >= sv[1].score)

Preempted(log, w) == PassOvers(log, w) = <<>>
HaveIdle(log) == IdleOf(log).iv # {}
Dark(log, w) == /\ Preempted(log, w) /\ HaveIdle(log) /\ w.ran > w.wake
                /\ 2 * overlap(log, w.cpu, w.wake, w.ran) >= w.ran - w.wake
HeldThrough(log, w) == Preempted(log, w) /\ HaveIdle(log) /\ ~Dark(log, w)

\* CPUs dark when the trace ended, long enough to be a strand.
Censored(log) ==
    LET open == IdleOf(log).open
    IN  {c \in DOMAIN open : LastTs(log) - open[c] >= CensoredStrand}

\* build_verdict(): the class it composes ...
build_verdict(n, pre) ==
    CASE n = 0 -> "NONE"
      [] 100 * pre >= 66 * n -> "PREEMPT-STARVED"
      [] 100 * (n - pre) >= 66 * n -> "ORDER-STARVED"
      [] OTHER -> "MIXED"

\* ... and the one compute() leaves behind: its last statement sets it again.
LeftBehind(n, pre) ==
    IF n = 0 THEN build_verdict(n, pre)
    ELSE IF pre >= n - pre THEN "PREEMPT-STARVED" ELSE "ORDER-STARVED"

PreemptedCount(log) == CountWhere(Floored(log), LAMBDA w : Preempted(log, w))
StallShape(log) == build_verdict(Len(Floored(log)), PreemptedCount(log))
StallClass(log) == LeftBehind(Len(Floored(log)), PreemptedCount(log))

----------------------------------------------------------------------------
(* kick-latency: each kick of a CPU against the next resched of it.        *)

Kicks(log, c) == ByTs(OnCpu(Ops(log, {"KICK_ISSUE"}), c))

Answered(log, c, i) ==
    LET ks == Kicks(log, c)
        bound == IF i < Len(ks) THEN ks[i + 1].ts ELSE LastTs(log)
        rs == OnCpu(Ops(log, {"RESCHED"}), c)
    IN  \E j \in DOMAIN rs : ks[i].ts <= rs[j].ts /\ rs[j].ts <= bound

\* The last evaluation of the tick before the kick stopped it, just now.
TickRaced(log, c, i) ==
    LET k == Kicks(log, c)[i]
        st == SelectSeq(ByTs(OnCpu(Ops(log, {"TICK_STOP"}), c)),
                        LAMBDA e : e.ts <= k.ts)
    IN  st # <<>> /\ k.ts - st[Len(st)].ts <= TickFresh /\ st[Len(st)].sub = 1

Unanswered(log) ==
    {p \in CpusOf(log) \X (1 .. Len(log)) :
        p[2] \in DOMAIN Kicks(log, p[1]) /\ ~Answered(log, p[1], p[2])}

KickClass(log) ==
    CASE Ops(log, {"KICK_ISSUE"}) = <<>> -> "NONE"
      [] Unanswered(log) = {} -> "ALL-ANSWERED"
      [] \E p \in Unanswered(log) : TickRaced(log, p[1], p[2]) ->
             "UNANSWERED-TICKSTOP-RACE"
      [] OTHER -> "UNANSWERED"

----------------------------------------------------------------------------
(* slice and service: the time between the picks of a CPU.                 *)

\* The slices of the picks of a CPU, by the task picked; a long gap is idle.
SlicesOn(log, c) ==
    LET v == Picks(log, c)
        long(i) == v[i + 1].ts - v[i].ts
    IN  {[cpu |-> c, pid |-> v[i].pid, at |-> v[i].ts, len |-> long(i)] :
            i \in {j \in 1 .. Len(v) - 1 : 0 < long(j) /\ long(j) < SliceMax}}
Slices(log) == UNION {SlicesOn(log, c) : c \in CpusOf(log)}

\* q_at(): the element at floor(n * num / den) of the sorted sample.
Quantile(S, num, den, Val(_)) ==
    LET v == SortSeq(SetToSeq(S), LAMBDA a, b : Val(a) < Val(b))
    IN  Val(v[Smaller(Len(v), (Len(v) * num) \div den + 1)])

\* compute() returns before compute_verdict() when there is no slice.
SliceVerdict(s) ==
    LET len(x) == x.len
    IN  IF s = {} THEN ""
        ELSE IF Quantile(s, 99, 100, len) >= 10 * Quantile(s, 1, 2, len)
        THEN "HEAVY-TAIL" ELSE "EVEN"
SliceClass(log) == SliceVerdict(Slices(log))

TimeIn(slices) == SumOf(slices, LAMBDA s : s.len)

\* Likewise: "NO-SERVICE" is behind the early return.
ServiceVerdict(slices) ==
    IF slices = {} THEN ""
    ELSE IF \E x \in slices :
               2 * TimeIn({s \in slices : s.pid = x.pid}) >= TimeIn(slices)
    THEN "SKEWED" ELSE "EVEN"
ServiceClass(log) == ServiceVerdict(Slices(log))

----------------------------------------------------------------------------
(* wakers, kstrand, locality, classmix and seat.                           *)

WakesBy(log, t) == CountWhere(Ops(log, {"WAKEUP"}), LAMBDA e : e.last = t)
HotWakers(log) ==
    LET by == {e.last : e \in {Ops(log, {"WAKEUP"})[i] :
                               i \in DOMAIN Ops(log, {"WAKEUP"})}} \ {-1}
        sum == SumOf(by, LAMBDA t : WakesBy(log, t))
    IN  {t \in by : /\ WakesBy(log, t) >= MinHot
                    /\ WakesBy(log, t) >= (8 * sum) \div Cardinality(by)}
W2rTail(log, ts) ==
    LET ws == Ops(log, {"WAKE2RUN"})
        s == {[i |-> i, v |-> ws[i].run] : i \in {j \in DOMAIN ws : ws[j].pid \in ts}}
    IN  IF s = {} THEN 0 ELSE Quantile(s, 99, 100, LAMBDA x : x.v)
\* the tails of the hot wakers and of the other tasks that ran
HotTail(log, hot) == W2rTail(log, hot)
RestTail(log, hot) == W2rTail(log, {e.pid : e \in ToSet(Ops(log, {"WAKE2RUN"}))} \ hot)
WakersVerdict(hot, tail, rest) ==
    CASE tail >= 2 * Larger(1, rest) /\ rest > 0 -> "MESSENGER-CLIFF"
      [] hot = {} -> "NO-HOT-WAKERS"
      [] OTHER -> "HOT-WAKERS"
WakersOf(log, hot) == WakersVerdict(hot, HotTail(log, hot), RestTail(log, hot))

WakersClass(log) ==
    IF \A e \in ToSet(Ops(log, {"WAKEUP"})) : e.last = -1 THEN "NO-WAKER-EDGES"
    ELSE WakersOf(log, HotWakers(log))

Strands(log) == SelectSeq(log, LAMBDA e : e.type = "kstrand")
StrandDark(log, e) ==
    2 * overlap(log, e.cpu, Larger(0, e.ts - e.run), e.ts) >= e.run
KStrandClass(log) ==
    LET s == Strands(log)
        dark == CountWhere(s, LAMBDA e : StrandDark(log, e))
    IN  CASE s = <<>> -> "NO-STRAND"
          [] Len(s) - dark > dark -> "STRAND-HELD"
          [] dark > 0 -> "STRAND-DARK"
          [] OTHER -> "STRAND"

Migrations(log) ==
    SelectSeq(Ops(log, {"WAKE2RUN"}), LAMBDA e : e.last >= 0 /\ e.last # e.cpu)

StintsOf(log, t) == CountWhere(Ops(log, {"SWITCH_IN"}), LAMBDA e : e.pid = t)
RunsOfWakes(log, t) == CountWhere(Ops(log, {"WAKE2RUN"}), LAMBDA e : e.pid = t)
SeatClass(log) ==
    LET ins == Ops(log, {"SWITCH_IN"})
        ranked == {t \in {ins[i].pid : i \in DOMAIN ins} :
                      StintsOf(log, t) >= MinStints}
    IN  CASE ranked = {} -> "NONE"
          [] \E t \in ranked :
                2 * StintsOf(log, t) > 3 * Larger(1, RunsOfWakes(log, t)) ->
                 "SELF-PREEMPTING"
          [] OTHER -> "SEATED"
=============================================================================
