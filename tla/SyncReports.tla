---------------------------- MODULE SyncReports ----------------------------
(***************************************************************************)
(* The synchronization reports of src/src/tools/trace_analyze.cpp: waits,  *)
(* spins, pairing, endstate, iowait, futex and keyedevt.  Each report is a *)
(* fold over the decoded events plus the analysis compute() runs over what *)
(* the fold has gathered.  A trace may end after any event, so the verdict *)
(* operators may be asked of every intermediate state.                     *)
(*                                                                         *)
(* Of an event the model keeps the fields the reports read.  An ntsync     *)
(* object is its number, which stands for its file descriptor and for its  *)
(* kernel pointer; DevFd is the descriptor of /dev/ntsync, the one a wait  *)
(* ioctl is issued on.                                                     *)
(***************************************************************************)
EXTENDS Maps, FiniteSetsExt

CONSTANTS SpinGap,       \* kSpinGapNs: a shorter gap continues a run
          SpinMinIters,  \* kSpinMinIters: waits a run needs to be reported
          PairRatio,     \* kPairingWaitSignalRatio
          PairMinWaits,  \* kPairingMinWaits
          ParkSlack,     \* kParkSlackNs and kSlackNs
          KilledStall,   \* kKilledStallNs
          SpinRetries,   \* FutexReport: 50 waits in a row make a spin ...
          SpinPace       \* ... when each took less than this (0.1 s)

ASSUME SyncAssumption ==
    /\ {SpinGap, SpinMinIters, PairRatio, PairMinWaits} \subseteq Nat \ {0}
    /\ {ParkSlack, KilledStall, SpinRetries, SpinPace} \subseteq Nat
    /\ ParkSlack < KilledStall

Entry == -999                 \* kWaitEntrySentinel: the call has not returned
Etimedout == -110             \* kEtimedout
DevFd == 0

NoEvent == [type |-> "", tid |-> 0, ts |-> 0, op |-> "", fd |-> 0,
            obj |-> 0, objs |-> <<>>, result |-> 0, nr |-> "", kind |-> ""]

----------------------------------------------------------------------------
(* The generic view of a wait and of a signal.                             *)

IsWaitOp(op) == op \in {"WAIT_ANY", "WAIT_ALL"}
IsSignalOp(op) == op \in {"EVENT_SET", "EVENT_RESET", "SEM_RELEASE",
                          "MUTEX_UNLOCK"}
IsWakeupOp(op) == op \in {"EVENT_SET", "EVENT_PULSE", "SEM_RELEASE",
                          "MUTEX_UNLOCK"}

IsSyncWait(e) ==
    \/ e.type = "ntsync" /\ IsWaitOp(e.op) /\ e.result # Entry
    \/ e.type = "io" /\ e.nr = "futex" /\ e.op = "FUTEX_WAIT"
IsSyncSignal(e) ==
    \/ e.type = "ntsync" /\ IsSignalOp(e.op)
    \/ e.type = "io" /\ e.nr = "futex" /\ e.op = "FUTEX_WAKE"
\* The opaque lock identity: the ioctl's descriptor, or the futex address.
SyncObj(e) == IF e.type = "ntsync" THEN e.fd ELSE e.obj

----------------------------------------------------------------------------
(* waits: completions per (thread, object) and the gaps between them.      *)

WaitsInit == EmptyMap

WaitsFold(aggs, e) ==
    LET k == <<e.tid, SyncObj(e)>>
        a == At(aggs, k, [count |-> 0, last |-> 0, gaps |-> <<>>])
    IN  IF ~IsSyncWait(e) THEN aggs
        ELSE Put(aggs, k,
                 [count |-> a.count + 1, last |-> e.ts,
                  gaps |-> IF a.last # 0 /\ e.ts > a.last
                           THEN Append(a.gaps, e.ts - a.last) ELSE a.gaps])

WaitsTotal(aggs) == MapThenSumSet(LAMBDA k : aggs[k].count, DOMAIN aggs)
WaitsVerdict(aggs) ==
    LET top == Max({aggs[k].count : k \in DOMAIN aggs})
    IN  IF DOMAIN aggs = {} THEN "NO-WAITS"
        ELSE IF 100 * top >= 50 * WaitsTotal(aggs)
        THEN "CONCENTRATED" ELSE "SPREAD"

----------------------------------------------------------------------------
(* spins: streaks of waits whose gaps stay below SpinGap.                  *)

NoRun == [last |-> 0, lastResult |-> 0, iters |-> 0, start |-> 0,
          succ |-> 0, timeo |-> 0, other |-> 0]
SpinsInit == [state |-> EmptyMap, runs |-> <<>>,
              waits |-> EmptyMap, signals |-> EmptyMap]

Tally(s, r) ==
    IF r >= 0 THEN [s EXCEPT !.succ = @ + 1]
    ELSE IF r = Etimedout THEN [s EXCEPT !.timeo = @ + 1]
    ELSE [s EXCEPT !.other = @ + 1]

\* finalize(): a long enough run is recorded; the counts start again.
RunOf(k, s) == [key |-> k, iters |-> s.iters, start |-> s.start,
                end |-> s.last, succ |-> s.succ, timeo |-> s.timeo,
                other |-> s.other]
Finalized(runs, k, s) ==
    IF s.iters >= SpinMinIters THEN Append(runs, RunOf(k, s)) ELSE runs
Cleared(s) == [s EXCEPT !.iters = 0, !.succ = 0, !.timeo = 0, !.other = 0]

\* Mutant: the wait that preceded the first repeat is not counted.
OpenedAtSecond(s) == IF s.iters # 0 THEN s ELSE [s EXCEPT !.start = s.last]

\* A run opens retroactively: the wait before is its first iteration.
Opened(s) ==
    IF s.iters # 0 THEN s
    ELSE Tally([s EXCEPT !.iters = 1, !.start = s.last], s.lastResult)

SpinsFold(st, e) ==
    LET k == <<e.tid, SyncObj(e)>>
        s == At(st.state, k, NoRun)
        near == s.last # 0 /\ e.ts > s.last /\ e.ts - s.last < SpinGap
        more == Tally([Opened(s) EXCEPT !.iters = @ + 1], e.result)
        next == IF near THEN more ELSE Cleared(s)
    IN  IF IsSyncSignal(e)
        THEN [st EXCEPT !.signals = Bump(@, SyncObj(e))]
        ELSE IF ~IsSyncWait(e) THEN st
        ELSE [st EXCEPT
                 !.waits = Bump(@, SyncObj(e)),
                 !.runs = IF near THEN @ ELSE Finalized(@, k, s),
                 !.state = Put(@, k, [next EXCEPT !.last = e.ts,
                                                  !.lastResult = e.result])]

\* compute() drains the runs still open: the runs of pair k, in order.
RunsOf(st, k) ==
    SelectSeq(st.runs, LAMBDA r : r.key = k)
        \o (IF st.state[k].iters >= SpinMinIters
            THEN <<RunOf(k, st.state[k])>> ELSE <<>>)
SpinRuns(st) ==
    UNION {{RunsOf(st, k)[i] : i \in DOMAIN RunsOf(st, k)} :
               k \in DOMAIN st.state}

RunClass(r) ==
    CASE r.succ >= r.timeo /\ r.succ >= r.other -> "instant-success"
      [] OTHER -> IF r.timeo >= r.other THEN "timeout" ELSE "error"
\* run_rate(q) > run_rate(r).  Every recorded run spans some time: it has at
\* least two waits and its timestamps grow, so the zero-span case is idle.
Faster(q, r) == q.iters * (r.end - r.start) > r.iters * (q.end - q.start)

\* The most frequent class; std::map order decides a tie.
SpinsVerdict(st) ==
    LET runs == SpinRuns(st)
        n(c) == Cardinality({r \in runs : RunClass(r) = c})
        most(c) == \A d \in {"error", "instant-success", "timeout"} :
                       n(c) >= n(d)
    IN  IF runs = {} THEN "NONE"
        ELSE IF most("error") THEN "ERROR-SPIN"
        ELSE IF most("instant-success") THEN "LIVELOCK"
        ELSE "STARVED-WAITER"

\* offenders(): the fastest run of each pair, unless a partner wakes it.
Partnered(st, r) ==
    LET obj == r.key[2]
        sigs == At(st.signals, obj, 0)
    IN  sigs > 0 /\ At(st.waits, obj, r.iters) <= sigs * PairRatio
PeakRun(runs) ==
    runs[Min({i \in DOMAIN runs :
                  \A j \in DOMAIN runs : ~Faster(runs[j], runs[i])})]
SpinOffenders(st) ==
    {k \in {x \in DOMAIN st.state : RunsOf(st, x) # <<>>} :
        LET r == PeakRun(RunsOf(st, k))
        IN  ~(Partnered(st, r) /\ RunClass(r) = "instant-success")}

----------------------------------------------------------------------------
(* pairing: ntsync objects waited on far more often than they are signaled. *)

PairingInit == EmptyMap
NoAgg == [waits |-> 0, signals |-> 0]

PairingFold(aggs, e) ==
    LET fds == {e.objs[i] : i \in DOMAIN e.objs}
        waited(a, fd) ==
            [a EXCEPT !.waits = @ + CountWhere(e.objs, LAMBDA o : o = fd)]
    IN  IF e.type # "ntsync" \/ (IsWaitOp(e.op) /\ e.result = Entry)
        THEN aggs
        ELSE IF IsWaitOp(e.op)
        THEN [fd \in DOMAIN aggs \cup fds |->
                 waited(At(aggs, fd, NoAgg), fd)]
        ELSE IF IsSignalOp(e.op)
        THEN Put(aggs, e.fd, [At(aggs, e.fd, NoAgg) EXCEPT !.signals = @ + 1])
        ELSE aggs

Flagged(a) == a.waits >= PairMinWaits /\ a.waits > a.signals * PairRatio
PairingVerdict(aggs) ==
    IF DOMAIN aggs = {} THEN "NONE"
    ELSE IF \E fd \in DOMAIN aggs : Flagged(aggs[fd])
    THEN "STUCK-SIGNALED" ELSE "PAIRED"

----------------------------------------------------------------------------
(* endstate: who was parked in an ntsync wait when the trace ended.        *)

NoTid == [last |-> 0, open |-> FALSE, since |-> 0, objs |-> <<>>,
          exited |-> FALSE]
NoObj == [signals |-> 0, lastSignal |-> 0]
EndstateInit == [tids |-> EmptyMap, objs |-> EmptyMap, max |-> 0]

\* touch(): the thread did something at e.ts.
EndTouched(st, e) ==
    [st EXCEPT
        !.tids = Put(@, e.tid,
                     [At(@, e.tid, NoTid) EXCEPT !.last = Larger(@, e.ts)]),
        !.max = Larger(@, e.ts)]

EndstateFold(st, e) ==
    LET u == EndTouched(st, e)
        t == u.tids[e.tid]
    IN  CASE e.type \in {"waitstack", "rawstack", "heap", "io"} -> u
          [] e.type = "signal" ->
                 IF e.kind = "EXIT_ABNL"
                 THEN [u EXCEPT !.tids[e.tid].exited = TRUE] ELSE u
          [] e.type = "ntsync" /\ IsWaitOp(e.op) ->
                 [u EXCEPT !.tids[e.tid] =
                     IF e.result = Entry
                     THEN [t EXCEPT !.open = TRUE, !.since = e.ts,
                                    !.objs = e.objs]
                     ELSE [t EXCEPT !.open = FALSE]]
          [] e.type = "ntsync" /\ IsWakeupOp(e.op) ->
                 [u EXCEPT !.objs =
                     Put(@, e.fd, [signals |-> At(@, e.fd, NoObj).signals + 1,
                                   lastSignal |-> e.ts])]
          [] e.type = "ntsync" /\ ~IsWaitOp(e.op) /\ ~IsWakeupOp(e.op) -> u
          [] OTHER -> st

\* Mutant: a thread that was killed while it waited is left out however long
\* it had waited.
BlockedAlive(st) == {i \in DOMAIN st.tids : st.tids[i].open /\ ~st.tids[i].exited}

\* Stuck in a wait, or killed after being stuck in it for long.
Blocked(st) ==
    {i \in DOMAIN st.tids :
        LET t == st.tids[i]
        IN  t.open /\ (~t.exited \/ st.max - t.since >= KilledStall)}
Status(st, i) ==
    LET t == st.tids[i]
    IN  IF t.exited THEN "KILLED-PARKED"
        ELSE IF t.last <= t.since + ParkSlack THEN "PARKED"
        ELSE "woke(lost-compl)"
Genuine(st) == {i \in Blocked(st) : Status(st, i) # "woke(lost-compl)"}
EndstateVerdict(st) ==
    IF DOMAIN st.tids = {} THEN "NO-THREADS"
    ELSE IF Blocked(st) = {} THEN "NO-PARKED"
    ELSE IF Genuine(st) # {} THEN "STALLED" ELSE "LOST-COMPLETION"

\* What the first object of thread i's open wait is said to lack.
StarvedOf(st, i) ==
    LET t == st.tids[i]
        o == At(st.objs, t.objs[1], NoObj)
    IN  IF o.signals = 0 THEN "NEVER signaled"
        ELSE IF o.lastSignal > t.since THEN "signaled AFTER park"
        ELSE "last wakeup BEFORE the park"

----------------------------------------------------------------------------
(* iowait: who was parked in a blocking I/O syscall when the trace ended.  *)

IowaitCalls == {"poll", "ppoll", "epoll_wait", "epoll_pwait", "recvmsg",
                "recvfrom", "select", "pselect6", "ioctl"}
IowaitInit == [tids |-> EmptyMap, max |-> 0]

IowaitFold(st, e) ==
    LET u == [st EXCEPT !.max = Larger(@, e.ts)]
        p == At(st.tids, e.tid, [open |-> FALSE, since |-> 0])
    IN  IF e.type # "io" THEN st
        ELSE IF e.nr \notin IowaitCalls THEN u
        ELSE [u EXCEPT !.tids = Put(@, e.tid,
                 IF e.result = Entry THEN [open |-> TRUE, since |-> e.ts]
                 ELSE [p EXCEPT !.open = FALSE])]

Parked(st) == {i \in DOMAIN st.tids : st.tids[i].open}
IowaitVerdict(st) == IF Parked(st) = {} THEN "NO-IOWAIT" ELSE "IOWAIT-PARKED"

----------------------------------------------------------------------------
(* futex and keyedevt: threads whose last act was to enter a wait.         *)

Touching == {"io", "ntsync", "heap", "mmap", "signal"}
NoTidF == [last |-> 0, lastWait |-> 0, obj |-> 0, retries |-> 0]
FutexInit == [tids |-> EmptyMap, wakes |-> EmptyMap, max |-> 0]
KeyedInit == [tids |-> EmptyMap, keys |-> EmptyMap, max |-> 0]

\* touch_activity()
Touched(st, e) ==
    [st EXCEPT
        !.tids = Put(@, e.tid,
                     [At(@, e.tid, NoTidF) EXCEPT !.last = Larger(@, e.ts)]),
        !.max = Larger(@, e.ts)]

FutexFold(st, e) ==
    LET u == Touched(st, e)
        t == u.tids[e.tid]
        again == t.obj = e.obj /\ t.lastWait # 0
    IN  IF e.type \notin Touching THEN st
        ELSE IF e.type = "io" /\ e.nr = "futex" /\ e.op = "FUTEX_WAIT"
        THEN [u EXCEPT !.tids[e.tid] =
                 [t EXCEPT !.lastWait = e.ts, !.obj = e.obj,
                           !.retries = IF again THEN @ + 1 ELSE 1]]
        ELSE IF e.type = "io" /\ e.nr = "futex" /\ e.op = "FUTEX_WAKE"
        THEN [u EXCEPT !.wakes = Bump(@, e.obj)]
        ELSE u

\* Threads that did nothing since their last wait.
Waiting(st) ==
    {i \in DOMAIN st.tids :
        LET t == st.tids[i]
        IN  t.lastWait # 0 /\ t.last <= t.lastWait + ParkSlack}
FutexClass(st, i) ==
    LET t == st.tids[i]
    IN  IF t.retries <= 1 /\ At(st.wakes, t.obj, 0) = 0 THEN "idle-park"
        ELSE IF /\ t.retries >= SpinRetries
                /\ st.max - t.lastWait < SpinPace * t.retries
        THEN "spin" ELSE "wait"
FutexVerdict(st) ==
    LET n(c) == Cardinality({i \in Waiting(st) : FutexClass(st, i) = c})
    IN  IF Waiting(st) = {} THEN "NO-FUTEX-BLOCKED"
        ELSE IF n("spin") > n("idle-park") THEN "FUTEX-SPIN"
        ELSE "FUTEX-PARKED"

KeyedFold(st, e) ==
    LET u == Touched(st, e)
        t == u.tids[e.tid]
        k == At(st.keys, e.obj, [waits |-> 0, releases |-> 0, last |-> 0])
    IN  IF e.type = "keyedevt" /\ e.op = "RELEASE"
        THEN [u EXCEPT !.keys = Put(@, e.obj,
                 [k EXCEPT !.releases = @ + 1, !.last = e.ts])]
        ELSE IF e.type = "keyedevt"
        THEN [u EXCEPT
                 !.keys = Put(@, e.obj, [k EXCEPT !.waits = @ + 1]),
                 !.tids[e.tid] = [t EXCEPT !.lastWait = e.ts, !.obj = e.obj]]
        ELSE IF e.type \in Touching THEN u ELSE st

KeyedVerdict(st) ==
    IF DOMAIN st.keys = {} THEN "NO-KEYED-EVENTS"
    ELSE IF Waiting(st) = {} THEN "NO-WEDGED" ELSE "WEDGED"

\* The note on a wedged key: a release after the latest of its waits.
ReleasedAfter(st, k) ==
    LET waits == {st.tids[i].lastWait :
                     i \in {j \in Waiting(st) : st.tids[j].obj = k}}
    IN  st.keys[k].last > Max(waits)
=============================================================================
