----------------------------- MODULE SyncTrace -----------------------------
(***************************************************************************)
(* From the syscalls of a traced process to the synchronization reports.   *)
(* The BPF programs of src/src/bpf/montauk_trace.bpf.c run at the entry    *)
(* and the exit of every system call, on the CPU the thread is on; they    *)
(* pair the two halves of an ntsync ioctl through a scratch slot per CPU   *)
(* and of a blocking I/O call through an entry per thread.  What they emit *)
(* may be lost (rb_reserve fails on a full ring); what is not lost is      *)
(* folded by the reports of SyncReports.                                   *)
(*                                                                         *)
(* One process is traced.  Thread Leader is its main thread.  A workload   *)
(* uses one kind of primitive at a time: Kinds names the kinds, and the    *)
(* initial state picks one.                                                *)
(***************************************************************************)
EXTENDS SyncReports, SequencesExt

CONSTANTS Threads,   \* thread ids of the process, positive
          Leader,    \* the main thread: its tid is the pid
          Cpus,
          Objs,      \* ntsync objects, futex words or keys: positive
          Kinds,     \* workloads
          Steps,     \* the clock advances by one of these ...
          NtSteps,   \* ... or of these, in the ntsync workload
          MaxTime, MaxCalls, MaxLost

ASSUME TraceAssumption ==
    /\ Threads \subseteq Nat \ {0} /\ Leader \in Threads
    /\ Objs \subseteq Nat \ {0}
    /\ Kinds \subseteq {"ntsync", "futex", "iowait", "keyed"}
    /\ Steps \cup NtSteps \subseteq Nat \ {0}

VARIABLES
    kind,      \* the workload
    now,       \* bpf_ktime_get_ns()
    tracked,   \* is the process in proc_map?
    threads,   \* thread -> what it is doing
    nr,        \* thread_map: thread -> the call it is in, as last recorded
    scratch,   \* ntsync_scratch: CPU -> the half ioctl stored there
    rep,       \* the reports' state
    calls,     \* calls made so far (bound)
    lost,      \* events lost so far (drop_counts)
    waited,    \* ghost: ntsync waits entered under tracing
    hist       \* ghost: (thread, object) -> its completions in the trace

syncVars == <<kind, now, tracked, threads, nr, scratch, rep, calls, lost,
          waited, hist>>

\* A thread runs, is inside a call, or is dead; `seen` says that the entry
\* event of the call it is in (or died in) reached the trace, `at` when.
Running == [st |-> "run", call |-> "none", obj |-> 0, seen |-> FALSE, at |-> 0]
Empty == [pid |-> 0, op |-> "", fd |-> 0, objs |-> <<>>]

SyncInit ==
    /\ kind \in Kinds
    /\ now = 1
    /\ tracked \in BOOLEAN
    /\ threads = [t \in Threads |-> Running]
    /\ nr = [t \in Threads |-> "absent"]
    /\ scratch = [c \in Cpus |-> Empty]
    /\ rep = [waits |-> WaitsInit, spins |-> SpinsInit,
              pairing |-> PairingInit, endstate |-> EndstateInit,
              iowait |-> IowaitInit, futex |-> FutexInit, keyed |-> KeyedInit]
    /\ calls = 0 /\ lost = 0 /\ waited = 0
    /\ hist = EmptyMap

Fold(r, e) ==
    [waits |-> WaitsFold(r.waits, e), spins |-> SpinsFold(r.spins, e),
     pairing |-> PairingFold(r.pairing, e),
     endstate |-> EndstateFold(r.endstate, e),
     iowait |-> IowaitFold(r.iowait, e), futex |-> FutexFold(r.futex, e),
     keyed |-> KeyedFold(r.keyed, e)]

Noted(h, e) ==
    IF ~IsSyncWait(e) THEN h
    ELSE LET k == <<e.tid, SyncObj(e)>>
         IN  Put(h, k, Append(At(h, k, <<>>), [ts |-> e.ts, r |-> e.result]))

\* The handler emits es in order; each is lost when its reserve fails.
Emit(es, gone) ==
    LET kept == SelectSeq([i \in DOMAIN es |-> [i |-> i, e |-> es[i]]],
                          LAMBDA p : p.i \notin gone)
    IN  /\ lost + Cardinality(gone) <= MaxLost
        /\ lost' = lost + Cardinality(gone)
        /\ rep' = FoldLeft(LAMBDA r, p : Fold(r, p.e), rep, kept)
        /\ hist' = FoldLeft(LAMBDA h, p : Noted(h, p.e), hist, kept)

Event(t) == [NoEvent EXCEPT !.tid = t, !.ts = now]

----------------------------------------------------------------------------
(* The calls a workload makes.  "other" is any call the programs ignore.   *)

CallsOf == [ntsync |-> {"WAIT_ANY", "EVENT_SET", "EVENT_RESET", "other"},
            futex  |-> {"FUTEX_WAIT", "FUTEX_WAKE"},
            iowait |-> {"poll", "other"},
            keyed  |-> {"other"}]
IsNtsync(call) == call \in {"WAIT_ANY", "EVENT_SET", "EVENT_RESET"}

\* The ENTRY event and the wait-site stack of an infinite wait.
EnterWait(t, o) ==
    <<[Event(t) EXCEPT !.type = "ntsync", !.op = "WAIT_ANY", !.fd = DevFd,
                       !.objs = <<o>>, !.result = Entry],
      [Event(t) EXCEPT !.type = "waitstack"]>>

\* What handle_sys_enter() emits for a tracked thread.
EnterEvents(t, call, o) ==
    CASE call \in {"FUTEX_WAIT", "FUTEX_WAKE"} ->
             <<[Event(t) EXCEPT !.type = "io", !.nr = "futex", !.op = call,
                                !.obj = o]>>
      [] call \in IowaitCalls ->
             <<[Event(t) EXCEPT !.type = "io", !.nr = call, !.result = Entry]>>
      [] call = "WAIT_ANY" -> EnterWait(t, o)
      [] OTHER -> <<>>

\* ntsync_scratch of the CPU the call was made on: a wait is issued on the
\* device, the other operations on the object.
Stash(call, o) ==
    [pid |-> Leader, op |-> call,
     fd |-> IF call = "WAIT_ANY" THEN DevFd ELSE o,
     objs |-> IF call = "WAIT_ANY" THEN <<o>> ELSE <<>>]

handle_sys_enter(t, c, call, o, gone) ==
    /\ threads[t].st = "run" /\ call \in CallsOf[kind] /\ calls < MaxCalls
    /\ calls' = calls + 1
    /\ waited' = waited + (IF tracked /\ call = "WAIT_ANY" THEN 1 ELSE 0)
    /\ gone \subseteq (IF tracked THEN DOMAIN EnterEvents(t, call, o) ELSE {})
    /\ threads' = [threads EXCEPT ![t] =
                      [st |-> "in", call |-> call, obj |-> o,
                       seen |-> tracked /\ 1 \notin gone, at |-> now]]
    /\ IF tracked
       THEN /\ nr' = [nr EXCEPT ![t] = call]
            /\ scratch' = IF IsNtsync(call)
                          THEN [scratch EXCEPT ![c] = Stash(call, o)]
                          ELSE scratch
            /\ Emit(EnterEvents(t, call, o), gone)
       ELSE UNCHANGED <<nr, scratch, rep, lost, hist>>
    /\ UNCHANGED <<kind, now, tracked>>

\* What a call may return: a wait may time out.
Returns(call) ==
    IF call \in {"WAIT_ANY", "FUTEX_WAIT"} THEN {0, Etimedout} ELSE {0}

\* What handle_sys_exit() emits: the completion of a blocking I/O call, by
\* the thread's entry; that of the ntsync ioctl in the slot of this CPU, if
\* one of this process is there.
ExitEvents(t, c, ret) ==
    (IF nr[t] \in IowaitCalls
     THEN <<[Event(t) EXCEPT !.type = "io", !.nr = nr[t], !.result = ret]>>
     ELSE <<>>)
    \o
    (IF scratch[c].pid = Leader
     THEN <<[Event(t) EXCEPT !.type = "ntsync", !.op = scratch[c].op,
                             !.fd = scratch[c].fd, !.objs = scratch[c].objs,
                             !.result = ret]>>
     ELSE <<>>)

Consumed(c) ==
    IF scratch[c].pid = Leader THEN [scratch EXCEPT ![c].pid = 0] ELSE scratch

handle_sys_exit(t, c, ret, gone) ==
    /\ threads[t].st = "in" /\ ret \in Returns(threads[t].call)
    /\ threads' = [threads EXCEPT ![t] = Running]
    /\ gone \subseteq (IF tracked THEN DOMAIN ExitEvents(t, c, ret) ELSE {})
    /\ IF tracked
       THEN /\ nr' = [nr EXCEPT ![t] = IF @ = "absent" THEN @ ELSE "none"]
            /\ scratch' = Consumed(c)
            /\ Emit(ExitEvents(t, c, ret), gone)
       ELSE UNCHANGED <<nr, scratch, rep, lost, hist>>
    /\ UNCHANGED <<kind, now, tracked, calls, waited>>

\* The uprobes on the keyed-event functions: a wait blocks, and returns
\* without an event of its own.
uprobe_keyed(t, op, o, gone) ==
    /\ kind = "keyed" /\ threads[t].st = "run" /\ calls < MaxCalls
    /\ calls' = calls + 1
    /\ gone \subseteq (IF tracked THEN {1} ELSE {})
    /\ threads' = [threads EXCEPT ![t] =
                      IF op = "RELEASE" THEN @
                      ELSE [st |-> "keyed", call |-> "KEYED_WAIT", obj |-> o,
                            seen |-> tracked /\ gone = {}, at |-> now]]
    /\ IF tracked
       THEN Emit(<<[Event(t) EXCEPT !.type = "keyedevt", !.op = op,
                                    !.obj = o]>>, gone)
       ELSE UNCHANGED <<rep, lost, hist>>
    /\ UNCHANGED <<kind, now, tracked, nr, scratch, waited>>

KeyedReturn(t) ==
    /\ threads[t].st = "keyed"
    /\ threads' = [threads EXCEPT ![t] = Running]
    /\ UNCHANGED <<kind, now, tracked, nr, scratch, rep, calls, lost, waited,
                   hist>>

\* A fatal signal ends every thread.  handle_exit() runs for each of them,
\* but asks is_tracked() of the thread id: only the main thread is reported.
handle_exit(gone) ==
    /\ \E t \in Threads : threads[t].st # "dead"
    /\ gone \subseteq (IF tracked THEN {1} ELSE {})
    /\ threads' = [t \in Threads |-> [threads[t] EXCEPT !.st = "dead"]]
    /\ nr' = [t \in Threads |-> "absent"]
    /\ IF tracked
       THEN Emit(<<[Event(Leader) EXCEPT !.type = "signal",
                                         !.kind = "EXIT_ABNL"]>>, gone)
       ELSE UNCHANGED <<rep, lost, hist>>
    /\ UNCHANGED <<kind, now, tracked, scratch, calls, waited>>

\* auto_track_pid(): the process is enrolled while its threads are running.
Track ==
    /\ ~tracked /\ tracked' = TRUE
    /\ UNCHANGED <<kind, now, threads, nr, scratch, rep, calls, lost, waited,
                   hist>>

Tick(d) ==
    /\ d \in (IF kind = "ntsync" THEN NtSteps ELSE Steps)
    /\ now + d <= MaxTime
    /\ now' = now + d
    /\ UNCHANGED <<kind, tracked, threads, nr, scratch, rep, calls, lost,
                   waited, hist>>

SyncNext ==
    \/ \E t \in Threads, c \in Cpus, o \in Objs, gone \in SUBSET {1, 2} :
          \E call \in CallsOf[kind] : handle_sys_enter(t, c, call, o, gone)
    \/ \E t \in Threads, c \in Cpus, ret \in {0, Etimedout},
          gone \in SUBSET {1, 2} : handle_sys_exit(t, c, ret, gone)
    \/ \E t \in Threads, op \in {"WAIT", "RELEASE"}, o \in Objs,
          gone \in SUBSET {1} : uprobe_keyed(t, op, o, gone)
    \/ \E t \in Threads : KeyedReturn(t)
    \/ \E gone \in SUBSET {1} : handle_exit(gone)
    \/ Track
    \/ \E d \in Steps \cup NtSteps : Tick(d)

SyncSpec == SyncInit /\ [][SyncNext]_syncVars

CpuSymmetry == Permutations(Cpus)

----------------------------------------------------------------------------
(* Properties.                                                             *)

In(t, calls0) == threads[t].st # "run" /\ threads[t].seen
                 /\ threads[t].call \in calls0
Alive(t) == threads[t].st # "dead"

\* A thread that is blocked, and whose entry event was not lost, is named by
\* the report on its kind of wait, whatever happened to other events and to
\* the scratch slots meanwhile: by endstate as PARKED, by iowait, by futex
\* and by keyedevt.  A thread killed in an ntsync wait after KilledStall is
\* still among endstate's stall victims.
BlockedIsNamed ==
    \A t \in Threads :
        /\ In(t, {"WAIT_ANY"}) /\ Alive(t) =>
               t \in Blocked(rep.endstate) /\ Status(rep.endstate, t) = "PARKED"
        /\ In(t, {"WAIT_ANY"}) /\ ~Alive(t)
           /\ rep.endstate.max - threads[t].at >= KilledStall =>
               t \in Genuine(rep.endstate)
        /\ In(t, IowaitCalls) => t \in Parked(rep.iowait)
        /\ In(t, {"FUTEX_WAIT"}) /\ Alive(t) => t \in Waiting(rep.futex)
        /\ In(t, {"KEYED_WAIT"}) /\ Alive(t) => t \in Waiting(rep.keyed)

\* While nothing is lost, a thread iowait names is inside such a call or died
\* in it: a returned poll() is never mistaken for a parked one.
ParkedIsInside ==
    lost = 0 => \A t \in Parked(rep.iowait) : In(t, IowaitCalls)

\* No wait is counted twice: there are never more ntsync completions in the
\* trace than ntsync waits entered under tracing, although a completion may
\* be emitted by another thread of the process than the one that waited.
CompletionsBounded ==
    kind = "ntsync" => WaitsTotal(rep.waits) <= waited

\* The spin runs are the maximal streaks of a pair's completions with gaps
\* in (0, SpinGap), of at least SpinMinIters waits, each with its exact span
\* and tallies: the retroactive opening neither loses nor repeats a wait.
Streaks(h) ==
    LET near(i) == h[i].ts < h[i + 1].ts /\ h[i + 1].ts - h[i].ts < SpinGap
    IN  {p \in (1..Len(h)) \X (1..Len(h)) :
            /\ p[1] < p[2] /\ p[2] - p[1] + 1 >= SpinMinIters
            /\ \A i \in p[1]..(p[2] - 1) : near(i)
            /\ p[1] > 1 => ~near(p[1] - 1)
            /\ p[2] < Len(h) => ~near(p[2])}
StreakRun(k, p) ==
    LET h == SubSeq(hist[k], p[1], p[2])
    IN  [key |-> k, iters |-> Len(h), start |-> h[1].ts, end |-> h[Len(h)].ts,
         succ |-> CountWhere(h, LAMBDA w : w.r >= 0),
         timeo |-> CountWhere(h, LAMBDA w : w.r = Etimedout),
         other |-> CountWhere(h, LAMBDA w : w.r < 0 /\ w.r # Etimedout)]
SpinRunsExact ==
    SpinRuns(rep.spins) =
        UNION {{StreakRun(k, p) : p \in Streaks(hist[k])} : k \in DOMAIN hist}

\* What offenders() says of itself: a run of waits that return signaled, on
\* an object with a signal for every PairRatio waits, is a healthy ping-pong
\* and is not ranked.  The counts are the pairing report's, per object.
PingPongNotRanked ==
    LET partnered(o) ==
            LET a == At(rep.pairing, o, NoAgg)
            IN  a.signals > 0 /\ a.waits <= a.signals * PairRatio
    IN  lost = 0 /\ (\A o \in Objs : partnered(o)) =>
            \A k \in SpinOffenders(rep.spins) :
                RunClass(PeakRun(RunsOf(rep.spins, k))) # "instant-success"

\* What is blocked is reported, what is not is not, nothing twice, and a run of
\* spinning waits once.
SyncIsReported == BlockedIsNamed /\ ParkedIsInside /\ CompletionsBounded /\ SpinRunsExact
=============================================================================
