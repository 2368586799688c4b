----------------------------- MODULE SchedTrace -----------------------------
(***************************************************************************)
(* From the scheduling of CPUs to the scheduler reports: the sched_switch, *)
(* sched_wakeup, kick, resched and tick-stop programs of                   *)
(* src/src/bpf/montauk_trace.bpf.c under --trace-out --sched-detail, and   *)
(* the reports of SchedReports over what they emit.  Under the load        *)
(* "native" the scheduler's own pick tracepoint is bound; under the others *)
(* it is not and switch_in_fallback is set.                                *)
(*                                                                         *)
(* Every CPU starts idle.  A program runs atomically on its CPU.  The      *)
(* trace is a complete one (the ring was never full); SyncTrace has the    *)
(* losses.  `truth` is what happened, kept beside the trace to judge it.   *)
(***************************************************************************)
EXTENDS SchedReports

CONSTANTS SchedCpus,     \* 0 .. n
          Tasks,         \* tids, positive
          Traced,        \* the tasks of the traced process
          Kthread,       \* a kernel thread bound to CPU 0, not traced
          KstrandThresh, \* kstrand_thresh_ns
          Scores,        \* scores a native pick may carry
          Enroller,      \* what put the traced tasks in thread_map
          MaxClock, MaxHappened, MaxNative, MaxKicks

ASSUME SchedAssumption ==
    /\ SchedCpus \subseteq Nat /\ 0 \in SchedCpus
    /\ Traced \subseteq Tasks /\ Tasks \subseteq Nat \ {0}
    /\ Kthread \in Nat \ (Tasks \cup {0})
    /\ Enroller \in {"handle_sys_enter", "enroll_threads"}

VARIABLES
    load,      \* the workload: "tasks", "native", "kthread" or "kicks"
    clock,     \* bpf_ktime_get_ns()
    cur,       \* CPU -> the task on it, 0 when idle
    st,        \* task -> "run", "ready" or "sleep"
    thread,    \* thread_map: task -> wake_ns, cur_cpu, state at switch-out
    kpcpu,     \* kpcpu_wake: the Kthread's pending stamp, 0 when absent
    named,     \* named_tids
    comm,      \* task -> its name
    log,       \* the events of the trace
    steals,    \* mig_domain_counts: moves of a task that was preempted
    truth      \* ghost: the switches, wakes, kicks and rescheds that happened

schedVars == <<load, clock, cur, st, thread, kpcpu, named, comm, log, steals,
               truth>>

Everyone == Tasks \cup {Kthread}
\* Who is scheduled under a workload.
Active == CASE load \in {"tasks", "native"} -> Tasks
            [] load = "kthread" -> (Tasks \ Traced) \cup {Kthread}
            [] OTHER -> {}

\* How many switches and wakes a workload may have.
MostHappened == IF load = "native" THEN MaxNative ELSE MaxHappened

\* cur_cpu of a new thread_map entry: the first syscall's program sets it to
\* -1, the iterator leaves it zero.
FirstCpu == IF Enroller = "enroll_threads" THEN 0 ELSE -1

SchedTraceInit ==
    /\ load \in {"tasks", "native", "kthread", "kicks"}
    /\ clock = 1
    /\ cur = [c \in SchedCpus |-> 0]
    /\ st = [t \in Everyone |-> "sleep"]
    /\ thread = [t \in Traced |-> [wake |-> 0, cpu |-> FirstCpu, state |-> "S"]]
    /\ kpcpu = 0
    /\ named = {}
    /\ comm = [t \in Everyone |-> "old"]
    /\ log = <<>> /\ steals = 0
    /\ truth = <<>>

Happened(what, c, t, from) ==
    truth' = Append(truth, [what |-> what, cpu |-> c, tid |-> t, from |-> from,
                            ts |-> clock])

\* The program submits es, in order.
Submit(es) == log' = log \o es

At_(op, c) == [NoSched EXCEPT !.op = op, !.cpu = c, !.ts = clock]

----------------------------------------------------------------------------
(* handle_sched_switch(), at the switch of CPU c from prev to next.        *)

\* Mutant: the switch does not record the CPU the next task runs on.
SwitchedInPlace(c, prev, next, preempted) ==
    [t \in Traced |->
        IF t = next THEN [thread[t] EXCEPT !.wake = 0, !.state = "R"]
        ELSE IF t = prev
        THEN IF preempted THEN [thread[t] EXCEPT !.wake = clock, !.state = "R"]
             ELSE [thread[t] EXCEPT !.state = "S"]
        ELSE thread[t]]

\* thread_map after prev leaves (preempted: runnable from now) and next comes.
Switched(c, prev, next, preempted) ==
    [t \in Traced |->
        IF t = next THEN [wake |-> 0, cpu |-> c, state |-> "R"]
        ELSE IF t = prev
        THEN IF preempted THEN [thread[t] EXCEPT !.wake = clock, !.state = "R"]
             ELSE [thread[t] EXCEPT !.state = "S"]
        ELSE thread[t]]

Moved(c, next) ==
    next \in Traced /\ thread[next].cpu >= 0 /\ thread[next].cpu # c

\* The events of one switch, in the order of the program.
SwitchEvents(c, prev, next) ==
    (IF next \in Traced /\ thread[next].wake # 0
     THEN <<[At_("WAKE2RUN", c) EXCEPT !.pid = next,
                 !.last = thread[next].cpu,
                 !.run = clock - thread[next].wake]>>
     ELSE <<>>)
    \o
    (IF next = Kthread /\ kpcpu # 0 /\ clock - kpcpu >= KstrandThresh
     THEN <<[At_("", c) EXCEPT !.type = "kstrand", !.pid = next,
                 !.run = clock - kpcpu, !.comm = comm[next]]>>
     ELSE <<>>)
    \o
    (IF 0 \in {prev, next}
     THEN <<[At_("CPU_IDLE", c) EXCEPT !.sub = IF next = 0 THEN 1 ELSE 0]>>
     ELSE <<>>)
    \o
    (IF next # 0 /\ next \notin named
     THEN <<[At_("", c) EXCEPT !.type = "thread_name", !.pid = next,
                 !.comm = comm[next]]>>
     ELSE <<>>)
    \o
    (IF next # 0 /\ load # "native"
     THEN <<[At_("SWITCH_IN", c) EXCEPT !.pid = next]>> ELSE <<>>)

\* handle_sched_pick(): the scheduler has chosen next, just before the switch.
PickEvents(c, next, score) ==
    IF load # "native" \/ next = 0 THEN <<>>
    ELSE <<[At_("PICK", c) EXCEPT !.pid = next, !.score = score]>>

handle_sched_switch(c, next, preempted, score) ==
    LET prev == cur[c]
    IN  /\ next \in Active \cup {0} /\ load # "kicks"
        /\ Len(truth) < MostHappened
        /\ load # "native" \/ next = 0 => score = Min(Scores)
        /\ next # prev
        /\ next # 0 => st[next] = "ready" /\ (next = Kthread => c = 0)
        /\ prev = 0 => ~preempted
        /\ preempted => next # 0
        /\ cur' = [cur EXCEPT ![c] = next]
        /\ st' = [t \in Everyone |->
                     IF t = next THEN "run"
                     ELSE IF t = prev THEN IF preempted THEN "ready" ELSE "sleep"
                     ELSE st[t]]
        /\ thread' = Switched(c, prev, next, preempted)
        /\ kpcpu' = IF next = Kthread THEN 0 ELSE kpcpu
        /\ named' = IF next = 0 THEN named ELSE named \cup {next}
        /\ steals' = steals + (IF Moved(c, next) /\ thread[next].state = "R"
                               THEN 1 ELSE 0)
        /\ Submit(PickEvents(c, next, score) \o SwitchEvents(c, prev, next))
        /\ Happened("switch", c, next, IF preempted THEN "R" ELSE "S")
        /\ UNCHANGED <<load, clock, comm>>

\* handle_sched_wakeup() and handle_kpcpu_wakeup(): the task on CPU c (or an
\* interrupt there) wakes t.  A task is also woken when it has marked itself
\* asleep and is still on its CPU, or is runnable already: the tracepoint
\* fires and the kernel changes nothing else.
handle_sched_wakeup(c, t) ==
    /\ t \in Active /\ t # cur[c] /\ Len(truth) < MostHappened
    /\ t \in Traced => st[t] = "sleep"
    /\ t \in Traced \/ \A d \in SchedCpus : d < c => cur[d] = t \* any CPU
    /\ st[t] = "sleep" \/ kpcpu # clock
    /\ t \notin Traced \cup {Kthread} => st[t] = "sleep"
    /\ st' = [st EXCEPT ![t] = IF @ = "sleep" THEN "ready" ELSE @]
    /\ thread' = IF t \in Traced THEN [thread EXCEPT ![t].wake = clock]
                 ELSE thread
    /\ kpcpu' = IF t = Kthread /\ kpcpu = 0 THEN clock ELSE kpcpu
    /\ IF t \in Traced
       THEN Submit(<<[At_("WAKEUP", c) EXCEPT !.pid = t, !.last = cur[c]]>>)
       ELSE UNCHANGED log
    /\ Happened("wake", c, t, st[t])
    /\ UNCHANGED <<load, clock, cur, named, comm, steals>>

\* A traced task on a CPU execs: handle_exec() reports its new name.
SchedExec(c) ==
    /\ load = "tasks" /\ cur[c] \in Traced /\ comm[cur[c]] = "old"
    /\ comm' = [comm EXCEPT ![cur[c]] = "new"]
    /\ Submit(<<[At_("", c) EXCEPT !.type = "exec", !.pid = cur[c],
                                   !.comm = "new"]>>)
    /\ UNCHANGED <<load, clock, cur, st, thread, kpcpu, named, steals, truth>>

----------------------------------------------------------------------------
(* handle_scx_kick(), handle_resched_curr() and handle_tick_stop().        *)

Probe(op, c, sub) ==
    /\ load = "kicks" /\ Len(truth) < MaxKicks
    /\ Submit(<<[At_(op, c) EXCEPT !.sub = sub]>>)
    /\ Happened(op, c, sub, "")
    /\ UNCHANGED <<load, clock, cur, st, thread, kpcpu, named, comm, steals>>

handle_scx_kick(c) == Probe("KICK_ISSUE", c, 0)
handle_resched_curr(c) == Probe("RESCHED", c, 0)
handle_tick_stop(c, ok) == Probe("TICK_STOP", c, ok)

SchedTick ==
    /\ clock < MaxClock
    /\ \E d \in {1, 2} : clock' = clock + d
    /\ UNCHANGED <<load, cur, st, thread, kpcpu, named, comm, log, steals,
                   truth>>

SchedTraceNext ==
    \/ \E c \in SchedCpus, t \in Everyone \cup {0}, p \in BOOLEAN, x \in Scores :
          handle_sched_switch(c, t, p, x)
    \/ \E c \in SchedCpus, t \in Everyone : handle_sched_wakeup(c, t)
    \/ \E c \in SchedCpus : SchedExec(c)
    \/ \E c \in SchedCpus : handle_scx_kick(c)
    \/ \E c \in SchedCpus : handle_resched_curr(c)
    \/ \E c \in SchedCpus, ok \in {0, 1} : handle_tick_stop(c, ok)
    \/ SchedTick

SchedTraceSpec == SchedTraceInit /\ [][SchedTraceNext]_schedVars

----------------------------------------------------------------------------
(* What happened.                                                          *)

Switches(c) == SelectSeq(truth, LAMBDA h : h.what = "switch" /\ h.cpu = c)

\* The stretches of CPU c: who was on it from when to when.
Stretch(c) ==
    LET s == Switches(c)
        first == [tid |-> 0, lo |-> 0,
                  hi |-> IF s = <<>> THEN clock ELSE s[1].ts]
    IN  {first} \cup
        {[tid |-> s[i].tid, lo |-> s[i].ts,
          hi |-> IF i < Len(s) THEN s[i + 1].ts ELSE clock] : i \in DOMAIN s}

TrueTime(c, t, a, b) ==
    SumOf({x \in Stretch(c) : x.tid = t}, LAMBDA x : Shared(x.lo, x.hi, a, b))

----------------------------------------------------------------------------
(* What the reports say of a floored wake of a complete trace is what      *)
(* happened: a placement miss only when another CPU was idle as the task   *)
(* became runnable; starved by the order of picks exactly when its CPU     *)
(* took another task meanwhile; dark only if its CPU idled for half of     *)
(* the wait that the trace saw begin; held, and by whom, only if that task *)
(* really was on the CPU in the wait.  A pass-over counts against the      *)
(* scheduler only if the pick that served the task had the higher score.   *)
FlooredIsExplained ==
    load \in {"tasks", "native"} =>
        \A w \in ToSet(Floored(log)) :
            /\ Missed(log, w) =>
                  \E c \in SchedCpus \ {w.cpu} : \E x \in Stretch(c) :
                      x.tid = 0 /\ x.lo <= w.wake /\ w.wake <= x.hi
            /\ Preempted(log, w) <=>
                  \A h \in ToSet(Switches(w.cpu)) :
                      w.wake <= h.ts /\ h.ts < w.ran => h.tid \in {0, w.pid}
            /\ Dark(log, w) =>
                  2 * TrueTime(w.cpu, 0, w.wake, w.ran) >= w.ran - w.wake
            /\ HeldThrough(log, w) =>
                  \A t \in Dominant(log, w.cpu, w.wake, w.ran) :
                      TrueTime(w.cpu, t, w.wake, w.ran) > 0
            /\ Len(Legit(log, w)) < Len(PassOvers(log, w)) =>
                  \E p, q \in ToSet(Ops(log, {"PICK"})) :
                      /\ p.cpu = w.cpu /\ p.pid # w.pid /\ p.ts < w.ran
                      /\ q.cpu = w.cpu /\ q.pid = w.pid /\ p.score < q.score

\* A wake the sched report calls cold landed on a CPU that had been idle at
\* least that long, since the leave of the CPU is
\* reported after the wake it is for.
ColdWakeIsCold ==
    load = "tasks" =>
        \A w \in ToSet(Sched(log).cold) :
            TrueTime(w.cpu, 0, w.ts - w.idle, w.ts) = w.idle

\* A strand of the kernel thread that began with its wake is never
\* understated: a wake of a thread already waiting does not restart its clock.
StrandNotUnderstated ==
    LET in(k) == truth[k].what = "switch" /\ truth[k].tid = Kthread
        woke(k) == /\ truth[k].what = "wake" /\ truth[k].tid = Kthread
                   /\ truth[k].from = "sleep"
    IN  \A i \in DOMAIN Strands(log) :
            LET e == Strands(log)[i]
            IN  \E k \in DOMAIN truth :
                    /\ in(k) /\ truth[k].ts = e.ts
                    /\ \A w \in 1 .. k - 1 :
                          (woke(w) /\ ~\E m \in w + 1 .. k - 1 : in(m)) =>
                              e.run >= e.ts - truth[w].ts

\* Every move of a traced task between CPUs is a migration of the locality
\* report, with the CPU it came from, and is a steal if and only if the task
\* had been preempted.
MigrationsExact ==
    LET runs(t) == SelectSeq(truth, LAMBDA h : h.what = "switch" /\ h.tid = t)
        moves(t) == {i \in 2 .. Len(runs(t)) : runs(t)[i].cpu # runs(t)[i - 1].cpu}
        got(t) == SelectSeq(Migrations(log), LAMBDA e : e.pid = t)
    IN  load = "tasks" =>
            \A t \in Traced :
                /\ Len(got(t)) = Cardinality(moves(t))
                /\ \A i \in DOMAIN got(t) : \E m \in moves(t) :
                      /\ got(t)[i].cpu = runs(t)[m].cpu
                      /\ got(t)[i].last = runs(t)[m - 1].cpu
                      /\ got(t)[i].ts = runs(t)[m].ts

\* A traced task that has run is named by its current name.
NamesAreCurrent ==
    load = "tasks" =>
        \A t \in Traced \cap named : NameOf(log)[t] = comm[t]

\* A kick is counted as unanswered exactly when no resched of its CPU came
\* after it and before the next kick (one at the same instant may count).
KicksPaired ==
    load = "kicks" =>
        \A c \in SchedCpus :
            LET ks == {j \in DOMAIN truth : truth[j].what = "KICK_ISSUE" /\ truth[j].cpu = c}
                rs == {j \in DOMAIN truth : truth[j].what = "RESCHED" /\ truth[j].cpu = c}
                open(k) == ~\E r \in rs : k < r /\ ~\E n \in ks : k < n /\ n < r
                tied(k) == \E r \in rs : truth[r].ts = truth[k].ts
                                         \/ \E n \in ks : n > k /\ truth[n].ts = truth[r].ts
                un == {k \in ks : open(k)}
                rep == {p \in Unanswered(log) : p[1] = c}
            IN  /\ Cardinality(rep) <= Cardinality(un)
                /\ Cardinality(rep) >= Cardinality({k \in un : ~tied(k)})

\* The reports tell the waits, the wakes, the strands, the moves, the names and
\* the kicks of the run as they happened.
RunIsTold ==
    /\ FlooredIsExplained /\ ColdWakeIsCold /\ StrandNotUnderstated
    /\ MigrationsExact /\ NamesAreCurrent /\ KicksPaired

\* The first time a traced task is scheduled in is not a migration.
FirstRunIsNoMigration ==
    \A i \in DOMAIN Migrations(log) :
        \E h \in ToSet(truth) :
            /\ h.what = "switch" /\ h.tid = Migrations(log)[i].pid
            /\ h.cpu # Migrations(log)[i].cpu

\* A trace whose floored wakes are neither mostly preempt- nor mostly
\* order-starved is published as MIXED, the state build_verdict() finds for it.
MixedIsPublished == StallShape(log) = "MIXED" => StallClass(log) = "MIXED"

\* The reports of one trace agree: a trace called tick-floored has a floored
\* wake for the two reports that explain them; the two that divide the picks
\* into slices both have some or both have none; a strand is called pulled
\* exactly if the task that ended it had last been picked elsewhere; and a
\* self-preempting seat is a task that was scheduled in more often than woken.
ReportsAgree ==
    LET times(t, ops) == CountWhere(Ops(log, ops), LAMBDA e : e.pid = t)
        picks == Ops(log, {"PICK"})
    IN  log # <<>> =>
        /\ SchedClass(log) = "TICK-FLOORED" =>
              "NONE" \notin {StallClass(log), PlacementClass(log)}
        /\ (SliceClass(log) = "") <=> (ServiceClass(log) = "")
        /\ \A x \in ToSet(WorkStrands(log)) :
              LET end(i) == picks[i].cpu = x.cpu /\ picks[i].ts = x.to
                  before(i) == {j \in 1 .. i - 1 : picks[j].pid = picks[i].pid}
              IN  x.pulled => \E i \in DOMAIN picks :
                      end(i) /\ before(i) # {} /\ picks[Max(before(i))].cpu # x.cpu
        /\ SeatClass(log) = "SELF-PREEMPTING" =>
              \E t \in Everyone : times(t, {"SWITCH_IN"}) > times(t, {"WAKE2RUN"})
        /\ WakersClass(log) = "NO-WAKER-EDGES" <=> Ops(log, {"WAKEUP"}) = <<>>
        /\ KStrandClass(log) = "NO-STRAND" <=> Strands(log) = <<>>

\* What the scheduler reports say of a trace is true of the run, and no two of
\* them contradict each other (the reports of trace_analyze.cpp).
SchedIsTrue == RunIsTold /\ ReportsAgree
=============================================================================
