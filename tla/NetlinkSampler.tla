--------------------------- MODULE NetlinkSampler ---------------------------
(***************************************************************************)
(* NetlinkProcessCollector::sample(), which the Producer calls once a      *)
(* tick: pick as many active pids as the budget allows, read the cpu time  *)
(* of each from /proc, turn it into a share against the reading of the     *)
(* tick before, and keep the busiest rows.                                 *)
(*                                                                         *)
(* The event thread (NetlinkTracker) changes active_pids_ and hot_pids_    *)
(* between any two steps, and processes come and go before it hears of it. *)
(* The order of active_pids_ is that of a hash set: it is fixed while the  *)
(* set is, which is all the round robin relies on.                         *)
(***************************************************************************)
EXTENDS Integers, FiniteSets, FiniteSetsExt

CONSTANTS NumSampled,    \* pids are 1..NumSampled
          Budget,     \* sample_budget_
          MaxProcs,   \* max_procs_
          MaxEvents,  \* bound: events handled and tasks created
          MaxCpu      \* bound: a task's cpu time

ASSUME SamplerAssumption ==
  /\ {NumSampled, Budget, MaxProcs, MaxEvents, MaxCpu} \subseteq Nat
  /\ MaxProcs < Budget

Sampled == 1..NumSampled
NoSample == 0 - 1

VARIABLES inProc,    \* pids /proc has
          cpu,       \* utime + stime of each
          events,    \* events and births so far
          activePids,    \* active_pids_
          hot,       \* hot_pids_
          spc,       \* where sample() is
          todo,      \* candidates not read yet
          rows,      \* out.processes so far
          last,      \* last_per_proc_, None where it has no entry
          have,      \* have_last_
          top,       \* last_top_
          rr,        \* rr_cursor_
          scanned,   \* history: the candidates of this tick
          seen,      \* history: what was read of this very task last
          previous,  \* history: the tasks read in the tick before
          current    \* history: the tasks read in this tick

taskVars    == <<inProc, cpu, events>>
activeVars   == <<activePids, hot>>
sampleVars  == <<spc, todo, rows, last, have, top, rr>>
usageVars == <<scanned, seen, previous, current>>
samplerVars == <<taskVars, activeVars, sampleVars, usageVars>>

\* A row: pid, total_time and share; was is what the last scan of this very
\* task read (history), direct whether that scan was the tick before's.
Row == [pid : Sampled, total : Nat, pct : Nat, was : Nat \cup {NoSample}, direct : BOOLEAN]

\* The tracker's scan of /proc is over.
SamplerInit ==
  /\ inProc \in SUBSET Sampled
  /\ cpu = [p \in Sampled |-> 0]
  /\ events = 0
  /\ activePids = inProc /\ hot = {}
  /\ spc = "idle" /\ todo = {} /\ rows = {}
  /\ last = [p \in Sampled |-> NoSample] /\ have = FALSE /\ top = {} /\ rr = 0
  /\ scanned = {} /\ seen = [p \in Sampled |-> NoSample] /\ previous = {} /\ current = {}
-----------------------------------------------------------------------------
(***************************************************************************)
(* Processes, and the event thread's updates.                              *)
(***************************************************************************)
Born(p) ==
  /\ events < MaxEvents
  /\ p \notin inProc
  /\ inProc' = inProc \cup {p}
  /\ events' = events + 1
  /\ UNCHANGED <<cpu, activeVars, sampleVars, usageVars>>

\* The pid's next holder starts at 0, and what was read is not of it.
Gone(p) ==
  /\ p \in inProc
  /\ inProc' = inProc \ {p}
  /\ cpu' = [cpu EXCEPT ![p] = 0]
  /\ seen' = [seen EXCEPT ![p] = NoSample]
  /\ previous' = previous \ {p} /\ current' = current \ {p}
  /\ UNCHANGED <<events, activeVars, sampleVars, scanned>>

\* FORK and EXEC make a pid hot, COMM only active.
EventInsert(p) ==
  /\ events < MaxEvents
  /\ events' = events + 1
  /\ activePids' = activePids \cup {p}
  /\ \/ hot' = hot \cup {p}
     \/ UNCHANGED hot
  /\ UNCHANGED <<inProc, cpu, sampleVars, usageVars>>

EventErase(p) ==
  /\ events < MaxEvents
  /\ p \in activePids
  /\ events' = events + 1
  /\ activePids' = activePids \ {p}
  /\ UNCHANGED <<inProc, cpu, hot, sampleVars, usageVars>>

Environment == \E p \in Sampled : Born(p) \/ Gone(p) \/ EventInsert(p) \/ EventErase(p)
-----------------------------------------------------------------------------
(***************************************************************************)
(* Choosing the candidates: the last top-K, then as many hot pids as fit,  *)
(* then round robin, where a pid that is in already uses up a turn.        *)
(***************************************************************************)
Position(p) == Cardinality({q \in activePids : q < p})

Kept == top \cap activePids

HotPicks ==
  LET hotter == (hot \cap activePids) \ Kept
      fits   == Min({Budget - Cardinality(Kept), Cardinality(hotter)})
  IN {H \in SUBSET hotter : Cardinality(H) = fits}

Turns(taken) ==
  {p \in activePids : \E k \in 0..taken - 1 : Position(p) = (rr + k) % Cardinality(activePids)}

\* Mutant: the cursor advances by what was added, not by what was passed.
AdvanceByAdded(taken, added) == (rr + added) % Cardinality(activePids)

Advance(taken, added) == (rr + taken) % Cardinality(activePids)

\* The first lock takes a copy of active_pids_ and drains hot_pids_; the rest
\* of the choice works on the copy.
SampleBegin ==
  /\ spc = "idle"
  /\ \E H \in HotPicks :
       LET picked == Kept \cup H
           taken  == Min({Cardinality(activePids), Budget - Cardinality(picked)})
       IN /\ todo' = picked \cup Turns(taken)
          /\ rr' = IF taken = 0 THEN rr ELSE Advance(taken, Cardinality(Turns(taken) \ picked))
  /\ hot' = {}
  /\ scanned' = todo'
  /\ spc' = "read"
  /\ UNCHANGED <<taskVars, activePids, rows, last, have, top, seen, previous, current>>

\* In ticks; a pid without a baseline, or with one from a holder that had
\* used more, reads 0.
Pct(p, total) == IF have /\ last[p] # NoSample /\ total > last[p] THEN total - last[p] ELSE 0

\* /proc/<pid>/stat, by which time the task has run for a while ...
ReadStat(p) ==
  /\ spc = "read"
  /\ p = Min(todo)
  /\ p \in inProc
  /\ \E total \in cpu[p]..MaxCpu :
       /\ cpu' = [cpu EXCEPT ![p] = total]
       /\ seen' = [seen EXCEPT ![p] = total]
       /\ rows' = rows \cup {[pid |-> p, total |-> total, pct |-> Pct(p, total),
                              was |-> seen[p], direct |-> p \in previous]}
  /\ todo' = todo \ {p}
  /\ current' = current \cup {p}
  /\ UNCHANGED <<inProc, events, activeVars, spc, last, have, top, rr, scanned, previous>>

\* ... or is gone: a placeholder row, whose total_time is 0.
ReadFailed(p) ==
  /\ spc = "read"
  /\ p = Min(todo)
  /\ p \notin inProc
  /\ rows' = rows \cup {[pid |-> p, total |-> 0, pct |-> 0, was |-> NoSample, direct |-> FALSE]}
  /\ todo' = todo \ {p}
  /\ UNCHANGED <<taskVars, activeVars, spc, last, have, top, rr, usageVars>>

\* top_k_by_cpu_pct: any MaxProcs rows that no other row exceeds.
TopRows == {K \in SUBSET rows :
              /\ Cardinality(K) = Min({MaxProcs, Cardinality(rows)})
              /\ \A r \in K, s \in rows \ K : r.pct >= s.pct}

Totals(R) == [p \in Sampled |-> IF \E r \in R : r.pid = p
                             THEN (CHOOSE r \in R : r.pid = p).total ELSE NoSample]

\* Mutant: only the rows that are kept become baselines.
BaselineTop(K) == Totals(K)

\* Every scanned pid becomes a baseline, and nothing else stays one.
Baseline(K) == Totals(rows)

\* Enrichment of the kept rows reads /proc and the title cache only.
SampleEnd ==
  /\ spc = "read"
  /\ todo = {}
  /\ \E K \in TopRows :
       /\ last' = Baseline(K)
       /\ top' = {r.pid : r \in K}
  /\ have' = TRUE
  /\ rows' = {}
  /\ spc' = "idle"
  /\ previous' = current /\ current' = {}
  /\ UNCHANGED <<taskVars, activeVars, todo, rr, scanned, seen>>

Sampler == SampleBegin \/ (\E p \in todo : ReadStat(p) \/ ReadFailed(p)) \/ SampleEnd
-----------------------------------------------------------------------------
SamplerNext == Environment \/ Sampler

SamplerSpec == SamplerInit /\ [][SamplerNext]_samplerVars

\* The Producer goes on calling sample(); processes and events owe nothing.
SamplerFairness == WF_samplerVars(Sampler)

SamplerFairSpec == SamplerSpec /\ SamplerFairness
-----------------------------------------------------------------------------
(***************************************************************************)
(* Properties.                                                             *)
(***************************************************************************)

\* The types of the sampler's state; shares are never negative.
SamplerTypeOK ==
  /\ inProc \subseteq Sampled /\ cpu \in [Sampled -> 0..MaxCpu] /\ events \in 0..MaxEvents
  /\ activePids \cup hot \cup todo \cup top \cup scanned \cup previous \cup current \subseteq Sampled
  /\ spc \in {"idle", "read"} /\ rows \subseteq Row /\ have \in BOOLEAN
  /\ last \in [Sampled -> 0..MaxCpu \cup {NoSample}] /\ seen \in [Sampled -> 0..MaxCpu \cup {NoSample}]
  /\ rr \in 0..NumSampled

(***************************************************************************)
(* A task that sample() reads in two consecutive ticks is charged exactly  *)
(* what it used in between, whether or not it made the published top-K,    *)
(* and whoever had its pid before.                                         *)
(***************************************************************************)
ExactShare == \A r \in rows : r.direct => r.pct = r.total - r.was

(***************************************************************************)
(* Once events cease, the round robin reaches every active pid again and   *)
(* again, however many are taken by the top-K.                             *)
(***************************************************************************)
EveryPidScanned == \A p \in Sampled : []<>(p \in activePids => p \in scanned)
=============================================================================
