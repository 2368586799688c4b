---------------------------- MODULE TraceTracking ----------------------------
(***************************************************************************)
(* Which processes and threads --trace follows: proc_map, discovery_map    *)
(* and thread_map of src/bpf/montauk_trace.bpf.c, written by the fork,     *)
(* exec, exit and sys_enter programs, and the collector's loop             *)
(* (src/collectors/BpfTraceCollector.cpp), which promotes discovered       *)
(* processes, enrolls threads and reads them out.                          *)
(*                                                                         *)
(* A BPF program is one step of the task it runs for; the collector's map  *)
(* walks take a step per element.  Tasks are the kernel's; a thread's tid  *)
(* and a process's pid are numbers of one space, and proc_map is looked up *)
(* by either: the fork program is told the forking thread's tid.           *)
(*                                                                         *)
(* A name stands for comm and file name alike.  The first token of the     *)
(* pattern is matched in BPF and in the collector, the other tokens only   *)
(* in the collector.  proc_map is the set of its keys: an entry's exit     *)
(* mark, times and titles decide nothing here, and exec events, which only *)
(* a process in the map emits, make the collector enter it once more.      *)
(* What the programs record of a system call and emit of a death is left   *)
(* out.                                                                    *)
(***************************************************************************)
EXTENDS Integers, Sequences, FiniteSets, FiniteSetsExt

CONSTANTS NumTids,    \* tids and pids are 1..NumTids
          MaxProcs,   \* TRACE_MAX_PIDS
          MaxForks,   \* bound: tasks created after the attach
          MaxNames    \* bound: execs and renames

ASSUME TrackingAssumption ==
  /\ {NumTids, MaxProcs} \subseteq Nat \ {0}
  /\ {MaxForks, MaxNames} \subseteq Nat

Tids  == 1..NumTids
Names == {"other", "primary", "secondary"}

VARIABLES task,     \* each tid: in use or not, its process, its name
          forks,    \* tasks created so far
          names,    \* names given so far
          proc,     \* the keys of proc_map
          others,   \* its entries that are no task of the model
          disc,     \* discovery_map: the recorded name, or "none"
          thr,      \* thread_map: the recorded process, or 0
          upc,      \* where the collector's loop is
          cursor,   \* the key or tid it is at
          rows,     \* threads in the snapshot so far
          heirs,    \* history: tasks all of whose forks must be tracked
          stale,    \* history: pids whose discovery entry is a former holder's
          owed,     \* history: threads the snapshot must hold
          full      \* history: an insertion into proc_map failed

taskVars      == <<task, forks, names>>
mapVars       == <<proc, others, disc, thr>>
collectorVars == <<upc, cursor, rows>>
historyVars   == <<heirs, stale, owed, full>>
trackingVars == <<taskVars, mapVars, collectorVars, historyVars>>

Free == [at |-> "free", tgid |-> 0, name |-> "other"]

\* A process of any name with a worker thread, whose name may be one that
\* would match, when the programs attach.
TrackingInit ==
  /\ \E leader \in Names, worker \in {"other", "primary"} :
       task = [t \in Tids |->
                 CASE t = 1 -> [at |-> "live", tgid |-> 1, name |-> leader]
                   [] t = 2 -> [at |-> "live", tgid |-> 1, name |-> worker]
                   [] OTHER -> Free]
  /\ forks = 0 /\ names = 0
  /\ proc = {} /\ others \in 0..1
  /\ disc = [t \in Tids |-> "none"]
  /\ thr = [t \in Tids |-> 0]
  /\ upc = "rescan" /\ cursor = 1 /\ rows = {}
  /\ heirs = {} /\ stale = {} /\ owed = {} /\ full = FALSE
-----------------------------------------------------------------------------
(***************************************************************************)
(* The maps.                                                               *)
(***************************************************************************)
Live(t)      == task[t].at = "live"
IsLeader(t)  == task[t].tgid = t
Group(p)     == {t \in Tids : Live(t) /\ task[t].tgid = p}

is_tracked(p) == p \in proc

MapHasRoom(p) == is_tracked(p) \/ Cardinality(proc) + others < MaxProcs

\* bpf_map_update_elem(&proc_map, p), the result of which nobody looks at.
Inserted(p) == IF MapHasRoom(p) THEN proc \cup {p} ELSE proc

auto_track_pid(p) == Inserted(p)

matches_any(name) == name # "other"

\* A process that becomes tracked as its only thread passes it on to all it forks.
Tracked(p) ==
  /\ heirs' = IF ~is_tracked(p) /\ MapHasRoom(p) /\ Group(p) = {p} THEN heirs \cup {p} ELSE heirs
  /\ full' = (full \/ ~MapHasRoom(p))
-----------------------------------------------------------------------------
(***************************************************************************)
(* Tasks and the programs on their tracepoints.                            *)
(***************************************************************************)

\* Mutant: only children that are processes of their own are entered.
handle_fork_processes(t, c) == IF is_tracked(t) /\ task'[c].tgid = c THEN Inserted(c) ELSE proc

\* parent_pid and child_pid of the tracepoint are tids.
handle_fork(t, c) == IF is_tracked(t) THEN Inserted(c) ELSE proc

Fork(t, c, thread) ==
  /\ forks < MaxForks
  /\ Live(t) /\ task[c].at = "free"
  /\ forks' = forks + 1
  /\ task' = [task EXCEPT ![c] = [at |-> "live", tgid |-> IF thread THEN task[t].tgid ELSE c,
                                  name |-> task[t].name]]
  /\ proc' = handle_fork(t, c)
  /\ heirs' = IF t \in heirs THEN heirs \cup {c} ELSE heirs
  /\ full' = (full \/ (is_tracked(t) /\ ~MapHasRoom(c)))
  /\ UNCHANGED <<names, others, disc, thr, collectorVars, stale, owed>>

\* exec ends the other threads first (each by its own Exit).
handle_exec(p, name) == IF name = "primary" THEN auto_track_pid(p) ELSE proc

Exec(p, name) ==
  /\ names < MaxNames
  /\ Live(p) /\ Group(p) = {p}
  /\ names' = names + 1
  /\ task' = [task EXCEPT ![p].name = name]
  /\ proc' = handle_exec(p, name)
  /\ IF name = "primary" THEN Tracked(p) ELSE UNCHANGED <<heirs, full>>
  /\ UNCHANGED <<forks, others, disc, thr, collectorVars, stale, owed>>

\* The entry of a process that is not tracked, from its leader's name, once.
Discovers(p) == ~is_tracked(p) /\ disc[p] = "none"

Discovered(t) == task[task[t].tgid].name

\* thread_map learns a thread of a tracked process at its first system call.
EnterThread(t, p) == IF p \in proc' /\ thr[t] = 0 THEN [thr EXCEPT ![t] = p] ELSE thr

\* The names of process p the program compares with the pattern: the one it
\* discovers, and the one of a prctl(PR_SET_NAME) by the leader, which is the
\* process's and replaces the entry.  new is "none" for any other call; the
\* kernel sets the name right after the program.
Renames(t, new) == new # "none" /\ t = task[t].tgid

SysEnter(t, new) ==
  LET p    == task[t].tgid
      seen == (IF Discovers(p) THEN {Discovered(t)} ELSE {})
              \cup (IF Renames(t, new) THEN {new} ELSE {})
  IN
  /\ Live(t)
  /\ new # "none" => names < MaxNames
  /\ names' = IF new # "none" THEN names + 1 ELSE names
  /\ task' = IF new # "none" THEN [task EXCEPT ![t].name = new] ELSE task
  /\ disc' = IF Renames(t, new) THEN [disc EXCEPT ![p] = new]
             ELSE IF Discovers(p) THEN [disc EXCEPT ![p] = Discovered(t)] ELSE disc
  /\ stale' = IF Renames(t, new) THEN stale \ {p} ELSE stale
  /\ IF "primary" \in seen
     THEN proc' = auto_track_pid(p) /\ Tracked(p)
     ELSE UNCHANGED <<proc, heirs, full>>
  /\ thr' = EnterThread(t, p)
  /\ UNCHANGED <<forks, others, collectorVars, owed>>

\* Every thread's exit; an entry in proc_map stays.
handle_exit(t) == [thr EXCEPT ![t] = 0]

Exit(t) ==
  /\ Live(t)
  /\ task' = [task EXCEPT ![t] = IF IsLeader(t) THEN [@ EXCEPT !.at = "zombie"] ELSE Free]
  /\ thr' = handle_exit(t)
  /\ heirs' = heirs \ {t} /\ owed' = owed \ {t}
  /\ UNCHANGED <<forks, names, proc, others, disc, collectorVars, stale, full>>

\* A leader is waited for when its last thread is gone; then its pid is free.
\* Its discovery entry stays.
Reap(p) ==
  /\ task[p].at = "zombie"
  /\ Group(p) = {}
  /\ task' = [task EXCEPT ![p] = Free]
  /\ stale' = IF disc[p] # "none" THEN stale \cup {p} ELSE stale
  /\ UNCHANGED <<forks, names, mapVars, collectorVars, heirs, owed, full>>

Tasks ==
  \E t \in Tids :
    \/ \E c \in Tids, thread \in BOOLEAN : Fork(t, c, thread)
    \/ \E name \in Names : Exec(t, name)
    \/ \E new \in Names \cup {"none"} : SysEnter(t, new)
    \/ Exit(t) \/ Reap(t)
-----------------------------------------------------------------------------
(***************************************************************************)
(* The collector's loop.                                                   *)
(***************************************************************************)

\* track_pid(), whether or not the process still lives.
track_pid(p) == proc' = Inserted(p) /\ Tracked(p)

\* rescan_comms(): look the next discovered process up ...
RescanSkip ==
  /\ upc = "rescan"
  /\ is_tracked(cursor) \/ ~matches_any(disc[cursor]) \/ disc[cursor] = "none"
  /\ cursor' = IF cursor = NumTids THEN 1 ELSE cursor + 1
  /\ upc' = IF cursor = NumTids THEN "sweep" ELSE upc
  /\ owed' = IF cursor = NumTids THEN {t \in Tids : Live(t) /\ is_tracked(task[t].tgid)} ELSE owed
  /\ UNCHANGED <<taskVars, mapVars, rows, heirs, stale, full>>

RescanFound ==
  /\ upc = "rescan"
  /\ ~is_tracked(cursor) /\ disc[cursor] # "none" /\ matches_any(disc[cursor])
  /\ upc' = "promote"
  /\ UNCHANGED <<taskVars, mapVars, cursor, rows, historyVars>>

\* ... and track it, a system call later.
Promote ==
  /\ upc = "promote"
  /\ track_pid(cursor)
  /\ upc' = "rescan"
  /\ UNCHANGED <<taskVars, others, disc, thr, cursor, rows, stale, owed>>

\* Mutant: only processes' leaders are enrolled.
enroll_leaders(t) == IF task[t].at # "free" /\ is_tracked(task[t].tgid) /\ thr[t] = 0 /\ IsLeader(t)
                     THEN [thr EXCEPT ![t] = task[t].tgid] ELSE thr

\* The task iterator, zombies included.
enroll_threads(t) == IF task[t].at # "free" /\ is_tracked(task[t].tgid) /\ thr[t] = 0
                     THEN [thr EXCEPT ![t] = task[t].tgid] ELSE thr

Sweep ==
  /\ upc = "sweep"
  /\ thr' = enroll_threads(cursor)
  /\ cursor' = IF cursor = NumTids THEN 0 ELSE cursor + 1
  /\ upc' = IF cursor = NumTids THEN "read" ELSE upc
  /\ rows' = {}
  /\ UNCHANGED <<taskVars, proc, others, disc, historyVars>>

\* bpf_map_get_next_key(): from a key that is gone, the first key again.
Enrolled == {t \in Tids : thr[t] # 0}

NextKeys == {t \in Enrolled : cursor \in Enrolled => t > cursor}

\* A row for each thread whose process is tracked; any other is deleted.
ReadThread ==
  /\ upc = "read"
  /\ NextKeys # {}
  /\ LET t == Min(NextKeys) IN
       /\ cursor' = t
       /\ IF is_tracked(thr[t]) THEN rows' = rows \cup {t} /\ UNCHANGED thr
          ELSE thr' = [thr EXCEPT ![t] = 0] /\ UNCHANGED rows
  /\ UNCHANGED <<taskVars, proc, others, disc, upc, historyVars>>

\* The snapshot is published; the next round begins.
ReadDone == upc = "read" /\ NextKeys = {}

Publish ==
  /\ ReadDone
  /\ upc' = "rescan" /\ cursor' = 1 /\ rows' = {}
  /\ owed' = {}
  /\ UNCHANGED <<taskVars, mapVars, heirs, stale, full>>

Collector == \/ RescanSkip \/ RescanFound \/ Promote
             \/ Sweep \/ ReadThread \/ Publish
-----------------------------------------------------------------------------
TrackingNext == Tasks \/ Collector

TrackingSpec == TrackingInit /\ [][TrackingNext]_trackingVars
-----------------------------------------------------------------------------
(***************************************************************************)
(* Properties.                                                             *)
(***************************************************************************)

(***************************************************************************)
(* Children auto-track: all that a process and its threads ever fork after *)
(* it was tracked as a single thread is tracked, although the fork program *)
(* is told the forking thread and not its process, unless proc_map was     *)
(* full.                                                                   *)
(***************************************************************************)
DescendantsTracked == ~full => \A t \in heirs : is_tracked(task[t].tgid)

(***************************************************************************)
(* A live process whose name matches the first token is tracked once it    *)
(* was discovered, however it came by the name, unless proc_map was  *)
(* full or the discovery entry of its pid is an earlier process's.         *)
(***************************************************************************)
MatchIsTracked ==
  \A p \in Tids : Live(p) /\ IsLeader(p) /\ task[p].name = "primary" /\ disc[p] # "none" =>
    is_tracked(p) \/ full \/ p \in stale

\* Who should be tracked is: the descendants of a tracked process and the
\* processes that match the pattern.
TrackedAsAsked == DescendantsTracked /\ MatchIsTracked

(***************************************************************************)
(* A published snapshot has every thread that lives since before the       *)
(* sweep and whose process was tracked then, whatever threads start and    *)
(* end while the maps are walked.                                          *)
(***************************************************************************)
SnapshotIsComplete == ReadDone => owed \subseteq rows
=============================================================================
