---------------------------- MODULE TraceProofs -----------------------------
(***************************************************************************)
(* Proofs about the BPF programs and the collector: --trace follows the    *)
(* processes and threads it should, the events of file I/O are about the   *)
(* calls that returned, the programs attach when nothing else can fail, the*)
(* heap the memory reports replay is the program's; and about the gate     *)
(* that compares a run with a frozen one.                                  *)
(***************************************************************************)
EXTENDS TraceTracking, IoTrace, Capture, HeapTrace, Golden, SetInduction,
        FiniteSetTheorems, TLAPS

(***************************************************************************)
(* TraceTracking.                                                          *)
(***************************************************************************)
TrackedTask == [at : {"free", "live", "zombie"}, tgid : 0 .. NumTids, name : Names]

TrackingTypeOK ==
  /\ task \in [Tids -> TrackedTask]
  /\ forks \in Nat /\ names \in Nat
  /\ proc \subseteq Tids /\ others \in 0 .. 1
  /\ disc \in [Tids -> Names \cup {"none"}]
  /\ thr \in [Tids -> 0 .. NumTids]
  /\ upc \in {"rescan", "promote", "sweep", "read"}
  /\ cursor \in 0 .. NumTids
  /\ rows \subseteq Tids
  /\ heirs \subseteq Tids /\ stale \subseteq Tids /\ owed \subseteq Tids
  /\ full \in BOOLEAN

\* A pid stays its process's while a thread of it runs.
GroupsFollow ==
  \A t \in Tids :
    /\ task[t].at = "free" => task[t] = Free
    /\ task[t].at = "zombie" => task[t].tgid = t
    /\ Live(t) => /\ task[t].tgid \in Tids
                  /\ task[task[t].tgid].at # "free"
                  /\ task[task[t].tgid].tgid = task[t].tgid

\* The heirs are in the map themselves: by a fork program a thread's own
\* number is looked up, not its process's.
HeirsAreEntered ==
  /\ \A t \in heirs : Live(t)
  /\ ~full => \A t \in heirs : is_tracked(t) /\ is_tracked(task[t].tgid)

\* A discovery entry of a number that is no process now is a former holder's.
DiscoveryFollows ==
  \A p \in Tids : disc[p] # "none" => p \in stale \/ (task[p].at # "free" /\ IsLeader(p))

\* What the walks over the maps have done for the threads they owe.
WalksFollow ==
  /\ \A t \in Tids : thr[t] # 0 => is_tracked(thr[t])
  /\ \A t \in owed : Live(t) /\ is_tracked(task[t].tgid)
  /\ upc \in {"rescan", "promote"} => owed = {} /\ cursor # 0
  /\ upc = "sweep" => cursor # 0 /\ \A t \in owed : t < cursor => thr[t] # 0
  /\ upc = "read" => \A t \in owed : thr[t] # 0 /\ (t <= cursor => t \in rows)

TrackingInv ==
  /\ TrackingTypeOK /\ GroupsFollow /\ HeirsAreEntered
  /\ DiscoveryFollows /\ MatchIsTracked /\ WalksFollow
-----------------------------------------------------------------------------
LEMMA TrackingStarts == TrackingInit => TrackingInv
<1> SUFFICES ASSUME TrackingInit PROVE TrackingInv
  OBVIOUS
<1>1. TrackingTypeOK
  <2>1. task \in [Tids -> TrackedTask]
    BY TrackingAssumption DEF TrackingInit, TrackedTask, Free, Names, Tids
  <2>2. disc \in [Tids -> Names \cup {"none"}] /\ thr \in [Tids -> 0 .. NumTids] /\ cursor \in 0 .. NumTids
    BY TrackingAssumption DEF TrackingInit
  <2>3. QED
    BY <2>1, <2>2 DEF TrackingInit, TrackingTypeOK
<1>2. GroupsFollow /\ HeirsAreEntered /\ DiscoveryFollows /\ MatchIsTracked /\ WalksFollow
  BY <1>1, TrackingAssumption DEF TrackingInit, TrackingTypeOK, Tids, Free, Live, GroupsFollow,
       HeirsAreEntered, DiscoveryFollows, MatchIsTracked, WalksFollow
<1>3. QED
  BY <1>1, <1>2 DEF TrackingInv

\* An insertion keeps what the map holds; the new key is in it if there was room.
LEMMA InsertedKeeps ==
  ASSUME TrackingTypeOK, NEW p \in Tids
  PROVE  /\ proc \subseteq Inserted(p) /\ Inserted(p) \subseteq Tids
         /\ MapHasRoom(p) => p \in Inserted(p)
         /\ MapHasRoom(p) \in BOOLEAN
  BY DEF Inserted, MapHasRoom, TrackingTypeOK

LEMMA CursorIsTid ==
  ASSUME TrackingTypeOK, WalksFollow, upc # "read"
  PROVE  cursor \in Tids
  BY TrackingAssumption DEF TrackingTypeOK, WalksFollow, Tids

LEMMA LeastTid ==
  ASSUME NEW T \in SUBSET Tids, T # {}
  PROVE  Min(T) \in T /\ \A y \in T : Min(T) <= y
<1>1. T \subseteq Nat
  BY TrackingAssumption DEF Tids
<1>2. PICK least \in T : \A y \in T : least <= y
  BY <1>1, LeastNatural
<1>3. QED
  BY <1>2 DEF Min

LEMMA TrackingTypeOKKept ==
  ASSUME TrackingTypeOK, GroupsFollow, WalksFollow,
         [TrackingNext]_trackingVars
  PROVE  TrackingTypeOK'
<1>1. ASSUME NEW t \in Tids, NEW c \in Tids, NEW thread \in BOOLEAN, Fork(t, c, thread) PROVE TrackingTypeOK'
  <2>1. task' \in [Tids -> TrackedTask] /\ forks' \in Nat /\ names' \in Nat
    <3>1. [at |-> "live", tgid |-> IF thread THEN task[t].tgid ELSE c, name |-> task[t].name] \in TrackedTask
      BY <1>1, TrackingAssumption, SMTT(30) DEF TrackingTypeOK, TrackedTask, Tids
    <3>2. QED
      BY <1>1, <3>1 DEF Fork, TrackingTypeOK
  <2>2. proc' \subseteq Tids /\ others' \in 0 .. 1 /\ disc' \in [Tids -> Names \cup {"none"}] /\ thr' \in [Tids -> 0 .. NumTids]
    BY <1>1, InsertedKeeps, TrackingAssumption DEF Fork, handle_fork, TrackingTypeOK, TrackedTask, Free, Names, Tids, taskVars, mapVars, collectorVars, historyVars
  <2>3. upc' \in {"rescan", "promote", "sweep", "read"} /\ cursor' \in 0 .. NumTids /\ rows' \subseteq Tids
    BY <1>1, InsertedKeeps, TrackingAssumption DEF Fork, handle_fork, TrackingTypeOK, TrackedTask, Free, Names, Tids, taskVars, mapVars, collectorVars, historyVars
  <2>4. heirs' \subseteq Tids /\ stale' \subseteq Tids /\ owed' \subseteq Tids
    BY <1>1, InsertedKeeps, TrackingAssumption DEF Fork, handle_fork, TrackingTypeOK, TrackedTask, Free, Names, Tids, taskVars, mapVars, collectorVars, historyVars
  <2>5. full' \in BOOLEAN
    BY <1>1, InsertedKeeps, TrackingAssumption DEF Fork, handle_fork, TrackingTypeOK, TrackedTask, Free, Names, Tids, taskVars, mapVars, collectorVars, historyVars
  <2>6. QED
    BY <2>1, <2>2, <2>3, <2>4, <2>5 DEF TrackingTypeOK
<1>2. ASSUME NEW p \in Tids, NEW name \in Names, Exec(p, name) PROVE TrackingTypeOK'
  <2>1. task' \in [Tids -> TrackedTask] /\ forks' \in Nat /\ names' \in Nat
    <3>1. [task[p] EXCEPT !.name = name] \in TrackedTask
      BY DEF TrackingTypeOK, TrackedTask
    <3>2. QED
      BY <1>2, <3>1 DEF Exec, TrackingTypeOK
  <2>2. proc' \subseteq Tids /\ others' \in 0 .. 1 /\ disc' \in [Tids -> Names \cup {"none"}] /\ thr' \in [Tids -> 0 .. NumTids]
    BY <1>2, InsertedKeeps, TrackingAssumption DEF Exec, handle_exec, auto_track_pid, Tracked, TrackingTypeOK, TrackedTask, Free, Names, Tids, taskVars, mapVars, collectorVars, historyVars
  <2>3. upc' \in {"rescan", "promote", "sweep", "read"} /\ cursor' \in 0 .. NumTids /\ rows' \subseteq Tids
    BY <1>2, InsertedKeeps, TrackingAssumption DEF Exec, handle_exec, auto_track_pid, Tracked, TrackingTypeOK, TrackedTask, Free, Names, Tids, taskVars, mapVars, collectorVars, historyVars
  <2>4. heirs' \subseteq Tids /\ stale' \subseteq Tids /\ owed' \subseteq Tids
    BY <1>2, InsertedKeeps, TrackingAssumption DEF Exec, handle_exec, auto_track_pid, Tracked, TrackingTypeOK, TrackedTask, Free, Names, Tids, taskVars, mapVars, collectorVars, historyVars
  <2>5. full' \in BOOLEAN
    BY <1>2, InsertedKeeps, TrackingAssumption DEF Exec, handle_exec, auto_track_pid, Tracked, TrackingTypeOK, TrackedTask, Free, Names, Tids, taskVars, mapVars, collectorVars, historyVars
  <2>6. QED
    BY <2>1, <2>2, <2>3, <2>4, <2>5 DEF TrackingTypeOK
<1>3. ASSUME NEW t \in Tids, NEW new \in Names \cup {"none"}, SysEnter(t, new) PROVE TrackingTypeOK'
  <2>0. task[t].tgid \in Tids /\ Discovered(t) \in Names
    BY <1>3 DEF SysEnter, GroupsFollow, Discovered, TrackingTypeOK, TrackedTask
  <2>1. task' \in [Tids -> TrackedTask] /\ forks' \in Nat /\ names' \in Nat
    <3>1. new # "none" => [task[t] EXCEPT !.name = new] \in TrackedTask
      BY DEF TrackingTypeOK, TrackedTask
    <3>2. QED
      BY <1>3, <3>1 DEF SysEnter, TrackingTypeOK
  <2>2. proc' \subseteq Tids /\ others' \in 0 .. 1 /\ disc' \in [Tids -> Names \cup {"none"}] /\ thr' \in [Tids -> 0 .. NumTids]
    <3>1. proc' \subseteq Tids /\ others' \in 0 .. 1
      BY <1>3, <2>0, InsertedKeeps DEF SysEnter, auto_track_pid, TrackingTypeOK
    <3>2. disc' \in [Tids -> Names \cup {"none"}]
      BY <1>3, <2>0 DEF SysEnter, Renames, TrackingTypeOK
    <3>3. thr' \in [Tids -> 0 .. NumTids]
      BY <1>3, <2>0, TrackingAssumption, SMTT(30) DEF SysEnter, EnterThread, TrackingTypeOK, Tids
    <3>4. QED
      BY <3>1, <3>2, <3>3
  <2>3. upc' \in {"rescan", "promote", "sweep", "read"} /\ cursor' \in 0 .. NumTids /\ rows' \subseteq Tids
    BY <1>3, <2>0, InsertedKeeps, TrackingAssumption DEF SysEnter, auto_track_pid, Tracked, EnterThread, TrackingTypeOK, Tids, taskVars, mapVars, collectorVars, historyVars
  <2>4. heirs' \subseteq Tids /\ stale' \subseteq Tids /\ owed' \subseteq Tids
    BY <1>3, <2>0, InsertedKeeps, TrackingAssumption DEF SysEnter, auto_track_pid, Tracked, EnterThread, TrackingTypeOK, Tids, taskVars, mapVars, collectorVars, historyVars
  <2>5. full' \in BOOLEAN
    BY <1>3, <2>0, InsertedKeeps, TrackingAssumption DEF SysEnter, auto_track_pid, Tracked, EnterThread, TrackingTypeOK, Tids, taskVars, mapVars, collectorVars, historyVars
  <2>6. QED
    BY <2>1, <2>2, <2>3, <2>4, <2>5 DEF TrackingTypeOK
<1>4. ASSUME NEW t \in Tids, Exit(t) PROVE TrackingTypeOK'
  <2>1. task' \in [Tids -> TrackedTask] /\ forks' \in Nat /\ names' \in Nat
    <3>1. [task[t] EXCEPT !.at = "zombie"] \in TrackedTask /\ Free \in TrackedTask
      BY TrackingAssumption DEF TrackingTypeOK, TrackedTask, Free, Names
    <3>2. QED
      BY <1>4, <3>1 DEF Exit, TrackingTypeOK
  <2>2. proc' \subseteq Tids /\ others' \in 0 .. 1 /\ disc' \in [Tids -> Names \cup {"none"}] /\ thr' \in [Tids -> 0 .. NumTids]
    BY <1>4, TrackingAssumption DEF Exit, handle_exit, TrackingTypeOK, TrackedTask, Free, Names, Tids, taskVars, mapVars, collectorVars, historyVars
  <2>3. upc' \in {"rescan", "promote", "sweep", "read"} /\ cursor' \in 0 .. NumTids /\ rows' \subseteq Tids
    BY <1>4, TrackingAssumption DEF Exit, handle_exit, TrackingTypeOK, TrackedTask, Free, Names, Tids, taskVars, mapVars, collectorVars, historyVars
  <2>4. heirs' \subseteq Tids /\ stale' \subseteq Tids /\ owed' \subseteq Tids
    BY <1>4, TrackingAssumption DEF Exit, handle_exit, TrackingTypeOK, TrackedTask, Free, Names, Tids, taskVars, mapVars, collectorVars, historyVars
  <2>5. full' \in BOOLEAN
    BY <1>4, TrackingAssumption DEF Exit, handle_exit, TrackingTypeOK, TrackedTask, Free, Names, Tids, taskVars, mapVars, collectorVars, historyVars
  <2>6. QED
    BY <2>1, <2>2, <2>3, <2>4, <2>5 DEF TrackingTypeOK
<1>5. ASSUME NEW p \in Tids, Reap(p) PROVE TrackingTypeOK'
  <2>1. task' \in [Tids -> TrackedTask] /\ forks' \in Nat /\ names' \in Nat
    BY <1>5, TrackingAssumption DEF Reap, TrackingTypeOK, TrackedTask, Free, Names, Tids, taskVars, mapVars, collectorVars, historyVars
  <2>2. proc' \subseteq Tids /\ others' \in 0 .. 1 /\ disc' \in [Tids -> Names \cup {"none"}] /\ thr' \in [Tids -> 0 .. NumTids]
    BY <1>5, TrackingAssumption DEF Reap, TrackingTypeOK, TrackedTask, Free, Names, Tids, taskVars, mapVars, collectorVars, historyVars
  <2>3. upc' \in {"rescan", "promote", "sweep", "read"} /\ cursor' \in 0 .. NumTids /\ rows' \subseteq Tids
    BY <1>5, TrackingAssumption DEF Reap, TrackingTypeOK, TrackedTask, Free, Names, Tids, taskVars, mapVars, collectorVars, historyVars
  <2>4. heirs' \subseteq Tids /\ stale' \subseteq Tids /\ owed' \subseteq Tids
    BY <1>5, TrackingAssumption DEF Reap, TrackingTypeOK, TrackedTask, Free, Names, Tids, taskVars, mapVars, collectorVars, historyVars
  <2>5. full' \in BOOLEAN
    BY <1>5, TrackingAssumption DEF Reap, TrackingTypeOK, TrackedTask, Free, Names, Tids, taskVars, mapVars, collectorVars, historyVars
  <2>6. QED
    BY <2>1, <2>2, <2>3, <2>4, <2>5 DEF TrackingTypeOK
<1>6. ASSUME RescanSkip PROVE TrackingTypeOK'
  <2>1. task' \in [Tids -> TrackedTask] /\ forks' \in Nat /\ names' \in Nat
    BY <1>6, CursorIsTid, TrackingAssumption DEF RescanSkip, TrackingTypeOK, TrackedTask, Free, Names, Tids, taskVars, mapVars, collectorVars, historyVars
  <2>2. proc' \subseteq Tids /\ others' \in 0 .. 1 /\ disc' \in [Tids -> Names \cup {"none"}] /\ thr' \in [Tids -> 0 .. NumTids]
    BY <1>6, CursorIsTid, TrackingAssumption DEF RescanSkip, TrackingTypeOK, TrackedTask, Free, Names, Tids, taskVars, mapVars, collectorVars, historyVars
  <2>3. upc' \in {"rescan", "promote", "sweep", "read"} /\ cursor' \in 0 .. NumTids /\ rows' \subseteq Tids
    BY <1>6, CursorIsTid, TrackingAssumption DEF RescanSkip, TrackingTypeOK, TrackedTask, Free, Names, Tids, taskVars, mapVars, collectorVars, historyVars
  <2>4. heirs' \subseteq Tids /\ stale' \subseteq Tids /\ owed' \subseteq Tids
    BY <1>6, CursorIsTid, TrackingAssumption DEF RescanSkip, TrackingTypeOK, TrackedTask, Free, Names, Tids, taskVars, mapVars, collectorVars, historyVars
  <2>5. full' \in BOOLEAN
    BY <1>6, CursorIsTid, TrackingAssumption DEF RescanSkip, TrackingTypeOK, TrackedTask, Free, Names, Tids, taskVars, mapVars, collectorVars, historyVars
  <2>6. QED
    BY <2>1, <2>2, <2>3, <2>4, <2>5 DEF TrackingTypeOK
<1>7. ASSUME RescanFound PROVE TrackingTypeOK'
  BY <1>7 DEF RescanFound, TrackingTypeOK, TrackedTask, Free, Names, Tids, taskVars, mapVars, collectorVars, historyVars
<1>8. ASSUME Promote PROVE TrackingTypeOK'
  <2>1. task' \in [Tids -> TrackedTask] /\ forks' \in Nat /\ names' \in Nat
    BY <1>8, InsertedKeeps, CursorIsTid, TrackingAssumption DEF Promote, track_pid, Tracked, TrackingTypeOK, TrackedTask, Free, Names, Tids, taskVars, mapVars, collectorVars, historyVars
  <2>2. proc' \subseteq Tids /\ others' \in 0 .. 1 /\ disc' \in [Tids -> Names \cup {"none"}] /\ thr' \in [Tids -> 0 .. NumTids]
    BY <1>8, InsertedKeeps, CursorIsTid, TrackingAssumption DEF Promote, track_pid, Tracked, TrackingTypeOK, TrackedTask, Free, Names, Tids, taskVars, mapVars, collectorVars, historyVars
  <2>3. upc' \in {"rescan", "promote", "sweep", "read"} /\ cursor' \in 0 .. NumTids /\ rows' \subseteq Tids
    BY <1>8, InsertedKeeps, CursorIsTid, TrackingAssumption DEF Promote, track_pid, Tracked, TrackingTypeOK, TrackedTask, Free, Names, Tids, taskVars, mapVars, collectorVars, historyVars
  <2>4. heirs' \subseteq Tids /\ stale' \subseteq Tids /\ owed' \subseteq Tids
    BY <1>8, InsertedKeeps, CursorIsTid, TrackingAssumption DEF Promote, track_pid, Tracked, TrackingTypeOK, TrackedTask, Free, Names, Tids, taskVars, mapVars, collectorVars, historyVars
  <2>5. full' \in BOOLEAN
    BY <1>8, InsertedKeeps, CursorIsTid, TrackingAssumption DEF Promote, track_pid, Tracked, TrackingTypeOK, TrackedTask, Free, Names, Tids, taskVars, mapVars, collectorVars, historyVars
  <2>6. QED
    BY <2>1, <2>2, <2>3, <2>4, <2>5 DEF TrackingTypeOK
<1>9. ASSUME Sweep PROVE TrackingTypeOK'
  <2>1. task' \in [Tids -> TrackedTask] /\ forks' \in Nat /\ names' \in Nat
    BY <1>9, CursorIsTid, TrackingAssumption DEF Sweep, enroll_threads, TrackingTypeOK, TrackedTask, Free, Names, Tids, taskVars, mapVars, collectorVars, historyVars
  <2>2. proc' \subseteq Tids /\ others' \in 0 .. 1 /\ disc' \in [Tids -> Names \cup {"none"}] /\ thr' \in [Tids -> 0 .. NumTids]
    BY <1>9, CursorIsTid, TrackingAssumption DEF Sweep, enroll_threads, TrackingTypeOK, TrackedTask, Free, Names, Tids, taskVars, mapVars, collectorVars, historyVars
  <2>3. upc' \in {"rescan", "promote", "sweep", "read"} /\ cursor' \in 0 .. NumTids /\ rows' \subseteq Tids
    BY <1>9, CursorIsTid, TrackingAssumption DEF Sweep, enroll_threads, TrackingTypeOK, TrackedTask, Free, Names, Tids, taskVars, mapVars, collectorVars, historyVars
  <2>4. heirs' \subseteq Tids /\ stale' \subseteq Tids /\ owed' \subseteq Tids
    BY <1>9, CursorIsTid, TrackingAssumption DEF Sweep, enroll_threads, TrackingTypeOK, TrackedTask, Free, Names, Tids, taskVars, mapVars, collectorVars, historyVars
  <2>5. full' \in BOOLEAN
    BY <1>9, CursorIsTid, TrackingAssumption DEF Sweep, enroll_threads, TrackingTypeOK, TrackedTask, Free, Names, Tids, taskVars, mapVars, collectorVars, historyVars
  <2>6. QED
    BY <2>1, <2>2, <2>3, <2>4, <2>5 DEF TrackingTypeOK
<1>10. ASSUME ReadThread PROVE TrackingTypeOK'
  <2>0. Min(NextKeys) \in Tids /\ Tids \subseteq 0 .. NumTids
    BY <1>10, LeastTid, TrackingAssumption DEF ReadThread, NextKeys, Enrolled, Tids
  <2>1. task' \in [Tids -> TrackedTask] /\ forks' \in Nat /\ names' \in Nat
    BY <1>10, <2>0 DEF ReadThread, TrackingTypeOK, TrackedTask, Free, Names, Tids, taskVars, mapVars, collectorVars, historyVars
  <2>2. proc' \subseteq Tids /\ others' \in 0 .. 1 /\ disc' \in [Tids -> Names \cup {"none"}] /\ thr' \in [Tids -> 0 .. NumTids]
    <3>1. thr' = thr \/ thr' = [thr EXCEPT ![Min(NextKeys)] = 0]
      BY <1>10 DEF ReadThread
    <3>2. thr' \in [Tids -> 0 .. NumTids]
      BY <3>1, <2>0, TrackingAssumption DEF TrackingTypeOK
    <3>3. QED
      BY <1>10, <3>2 DEF ReadThread, TrackingTypeOK, mapVars
  <2>3. upc' \in {"rescan", "promote", "sweep", "read"} /\ cursor' \in 0 .. NumTids /\ rows' \subseteq Tids
    BY <1>10, <2>0 DEF ReadThread, TrackingTypeOK, TrackedTask, Free, Names, Tids, taskVars, mapVars, collectorVars, historyVars
  <2>4. heirs' \subseteq Tids /\ stale' \subseteq Tids /\ owed' \subseteq Tids
    BY <1>10, <2>0 DEF ReadThread, TrackingTypeOK, TrackedTask, Free, Names, Tids, taskVars, mapVars, collectorVars, historyVars
  <2>5. full' \in BOOLEAN
    BY <1>10, <2>0 DEF ReadThread, TrackingTypeOK, TrackedTask, Free, Names, Tids, taskVars, mapVars, collectorVars, historyVars
  <2>6. QED
    BY <2>1, <2>2, <2>3, <2>4, <2>5 DEF TrackingTypeOK
<1>11. ASSUME Publish PROVE TrackingTypeOK'
  <2>1. task' \in [Tids -> TrackedTask] /\ forks' \in Nat /\ names' \in Nat
    BY <1>11, TrackingAssumption DEF Publish, TrackingTypeOK, TrackedTask, Free, Names, Tids, taskVars, mapVars, collectorVars, historyVars
  <2>2. proc' \subseteq Tids /\ others' \in 0 .. 1 /\ disc' \in [Tids -> Names \cup {"none"}] /\ thr' \in [Tids -> 0 .. NumTids]
    BY <1>11, TrackingAssumption DEF Publish, TrackingTypeOK, TrackedTask, Free, Names, Tids, taskVars, mapVars, collectorVars, historyVars
  <2>3. upc' \in {"rescan", "promote", "sweep", "read"} /\ cursor' \in 0 .. NumTids /\ rows' \subseteq Tids
    BY <1>11, TrackingAssumption DEF Publish, TrackingTypeOK, TrackedTask, Free, Names, Tids, taskVars, mapVars, collectorVars, historyVars
  <2>4. heirs' \subseteq Tids /\ stale' \subseteq Tids /\ owed' \subseteq Tids
    BY <1>11, TrackingAssumption DEF Publish, TrackingTypeOK, TrackedTask, Free, Names, Tids, taskVars, mapVars, collectorVars, historyVars
  <2>5. full' \in BOOLEAN
    BY <1>11, TrackingAssumption DEF Publish, TrackingTypeOK, TrackedTask, Free, Names, Tids, taskVars, mapVars, collectorVars, historyVars
  <2>6. QED
    BY <2>1, <2>2, <2>3, <2>4, <2>5 DEF TrackingTypeOK
<1>12. ASSUME UNCHANGED trackingVars PROVE TrackingTypeOK'
  BY <1>12 DEF trackingVars, TrackingTypeOK, TrackedTask, Free, Names, Tids, taskVars, mapVars, collectorVars, historyVars
<1>13. QED
  BY <1>1, <1>2, <1>3, <1>4, <1>5, <1>6, <1>7, <1>8, <1>9, <1>10, <1>11, <1>12 DEF TrackingNext, Tasks, Collector

LEMMA TrackingGroupsKept ==
  ASSUME TrackingTypeOK, GroupsFollow,
         [TrackingNext]_trackingVars
  PROVE  GroupsFollow'
<1>1. ASSUME NEW t \in Tids, NEW c \in Tids, NEW thread \in BOOLEAN, Fork(t, c, thread) PROVE GroupsFollow'
  BY <1>1, InsertedKeeps DEF Fork, handle_fork, GroupsFollow, TrackingTypeOK, TrackedTask, Live, Free, Group, IsLeader, taskVars, mapVars, collectorVars, historyVars
<1>2. ASSUME NEW p \in Tids, NEW name \in Names, Exec(p, name) PROVE GroupsFollow'
  BY <1>2, InsertedKeeps DEF Exec, handle_exec, auto_track_pid, Tracked, GroupsFollow, TrackingTypeOK, TrackedTask, Live, Free, Group, IsLeader, taskVars, mapVars, collectorVars, historyVars
<1>3. ASSUME NEW t \in Tids, NEW new \in Names \cup {"none"}, SysEnter(t, new) PROVE GroupsFollow'
  BY <1>3, InsertedKeeps DEF SysEnter, auto_track_pid, Tracked, EnterThread, Renames, Discovers, Discovered, GroupsFollow, TrackingTypeOK, TrackedTask, Live, Free, Group, IsLeader, taskVars, mapVars, collectorVars, historyVars
<1>4. ASSUME NEW t \in Tids, Exit(t) PROVE GroupsFollow'
  BY <1>4 DEF Exit, handle_exit, GroupsFollow, TrackingTypeOK, TrackedTask, Live, Free, Group, IsLeader, taskVars, mapVars, collectorVars, historyVars
<1>5. ASSUME NEW p \in Tids, Reap(p) PROVE GroupsFollow'
  BY <1>5 DEF Reap, GroupsFollow, TrackingTypeOK, TrackedTask, Live, Free, Group, IsLeader, taskVars, mapVars, collectorVars, historyVars
<1>6. ASSUME RescanSkip PROVE GroupsFollow'
  BY <1>6 DEF RescanSkip, GroupsFollow, TrackingTypeOK, TrackedTask, Live, Free, Group, IsLeader, taskVars, mapVars, collectorVars, historyVars
<1>7. ASSUME RescanFound PROVE GroupsFollow'
  BY <1>7 DEF RescanFound, GroupsFollow, TrackingTypeOK, TrackedTask, Live, Free, Group, IsLeader, taskVars, mapVars, collectorVars, historyVars
<1>8. ASSUME Promote PROVE GroupsFollow'
  BY <1>8, InsertedKeeps, CursorIsTid DEF Promote, track_pid, Tracked, GroupsFollow, TrackingTypeOK, TrackedTask, Live, Free, Group, IsLeader, taskVars, mapVars, collectorVars, historyVars
<1>9. ASSUME Sweep PROVE GroupsFollow'
  BY <1>9 DEF Sweep, enroll_threads, GroupsFollow, TrackingTypeOK, TrackedTask, Live, Free, Group, IsLeader, taskVars, mapVars, collectorVars, historyVars
<1>10. ASSUME ReadThread PROVE GroupsFollow'
  BY <1>10 DEF ReadThread, GroupsFollow, TrackingTypeOK, TrackedTask, Live, Free, Group, IsLeader, taskVars, mapVars, collectorVars, historyVars
<1>11. ASSUME Publish PROVE GroupsFollow'
  BY <1>11 DEF Publish, GroupsFollow, TrackingTypeOK, TrackedTask, Live, Free, Group, IsLeader, taskVars, mapVars, collectorVars, historyVars
<1>12. ASSUME UNCHANGED trackingVars PROVE GroupsFollow'
  BY <1>12 DEF trackingVars, GroupsFollow, TrackingTypeOK, TrackedTask, Live, Free, Group, IsLeader, taskVars, mapVars, collectorVars, historyVars
<1>13. QED
  BY <1>1, <1>2, <1>3, <1>4, <1>5, <1>6, <1>7, <1>8, <1>9, <1>10, <1>11, <1>12 DEF TrackingNext, Tasks, Collector

LEMMA TrackingHeirsKept ==
  ASSUME TrackingTypeOK, GroupsFollow, WalksFollow, HeirsAreEntered,
         [TrackingNext]_trackingVars
  PROVE  HeirsAreEntered'
<1>1. ASSUME NEW t \in Tids, NEW c \in Tids, NEW thread \in BOOLEAN, Fork(t, c, thread) PROVE HeirsAreEntered'
  BY <1>1, InsertedKeeps, ZenonT(30) DEF Fork, handle_fork, HeirsAreEntered, GroupsFollow, TrackingTypeOK, TrackedTask, Live, Free, Group, is_tracked, IsLeader, taskVars, mapVars, collectorVars, historyVars
<1>2. ASSUME NEW p \in Tids, NEW name \in Names, Exec(p, name) PROVE HeirsAreEntered'
  BY <1>2, InsertedKeeps DEF Exec, handle_exec, auto_track_pid, Tracked, HeirsAreEntered, GroupsFollow, TrackingTypeOK, TrackedTask, Live, Free, Group, is_tracked, IsLeader, taskVars, mapVars, collectorVars, historyVars
<1>3. ASSUME NEW t \in Tids, NEW new \in Names \cup {"none"}, SysEnter(t, new) PROVE HeirsAreEntered'
  BY <1>3, InsertedKeeps DEF SysEnter, auto_track_pid, Tracked, EnterThread, Renames, Discovers, Discovered, HeirsAreEntered, GroupsFollow, TrackingTypeOK, TrackedTask, Live, Free, Group, is_tracked, IsLeader, taskVars, mapVars, collectorVars, historyVars
<1>4. ASSUME NEW t \in Tids, Exit(t) PROVE HeirsAreEntered'
  BY <1>4 DEF Exit, handle_exit, HeirsAreEntered, GroupsFollow, TrackingTypeOK, TrackedTask, Live, Free, Group, is_tracked, IsLeader, taskVars, mapVars, collectorVars, historyVars
<1>5. ASSUME NEW p \in Tids, Reap(p) PROVE HeirsAreEntered'
  BY <1>5 DEF Reap, HeirsAreEntered, GroupsFollow, TrackingTypeOK, TrackedTask, Live, Free, Group, is_tracked, IsLeader, taskVars, mapVars, collectorVars, historyVars
<1>6. ASSUME RescanSkip PROVE HeirsAreEntered'
  BY <1>6 DEF RescanSkip, HeirsAreEntered, GroupsFollow, TrackingTypeOK, TrackedTask, Live, Free, Group, is_tracked, IsLeader, taskVars, mapVars, collectorVars, historyVars
<1>7. ASSUME RescanFound PROVE HeirsAreEntered'
  BY <1>7 DEF RescanFound, HeirsAreEntered, GroupsFollow, TrackingTypeOK, TrackedTask, Live, Free, Group, is_tracked, IsLeader, taskVars, mapVars, collectorVars, historyVars
<1>8. ASSUME Promote PROVE HeirsAreEntered'
  BY <1>8, InsertedKeeps, CursorIsTid DEF Promote, track_pid, Tracked, HeirsAreEntered, GroupsFollow, TrackingTypeOK, TrackedTask, Live, Free, Group, is_tracked, IsLeader, taskVars, mapVars, collectorVars, historyVars
<1>9. ASSUME Sweep PROVE HeirsAreEntered'
  BY <1>9 DEF Sweep, enroll_threads, HeirsAreEntered, GroupsFollow, TrackingTypeOK, TrackedTask, Live, Free, Group, is_tracked, IsLeader, taskVars, mapVars, collectorVars, historyVars
<1>10. ASSUME ReadThread PROVE HeirsAreEntered'
  BY <1>10 DEF ReadThread, HeirsAreEntered, GroupsFollow, TrackingTypeOK, TrackedTask, Live, Free, Group, is_tracked, IsLeader, taskVars, mapVars, collectorVars, historyVars
<1>11. ASSUME Publish PROVE HeirsAreEntered'
  BY <1>11 DEF Publish, HeirsAreEntered, GroupsFollow, TrackingTypeOK, TrackedTask, Live, Free, Group, is_tracked, IsLeader, taskVars, mapVars, collectorVars, historyVars
<1>12. ASSUME UNCHANGED trackingVars PROVE HeirsAreEntered'
  BY <1>12 DEF trackingVars, HeirsAreEntered, GroupsFollow, TrackingTypeOK, TrackedTask, Live, Free, Group, is_tracked, IsLeader, taskVars, mapVars, collectorVars, historyVars
<1>13. QED
  BY <1>1, <1>2, <1>3, <1>4, <1>5, <1>6, <1>7, <1>8, <1>9, <1>10, <1>11, <1>12 DEF TrackingNext, Tasks, Collector

LEMMA TrackingDiscoveryKept ==
  ASSUME TrackingTypeOK, GroupsFollow, DiscoveryFollows,
         [TrackingNext]_trackingVars
  PROVE  DiscoveryFollows'
<1>1. ASSUME NEW t \in Tids, NEW c \in Tids, NEW thread \in BOOLEAN, Fork(t, c, thread) PROVE DiscoveryFollows'
  BY <1>1, InsertedKeeps DEF Fork, handle_fork, DiscoveryFollows, GroupsFollow, TrackingTypeOK, TrackedTask, Live, Free, Group, IsLeader, taskVars, mapVars, collectorVars, historyVars
<1>2. ASSUME NEW p \in Tids, NEW name \in Names, Exec(p, name) PROVE DiscoveryFollows'
  BY <1>2, InsertedKeeps DEF Exec, handle_exec, auto_track_pid, Tracked, DiscoveryFollows, GroupsFollow, TrackingTypeOK, TrackedTask, Live, Free, Group, IsLeader, taskVars, mapVars, collectorVars, historyVars
<1>3. ASSUME NEW t \in Tids, NEW new \in Names \cup {"none"}, SysEnter(t, new) PROVE DiscoveryFollows'
  BY <1>3, InsertedKeeps DEF SysEnter, auto_track_pid, Tracked, EnterThread, Renames, Discovers, Discovered, DiscoveryFollows, GroupsFollow, TrackingTypeOK, TrackedTask, Live, Free, Group, IsLeader, taskVars, mapVars, collectorVars, historyVars
<1>4. ASSUME NEW t \in Tids, Exit(t) PROVE DiscoveryFollows'
  BY <1>4 DEF Exit, handle_exit, DiscoveryFollows, GroupsFollow, TrackingTypeOK, TrackedTask, Live, Free, Group, IsLeader, taskVars, mapVars, collectorVars, historyVars
<1>5. ASSUME NEW p \in Tids, Reap(p) PROVE DiscoveryFollows'
  BY <1>5 DEF Reap, DiscoveryFollows, GroupsFollow, TrackingTypeOK, TrackedTask, Live, Free, Group, IsLeader, taskVars, mapVars, collectorVars, historyVars
<1>6. ASSUME RescanSkip PROVE DiscoveryFollows'
  BY <1>6 DEF RescanSkip, DiscoveryFollows, GroupsFollow, TrackingTypeOK, TrackedTask, Live, Free, Group, IsLeader, taskVars, mapVars, collectorVars, historyVars
<1>7. ASSUME RescanFound PROVE DiscoveryFollows'
  BY <1>7 DEF RescanFound, DiscoveryFollows, GroupsFollow, TrackingTypeOK, TrackedTask, Live, Free, Group, IsLeader, taskVars, mapVars, collectorVars, historyVars
<1>8. ASSUME Promote PROVE DiscoveryFollows'
  BY <1>8, InsertedKeeps, CursorIsTid DEF Promote, track_pid, Tracked, DiscoveryFollows, GroupsFollow, TrackingTypeOK, TrackedTask, Live, Free, Group, IsLeader, taskVars, mapVars, collectorVars, historyVars
<1>9. ASSUME Sweep PROVE DiscoveryFollows'
  BY <1>9 DEF Sweep, enroll_threads, DiscoveryFollows, GroupsFollow, TrackingTypeOK, TrackedTask, Live, Free, Group, IsLeader, taskVars, mapVars, collectorVars, historyVars
<1>10. ASSUME ReadThread PROVE DiscoveryFollows'
  BY <1>10 DEF ReadThread, DiscoveryFollows, GroupsFollow, TrackingTypeOK, TrackedTask, Live, Free, Group, IsLeader, taskVars, mapVars, collectorVars, historyVars
<1>11. ASSUME Publish PROVE DiscoveryFollows'
  BY <1>11 DEF Publish, DiscoveryFollows, GroupsFollow, TrackingTypeOK, TrackedTask, Live, Free, Group, IsLeader, taskVars, mapVars, collectorVars, historyVars
<1>12. ASSUME UNCHANGED trackingVars PROVE DiscoveryFollows'
  BY <1>12 DEF trackingVars, DiscoveryFollows, GroupsFollow, TrackingTypeOK, TrackedTask, Live, Free, Group, IsLeader, taskVars, mapVars, collectorVars, historyVars
<1>13. QED
  BY <1>1, <1>2, <1>3, <1>4, <1>5, <1>6, <1>7, <1>8, <1>9, <1>10, <1>11, <1>12 DEF TrackingNext, Tasks, Collector

LEMMA TrackingMatchesKept ==
  ASSUME TrackingTypeOK, GroupsFollow, WalksFollow, DiscoveryFollows, MatchIsTracked,
         [TrackingNext]_trackingVars
  PROVE  MatchIsTracked'
<1>1. ASSUME NEW t \in Tids, NEW c \in Tids, NEW thread \in BOOLEAN, Fork(t, c, thread) PROVE MatchIsTracked'
  BY <1>1, InsertedKeeps DEF Fork, handle_fork, MatchIsTracked, DiscoveryFollows, GroupsFollow, TrackingTypeOK, TrackedTask, Live, Free, Group, is_tracked, IsLeader, Names, taskVars, mapVars, collectorVars, historyVars
<1>2. ASSUME NEW p \in Tids, NEW name \in Names, Exec(p, name) PROVE MatchIsTracked'
  <2> SUFFICES ASSUME NEW q \in Tids, (Live(q) /\ IsLeader(q) /\ task[q].name = "primary" /\ disc[q] # "none")'
               PROVE  (is_tracked(q) \/ full \/ q \in stale)'
    BY DEF MatchIsTracked
  <2>1. CASE q = p
    <3>1. name = "primary"
      BY <1>2, <2>1 DEF Exec, TrackingTypeOK, TrackedTask
    <3>2. proc' = Inserted(p) /\ full' = (full \/ ~MapHasRoom(p))
      BY <1>2, <3>1 DEF Exec, handle_exec, auto_track_pid, Tracked
    <3>3. QED
      BY <2>1, <3>2, InsertedKeeps DEF is_tracked
  <2>2. CASE q # p
    <3>1. task'[q] = task[q] /\ disc'[q] = disc[q] /\ stale' = stale
      BY <1>2, <2>2 DEF Exec, TrackingTypeOK
    <3>2. is_tracked(q) \/ full \/ q \in stale
      BY <3>1 DEF MatchIsTracked, Live, IsLeader
    <3>3. proc \subseteq proc'
      BY <1>2, InsertedKeeps DEF Exec, handle_exec, auto_track_pid
    <3>4. full => full'
      BY <1>2 DEF Exec, Tracked
    <3>5. QED
      BY <3>1, <3>2, <3>3, <3>4 DEF is_tracked
  <2>3. QED
    BY <2>1, <2>2
<1>3. ASSUME NEW t \in Tids, NEW new \in Names \cup {"none"}, SysEnter(t, new) PROVE MatchIsTracked'
  <2> DEFINE p == task[t].tgid
             hits == (IF Discovers(p) THEN {Discovered(t)} ELSE {})
                     \cup (IF Renames(t, new) THEN {new} ELSE {})
  <2> SUFFICES ASSUME NEW q \in Tids, (Live(q) /\ IsLeader(q) /\ task[q].name = "primary" /\ disc[q] # "none")'
               PROVE  (is_tracked(q) \/ full \/ q \in stale)'
    BY DEF MatchIsTracked
  <2>1. /\ p \in Tids /\ Live(t)
        /\ task' = IF new # "none" THEN [task EXCEPT ![t].name = new] ELSE task
        /\ disc' = IF Renames(t, new) THEN [disc EXCEPT ![p] = new]
                   ELSE IF Discovers(p) THEN [disc EXCEPT ![p] = Discovered(t)] ELSE disc
        /\ stale' = IF Renames(t, new) THEN stale \ {p} ELSE stale
    BY <1>3 DEF SysEnter, GroupsFollow
  <2>2. "primary" \in hits => proc' = Inserted(p) /\ full' = (full \/ ~MapHasRoom(p))
    BY <1>3 DEF SysEnter, auto_track_pid, Tracked
  <2>3. "primary" \notin hits => proc' = proc /\ full' = full
    BY <1>3 DEF SysEnter
  <2>4. CASE q = p /\ "primary" \in hits
    BY <2>1, <2>2, <2>4, InsertedKeeps DEF is_tracked
  <2>5. CASE q # p \/ "primary" \notin hits
    <3>1. Live(q) /\ IsLeader(q)
      BY <2>1 DEF TrackingTypeOK, TrackedTask, Live, IsLeader
    <3>2. task[q].name = "primary" /\ disc[q] # "none" /\ (q \in stale => q \in stale')
      <4> HIDE DEF hits
      <4>1. CASE q = p
        <5>1. ~Renames(t, new)
          BY <2>1, <2>5, <4>1 DEF hits, Renames, TrackingTypeOK, TrackedTask
        <5>2. t # q \/ new = "none"
          BY <5>1, <4>1 DEF Renames
        <5>3. task'[q] = task[q]
          BY <2>1, <5>2 DEF TrackingTypeOK
        <5>4. ~Discovers(p)
          BY <2>1, <2>5, <4>1, <5>1, <5>3 DEF hits, Discovered
        <5>5. QED
          BY <2>1, <5>1, <5>3, <5>4
      <4>2. CASE q # p
        <5>1. q # t
          BY <3>1, <4>2 DEF IsLeader
        <5>2. task'[q] = task[q] /\ disc'[q] = disc[q] /\ (q \in stale => q \in stale')
          BY <2>1, <4>2, <5>1 DEF TrackingTypeOK
        <5>3. QED
          BY <5>2
      <4>3. QED
        BY <4>1, <4>2
    <3>3. is_tracked(q) \/ full \/ q \in stale
      BY <3>1, <3>2 DEF MatchIsTracked
    <3>4. proc \subseteq proc' /\ (full => full')
      <4> HIDE DEF hits
      <4>1. CASE "primary" \in hits
        BY <2>1, <2>2, <4>1, InsertedKeeps
      <4>2. CASE "primary" \notin hits
        BY <2>3, <4>2
      <4>3. QED
        BY <4>1, <4>2
    <3>5. QED
      BY <3>2, <3>3, <3>4 DEF is_tracked
  <2>6. QED
    BY <2>4, <2>5
<1>4. ASSUME NEW t \in Tids, Exit(t) PROVE MatchIsTracked'
  BY <1>4 DEF Exit, handle_exit, MatchIsTracked, DiscoveryFollows, GroupsFollow, TrackingTypeOK, TrackedTask, Live, Free, Group, is_tracked, IsLeader, Names, taskVars, mapVars, collectorVars, historyVars
<1>5. ASSUME NEW p \in Tids, Reap(p) PROVE MatchIsTracked'
  BY <1>5 DEF Reap, MatchIsTracked, DiscoveryFollows, GroupsFollow, TrackingTypeOK, TrackedTask, Live, Free, Group, is_tracked, IsLeader, Names, taskVars, mapVars, collectorVars, historyVars
<1>6. ASSUME RescanSkip PROVE MatchIsTracked'
  BY <1>6 DEF RescanSkip, MatchIsTracked, DiscoveryFollows, GroupsFollow, TrackingTypeOK, TrackedTask, Live, Free, Group, is_tracked, IsLeader, Names, taskVars, mapVars, collectorVars, historyVars
<1>7. ASSUME RescanFound PROVE MatchIsTracked'
  BY <1>7 DEF RescanFound, MatchIsTracked, DiscoveryFollows, GroupsFollow, TrackingTypeOK, TrackedTask, Live, Free, Group, is_tracked, IsLeader, Names, taskVars, mapVars, collectorVars, historyVars
<1>8. ASSUME Promote PROVE MatchIsTracked'
  BY <1>8, InsertedKeeps, CursorIsTid DEF Promote, track_pid, Tracked, MatchIsTracked, DiscoveryFollows, GroupsFollow, TrackingTypeOK, TrackedTask, Live, Free, Group, is_tracked, IsLeader, Names, taskVars, mapVars, collectorVars, historyVars
<1>9. ASSUME Sweep PROVE MatchIsTracked'
  BY <1>9 DEF Sweep, enroll_threads, MatchIsTracked, DiscoveryFollows, GroupsFollow, TrackingTypeOK, TrackedTask, Live, Free, Group, is_tracked, IsLeader, Names, taskVars, mapVars, collectorVars, historyVars
<1>10. ASSUME ReadThread PROVE MatchIsTracked'
  BY <1>10 DEF ReadThread, MatchIsTracked, DiscoveryFollows, GroupsFollow, TrackingTypeOK, TrackedTask, Live, Free, Group, is_tracked, IsLeader, Names, taskVars, mapVars, collectorVars, historyVars
<1>11. ASSUME Publish PROVE MatchIsTracked'
  BY <1>11 DEF Publish, MatchIsTracked, DiscoveryFollows, GroupsFollow, TrackingTypeOK, TrackedTask, Live, Free, Group, is_tracked, IsLeader, Names, taskVars, mapVars, collectorVars, historyVars
<1>12. ASSUME UNCHANGED trackingVars PROVE MatchIsTracked'
  BY <1>12 DEF trackingVars, MatchIsTracked, DiscoveryFollows, GroupsFollow, TrackingTypeOK, TrackedTask, Live, Free, Group, is_tracked, IsLeader, Names, taskVars, mapVars, collectorVars, historyVars
<1>13. QED
  BY <1>1, <1>2, <1>3, <1>4, <1>5, <1>6, <1>7, <1>8, <1>9, <1>10, <1>11, <1>12 DEF TrackingNext, Tasks, Collector

LEMMA TrackingWalksKept ==
  ASSUME TrackingTypeOK, GroupsFollow, WalksFollow,
         [TrackingNext]_trackingVars
  PROVE  WalksFollow'
<1>1. ASSUME NEW t \in Tids, NEW c \in Tids, NEW thread \in BOOLEAN, Fork(t, c, thread) PROVE WalksFollow'
  BY <1>1, InsertedKeeps DEF Fork, handle_fork, WalksFollow, GroupsFollow, TrackingTypeOK, TrackedTask, Live, Free, Group, is_tracked, IsLeader, taskVars, mapVars, collectorVars, historyVars
<1>2. ASSUME NEW p \in Tids, NEW name \in Names, Exec(p, name) PROVE WalksFollow'
  BY <1>2, InsertedKeeps DEF Exec, handle_exec, auto_track_pid, Tracked, WalksFollow, GroupsFollow, TrackingTypeOK, TrackedTask, Live, Free, Group, is_tracked, IsLeader, taskVars, mapVars, collectorVars, historyVars
<1>3. ASSUME NEW t \in Tids, NEW new \in Names \cup {"none"}, SysEnter(t, new) PROVE WalksFollow'
  BY <1>3, InsertedKeeps DEF SysEnter, auto_track_pid, Tracked, EnterThread, Renames, Discovers, Discovered, WalksFollow, GroupsFollow, TrackingTypeOK, TrackedTask, Live, Free, Group, is_tracked, IsLeader, taskVars, mapVars, collectorVars, historyVars
<1>4. ASSUME NEW t \in Tids, Exit(t) PROVE WalksFollow'
  BY <1>4 DEF Exit, handle_exit, WalksFollow, GroupsFollow, TrackingTypeOK, TrackedTask, Live, Free, Group, is_tracked, IsLeader, taskVars, mapVars, collectorVars, historyVars
<1>5. ASSUME NEW p \in Tids, Reap(p) PROVE WalksFollow'
  BY <1>5 DEF Reap, WalksFollow, GroupsFollow, TrackingTypeOK, TrackedTask, Live, Free, Group, is_tracked, IsLeader, taskVars, mapVars, collectorVars, historyVars
<1>6. ASSUME RescanSkip PROVE WalksFollow'
  <2>1. /\ thr' = thr /\ proc' = proc /\ task' = task
        /\ upc = "rescan" /\ cursor \in 1 .. NumTids
    BY <1>6, CursorIsTid DEF RescanSkip, Tids, taskVars, mapVars
  <2>2. CASE cursor = NumTids
    <3>1. upc' = "sweep" /\ cursor' = 1 /\ owed' = {t \in Tids : Live(t) /\ is_tracked(task[t].tgid)}
      BY <1>6, <2>2 DEF RescanSkip
    <3>2. \A t \in owed' : ~(t < cursor')
      BY <3>1 DEF Tids
    <3>3. QED
      BY <2>1, <3>1, <3>2 DEF WalksFollow, Live, is_tracked
  <2>3. CASE cursor # NumTids
    <3>1. upc' = "rescan" /\ cursor' = cursor + 1 /\ owed' = owed
      BY <1>6, <2>3 DEF RescanSkip
    <3>2. cursor' # 0
      BY <2>1, <3>1
    <3>3. QED
      BY <2>1, <3>1, <3>2 DEF WalksFollow, Live, is_tracked
  <2>4. QED
    BY <2>2, <2>3
<1>7. ASSUME RescanFound PROVE WalksFollow'
  BY <1>7 DEF RescanFound, WalksFollow, GroupsFollow, TrackingTypeOK, TrackedTask, Live, Free, Group, is_tracked, IsLeader, taskVars, mapVars, collectorVars, historyVars
<1>8. ASSUME Promote PROVE WalksFollow'
  BY <1>8, InsertedKeeps, CursorIsTid DEF Promote, track_pid, Tracked, WalksFollow, GroupsFollow, TrackingTypeOK, TrackedTask, Live, Free, Group, is_tracked, IsLeader, taskVars, mapVars, collectorVars, historyVars
<1>9. ASSUME Sweep PROVE WalksFollow'
  BY <1>9, CursorIsTid, TrackingAssumption DEF Sweep, Tids, enroll_threads, WalksFollow, GroupsFollow, TrackingTypeOK, TrackedTask, Live, Free, Group, is_tracked, IsLeader, taskVars, mapVars, collectorVars, historyVars
<1>10. ASSUME ReadThread PROVE WalksFollow'
  <2> DEFINE key == Min(NextKeys)
  <2>1. key \in NextKeys /\ \A y \in NextKeys : key <= y
    BY <1>10, LeastTid DEF ReadThread, NextKeys, Enrolled
  <2>2. key \in Tids /\ thr[key] # 0 /\ is_tracked(thr[key])
    BY <2>1 DEF NextKeys, Enrolled, WalksFollow
  <2>3. cursor' = key /\ rows' = rows \cup {key} /\ UNCHANGED <<thr, proc, task, owed, upc>> /\ upc = "read"
    BY <1>10, <2>2 DEF ReadThread, taskVars, mapVars, historyVars
  <2> HIDE DEF key
  <2>4. ASSUME NEW t \in owed, t <= key PROVE t \in rows \cup {key}
    <3>1. t \in Enrolled /\ t \in Nat /\ key \in Nat /\ (t <= cursor => t \in rows) /\ cursor \in Nat
      BY <2>2, <2>3, TrackingAssumption DEF WalksFollow, TrackingTypeOK, Enrolled, Tids
    <3>2. CASE t \in NextKeys
      BY <2>1, <2>4, <3>1, <3>2
    <3>3. CASE t \notin NextKeys
      BY <3>1, <3>3 DEF NextKeys
    <3>4. QED
      BY <3>2, <3>3
  <2>5. QED
    BY <2>3, <2>4 DEF WalksFollow, Live, is_tracked
<1>11. ASSUME Publish PROVE WalksFollow'
  BY <1>11 DEF Publish, WalksFollow, GroupsFollow, TrackingTypeOK, TrackedTask, Live, Free, Group, is_tracked, IsLeader, taskVars, mapVars, collectorVars, historyVars
<1>12. ASSUME UNCHANGED trackingVars PROVE WalksFollow'
  BY <1>12 DEF trackingVars, WalksFollow, GroupsFollow, TrackingTypeOK, TrackedTask, Live, Free, Group, is_tracked, IsLeader, taskVars, mapVars, collectorVars, historyVars
<1>13. QED
  BY <1>1, <1>2, <1>3, <1>4, <1>5, <1>6, <1>7, <1>8, <1>9, <1>10, <1>11, <1>12 DEF TrackingNext, Tasks, Collector

LEMMA TrackingInvHolds == TrackingSpec => []TrackingInv
<1>1. TrackingInv /\ [TrackingNext]_trackingVars => TrackingInv'
  BY TrackingTypeOKKept, TrackingGroupsKept, TrackingHeirsKept, TrackingDiscoveryKept,
     TrackingMatchesKept, TrackingWalksKept DEF TrackingInv
<1>2. QED
  BY TrackingStarts, <1>1, PTL DEF TrackingSpec

\* Tasks, maps and the loop keep their types, for any number of pids and any
\* size of proc_map.
THEOREM TrackingTypeCorrect == TrackingSpec => []TrackingTypeOK
<1>1. TrackingInv => TrackingTypeOK
  BY DEF TrackingInv
<1>2. QED
  BY <1>1, TrackingInvHolds, PTL

\* Who should be tracked is: handle_fork() looks a thread's number up and
\* enters a thread's number, and an heir's process is in proc_map all the same;
\* a process that took a matching name is found by exec, prctl or discovery.
THEOREM AskedAreTracked == TrackingSpec => []TrackedAsAsked
<1>1. TrackingInv => TrackedAsAsked
  BY DEF TrackingInv, HeirsAreEntered, TrackedAsAsked, DescendantsTracked
<1>2. QED
  BY <1>1, TrackingInvHolds, PTL

\* A published snapshot misses no thread that lived through the walk:
\* bpf_map_get_next_key() may restart, but never passes an owed key over.
THEOREM SnapshotsAreComplete == TrackingSpec => []SnapshotIsComplete
<1>1. TrackingInv => SnapshotIsComplete
  <2> SUFFICES ASSUME TrackingInv, upc = "read", NextKeys = {}, NEW t \in owed PROVE t \in rows
    BY DEF SnapshotIsComplete, ReadDone
  <2>1. t \in Enrolled /\ (t <= cursor => t \in rows) /\ t \in Nat /\ cursor \in Nat
    BY TrackingAssumption DEF TrackingInv, WalksFollow, TrackingTypeOK, Enrolled, Tids
  <2>2. QED
    BY <2>1 DEF NextKeys
<1>2. QED
  BY <1>1, TrackingInvHolds, PTL
-----------------------------------------------------------------------------
(***************************************************************************)
(* IoTrace.                                                                *)
(***************************************************************************)
IoTargets == IoPids \cup {"socket", "none"}
IoCall == [call : IoCallNames \cup {"none"}, fd : IoFds \cup {0}, at : Nat, target : IoTargets]
IoEntry == [fd : IoFds \cup {0, -1}, enter : Nat, nr : IoCallNames \cup {"none"}]
IoEventType == [type : {"none", "io", "mmap"}, pid : IoPids \cup {""},
                call : IoCallNames \cup {"none"}, fd : IoFds \cup {0, -1}, dur : Nat,
                real : IoCall, enrolled : BOOLEAN]

IoTypeOK ==
  /\ ioTracked \subseteq IoPids
  /\ fdTable \in [IoPids -> [IoFds -> IoTargets]]
  /\ inside \in [IoThreads -> IoCall]
  /\ DOMAIN tmap \subseteq IoThreads /\ tmap \in [DOMAIN tmap -> IoEntry]
  /\ openScratch \in [IoCpus -> [pid : IoPids \cup {""}, target : IoTargets]]
  /\ mmapScratch \in [IoCpus -> [fd : IoFds \cup {0}, anon : BOOLEAN]]
  /\ DOMAIN fdMap \subseteq IoPids \X IoFds
  /\ lastIo \in IoEventType
  /\ DOMAIN iolat \subseteq Timed /\ iolat \in [DOMAIN iolat -> Seq(Nat \ {0})]
  /\ ioNow \in Nat \ {0} /\ ioCalls \in Nat

\* Calls begin in the past, and a call that makes a file knows which.
CallsFollow ==
  \A t \in IoThreads : inside[t] # Outside =>
    /\ inside[t].at \in 1 .. ioNow
    /\ inside[t].call \in Makes => inside[t].target # "none"

\* The entry of a thread inside a timed call or one that takes a descriptor is
\* of that call, or was made by the iterator after the thread went in.
EntriesFollow ==
  \A t \in DOMAIN tmap :
    /\ Pid(t) \in ioTracked
    /\ inside[t].call \in OnFd \ {"poll"} =>
          \/ tmap[t] = NoEntry
          \/ /\ tmap[t].nr = inside[t].call /\ tmap[t].fd = inside[t].fd
             /\ inside[t].call \in Timed => tmap[t].enter = inside[t].at
    /\ inside[t].call = "poll" /\ tmap[t].nr = "poll" => tmap[t].enter \in {0, inside[t].at}

\* A scratch slot holds the process that filled it and a file of that process.
ScratchIsOwn ==
  \A c \in IoCpus : openScratch[c].pid # "" => openScratch[c].target = openScratch[c].pid

\* A descriptor is closed by one thread, and stays the kernel's until it is out
\* of the map.
ClosesFollow ==
  \A t \in IoThreads : inside[t].call = "close" =>
    /\ inside[t].fd \in IoFds
    /\ fdTable[Pid(t)][inside[t].fd] # "none"
    /\ <<Pid(t), inside[t].fd>> \notin DOMAIN fdMap
    /\ \A u \in IoThreads \ {t} :
         inside[u].call = "close" /\ Pid(u) = Pid(t) => inside[u].fd # inside[t].fd

FdMapFollows ==
  \A k \in DOMAIN fdMap :
    /\ k[1] \in ioTracked
    /\ fdMap[k] \in {k[1], "socket"}
    /\ fdTable[k[1]][k[2]] # "none"

IoInv ==
  /\ IoTypeOK /\ CallsFollow /\ EntriesFollow /\ ScratchIsOwn
  /\ ClosesFollow /\ FdMapFollows /\ EventIsOfCall
-----------------------------------------------------------------------------
\* The constants of the model are of their types; a thread's process is one.
LEMMA IoConstantsTyped ==
  /\ Outside \in IoCall /\ NoEntry \in IoEntry /\ NoIo \in IoEventType
  /\ Outside.call = "none" /\ NoIo.type = "none"
  /\ \A t \in IoThreads : Pid(t) \in IoPids /\ Pid(t) # "none" /\ Pid(t) # ""
<1>1. Outside \in IoCall /\ Outside.call = "none"
  BY DEF Outside, IoCall, IoTargets
<1>2. NoEntry \in IoEntry
  BY DEF NoEntry, IoEntry
<1>3. NoIo \in IoEventType /\ NoIo.type = "none"
  BY <1>1 DEF NoIo, IoEventType
<1>4. \A t \in IoThreads : Pid(t) \in IoPids /\ Pid(t) # "none" /\ Pid(t) # ""
  BY IoAssumption DEF Pid
<1>5. QED
  BY <1>1, <1>2, <1>3, <1>4

\* A map after m[k] = v.
LEMMA PutIs ==
  ASSUME NEW m, NEW k, NEW v
  PROVE  /\ DOMAIN Put(m, k, v) = DOMAIN m \cup {k}
         /\ \A x \in DOMAIN m \cup {k} : Put(m, k, v)[x] = IF x = k THEN v ELSE m[x]
         /\ \A S : m \in [DOMAIN m -> S] /\ v \in S => Put(m, k, v) \in [DOMAIN Put(m, k, v) -> S]
  BY DEF Put

LEMMA IoStarts == IoInit => IoInv
<1> SUFFICES ASSUME IoInit PROVE IoInv
  OBVIOUS
<1>1. IoTypeOK
  <2>1. fdTable \in [IoPids -> [IoFds -> IoTargets]]
    BY DEF IoInit, IoTargets
  <2>2. /\ openScratch \in [IoCpus -> [pid : IoPids \cup {""}, target : IoTargets]]
        /\ mmapScratch \in [IoCpus -> [fd : IoFds \cup {0}, anon : BOOLEAN]]
    BY DEF IoInit, IoTargets, NoOpen, NoMmap
  <2>3. /\ DOMAIN tmap = {} /\ tmap \in [DOMAIN tmap -> IoEntry] /\ DOMAIN fdMap = {}
        /\ DOMAIN iolat = {} /\ iolat \in [DOMAIN iolat -> Seq(Nat \ {0})]
    BY DEF IoInit, EmptyMap
  <2>4. inside \in [IoThreads -> IoCall] /\ ioTracked \subseteq IoPids
    BY IoConstantsTyped DEF IoInit
  <2>5. lastIo \in IoEventType
    BY IoConstantsTyped DEF IoInit
  <2>6. QED
    <3>1. ioNow \in Nat \ {0} /\ ioCalls \in Nat
      BY DEF IoInit
    <3>2. QED
      BY <2>1, <2>2, <2>3, <2>4, <2>5, <3>1 DEF IoTypeOK
<1>2. CallsFollow /\ EntriesFollow /\ ScratchIsOwn /\ ClosesFollow /\ FdMapFollows /\ EventIsOfCall
  BY DEF IoInit, CallsFollow, EntriesFollow, ScratchIsOwn, ClosesFollow, FdMapFollows, EventIsOfCall, NoIo,
         Outside, NoOpen, EmptyMap
<1>3. QED
  BY <1>1, <1>2 DEF IoInv

\* An event as the emitting programs fill it in.
LEMMA EventTyped ==
  ASSUME NEW e \in IoEventType, NEW pid \in IoPids, NEW call \in IoCallNames \cup {"none"},
         NEW fd \in IoFds \cup {0, -1}, NEW dur \in Nat, NEW real \in IoCall, NEW enrolled \in BOOLEAN
  PROVE  /\ [e EXCEPT !.type = "io", !.pid = pid, !.call = call, !.fd = fd, !.dur = dur,
                      !.real = real, !.enrolled = enrolled] \in IoEventType
         /\ [e EXCEPT !.type = "mmap", !.pid = pid, !.call = call, !.fd = fd, !.real = real] \in IoEventType
<1>1. [e EXCEPT !.type = "io", !.pid = pid, !.call = call, !.fd = fd, !.dur = dur,
                !.real = real, !.enrolled = enrolled] \in IoEventType
  BY DEF IoEventType
<1>2. [e EXCEPT !.type = "mmap", !.pid = pid, !.call = call, !.fd = fd, !.real = real] \in IoEventType
  BY DEF IoEventType
<1>3. QED
  BY <1>1, <1>2

\* What the exit event says of a call: the event of emit_io_event() and
\* emit_io_event_dur(), of the mmap program, or none.
LEMMA ExitEvents ==
  ASSUME IoTypeOK, NEW t \in IoThreads, NEW c \in IoCpus, inside[t] # Outside,
         NEW ev, ev = ExitEvent(t, c)
  PROVE  /\ ev \in IoEventType
         /\ ev.type = "io" =>
              /\ t \in DOMAIN tmap /\ inside[t].call \in OnFd
              /\ ev.call = inside[t].call /\ ev.real = inside[t]
              /\ ev.call # "poll" => ev.fd = tmap[t].fd
              /\ ev.call = "poll" => ev.fd = -1 /\ tmap[t].nr = "poll"
              /\ ev.dur = IF ev.call \in Timed THEN Duration(t) ELSE 0
              /\ ev.enrolled => tmap[t].nr = ev.call
<1> DEFINE d == inside[t]
           shownFd == IF d.call = "poll" THEN -1 ELSE tmap[t].fd
           shownDur == IF d.call \in Timed THEN Duration(t) ELSE 0
<1>1. d \in IoCall /\ d.call \in IoCallNames \cup {"none"} /\ Pid(t) \in IoPids
  BY IoConstantsTyped DEF IoTypeOK, IoCall
<1>2. /\ IoEvent(t).type = "io" /\ IoEvent(t).call = d.call /\ IoEvent(t).fd = shownFd
      /\ IoEvent(t).dur = shownDur /\ IoEvent(t).real = d
      /\ IoEvent(t).enrolled = (tmap[t].nr = d.call)
  BY Zenon DEF IoEvent, NoIo
<1>3. ASSUME t \in DOMAIN tmap PROVE IoEvent(t) \in IoEventType
  <2>1. tmap[t] \in IoEntry
    BY <1>3 DEF IoTypeOK
  <2>2. tmap[t].enter \in Nat /\ ioNow \in Nat /\ tmap[t].fd \in IoFds \cup {0, -1}
    BY <2>1 DEF IoEntry, IoTypeOK
  <2>3. Duration(t) \in Nat
    BY <2>2 DEF Duration
  <2>4. shownFd \in IoFds \cup {0, -1} /\ shownDur \in Nat
    BY <2>2, <2>3
  <2>5. (tmap[t].nr = d.call) \in BOOLEAN
    OBVIOUS
  <2>6. IoEvent(t) = [NoIo EXCEPT !.type = "io", !.pid = Pid(t), !.call = d.call, !.fd = shownFd,
                                  !.dur = shownDur, !.real = d, !.enrolled = (tmap[t].nr = d.call)]
    BY Zenon DEF IoEvent
  <2> HIDE DEF shownFd, shownDur, d
  <2>7. QED
    <3>1. ASSUME NEW b \in BOOLEAN
          PROVE  [NoIo EXCEPT !.type = "io", !.pid = Pid(t), !.call = d.call, !.fd = shownFd,
                              !.dur = shownDur, !.real = d, !.enrolled = b] \in IoEventType
      <4>1. NoIo \in IoEventType
        BY IoConstantsTyped
      <4>2. /\ d \in IoCall /\ d.call \in IoCallNames \cup {"none"} /\ Pid(t) \in IoPids
            /\ shownFd \in IoFds \cup {0, -1} /\ shownDur \in Nat
        BY <1>1, <2>4
      <4>3. QED
        BY <3>1, <4>1, <4>2 DEF IoEventType
    <3>2. QED
      BY <2>5, <2>6, <3>1, Zenon
<1>4. MmapEvent(t, c) \in IoEventType /\ MmapEvent(t, c).type = "mmap"
  <2>1. mmapScratch[c].fd \in IoFds \cup {0, -1}
    BY DEF IoTypeOK
  <2>2. MmapEvent(t, c) \in IoEventType
    <3>1. (0 \in Nat) /\ (TRUE \in BOOLEAN)
      OBVIOUS
    <3>2. QED
      BY <1>1, <2>1, <3>1, EventTyped, IoConstantsTyped, ZenonT(30) DEF MmapEvent
  <2>3. MmapEvent(t, c).type = "mmap"
    BY Zenon DEF MmapEvent, NoIo
  <2>4. QED
    BY <2>2, <2>3
<1>5. \/ ev = NoIo \/ ev = MmapEvent(t, c)
      \/ ev = IoEvent(t) /\ t \in DOMAIN tmap /\ d.call \in OnFd /\ (d.call = "poll" => tmap[t].nr = "poll")
  BY DEF ExitEvent, OnFd, Timed
<1>6. CASE ev = NoIo
  BY <1>6, IoConstantsTyped
<1>7. CASE ev = MmapEvent(t, c)
  BY <1>4, <1>7
<1>8. CASE ev = IoEvent(t) /\ t \in DOMAIN tmap /\ d.call \in OnFd /\ (d.call = "poll" => tmap[t].nr = "poll")
  <2>1. /\ ev.type = "io" /\ ev.call = d.call /\ ev.real = d /\ ev.fd = shownFd /\ ev.dur = shownDur
    BY <1>2, <1>8
  <2>2. ev.enrolled = (tmap[t].nr = d.call)
    BY <1>2, <1>8, Zenon
  <2>3. ev.enrolled => tmap[t].nr = d.call
    BY <2>2, Zenon
  <2>4. QED
    BY <1>3, <1>8, <2>1, <2>3
<1>9. QED
  BY <1>5, <1>6, <1>7, <1>8

LEMMA TimeTyped ==
  ASSUME IoTypeOK
  PROVE  ioNow \in Nat /\ ioNow >= 1 /\ ioNow + 1 \in Nat \ {0} /\ ioNow \in 1 .. ioNow
<1>1. ioNow \in Nat \ {0}
  BY DEF IoTypeOK
<1>2. QED
  BY <1>1

LEMMA IoTypeKept ==
  ASSUME IoTypeOK, [IoNext]_ioVars
  PROVE  IoTypeOK'
<1>1. ASSUME NEW t \in IoThreads, NEW c \in IoCpus, NEW call \in IoCallNames,
             NEW fd \in IoFds \cup {0}, NEW target \in IoTargets,
             Asks(t, call, fd, target), IoEnter(t, c, call, fd, target)
      PROVE  IoTypeOK'
  <2>1. inside' \in [IoThreads -> IoCall]
    <3>1. [call |-> call, fd |-> fd, at |-> ioNow, target |-> target] \in IoCall
      BY DEF IoCall, IoTypeOK
    <3>2. QED
      BY <1>1, <3>1 DEF IoEnter, IoTypeOK
  <2>2. DOMAIN tmap' \subseteq IoThreads /\ tmap' \in [DOMAIN tmap' -> IoEntry]
    <3>0. ioNow \in Nat
      BY DEF IoTypeOK
    <3>1. RawEnter(t, call) \in IoEntry
      <4>1. CASE t \in DOMAIN tmap
        <5>1. tmap[t] \in IoEntry
          BY <4>1 DEF IoTypeOK
        <5>2. QED
          BY <3>0, <4>1, <5>1 DEF RawEnter, IoEntry
      <4>2. CASE t \notin DOMAIN tmap
        BY <4>2 DEF RawEnter, NoEntry, IoEntry
      <4>3. QED
        BY <4>1, <4>2
    <3>2. CallEnter(RawEnter(t, call), call, fd) \in IoEntry
      BY <3>0, <3>1 DEF CallEnter, IoEntry
    <3>3. CASE tmap' = tmap
      BY <3>3 DEF IoTypeOK
    <3>4. CASE tmap' = Put(tmap, t, CallEnter(RawEnter(t, call), call, fd))
      <4>1. DOMAIN tmap' = DOMAIN tmap \cup {t}
        BY <3>4, PutIs
      <4>2. tmap \in [DOMAIN tmap -> IoEntry]
        BY DEF IoTypeOK
      <4>3. tmap' \in [DOMAIN tmap' -> IoEntry]
        BY <3>2, <3>4, <4>2, PutIs, Zenon
      <4>4. QED
        BY <4>1, <4>3 DEF IoTypeOK
    <3>5. QED
      BY <1>1, <3>3, <3>4 DEF IoEnter
  <2>3. openScratch' \in [IoCpus -> [pid : IoPids \cup {""}, target : IoTargets]]
    <3>1. [pid |-> Pid(t), target |-> target] \in [pid : IoPids \cup {""}, target : IoTargets]
      BY IoConstantsTyped
    <3>2. QED
      BY <1>1, <3>1 DEF IoEnter, IoTypeOK
  <2>4. mmapScratch' \in [IoCpus -> [fd : IoFds \cup {0}, anon : BOOLEAN]]
    <3>1. [fd |-> fd, anon |-> FALSE] \in [fd : IoFds \cup {0}, anon : BOOLEAN]
      OBVIOUS
    <3>2. QED
      BY <1>1, <3>1 DEF IoEnter, IoTypeOK
  <2>5. DOMAIN fdMap' \subseteq IoPids \X IoFds
    BY <1>1, ZenonT(30) DEF IoEnter, IoTypeOK, Erase
  <2>6. lastIo' \in IoEventType
    BY <1>1, IoConstantsTyped DEF IoEnter
  <2>7. /\ ioTracked' \subseteq IoPids /\ fdTable' \in [IoPids -> [IoFds -> IoTargets]]
        /\ DOMAIN iolat' \subseteq Timed /\ iolat' \in [DOMAIN iolat' -> Seq(Nat \ {0})]
        /\ ioNow' \in Nat \ {0} /\ ioCalls' \in Nat
    <3>1. ioCalls' = ioCalls + 1 /\ UNCHANGED <<ioTracked, fdTable, iolat, ioNow>>
      BY <1>1 DEF IoEnter
    <3>2. ioCalls' \in Nat
      <4>1. ioCalls \in Nat
        BY DEF IoTypeOK
      <4>2. QED
        BY <3>1, <4>1
    <3>3. QED
      BY <3>1, <3>2 DEF IoTypeOK
  <2>8. QED
    BY <2>1, <2>2, <2>3, <2>4, <2>5, <2>6, <2>7 DEF IoTypeOK
<1>2. ASSUME NEW t \in IoThreads, NEW c \in IoCpus, NEW fd \in IoFds \cup {0}, IoExit(t, c, fd)
      PROVE  IoTypeOK'
  <2> DEFINE tr == Pid(t) \in ioTracked
             ev == IF tr THEN ExitEvent(t, c) ELSE NoIo
  <2>1. /\ inside[t] # Outside /\ inside[t] \in IoCall /\ Pid(t) \in IoPids
        /\ inside[t].call \in Makes => fd \in IoFds
    BY <1>2, IoConstantsTyped DEF IoExit, IoTypeOK
  <2>2. inside' \in [IoThreads -> IoCall]
    BY <1>2, IoConstantsTyped DEF IoExit, IoTypeOK
  <2>3. fdTable' \in [IoPids -> [IoFds -> IoTargets]]
    <3>1. \A v \in IoTargets : [fdTable EXCEPT ![Pid(t)][fd] = v] \in [IoPids -> [IoFds -> IoTargets]]
      BY DEF IoTypeOK
    <3>2. "none" \in IoTargets /\ inside[t].target \in IoTargets
      BY <2>1 DEF IoTargets, IoCall
    <3>3. \/ fdTable' = fdTable \/ fdTable' = [fdTable EXCEPT ![Pid(t)][fd] = inside[t].target]
          \/ fdTable' = [fdTable EXCEPT ![Pid(t)][fd] = "none"]
      BY <1>2 DEF IoExit
    <3>4. QED
      BY <3>1, <3>2, <3>3 DEF IoTypeOK
  <2>4. DOMAIN fdMap' \subseteq IoPids \X IoFds
    <3>1. DOMAIN OpenedFd(t, c, fd) \subseteq DOMAIN fdMap \cup {<<Pid(t), fd>>}
      <4>1. \A v : DOMAIN Put(fdMap, <<Pid(t), fd>>, v) = DOMAIN fdMap \cup {<<Pid(t), fd>>}
        BY PutIs, Zenon
      <4>2. QED
        BY <4>1 DEF OpenedFd
    <3>2. DOMAIN fdMap \subseteq IoPids \X IoFds
      BY DEF IoTypeOK
    <3>3. fdMap' = fdMap \/ (inside[t].call \in Makes /\ fdMap' = OpenedFd(t, c, fd))
      BY <1>2 DEF IoExit
    <3>4. QED
      BY <2>1, <3>1, <3>2, <3>3
  <2>5. DOMAIN tmap' \subseteq IoThreads /\ tmap' \in [DOMAIN tmap' -> IoEntry]
    <3>0. t \in DOMAIN tmap => tmap[t] \in IoEntry
      BY DEF IoTypeOK
    <3>1. t \in DOMAIN tmap => ExitEntry(t) \in IoEntry
      BY <3>0 DEF ExitEntry, IoEntry
    <3>2. tmap' = tmap \/ (t \in DOMAIN tmap /\ tmap' = Put(tmap, t, ExitEntry(t)))
      BY <1>2 DEF IoExit
    <3>3. CASE tmap' = tmap
      BY <3>3 DEF IoTypeOK
    <3>4. CASE t \in DOMAIN tmap /\ tmap' = Put(tmap, t, ExitEntry(t))
      <4>1. DOMAIN tmap' = DOMAIN tmap \cup {t}
        BY <3>4, PutIs
      <4>2. tmap \in [DOMAIN tmap -> IoEntry]
        BY DEF IoTypeOK
      <4>3. tmap' \in [DOMAIN tmap' -> IoEntry]
        BY <3>1, <3>4, <4>2, PutIs, Zenon
      <4>4. QED
        BY <4>1, <4>3 DEF IoTypeOK
    <3>5. QED
      BY <3>2, <3>3, <3>4
  <2>6. ev \in IoEventType /\ (ev.type = "io" /\ ev.dur # 0 => ev.call \in Timed)
    BY <2>1, ExitEvents, IoConstantsTyped
  <2>7. lastIo' = ev /\ iolat' = IolatFold(iolat, ev)
    BY <1>2 DEF IoExit
  <2> HIDE DEF ev
  <2>8. DOMAIN iolat' \subseteq Timed /\ iolat' \in [DOMAIN iolat' -> Seq(Nat \ {0})]
    <3>1. CASE iolat' = iolat
      BY <3>1 DEF IoTypeOK
    <3>2. CASE ev.type = "io" /\ ev.dur # 0
      <4>1. iolat' = Put(iolat, ev.call, Append(At(iolat, ev.call, <<>>), ev.dur))
        BY <2>7, <3>2 DEF IolatFold
      <4>2. At(iolat, ev.call, <<>>) \in Seq(Nat \ {0})
        <5>1. <<>> \in Seq(Nat \ {0})
          OBVIOUS
        <5>2. QED
          BY <5>1 DEF At, IoTypeOK
      <4>3. ev.dur \in Nat \ {0}
        BY <2>6, <3>2 DEF IoEventType
      <4>4. Append(At(iolat, ev.call, <<>>), ev.dur) \in Seq(Nat \ {0})
        BY <4>2, <4>3
      <4>5. QED
        <5>1. DOMAIN iolat' = DOMAIN iolat \cup {ev.call}
          BY <4>1 DEF Put
        <5>2. iolat \in [DOMAIN iolat -> Seq(Nat \ {0})]
          BY DEF IoTypeOK
        <5>3. iolat' \in [DOMAIN iolat' -> Seq(Nat \ {0})]
          BY <4>1, <4>4, <5>2, PutIs, Zenon
        <5>4. QED
          BY <2>6, <3>2, <5>1, <5>3 DEF IoTypeOK
    <3>3. QED
      BY <2>7, <3>1, <3>2 DEF IolatFold
  <2>9. QED
    BY <1>2, <2>2, <2>3, <2>4, <2>5, <2>6, <2>7, <2>8 DEF IoExit, IoTypeOK
<1>3. ASSUME NEW p \in IoPids, IoTrack(p)
      PROVE  IoTypeOK'
  BY <1>3, IoConstantsTyped DEF IoTrack, IoTypeOK
<1>4. ASSUME enroll_io_threads
      PROVE  IoTypeOK'
  <2>1. DOMAIN tmap' \subseteq IoThreads /\ tmap' \in [DOMAIN tmap' -> IoEntry]
    BY <1>4, IoConstantsTyped DEF enroll_io_threads, At, IoTypeOK
  <2>2. QED
    BY <1>4, <2>1, IoConstantsTyped DEF enroll_io_threads, IoTypeOK
<1>5. ASSUME IoTick
      PROVE  IoTypeOK'
  <2>1. ioNow' \in Nat \ {0} /\ lastIo' \in IoEventType
    <3>1. ioNow' = ioNow + 1 /\ lastIo' = NoIo
      BY <1>5 DEF IoTick
    <3>2. QED
      BY <3>1, TimeTyped, IoConstantsTyped
  <2>2. QED
    BY <1>5, <2>1 DEF IoTick, IoTypeOK
<1>6. ASSUME UNCHANGED ioVars
      PROVE  IoTypeOK'
  BY <1>6 DEF ioVars, IoTypeOK
<1>7. QED
  BY <1>1, <1>2, <1>3, <1>4, <1>5, <1>6 DEF IoNext, IoTargets

LEMMA IoCallsKept ==
  ASSUME IoTypeOK, CallsFollow, [IoNext]_ioVars
  PROVE  CallsFollow'
<1>1. ASSUME NEW t \in IoThreads, NEW c \in IoCpus, NEW call \in IoCallNames,
             NEW fd \in IoFds \cup {0}, NEW target \in IoTargets,
             Asks(t, call, fd, target), IoEnter(t, c, call, fd, target)
      PROVE  CallsFollow'
  <2>1. inside' = [inside EXCEPT ![t] = [call |-> call, fd |-> fd, at |-> ioNow, target |-> target]]
        /\ ioNow' = ioNow /\ ioNow \in 1 .. ioNow
    BY <1>1, TimeTyped DEF IoEnter, IoTypeOK
  <2>2. call \in Makes => target # "none"
    BY <1>1, IoConstantsTyped DEF Asks, Makes
  <2>3. QED
    BY <2>1, <2>2 DEF CallsFollow, IoTypeOK
<1>2. ASSUME NEW t \in IoThreads, NEW c \in IoCpus, NEW fd \in IoFds \cup {0}, IoExit(t, c, fd)
      PROVE  CallsFollow'
  BY <1>2, IoAssumption DEF IoExit, IoTypeOK, CallsFollow, Outside, Pid, IoTargets, IoCall, OnFd, Makes, Timed, IoCallNames
<1>3. ASSUME NEW p \in IoPids, IoTrack(p)
      PROVE  CallsFollow'
  BY <1>3, IoAssumption DEF IoTrack, IoTypeOK, CallsFollow, Outside, Pid, IoTargets, IoCall, OnFd, Makes, Timed, IoCallNames
<1>4. ASSUME enroll_io_threads
      PROVE  CallsFollow'
  BY <1>4, IoAssumption DEF enroll_io_threads, IoTypeOK, CallsFollow, Outside, Pid, IoTargets, IoCall, OnFd, Makes, Timed, IoCallNames
<1>5. ASSUME IoTick
      PROVE  CallsFollow'
  <2>1. inside' = inside /\ \A n \in 1 .. ioNow : n \in 1 .. ioNow'
    BY <1>5, TimeTyped DEF IoTick
  <2>2. QED
    BY <2>1 DEF CallsFollow
<1>6. ASSUME UNCHANGED ioVars
      PROVE  CallsFollow'
  BY <1>6, IoAssumption DEF ioVars, IoTypeOK, CallsFollow, Outside, Pid, IoTargets, IoCall, OnFd, Makes, Timed, IoCallNames
<1>7. QED
  BY <1>1, <1>2, <1>3, <1>4, <1>5, <1>6 DEF IoNext, IoTargets

LEMMA IoEntriesKept ==
  ASSUME IoTypeOK, CallsFollow, EntriesFollow, [IoNext]_ioVars
  PROVE  EntriesFollow'
<1>1. ASSUME NEW t \in IoThreads, NEW c \in IoCpus, NEW call \in IoCallNames,
             NEW fd \in IoFds \cup {0}, NEW target \in IoTargets,
             Asks(t, call, fd, target), IoEnter(t, c, call, fd, target)
      PROVE  EntriesFollow'
  <2>1. inside[t] = Outside /\ inside' = [inside EXCEPT ![t] = [call |-> call, fd |-> fd, at |-> ioNow, target |-> target]]
        /\ ioTracked' = ioTracked
    BY <1>1 DEF IoEnter
  <2>2. inside'[t].call = call /\ inside'[t].fd = fd /\ inside'[t].at = ioNow
        /\ \A u \in IoThreads \ {t} : inside'[u] = inside[u]
    BY <2>1 DEF IoTypeOK
  <2>3. CASE Pid(t) \notin ioTracked
    <3>1. tmap' = tmap /\ t \notin DOMAIN tmap
      BY <1>1, <2>3 DEF IoEnter, EntriesFollow
    <3>2. QED
      BY <2>1, <2>2, <3>1 DEF EntriesFollow, IoTypeOK
  <2>4. CASE Pid(t) \in ioTracked
    <3> DEFINE e == CallEnter(RawEnter(t, call), call, fd)
    <3>1. tmap' = Put(tmap, t, e)
      BY <1>1, <2>4 DEF IoEnter
    <3>2. /\ DOMAIN tmap' = DOMAIN tmap \cup {t} /\ tmap'[t] = e
          /\ \A u \in DOMAIN tmap \ {t} : tmap'[u] = tmap[u]
      <4> HIDE DEF e
      <4>1. QED
        BY <3>1 DEF Put
    <3>3. t \in DOMAIN tmap => tmap[t] \in IoEntry
      BY DEF IoTypeOK
    <3>4. call \in OnFd \ {"poll"} => e.nr = call /\ e.fd = fd /\ (call \in Timed => e.enter = ioNow)
      BY <3>3 DEF CallEnter, RawEnter, NoEntry, IoEntry, OnFd, Timed
    <3>5. call = "poll" => e.enter \in {0, ioNow}
      BY <3>3 DEF CallEnter, RawEnter, NoEntry, IoEntry, OnFd, Timed
    <3> HIDE DEF e
    <3>6. DOMAIN tmap \subseteq IoThreads
      BY DEF IoTypeOK
    <3>7. ASSUME NEW u \in DOMAIN tmap'
          PROVE  /\ Pid(u) \in ioTracked'
                 /\ inside'[u].call \in OnFd \ {"poll"} =>
                       \/ tmap'[u] = NoEntry
                       \/ /\ tmap'[u].nr = inside'[u].call /\ tmap'[u].fd = inside'[u].fd
                          /\ inside'[u].call \in Timed => tmap'[u].enter = inside'[u].at
                 /\ inside'[u].call = "poll" /\ tmap'[u].nr = "poll" => tmap'[u].enter \in {0, inside'[u].at}
      <4>1. CASE u = t
        BY <2>1, <2>2, <2>4, <3>2, <3>4, <3>5, <4>1
      <4>2. CASE u # t
        <5>1. u \in DOMAIN tmap /\ inside'[u] = inside[u] /\ tmap'[u] = tmap[u]
          BY <2>2, <3>2, <3>6, <3>7, <4>2
        <5>2. QED
          BY <2>1, <5>1 DEF EntriesFollow
      <4>3. QED
        BY <4>1, <4>2
    <3>8. QED
      BY <3>7 DEF EntriesFollow
  <2>5. QED
    BY <2>3, <2>4
<1>2. ASSUME NEW t \in IoThreads, NEW c \in IoCpus, NEW fd \in IoFds \cup {0}, IoExit(t, c, fd)
      PROVE  EntriesFollow'
  <2>1. inside' = [inside EXCEPT ![t] = Outside] /\ ioTracked' = ioTracked
    BY <1>2 DEF IoExit
  <2>2. inside'[t].call = "none" /\ \A u \in IoThreads \ {t} : inside'[u] = inside[u]
    BY <2>1, IoConstantsTyped DEF IoTypeOK
  <2>3. DOMAIN tmap' = DOMAIN tmap /\ \A u \in DOMAIN tmap \ {t} : tmap'[u] = tmap[u]
    <3>1. tmap' = tmap \/ (t \in DOMAIN tmap /\ tmap' = Put(tmap, t, ExitEntry(t)))
      BY <1>2 DEF IoExit
    <3>2. QED
      BY <3>1 DEF Put
  <2>4. "none" \notin OnFd \cup {"poll"}
    BY DEF OnFd, Timed
  <2>5. QED
    BY <2>1, <2>2, <2>3, <2>4, ZenonT(30) DEF EntriesFollow, IoTypeOK
<1>3. ASSUME NEW p \in IoPids, IoTrack(p)
      PROVE  EntriesFollow'
  BY <1>3, IoAssumption DEF IoTrack, IoTypeOK, EntriesFollow, CallsFollow, Outside, NoEntry, IoEntry, IoCall, RawEnter, CallEnter, ExitEntry, Put, At, OnFd, Makes, Timed, IoCallNames
<1>4. ASSUME enroll_io_threads
      PROVE  EntriesFollow'
  BY <1>4, IoAssumption DEF enroll_io_threads, IoTypeOK, EntriesFollow, CallsFollow, Outside, NoEntry, IoEntry, IoCall, RawEnter, CallEnter, ExitEntry, Put, At, OnFd, Makes, Timed, IoCallNames
<1>5. ASSUME IoTick
      PROVE  EntriesFollow'
  BY <1>5, IoAssumption DEF IoTick, IoTypeOK, EntriesFollow, CallsFollow, Outside, NoEntry, IoEntry, IoCall, RawEnter, CallEnter, ExitEntry, Put, At, OnFd, Makes, Timed, IoCallNames
<1>6. ASSUME UNCHANGED ioVars
      PROVE  EntriesFollow'
  BY <1>6, IoAssumption DEF ioVars, IoTypeOK, EntriesFollow, CallsFollow, Outside, NoEntry, IoEntry, IoCall, RawEnter, CallEnter, ExitEntry, Put, At, OnFd, Makes, Timed, IoCallNames
<1>7. QED
  BY <1>1, <1>2, <1>3, <1>4, <1>5, <1>6 DEF IoNext, IoTargets

LEMMA IoScratchKept ==
  ASSUME IoTypeOK, ScratchIsOwn, [IoNext]_ioVars
  PROVE  ScratchIsOwn'
<1>1. ASSUME NEW t \in IoThreads, NEW c \in IoCpus, NEW call \in IoCallNames,
             NEW fd \in IoFds \cup {0}, NEW target \in IoTargets,
             Asks(t, call, fd, target), IoEnter(t, c, call, fd, target)
      PROVE  ScratchIsOwn'
  <2>1. openScratch' = openScratch \/ (target = Pid(t) /\
           openScratch' = [openScratch EXCEPT ![c] = [pid |-> Pid(t), target |-> target]])
    BY <1>1 DEF IoEnter, Asks
  <2>2. openScratch \in [IoCpus -> [pid : IoPids \cup {""}, target : IoTargets]]
    BY DEF IoTypeOK
  <2>3. CASE openScratch' = openScratch
    BY <2>3 DEF ScratchIsOwn
  <2>4. CASE target = Pid(t) /\ openScratch' = [openScratch EXCEPT ![c] = [pid |-> Pid(t), target |-> target]]
    BY <2>2, <2>4 DEF ScratchIsOwn
  <2>5. QED
    BY <2>1, <2>3, <2>4
<1>2. ASSUME NEW t \in IoThreads, NEW c \in IoCpus, NEW fd \in IoFds \cup {0}, IoExit(t, c, fd)
      PROVE  ScratchIsOwn'
  BY <1>2, IoAssumption DEF IoExit, IoTypeOK, ScratchIsOwn, Pid
<1>3. ASSUME NEW p \in IoPids, IoTrack(p)
      PROVE  ScratchIsOwn'
  BY <1>3, IoAssumption DEF IoTrack, IoTypeOK, ScratchIsOwn, Pid
<1>4. ASSUME enroll_io_threads
      PROVE  ScratchIsOwn'
  BY <1>4, IoAssumption DEF enroll_io_threads, IoTypeOK, ScratchIsOwn, Pid
<1>5. ASSUME IoTick
      PROVE  ScratchIsOwn'
  BY <1>5, IoAssumption DEF IoTick, IoTypeOK, ScratchIsOwn, Pid
<1>6. ASSUME UNCHANGED ioVars
      PROVE  ScratchIsOwn'
  BY <1>6, IoAssumption DEF ioVars, IoTypeOK, ScratchIsOwn, Pid
<1>7. QED
  BY <1>1, <1>2, <1>3, <1>4, <1>5, <1>6 DEF IoNext, IoTargets

LEMMA IoClosesKept ==
  ASSUME IoTypeOK, CallsFollow, ClosesFollow, FdMapFollows, [IoNext]_ioVars
  PROVE  ClosesFollow'
<1>1. ASSUME NEW t \in IoThreads, NEW c \in IoCpus, NEW call \in IoCallNames,
             NEW fd \in IoFds \cup {0}, NEW target \in IoTargets,
             Asks(t, call, fd, target), IoEnter(t, c, call, fd, target)
      PROVE  ClosesFollow'
  <2>1. inside' = [inside EXCEPT ![t] = [call |-> call, fd |-> fd, at |-> ioNow, target |-> target]]
        /\ fdTable' = fdTable
    BY <1>1 DEF IoEnter
  <2>2. inside'[t].call = call /\ inside'[t].fd = fd
        /\ \A u \in IoThreads \ {t} : inside'[u] = inside[u]
    BY <2>1 DEF IoTypeOK
  <2>3. DOMAIN fdMap' \subseteq DOMAIN fdMap
    BY <1>1 DEF IoEnter, Erase
  <2>4. call = "close" =>
          /\ fd \in IoFds /\ fdTable[Pid(t)][fd] # "none"
          /\ <<Pid(t), fd>> \notin DOMAIN fdMap'
          /\ \A u \in IoThreads \ {t} : inside[u].call = "close" /\ Pid(u) = Pid(t) => inside[u].fd # fd
    <3> SUFFICES ASSUME call = "close"
                 PROVE  /\ fd \in IoFds /\ fdTable[Pid(t)][fd] # "none"
                        /\ <<Pid(t), fd>> \notin DOMAIN fdMap'
                        /\ \A u \in IoThreads \ {t} :
                             inside[u].call = "close" /\ Pid(u) = Pid(t) => inside[u].fd # fd
      OBVIOUS
    <3>1. /\ fd \in IoFds /\ fdTable[Pid(t)][fd] # "none"
          /\ \A u \in IoThreads : inside[u].call = "close" /\ Pid(u) = Pid(t) => inside[u].fd # fd
      BY <1>1 DEF Asks
    <3>2. CASE Pid(t) \in ioTracked
      <4>1. fdMap' = Erase(fdMap, {<<Pid(t), fd>>})
        BY <1>1, <3>2 DEF IoEnter
      <4>2. QED
        BY <3>1, <4>1 DEF Erase
    <3>3. CASE Pid(t) \notin ioTracked
      <4>1. \A k \in DOMAIN fdMap : k # <<Pid(t), fd>>
        BY <3>3 DEF FdMapFollows
      <4>2. QED
        BY <2>3, <3>1, <4>1
    <3>4. QED
      BY <3>1, <3>2, <3>3
  <2>5. QED
    BY <2>1, <2>2, <2>3, <2>4 DEF ClosesFollow
<1>2. ASSUME NEW t \in IoThreads, NEW c \in IoCpus, NEW fd \in IoFds \cup {0}, IoExit(t, c, fd)
      PROVE  ClosesFollow'
  <2>1. inside' = [inside EXCEPT ![t] = Outside] /\ inside[t] # Outside
    BY <1>2 DEF IoExit
  <2>2. inside'[t].call = "none" /\ \A u \in IoThreads \ {t} : inside'[u] = inside[u]
    BY <2>1, IoConstantsTyped DEF IoTypeOK
  <2>3. ASSUME NEW u \in IoThreads \ {t}, inside[u].call = "close"
        PROVE  /\ fdTable'[Pid(u)][inside[u].fd] # "none"
               /\ <<Pid(u), inside[u].fd>> \notin DOMAIN fdMap'
    <3>1. /\ inside[u].fd \in IoFds /\ Pid(u) \in IoPids /\ Pid(t) \in IoPids
          /\ fdTable[Pid(u)][inside[u].fd] # "none" /\ <<Pid(u), inside[u].fd>> \notin DOMAIN fdMap
      BY <2>3, IoConstantsTyped DEF ClosesFollow
    <3>2. CASE inside[t].call \in Makes
      <4>1. /\ fd \in IoFds /\ fdTable[Pid(t)][fd] = "none"
            /\ fdTable' = [fdTable EXCEPT ![Pid(t)][fd] = inside[t].target]
            /\ fdMap' = fdMap \/ fdMap' = OpenedFd(t, c, fd)
        <5>1. fdTable' = [fdTable EXCEPT ![Pid(t)][fd] = inside[t].target]
          BY <1>2, <3>2 DEF IoExit, Makes
        <5>2. QED
          BY <1>2, <3>2, <5>1 DEF IoExit
      <4>2. DOMAIN fdMap' \subseteq DOMAIN fdMap \cup {<<Pid(t), fd>>}
        <5>1. \A v : DOMAIN Put(fdMap, <<Pid(t), fd>>, v) = DOMAIN fdMap \cup {<<Pid(t), fd>>}
          BY PutIs, Zenon
        <5>2. QED
          BY <4>1, <5>1 DEF OpenedFd
      <4>3. <<Pid(u), inside[u].fd>> # <<Pid(t), fd>>
        BY <3>1, <4>1
      <4>4. fdTable'[Pid(u)][inside[u].fd] = fdTable[Pid(u)][inside[u].fd]
        BY <3>1, <4>1, <4>3 DEF IoTypeOK
      <4>5. QED
        BY <3>1, <4>2, <4>3, <4>4
    <3>3. CASE inside[t].call = "close"
      <4>1. /\ fd = inside[t].fd /\ fdMap' = fdMap
            /\ fdTable' = [fdTable EXCEPT ![Pid(t)][fd] = "none"]
        BY <1>2, <3>3 DEF IoExit, Makes
      <4>2. <<Pid(u), inside[u].fd>> # <<Pid(t), fd>>
        BY <2>3, <3>3, <4>1 DEF ClosesFollow
      <4>3. fdTable'[Pid(u)][inside[u].fd] = fdTable[Pid(u)][inside[u].fd]
        BY <3>1, <4>1, <4>2 DEF IoTypeOK
      <4>4. QED
        BY <3>1, <4>1, <4>3
    <3>4. CASE inside[t].call \notin Makes \cup {"close"}
      BY <1>2, <3>1, <3>4 DEF IoExit
    <3>5. QED
      BY <3>2, <3>3, <3>4
  <2>4. QED
    BY <2>2, <2>3 DEF ClosesFollow
<1>3. ASSUME NEW p \in IoPids, IoTrack(p)
      PROVE  ClosesFollow'
  BY <1>3, IoAssumption DEF IoTrack, IoTypeOK, ClosesFollow, CallsFollow, FdMapFollows, IoCall, Outside, Put, Erase, OpenedFd, OnFd, Makes, Timed, IoCallNames
<1>4. ASSUME enroll_io_threads
      PROVE  ClosesFollow'
  BY <1>4, IoAssumption DEF enroll_io_threads, IoTypeOK, ClosesFollow, CallsFollow, FdMapFollows, IoCall, Outside, Put, Erase, OpenedFd, OnFd, Makes, Timed, IoCallNames
<1>5. ASSUME IoTick
      PROVE  ClosesFollow'
  BY <1>5, IoAssumption DEF IoTick, IoTypeOK, ClosesFollow, CallsFollow, FdMapFollows, IoCall, Outside, Put, Erase, OpenedFd, OnFd, Makes, Timed, IoCallNames
<1>6. ASSUME UNCHANGED ioVars
      PROVE  ClosesFollow'
  BY <1>6, IoAssumption DEF ioVars, IoTypeOK, ClosesFollow, CallsFollow, FdMapFollows, IoCall, Outside, Put, Erase, OpenedFd, OnFd, Makes, Timed, IoCallNames
<1>7. QED
  BY <1>1, <1>2, <1>3, <1>4, <1>5, <1>6 DEF IoNext, IoTargets

LEMMA IoFdMapKept ==
  ASSUME IoTypeOK, CallsFollow, ScratchIsOwn, ClosesFollow, FdMapFollows, [IoNext]_ioVars
  PROVE  FdMapFollows'
<1>1. ASSUME NEW t \in IoThreads, NEW c \in IoCpus, NEW call \in IoCallNames,
             NEW fd \in IoFds \cup {0}, NEW target \in IoTargets,
             Asks(t, call, fd, target), IoEnter(t, c, call, fd, target)
      PROVE  FdMapFollows'
  <2>1. ioTracked' = ioTracked /\ fdTable' = fdTable
    BY <1>1 DEF IoEnter
  <2>2. DOMAIN fdMap' \subseteq DOMAIN fdMap /\ \A k \in DOMAIN fdMap' : fdMap'[k] = fdMap[k]
    BY <1>1 DEF IoEnter, Erase
  <2>3. QED
    BY <2>1, <2>2 DEF FdMapFollows
<1>2. ASSUME NEW t \in IoThreads, NEW c \in IoCpus, NEW fd \in IoFds \cup {0}, IoExit(t, c, fd)
      PROVE  FdMapFollows'
  <2>1. ioTracked' = ioTracked /\ inside[t] # Outside /\ Pid(t) \in IoPids
    BY <1>2, IoConstantsTyped DEF IoExit
  <2>2. CASE inside[t].call \in Makes
    <3>1. /\ fd \in IoFds /\ inside[t].target # "none"
          /\ fdTable' = [fdTable EXCEPT ![Pid(t)][fd] = inside[t].target]
          /\ fdMap' = fdMap \/ (Pid(t) \in ioTracked /\ fdMap' = OpenedFd(t, c, fd))
      <4>1. fdTable' = [fdTable EXCEPT ![Pid(t)][fd] = inside[t].target]
        BY <1>2, <2>2 DEF IoExit, Makes
      <4>2. fd \in IoFds /\ (fdMap' = fdMap \/ (Pid(t) \in ioTracked /\ fdMap' = OpenedFd(t, c, fd)))
        BY <1>2, <2>2 DEF IoExit
      <4>3. inside[t].target # "none"
        BY <2>1, <2>2 DEF CallsFollow
      <4>4. QED
        BY <4>1, <4>2, <4>3
    <3>2. \A p \in IoPids, f \in IoFds : fdTable[p][f] # "none" => fdTable'[p][f] # "none"
      BY <2>1, <3>1 DEF IoTypeOK
    <3>3. fdTable'[Pid(t)][fd] # "none"
      BY <2>1, <3>1 DEF IoTypeOK
    <3>4. CASE fdMap' = fdMap
      BY <2>1, <3>2, <3>4, ZenonT(30) DEF FdMapFollows, IoTypeOK
    <3>5. CASE Pid(t) \in ioTracked /\ \E v \in {Pid(t), "socket"} : fdMap' = Put(fdMap, <<Pid(t), fd>>, v)
      <4>1. PICK v \in {Pid(t), "socket"} : fdMap' = Put(fdMap, <<Pid(t), fd>>, v)
        BY <3>5
      <4>2. /\ DOMAIN fdMap' = DOMAIN fdMap \cup {<<Pid(t), fd>>}
            /\ \A k \in DOMAIN fdMap' : fdMap'[k] = IF k = <<Pid(t), fd>> THEN v ELSE fdMap[k]
        BY <4>1 DEF Put
      <4>3. ASSUME NEW k \in DOMAIN fdMap'
            PROVE  k[1] \in ioTracked' /\ fdMap'[k] \in {k[1], "socket"} /\ fdTable'[k[1]][k[2]] # "none"
        <5>1. CASE k = <<Pid(t), fd>>
          BY <2>1, <3>3, <3>5, <4>2, <5>1
        <5>2. CASE k # <<Pid(t), fd>>
          <6>1. k \in DOMAIN fdMap /\ k \in IoPids \X IoFds /\ fdMap'[k] = fdMap[k]
            BY <4>2, <4>3, <5>2 DEF IoTypeOK
          <6>2. QED
            BY <2>1, <3>2, <6>1 DEF FdMapFollows
        <5>3. QED
          BY <5>1, <5>2
      <4>4. QED
        BY <4>3 DEF FdMapFollows
    <3>6. openScratch[c].pid = Pid(t) => openScratch[c].target = Pid(t)
      BY IoConstantsTyped DEF ScratchIsOwn
    <3>7. QED
      BY <3>1, <3>4, <3>5, <3>6 DEF OpenedFd
  <2>3. CASE inside[t].call = "close"
    <3>1. /\ fd = inside[t].fd /\ fdMap' = fdMap
          /\ fdTable' = [fdTable EXCEPT ![Pid(t)][fd] = "none"]
      BY <1>2, <2>3 DEF IoExit, Makes
    <3>2. <<Pid(t), fd>> \notin DOMAIN fdMap
      BY <2>3, <3>1 DEF ClosesFollow
    <3>3. ASSUME NEW k \in DOMAIN fdMap PROVE fdTable'[k[1]][k[2]] = fdTable[k[1]][k[2]]
      <4>1. k \in IoPids \X IoFds /\ k # <<Pid(t), fd>>
        BY <3>2, <3>3 DEF IoTypeOK
      <4>2. k[1] \in IoPids /\ k[2] \in IoFds /\ (k[1] # Pid(t) \/ k[2] # fd)
        BY <4>1
      <4>3. QED
        BY <2>1, <3>1, <4>2 DEF IoTypeOK
    <3>4. QED
      BY <2>1, <3>1, <3>3 DEF FdMapFollows
  <2>4. CASE inside[t].call \notin Makes \cup {"close"}
    BY <1>2, <2>4 DEF IoExit, FdMapFollows
  <2>5. QED
    BY <2>2, <2>3, <2>4
<1>3. ASSUME NEW p \in IoPids, IoTrack(p)
      PROVE  FdMapFollows'
  BY <1>3, IoAssumption DEF IoTrack, IoTypeOK, FdMapFollows, ClosesFollow, ScratchIsOwn, CallsFollow, IoCall, Outside, Put, Erase, OpenedFd, Pid, OnFd, Makes, Timed, IoCallNames
<1>4. ASSUME enroll_io_threads
      PROVE  FdMapFollows'
  BY <1>4, IoAssumption DEF enroll_io_threads, IoTypeOK, FdMapFollows, ClosesFollow, ScratchIsOwn, CallsFollow, IoCall, Outside, Put, Erase, OpenedFd, Pid, OnFd, Makes, Timed, IoCallNames
<1>5. ASSUME IoTick
      PROVE  FdMapFollows'
  BY <1>5, IoAssumption DEF IoTick, IoTypeOK, FdMapFollows, ClosesFollow, ScratchIsOwn, CallsFollow, IoCall, Outside, Put, Erase, OpenedFd, Pid, OnFd, Makes, Timed, IoCallNames
<1>6. ASSUME UNCHANGED ioVars
      PROVE  FdMapFollows'
  BY <1>6, IoAssumption DEF ioVars, IoTypeOK, FdMapFollows, ClosesFollow, ScratchIsOwn, CallsFollow, IoCall, Outside, Put, Erase, OpenedFd, Pid, OnFd, Makes, Timed, IoCallNames
<1>7. QED
  BY <1>1, <1>2, <1>3, <1>4, <1>5, <1>6 DEF IoNext, IoTargets

LEMMA IoEventKept ==
  ASSUME IoTypeOK, CallsFollow, EntriesFollow, EventIsOfCall, [IoNext]_ioVars
  PROVE  EventIsOfCall'
<1>1. ASSUME NEW t \in IoThreads, NEW c \in IoCpus, NEW call \in IoCallNames,
             NEW fd \in IoFds \cup {0}, NEW target \in IoTargets,
             Asks(t, call, fd, target), IoEnter(t, c, call, fd, target)
      PROVE  EventIsOfCall'
  BY <1>1, IoAssumption DEF IoEnter, Asks, IoTypeOK, EventIsOfCall, EntriesFollow, CallsFollow, NoIo, NoEntry, IoCall, Outside, ExitEvent, IoEvent, MmapEvent, Duration, OnFd, Makes, Timed, IoCallNames
<1>2. ASSUME NEW t \in IoThreads, NEW c \in IoCpus, NEW fd \in IoFds \cup {0}, IoExit(t, c, fd)
      PROVE  EventIsOfCall'
  <2> DEFINE ev == IF Pid(t) \in ioTracked THEN ExitEvent(t, c) ELSE NoIo
             d == inside[t]
  <2>1. lastIo' = ev /\ ioNow' = ioNow /\ d # Outside
    BY <1>2 DEF IoExit
  <2>2. CASE ev.type # "io"
    BY <2>1, <2>2 DEF EventIsOfCall
  <2>3. CASE ev.type = "io"
    <3>0. ev = ExitEvent(t, c)
      BY <2>3, IoConstantsTyped
    <3> HIDE DEF ev
    <3>1. /\ t \in DOMAIN tmap /\ d.call \in OnFd /\ ev.call = d.call /\ ev.real = d
          /\ d.call # "poll" => ev.fd = tmap[t].fd
          /\ d.call = "poll" => ev.fd = -1 /\ tmap[t].nr = "poll"
          /\ ev.dur = IF d.call \in Timed THEN Duration(t) ELSE 0
          /\ ev.enrolled => tmap[t].nr = d.call
      BY <2>1, <2>3, <3>0, ExitEvents
    <3>2. ioNow \in Nat /\ d.at \in 1 .. ioNow /\ tmap[t].enter \in Nat
      BY <2>1, <3>1 DEF CallsFollow, IoTypeOK, IoEntry
    <3> HIDE DEF d
    <3>3. CASE d.call = "poll"
      <4>1. tmap[t].enter \in {0, d.at}
        BY <3>1, <3>3 DEF EntriesFollow, d
      <4>2. Duration(t) \in {0, ioNow - d.at}
        BY <3>2, <4>1 DEF Duration
      <4>3. QED
        BY <2>1, <3>1, <3>3, <4>2 DEF EventIsOfCall
    <3>4. CASE d.call # "poll"
      <4>1. \/ tmap[t] = NoEntry
            \/ tmap[t].nr = d.call /\ tmap[t].fd = d.fd /\ (d.call \in Timed => tmap[t].enter = d.at)
        BY <3>1, <3>4 DEF EntriesFollow, d
      <4>2. CASE tmap[t] = NoEntry
        <5>1. ev.fd = -1 /\ ev.dur = 0 /\ ~ev.enrolled
          BY <3>1, <3>4, <4>2 DEF NoEntry, Duration, OnFd, Timed
        <5>2. QED
          BY <2>1, <5>1 DEF EventIsOfCall
      <4>3. CASE tmap[t].nr = d.call /\ tmap[t].fd = d.fd /\ (d.call \in Timed => tmap[t].enter = d.at)
        <5>1. d.call \in Timed => Duration(t) = ioNow - d.at
          BY <3>2, <4>3 DEF Duration
        <5>2. ev.fd = d.fd /\ (d.call \in Timed => ev.dur = ioNow - d.at) /\ (d.call \notin Timed => ev.dur = 0)
          BY <3>1, <3>4, <4>3, <5>1
        <5>3. QED
          BY <2>1, <3>1, <5>2 DEF EventIsOfCall
      <4>4. QED
        BY <4>1, <4>2, <4>3
    <3>5. QED
      BY <3>3, <3>4
  <2>4. QED
    BY <2>2, <2>3
<1>3. ASSUME NEW p \in IoPids, IoTrack(p)
      PROVE  EventIsOfCall'
  BY <1>3, IoAssumption DEF IoTrack, IoTypeOK, EventIsOfCall, EntriesFollow, CallsFollow, NoIo, NoEntry, IoCall, Outside, ExitEvent, IoEvent, MmapEvent, Duration, OnFd, Makes, Timed, IoCallNames
<1>4. ASSUME enroll_io_threads
      PROVE  EventIsOfCall'
  BY <1>4, IoAssumption DEF enroll_io_threads, IoTypeOK, EventIsOfCall, EntriesFollow, CallsFollow, NoIo, NoEntry, IoCall, Outside, ExitEvent, IoEvent, MmapEvent, Duration, OnFd, Makes, Timed, IoCallNames
<1>5. ASSUME IoTick
      PROVE  EventIsOfCall'
  BY <1>5, IoAssumption DEF IoTick, IoTypeOK, EventIsOfCall, EntriesFollow, CallsFollow, NoIo, NoEntry, IoCall, Outside, ExitEvent, IoEvent, MmapEvent, Duration, OnFd, Makes, Timed, IoCallNames
<1>6. ASSUME UNCHANGED ioVars
      PROVE  EventIsOfCall'
  BY <1>6, IoAssumption DEF ioVars, IoTypeOK, EventIsOfCall, EntriesFollow, CallsFollow, NoIo, NoEntry, IoCall, Outside, ExitEvent, IoEvent, MmapEvent, Duration, OnFd, Makes, Timed, IoCallNames
<1>7. QED
  BY <1>1, <1>2, <1>3, <1>4, <1>5, <1>6 DEF IoNext, IoTargets

LEMMA IoInvHolds == IoSpec => []IoInv
<1>1. IoInv /\ [IoNext]_ioVars => IoInv'
  BY IoTypeKept, IoCallsKept, IoEntriesKept, IoScratchKept, IoClosesKept, IoFdMapKept, IoEventKept
     DEF IoInv
<1>2. QED
  BY IoStarts, <1>1, PTL DEF IoSpec

\* The maps, the scratch slots, the events and the report keep their types.
THEOREM IoTypeCorrect == IoSpec => []IoTypeOK
<1>1. IoInv => IoTypeOK
  BY DEF IoInv
<1>2. QED
  BY <1>1, IoInvHolds, PTL

\* The events and fd_map of handle_*_enter() and handle_*_exit(): an I/O event
\* has the descriptor and the duration of the call that returned, and no
\* descriptor has another process's file, however threads share the CPUs.
THEOREM IoEventsAreExact == IoSpec => []IoEventExact
<1>1. IoInv => IoEventExact
  BY DEF IoInv, FdMapFollows, IoEventExact, FdMapIsOwn
<1>2. QED
  BY <1>1, IoInvHolds, PTL


----------------------------------------------------------------------------
(* The capture of Capture.                                                  *)

CaptureStages == {"outputs", "open", "resize", "load", "attach", "storm", "roles",
                  "fallback", "ring", "uprobes", "loop", "failed", "over"}

\* until AttachStorm no program of sched_ext is attached, until SetFallback the
\* switch is not tapped
BeforeStorm == {"outputs", "open", "resize", "load", "attach", "storm"}
BeforeFallback == BeforeStorm \cup {"roles", "fallback"}

(***************************************************************************)
(* What set-up, taking one step at a time, has done so far: the flags say     *)
(* what is attached, and give up leaves nothing.                             *)
(***************************************************************************)
ProbesFollowStages ==
    /\ capStage \in CaptureStages
    /\ stormOn \in BOOLEAN /\ fallback \in BOOLEAN /\ failed \in BOOLEAN /\ rb \in BOOLEAN
    /\ Ended => links = {} /\ skel = "none"
    /\ failed => Ended
    /\ rb => capStage \in {"uprobes", "loop"}
    /\ links \cap Storm # {} => req.storm
    /\ capStage \in BeforeStorm => links \subseteq Autoattach /\ ~stormOn
    /\ stormOn => Ended \/ Storm \subseteq links

(***************************************************************************)
(* A scheduler has one stream of picks.  The fallback is chosen once, when     *)
(* the roles are bound, and "pick" is not bound later: records of the one      *)
(* kind exist only while the other cannot be emitted.                        *)
(***************************************************************************)
OneStream ==
    /\ capStage \in BeforeFallback =>
           ~fallback /\ (picked # {} => "pick" \in links)
    /\ fallback => "pick" \notin links /\ picked \subseteq {"SWITCH_IN"}
    /\ ~fallback => picked \subseteq {"PICK"}

\* A sidecar holds a version that the process has reached.
SidecarsAreReal ==
    /\ maps \in [Pids -> Nat \ {0}] /\ sidecar \in [Pids -> Nat]
    /\ \A p \in Pids : sidecar[p] <= maps[p]

CaptureInv == ProbesFollowStages /\ OneStream /\ SidecarsAreReal

\* A set with members of one value has at most one.
LEMMA AtMostOne ==
    ASSUME NEW S, NEW x, S \subseteq {x}
    PROVE  Cardinality(S) <= 1
<1>1. S = {} \/ S = {x}
  OBVIOUS
<1>2. Cardinality({}) = 0 /\ Cardinality({x}) = 1
  BY FS_EmptySet, FS_Singleton
<1> QED
  BY <1>1, <1>2

\* The invariant gives the promises about the probes.
LEMMA CaptureInvProbes ==
    ASSUME CaptureInv
    PROVE  ProbesAsAsked
<1>1. Cardinality(picked) <= 1
  <2>1. fallback \/ ~fallback
    BY DEF CaptureInv, ProbesFollowStages
  <2>2. picked \subseteq {"SWITCH_IN"} \/ picked \subseteq {"PICK"}
    BY <2>1 DEF CaptureInv, OneStream
  <2> QED
    BY <2>2, AtMostOne
<1>2. Ended => ~rb
  BY DEF CaptureInv, ProbesFollowStages, Ended
<1> QED
  BY <1>1, <1>2 DEF CaptureInv, ProbesFollowStages, ProbesAsAsked

\* When a capture has yet to start, nothing is attached and no sidecar exists.
LEMMA CaptureInvInit == CaptureInit => CaptureInv
<1> SUFFICES ASSUME CaptureInit PROVE CaptureInv
  OBVIOUS
<1>1. ProbesFollowStages
  BY DEF CaptureInit, ProbesFollowStages, CaptureStages, BeforeStorm
<1>2. OneStream
  BY DEF CaptureInit, OneStream
<1>3. SidecarsAreReal
  BY DEF CaptureInit, SidecarsAreReal
<1> QED
  BY <1>1, <1>2, <1>3 DEF CaptureInv

\* A step of set-up or of the end leaves the host and the sidecars alone.
LEMMA SetupKeepsSidecars ==
    ASSUME CaptureInv, UNCHANGED maps, UNCHANGED userVars
    PROVE  SidecarsAreReal'
BY DEF CaptureInv, SidecarsAreReal, userVars

\* A step of the host or of the loop leaves what is attached alone.
LEMMA LoopKeepsProbes ==
    ASSUME CaptureInv, UNCHANGED setupVars
    PROVE  ProbesFollowStages'
BY DEF CaptureInv, ProbesFollowStages, Ended, setupVars

\* ... and the picks too, unless it is one.
LEMMA LoopKeepsStream ==
    ASSUME CaptureInv, UNCHANGED setupVars, UNCHANGED picked
    PROVE  OneStream'
BY DEF CaptureInv, OneStream, setupVars

\* snapshot_maps() writes what the process has reached.
LEMMA SnapshotMapsIsReal ==
    ASSUME CaptureInv, NEW P, UNCHANGED maps, sidecar' \in {sidecar} \cup snapshot_maps(P)
    PROVE  SidecarsAreReal'
BY DEF CaptureInv, SidecarsAreReal, snapshot_maps

USE DEF CaptureStages, BeforeStorm, BeforeFallback, Ended

\* Giving up detaches everything that was attached so far.
LEMMA GiveUpKeeps ==
    ASSUME CaptureInv, GiveUpCapture, capStage \in CaptureStages \ {"uprobes", "loop", "failed", "over"},
           UNCHANGED <<req, rb, stormOn, fallback, picked>>
    PROVE  ProbesFollowStages' /\ OneStream'
<1>1. ProbesFollowStages'
  BY DEF CaptureInv, ProbesFollowStages, GiveUpCapture
<1>2. OneStream'
  BY DEF CaptureInv, OneStream, GiveUpCapture, ProbesFollowStages
<1> QED
  BY <1>1, <1>2

\* Every step of a capture keeps the invariant.
LEMMA CaptureInvNext ==
    ASSUME CaptureInv, [CaptureNext]_captureVars
    PROVE  CaptureInv'
<1> USE DEF CaptureInv
<1>1. CASE SetOutputs
  <2>1. ProbesFollowStages' /\ OneStream'
    BY <1>1 DEF SetOutputs, ProbesFollowStages, OneStream, hostVars
  <2> QED
    BY <2>1, <1>1, SetupKeepsSidecars DEF SetOutputs, hostVars
<1>2. CASE OpenSkeleton
  <2>1. ProbesFollowStages' /\ OneStream'
    <3>1. CASE GiveUpCapture
      BY <1>2, <3>1, GiveUpKeeps DEF OpenSkeleton, hostVars
    <3>2. CASE capStage' = "resize" /\ UNCHANGED <<failed, links, loads>>
      BY <1>2, <3>2 DEF OpenSkeleton, ProbesFollowStages, OneStream, hostVars
    <3> QED
      BY <1>2, <3>1, <3>2 DEF OpenSkeleton
  <2> QED
    BY <2>1, <1>2, SetupKeepsSidecars DEF OpenSkeleton, hostVars
<1>3. CASE ResizeRing
  <2>1. ProbesFollowStages' /\ OneStream'
    BY <1>3 DEF ResizeRing, ProbesFollowStages, OneStream, hostVars
  <2> QED
    BY <2>1, <1>3, SetupKeepsSidecars DEF ResizeRing, hostVars
<1>4. CASE LoadSkeleton
  <2>1. ProbesFollowStages' /\ OneStream'
    <3>1. CASE GiveUpCapture
      BY <1>4, <3>1, GiveUpKeeps DEF LoadSkeleton, hostVars
    <3>2. CASE capStage' = "attach" /\ UNCHANGED <<failed, links>>
      BY <1>4, <3>2 DEF LoadSkeleton, ProbesFollowStages, OneStream, hostVars
    <3> QED
      BY <1>4, <3>1, <3>2 DEF LoadSkeleton
  <2> QED
    BY <2>1, <1>4, SetupKeepsSidecars DEF LoadSkeleton, hostVars
<1>5. CASE AttachSkeleton
  <2>1. ProbesFollowStages' /\ OneStream'
    <3>1. CASE GiveUpCapture
      BY <1>5, <3>1, GiveUpKeeps DEF AttachSkeleton, hostVars
    <3>2. CASE links' = Autoattach /\ capStage' = "storm" /\ UNCHANGED <<failed, loads>>
      <4>1. picked = {}
        BY <1>5 DEF AttachSkeleton, OneStream, ProbesFollowStages, Autoattach
      <4>2. "pick" \notin links' /\ links' \cap Storm = {}
        BY <3>2 DEF Autoattach, Storm
      <4> QED
        BY <1>5, <3>2, <4>1, <4>2 DEF AttachSkeleton, ProbesFollowStages, OneStream, hostVars
    <3> QED
      BY <1>5, <3>1, <3>2 DEF AttachSkeleton
  <2> QED
    BY <2>1, <1>5, SetupKeepsSidecars DEF AttachSkeleton, hostVars
<1>6. CASE AttachStorm
  <2>1. PICK got \in SUBSET (IF req.storm THEN Storm \cap loads ELSE {}) :
            links' = links \cup got /\ stormOn' = (got = Storm)
    BY <1>6 DEF AttachStorm
  <2>2. got \subseteq Storm \cap loads /\ (got # {} => req.storm)
    OBVIOUS
  <2>3. "pick" \notin links /\ "pick" \notin links' /\ links \cap Storm = {}
    BY <1>6, <2>1, <2>2 DEF AttachStorm, ProbesFollowStages, Autoattach, Storm
  <2>4. ProbesFollowStages'
    <3>1. links' \cap Storm # {} => req.storm
      BY <2>1, <2>2, <2>3
    <3>2. stormOn' \in BOOLEAN /\ (stormOn' => Storm \subseteq links')
      BY <2>1, <2>2
    <3> QED
      BY <1>6, <3>1, <3>2 DEF AttachStorm, ProbesFollowStages
  <2>5. OneStream'
    BY <1>6, <2>3 DEF AttachStorm, OneStream, hostVars
  <2> QED
    BY <2>4, <2>5, <1>6, SetupKeepsSidecars DEF AttachStorm, hostVars
<1>7. CASE BindRoles
  <2> DEFINE Bound == {Roles[i] : i \in {j \in DOMAIN Roles \cap DOMAIN Entries :
                                             Entries[j] = "good"}}
  <2>1. links' = links \cup Bound
    BY <1>7 DEF BindRoles
  <2>2. Bound \subseteq {"enqueue", "pick"}
    BY DEF Roles
  <2>3. links' \cap Storm = links \cap Storm
    BY <2>1, <2>2 DEF Storm
  <2>4. ProbesFollowStages'
    BY <1>7, <2>1, <2>3 DEF BindRoles, ProbesFollowStages
  <2>5. OneStream'
    BY <1>7, <2>1 DEF BindRoles, OneStream, hostVars
  <2> QED
    BY <2>4, <2>5, <1>7, SetupKeepsSidecars DEF BindRoles, hostVars
<1>8. CASE SetFallback
  <2>1. PICK got \in SUBSET {"iterator"} : links' = links \cup got
    BY <1>8 DEF SetFallback
  <2>2. links' \cap Storm = links \cap Storm
    BY <2>1 DEF Storm
  <2>3. "pick" \in links' <=> "pick" \in links
    BY <2>1
  <2>4. ProbesFollowStages'
    BY <1>8, <2>1, <2>2 DEF SetFallback, ProbesFollowStages
  <2>5. OneStream'
    BY <1>8, <2>3 DEF SetFallback, OneStream, hostVars
  <2> QED
    BY <2>4, <2>5, <1>8, SetupKeepsSidecars DEF SetFallback, hostVars
<1>9. CASE NewRing
  <2>1. ProbesFollowStages' /\ OneStream'
    <3>1. CASE GiveUpCapture /\ UNCHANGED rb
      BY <1>9, <3>1, GiveUpKeeps DEF NewRing, hostVars
    <3>2. CASE rb' = TRUE /\ capStage' = "uprobes" /\ UNCHANGED <<failed, skel, links, loads>>
      BY <1>9, <3>2 DEF NewRing, ProbesFollowStages, OneStream, hostVars
    <3> QED
      BY <1>9, <3>1, <3>2 DEF NewRing
  <2> QED
    BY <2>1, <1>9, SetupKeepsSidecars DEF NewRing, hostVars
<1>10. CASE AttachUprobes
  <2>1. PICK got \in SUBSET ((IF "libc" \in req.libs THEN Heap ELSE {})
                             \cup (IF "ntdll" \in req.libs THEN Keyed ELSE {})) :
            links' = links \cup got
    BY <1>10 DEF AttachUprobes
  <2>2. got \subseteq {"malloc", "abort", "keyed_wait"}
    BY <2>1 DEF Heap, Keyed
  <2>3. links' \cap Storm = links \cap Storm /\ ("pick" \in links' <=> "pick" \in links)
    BY <2>1, <2>2 DEF Storm
  <2>4. ProbesFollowStages'
    BY <1>10, <2>1, <2>3 DEF AttachUprobes, ProbesFollowStages
  <2>5. OneStream'
    BY <1>10, <2>3 DEF AttachUprobes, OneStream, hostVars
  <2> QED
    BY <2>4, <2>5, <1>10, SetupKeepsSidecars DEF AttachUprobes, hostVars
<1>11. CASE Destroy
  <2>1. ProbesFollowStages' /\ OneStream'
    BY <1>11 DEF Destroy, ProbesFollowStages, OneStream, hostVars
  <2> QED
    BY <2>1, <1>11, SetupKeepsSidecars DEF Destroy, hostVars
<1>12. CASE TaskPicked
  <2>1. OneStream'
    BY <1>12 DEF TaskPicked, OneStream, setupVars, ProbesFollowStages
  <2>2. ProbesFollowStages'
    BY <1>12, LoopKeepsProbes DEF TaskPicked
  <2> QED
    BY <2>1, <2>2, <1>12, SetupKeepsSidecars DEF TaskPicked
<1>13. CASE \E p \in Pids : ProcessActs(p)
  <2>1. PICK p \in Pids : ProcessActs(p)
    BY <1>13
  <2>2. maps' = maps \/ maps' = [maps EXCEPT ![p] = @ + 1]
    BY <2>1 DEF ProcessActs
  <2>3. SidecarsAreReal'
    <3>1. UNCHANGED sidecar
      BY <2>1 DEF ProcessActs, userVars
    <3>2. maps' \in [Pids -> Nat \ {0}] /\ \A q \in Pids : maps[q] <= maps'[q]
      BY <2>2 DEF SidecarsAreReal
    <3>3. \A q \in Pids : sidecar[q] \in Nat /\ maps[q] \in Nat /\ maps'[q] \in Nat
      BY <3>2 DEF SidecarsAreReal
    <3> QED
      BY <3>1, <3>2, <3>3 DEF SidecarsAreReal
  <2> QED
    BY <2>1, <2>3, LoopKeepsProbes, LoopKeepsStream DEF ProcessActs
<1>14. CASE HandleEvent
  <2>1. sidecar' \in {sidecar} \cup snapshot_maps({Head(rbq).pid})
    BY <1>14 DEF HandleEvent
  <2> QED
    BY <1>14, <2>1, SnapshotMapsIsReal, LoopKeepsProbes, LoopKeepsStream DEF HandleEvent
<1>15. CASE LoopCycle
  <2>1. PICK found \in SUBSET (Pids \ (Excluded \cup table)) :
            sidecar' \in snapshot_maps(seen \cup found)
    BY <1>15 DEF LoopCycle
  <2> QED
    BY <1>15, <2>1, SnapshotMapsIsReal, LoopKeepsProbes, LoopKeepsStream DEF LoopCycle, hostVars
<1>16. CASE UNCHANGED captureVars
  BY <1>16, SetupKeepsSidecars, LoopKeepsProbes, LoopKeepsStream DEF captureVars, hostVars
<1> QED
  BY <1>1, <1>2, <1>3, <1>4, <1>5, <1>6, <1>7, <1>8, <1>9, <1>10, <1>11, <1>12, <1>13,
     <1>14, <1>15, <1>16 DEF CaptureNext, CaptureOver

\* snapshot_maps() replaces a sidecar only by a version reached since.
LEMMA SnapshotMapsIsForward ==
    ASSUME CaptureInv, NEW P, sidecar' \in {sidecar} \cup snapshot_maps(P)
    PROVE  SidecarMovesForward
<1> SUFFICES ASSUME NEW p \in Pids
             PROVE  sidecar'[p] >= sidecar[p] /\ (sidecar[p] # 0 => sidecar'[p] # 0)
  BY DEF SidecarMovesForward
<1>1. sidecar[p] \in Nat /\ maps[p] \in Nat \ {0} /\ sidecar[p] <= maps[p]
  BY DEF CaptureInv, SidecarsAreReal
<1>2. sidecar'[p] \in {sidecar[p], maps[p]}
  BY DEF snapshot_maps
<1> QED
  BY <1>1, <1>2

\* Only the loop writes sidecars, and it writes them forward.
LEMMA CaptureStepForward ==
    ASSUME CaptureInv, CaptureNext
    PROVE  SidecarMovesForward
<1>1. CASE UNCHANGED sidecar
  BY <1>1, SnapshotMapsIsForward
<1>2. CASE HandleEvent
  <2>1. sidecar' \in {sidecar} \cup snapshot_maps({Head(rbq).pid})
    BY <1>2 DEF HandleEvent
  <2> QED
    BY <2>1, SnapshotMapsIsForward
<1>3. CASE LoopCycle
  <2>1. PICK found \in SUBSET (Pids \ (Excluded \cup table)) :
            sidecar' \in snapshot_maps(seen \cup found)
    BY <1>3 DEF LoopCycle
  <2> QED
    BY <2>1, SnapshotMapsIsForward
<1>4. HandleEvent \/ LoopCycle \/ UNCHANGED sidecar
  BY DEF CaptureNext, SetOutputs, OpenSkeleton, ResizeRing, LoadSkeleton, AttachSkeleton,
         AttachStorm, BindRoles, SetFallback, NewRing, AttachUprobes, Destroy, TaskPicked,
         ProcessActs, CaptureOver, captureVars, userVars
<1> QED
  BY <1>1, <1>2, <1>3, <1>4

(***************************************************************************)
(* However set-up ends, and wherever, no program stays attached and no ring    *)
(* is left; a capture that runs has the probes it was asked for and one        *)
(* stream of picks; and no sidecar goes back or is emptied (CaptureIsSafe).    *)
(***************************************************************************)
THEOREM CaptureSafe == CaptureSpec => CaptureIsSafe
<1>1. CaptureInv /\ [CaptureNext]_captureVars
          => [ProbesAsAsked /\ ProbesAsAsked' /\ SidecarMovesForward]_captureVars
  <2> SUFFICES ASSUME CaptureInv, CaptureNext
               PROVE  ProbesAsAsked /\ ProbesAsAsked' /\ SidecarMovesForward
    OBVIOUS
  <2>1. ProbesAsAsked
    BY CaptureInvProbes
  <2>2. ProbesAsAsked'
    <3>1. CaptureInv'
      BY CaptureInvNext
    <3>2. CaptureInv' => ProbesAsAsked'
      BY CaptureInvProbes, PTL
    <3> QED
      BY <3>1, <3>2
  <2> QED
    BY <2>1, <2>2, CaptureStepForward
<1>2. CaptureInv /\ [CaptureNext]_captureVars => CaptureInv'
  BY CaptureInvNext
<1> QED
  BY <1>1, <1>2, CaptureInvInit, PTL DEF CaptureSpec, CaptureIsSafe

(***************************************************************************)
(* HeapTrace.                                                              *)
(***************************************************************************)
AllocCalls == {"MALLOC", "CALLOC", "REALLOC"}
HeapCall == [op : AllocCalls \cup {"none", "FREE", "ABORT"}, arg : Addrs \cup {0},
             ret : Addrs \cup {0}, step : {"out", "in", "done"}, dup : BOOLEAN]
SignalKinds == {"", "DELIVER", "EXIT_ABNL"}
SignalRecord == [ts : Nat, tid : Nat, kind : SignalKinds, sig : Nat]
SignalState == [evs : Seq(SignalRecord), min : Nat, max : Nat]

\* The reports: of their maps, only the keys matter.
ReportsTyped(r) ==
  /\ DOMAIN r.df = {"live", "freed", "hits", "frees"}
  /\ DOMAIN r.pm = {"live", "lastAlloc", "hits"}
  /\ r.sig \in SignalState

\* A call is where its kind can be: a free has told its guard its address, and
\* an allocation has no result before the allocator gave one.
CallsFit ==
  \A t \in Workers :
    LET d == doing[t]
    IN  /\ d.op = "none" => d = Idle
        /\ d.op = "ABORT" => d.arg = 0 /\ d.ret = 0 /\ d.step = "out"
        /\ d.op = "FREE" => /\ d.arg \in Addrs /\ d.ret = 0 /\ d.step = "in"
                            /\ echo[t].ptr = d.arg
        /\ d.op \in {"MALLOC", "CALLOC"} => d.arg = 0
        /\ d.op = "REALLOC" => d.arg \in Addrs
        /\ d.op \in AllocCalls => /\ d.step \in {"in", "done"}
                                  /\ d.step = "in" => d.ret = 0

HeapTypeOK ==
  /\ heap \in [Addrs -> {"free", "live"}]
  /\ doing \in [Workers -> HeapCall]
  /\ echo \in [Workers -> [ptr : Addrs \cup {0}, ts : Nat]]
  /\ hnow \in Nat \ {0} /\ hlost \in Nat /\ dead \in Nat
  /\ blurred \in BOOLEAN /\ swallowed \in Nat
  /\ ReportsTyped(hrep)
  /\ CallsFit

----------------------------------------------------------------------------
\* What an event does to the keys the reports hold.

\* Of the heap's reports, an event of another kind changes none of the maps.
LEMMA OtherEventFolds ==
  ASSUME NEW r, ReportsTyped(r), NEW e,
         e.type \in {"abort", "signal", "io", "heapstack"}
  PROVE  /\ HeapFold(r, e).df = r.df
         /\ HeapFold(r, e).pm.live = r.pm.live
         /\ DOMAIN HeapFold(r, e).pm = DOMAIN r.pm
  BY DEF HeapFold, DoubleFreeFold, AbortFold, ReportsTyped

\* The deaths the signals report has recorded after e.
RecordOf(e) == [ts |-> e.ts, tid |-> e.tid, kind |-> e.kind, sig |-> e.sig]
EvsAfter(r, e) ==
  IF e.type = "signal" THEN Append(r.sig.evs, RecordOf(e)) ELSE r.sig.evs

\* The signals report takes a signal's event in, and the time of the others.
LEMMA SignalFolds ==
  ASSUME NEW r, ReportsTyped(r), NEW e,
         e.type \in {"heap", "abort", "signal", "io", "heapstack"},
         e.ts \in Nat, e.tid \in Nat, e.kind \in SignalKinds, e.sig \in Nat
  PROVE  /\ HeapFold(r, e).sig \in SignalState
         /\ HeapFold(r, e).sig.evs = EvsAfter(r, e)
<1> DEFINE v == RecordOf(e)
           n == NoteTs(r.sig, e.ts)
<1>1. r.sig \in SignalState
  BY DEF ReportsTyped
<1>2. n \in SignalState /\ n.evs = r.sig.evs
  BY <1>1 DEF NoteTs, Larger, SignalState
<1>3. v \in SignalRecord
  BY DEF SignalRecord, RecordOf
<1>4. Append(r.sig.evs, v) \in Seq(SignalRecord)
  BY <1>1, <1>3 DEF SignalState
<1>5. HeapFold(r, e).sig = SignalsFold(r.sig, e)
  BY DEF HeapFold
<1>6. CASE e.type = "signal"
  <2>1. SignalsFold(r.sig, e) = [n EXCEPT !.evs = Append(@, v)]
    BY <1>6 DEF SignalsFold, RecordOf
  <2> HIDE DEF n, v
  <2> QED  BY <2>1, <1>2, <1>4, <1>5, <1>6 DEF v, SignalState, EvsAfter
<1>7. CASE e.type # "signal"
  <2>1. SignalsFold(r.sig, e) \in {n, r.sig}
    BY <1>7 DEF SignalsFold
  <2> HIDE DEF n
  <2> QED  BY <2>1, <1>1, <1>2, <1>5, <1>7 DEF EvsAfter
<1> QED  BY <1>6, <1>7

\* So the reports stay typed when the heap's keep their fields.
LEMMA FoldIsTyped ==
  ASSUME NEW r, ReportsTyped(r), NEW e,
         e.type \in {"heap", "abort", "signal", "io", "heapstack"},
         e.ts \in Nat, e.tid \in Nat, e.kind \in SignalKinds, e.sig \in Nat,
         DOMAIN HeapFold(r, e).df = DOMAIN r.df,
         DOMAIN HeapFold(r, e).pm = DOMAIN r.pm
  PROVE  /\ ReportsTyped(HeapFold(r, e))
         /\ HeapFold(r, e).sig.evs = EvsAfter(r, e)
<1>1. HeapFold(r, e).sig \in SignalState /\ HeapFold(r, e).sig.evs = EvsAfter(r, e)
  BY SignalFolds
<1> QED  BY <1>1 DEF ReportsTyped

\* A free forgets the chunk and remembers the address; it is a hit only where the
\* address was remembered already.
Drops(r, s, a) ==
  /\ DOMAIN s.df = DOMAIN r.df /\ DOMAIN s.pm = DOMAIN r.pm
  /\ DOMAIN s.df.live = DOMAIN r.df.live \ {<<Main, a>>}
  /\ DOMAIN s.df.freed = DOMAIN r.df.freed \cup {<<Main, a>>}
  /\ DOMAIN s.pm.live = DOMAIN r.pm.live \ {a}
  /\ <<Main, a>> \notin DOMAIN r.df.freed => s.df.hits = r.df.hits

LEMMA FreeFolds ==
  ASSUME NEW r, ReportsTyped(r), NEW t, NEW a \in Addrs
  PROVE  Drops(r, HeapFold(r, FreeEvent(t, a)), a)
<1> DEFINE e == FreeEvent(t, a)
<1>1. e.type = "heap" /\ e.op = "FREE" /\ e.addr = a /\ e.pid = Main
  BY DEF FreeEvent, HeapEvent, NoHeapEvent
<1>2. a # 0
  BY HeapTraceAssumption
<1> HIDE DEF e
<1>3. HeapFold(r, e).df = Freed(r.df, e)
  BY <1>1, <1>2 DEF HeapFold, DoubleFreeFold
<1>4. HeapFold(r, e).pm = [r.pm EXCEPT !.live = Erase(@, {a} \ {0})]
  BY <1>1 DEF HeapFold, AbortFold, AbortFree
<1>5. /\ DOMAIN HeapFold(r, e).df = DOMAIN r.df
      /\ DOMAIN HeapFold(r, e).df.live = DOMAIN r.df.live \ {<<Main, a>>}
      /\ DOMAIN HeapFold(r, e).df.freed = DOMAIN r.df.freed \cup {<<Main, a>>}
      /\ <<Main, a>> \notin DOMAIN r.df.freed => HeapFold(r, e).df.hits = r.df.hits
  BY <1>1, <1>3 DEF Freed, Erase, Put, ReportsTyped
<1>6. /\ DOMAIN HeapFold(r, e).pm = DOMAIN r.pm
      /\ DOMAIN HeapFold(r, e).pm.live = DOMAIN r.pm.live \ {a}
  BY <1>2, <1>4 DEF Erase, ReportsTyped
<1> QED  BY <1>5, <1>6 DEF Drops, e

\* An allocation's event moves the old chunk out and the new one in, and forgets
\* that either was freed.
Moves(r, s, old, new) ==
  /\ DOMAIN s.df = DOMAIN r.df /\ DOMAIN s.pm = DOMAIN r.pm
  /\ s.df.hits = r.df.hits
  /\ \A a \in Addrs :
       /\ <<Main, a>> \in DOMAIN s.df.live
            <=> a = new \/ (a # old /\ <<Main, a>> \in DOMAIN r.df.live)
       /\ <<Main, a>> \in DOMAIN s.df.freed
            <=> a \notin {old, new} /\ <<Main, a>> \in DOMAIN r.df.freed
       /\ a \in DOMAIN s.pm.live
            <=> a = new \/ (a # old /\ a \in DOMAIN r.pm.live)

LEMMA AllocFolds ==
  ASSUME HeapTypeOK, NEW t \in Workers, doing[t].op \in AllocCalls
  PROVE  Moves(hrep, HeapFold(hrep, AllocEvent(t)), doing[t].arg, doing[t].ret)
<1> DEFINE e == AllocEvent(t)
           d == doing[t]
           r == hrep
<1>1. ReportsTyped(r) /\ 0 \notin Addrs
  BY HeapTraceAssumption DEF HeapTypeOK
<1>2. e.type = "heap" /\ e.op = d.op /\ e.pid = Main
  BY DEF AllocEvent, HeapEvent, NoHeapEvent
<1>3. CASE d.op \in {"MALLOC", "CALLOC"}
  <2>1. e.addr = d.ret /\ d.arg = 0
    BY <1>3 DEF AllocEvent, HeapEvent, NoHeapEvent, HeapTypeOK, CallsFit
  <2> HIDE DEF e
  <2>2. HeapFold(r, e).df = Allocated(r.df, e, d.ret)
    BY <1>2, <1>3, <2>1 DEF HeapFold, DoubleFreeFold
  <2>3. HeapFold(r, e).pm = AbortAlloc(r.pm, e, d.ret)
    BY <1>2, <1>3, <2>1 DEF HeapFold, AbortFold
  <2> SUFFICES Moves(r, HeapFold(r, e), d.arg, d.ret)
    BY DEF d, e, r
  <2> HIDE DEF d, r
  <2>4. CASE d.ret = 0
    BY <1>1, <2>1, <2>2, <2>3, <2>4 DEF Moves, Allocated, AbortAlloc
  <2>5. CASE d.ret # 0
    <3>1. /\ DOMAIN HeapFold(r, e).df = DOMAIN r.df
          /\ HeapFold(r, e).df.hits = r.df.hits
          /\ DOMAIN HeapFold(r, e).df.live = DOMAIN r.df.live \cup {<<Main, d.ret>>}
          /\ DOMAIN HeapFold(r, e).df.freed = DOMAIN r.df.freed \ {<<Main, d.ret>>}
      BY <1>1, <1>2, <2>2, <2>5 DEF Allocated, Put, Erase, ReportsTyped
    <3>2. /\ DOMAIN HeapFold(r, e).pm = DOMAIN r.pm
          /\ DOMAIN HeapFold(r, e).pm.live = DOMAIN r.pm.live \cup {d.ret}
      BY <1>1, <2>3, <2>5 DEF AbortAlloc, Put, ReportsTyped
    <3> QED  BY <1>1, <2>1, <3>1, <3>2 DEF Moves
  <2> QED  BY <2>4, <2>5
<1>4. CASE d.op = "REALLOC"
  <2>1. e.addr = d.arg /\ e.new = d.ret /\ d.arg \in Addrs
    BY <1>4 DEF AllocEvent, HeapEvent, NoHeapEvent, HeapTypeOK, CallsFit
  <2> HIDE DEF e
  <2> DEFINE f == Forgotten(r.df, e, d.arg)
             g == AbortFree(r.pm, d.arg)
  <2>2. HeapFold(r, e).df = Allocated(f, e, d.ret)
    BY <1>2, <1>4, <2>1 DEF HeapFold, DoubleFreeFold
  <2>3. HeapFold(r, e).pm = AbortAlloc(g, e, d.ret)
    BY <1>2, <1>4, <2>1 DEF HeapFold, AbortFold
  <2>4. /\ DOMAIN f = DOMAIN r.df /\ f.hits = r.df.hits
        /\ DOMAIN f.live = DOMAIN r.df.live \ {<<Main, d.arg>>}
        /\ DOMAIN f.freed = DOMAIN r.df.freed \ {<<Main, d.arg>>}
    BY <1>1, <1>2, <2>1 DEF Forgotten, Erase, ReportsTyped
  <2>5. DOMAIN g = DOMAIN r.pm /\ DOMAIN g.live = DOMAIN r.pm.live \ {d.arg}
    BY <1>1, <2>1 DEF AbortFree, Erase, ReportsTyped
  <2> SUFFICES Moves(r, HeapFold(r, e), d.arg, d.ret)
    BY DEF d, e, r
  <2> HIDE DEF d, r, f, g
  <2>6. CASE d.ret = 0
    BY <1>1, <2>1, <2>2, <2>3, <2>4, <2>5, <2>6 DEF Moves, Allocated, AbortAlloc
  <2>7. CASE d.ret # 0
    <3>1. /\ DOMAIN HeapFold(r, e).df = DOMAIN r.df
          /\ HeapFold(r, e).df.hits = r.df.hits
          /\ DOMAIN HeapFold(r, e).df.live = DOMAIN f.live \cup {<<Main, d.ret>>}
          /\ DOMAIN HeapFold(r, e).df.freed = DOMAIN f.freed \ {<<Main, d.ret>>}
      BY <1>1, <1>2, <2>2, <2>4, <2>7 DEF Allocated, Put, Erase, ReportsTyped
    <3>2. /\ DOMAIN HeapFold(r, e).pm = DOMAIN r.pm
          /\ DOMAIN HeapFold(r, e).pm.live = DOMAIN g.live \cup {d.ret}
      BY <1>1, <2>3, <2>5, <2>7 DEF AbortAlloc, Put, ReportsTyped
    <3> QED  BY <1>1, <2>1, <2>4, <2>5, <3>1, <3>2 DEF Moves
  <2> QED  BY <2>6, <2>7
<1> QED  BY <1>3, <1>4 DEF AllocCalls

----------------------------------------------------------------------------
\* What each probe leaves in the reports.

\* After an allocation's events: the chunk has moved, and no death is recorded.
LEMMA AfterAllocIs ==
  ASSUME HeapTypeOK, NEW t \in Workers, doing[t].op \in AllocCalls
  PROVE  /\ ReportsTyped(AfterAlloc(t))
         /\ Moves(hrep, AfterAlloc(t), doing[t].arg, doing[t].ret)
         /\ AfterAlloc(t).sig.evs = hrep.sig.evs
<1> DEFINE e == AllocEvent(t)
           r == HeapFold(hrep, e)
           f == [e EXCEPT !.type = "heapstack"]
<1>1. /\ e.type = "heap" /\ e.ts \in Nat /\ e.tid \in Nat
      /\ e.kind \in SignalKinds /\ e.sig \in Nat
      /\ f.type = "heapstack" /\ f.ts \in Nat /\ f.tid \in Nat
      /\ f.kind \in SignalKinds /\ f.sig \in Nat
  BY HeapTraceAssumption DEF AllocEvent, HeapEvent, NoHeapEvent, HeapTypeOK, SignalKinds
<1>2. ReportsTyped(hrep)
  BY DEF HeapTypeOK
<1>3. Moves(hrep, r, doing[t].arg, doing[t].ret)
  BY AllocFolds
<1> HIDE DEF e, f
<1>4. ReportsTyped(r) /\ r.sig.evs = hrep.sig.evs
  BY <1>1, <1>2, <1>3, FoldIsTyped DEF Moves, EvsAfter
<1> HIDE DEF r
<1>5. CASE ~WithStack(t)
  BY <1>3, <1>4, <1>5 DEF AfterAlloc, r, e
<1>6. CASE WithStack(t)
  <2>1. AfterAlloc(t) = HeapFold(r, f)
    BY <1>6 DEF AfterAlloc, r, e, f
  <2>2. /\ HeapFold(r, f).df = r.df /\ HeapFold(r, f).pm.live = r.pm.live
        /\ DOMAIN HeapFold(r, f).pm = DOMAIN r.pm
    BY <1>1, <1>4, OtherEventFolds
  <2>3. ReportsTyped(HeapFold(r, f)) /\ HeapFold(r, f).sig.evs = r.sig.evs
    BY <1>1, <1>4, <2>2, FoldIsTyped DEF EvsAfter
  <2> QED  BY <1>3, <1>4, <2>1, <2>2, <2>3 DEF Moves
<1> QED  BY <1>5, <1>6

\* After a free's event.
LEMMA AfterFreeIs ==
  ASSUME HeapTypeOK, NEW t \in Workers, NEW a \in Addrs
  PROVE  /\ ReportsTyped(HeapFold(hrep, FreeEvent(t, a)))
         /\ Drops(hrep, HeapFold(hrep, FreeEvent(t, a)), a)
         /\ HeapFold(hrep, FreeEvent(t, a)).sig.evs = hrep.sig.evs
<1> DEFINE e == FreeEvent(t, a)
<1>1. /\ e.type = "heap" /\ e.ts \in Nat /\ e.tid \in Nat
      /\ e.kind \in SignalKinds /\ e.sig \in Nat
  BY HeapTraceAssumption DEF FreeEvent, HeapEvent, NoHeapEvent, HeapTypeOK, SignalKinds
<1>2. ReportsTyped(hrep)
  BY DEF HeapTypeOK
<1> DEFINE s == HeapFold(hrep, e)
<1>3. Drops(hrep, s, a)
  BY <1>2, FreeFolds
<1> HIDE DEF e
<1>4. ReportsTyped(HeapFold(hrep, e)) /\ HeapFold(hrep, e).sig.evs = hrep.sig.evs
  BY <1>1, <1>2, <1>3, FoldIsTyped DEF EvsAfter, Drops
<1> QED  BY <1>3, <1>4 DEF e

\* After an abort's event, or another process's: the heap is as it was.
SameHeap(r, s) == s.df = r.df /\ s.pm.live = r.pm.live

LEMMA AfterOtherIs ==
  ASSUME HeapTypeOK, NEW e, e.type \in {"abort", "io"}, e.ts \in Nat,
         e.tid \in Nat, e.kind \in SignalKinds, e.sig \in Nat
  PROVE  /\ ReportsTyped(HeapFold(hrep, e)) /\ SameHeap(hrep, HeapFold(hrep, e))
         /\ HeapFold(hrep, e).sig.evs = hrep.sig.evs
<1>1. ReportsTyped(hrep)
  BY DEF HeapTypeOK
<1>2. SameHeap(hrep, HeapFold(hrep, e)) /\ DOMAIN HeapFold(hrep, e).pm = DOMAIN hrep.pm
  BY <1>1, OtherEventFolds DEF SameHeap
<1> QED  BY <1>1, <1>2, FoldIsTyped DEF SameHeap, EvsAfter

\* After the two events of a death: the last one recorded is the main thread's.
DeathIn(r, at) ==
  \E i \in DOMAIN r.sig.evs :
    /\ r.sig.evs[i].kind = "EXIT_ABNL" /\ r.sig.evs[i].sig = 6
    /\ r.sig.evs[i].ts = at

LEMMA AfterDeathIs ==
  ASSUME HeapTypeOK, NEW t \in Workers
  PROVE  /\ ReportsTyped(AfterDeath(t)) /\ SameHeap(hrep, AfterDeath(t))
         /\ DeathIn(AfterDeath(t), hnow)
<1> DEFINE d == SignalEvent(t, "DELIVER")
           x == SignalEvent(Main, "EXIT_ABNL")
           r == HeapFold(hrep, d)
           s == HeapFold(r, x)
           v == RecordOf(x)
<1>1. /\ d.type = "signal" /\ d.ts \in Nat /\ d.tid \in Nat
      /\ d.kind \in SignalKinds /\ d.sig \in Nat
      /\ x.type = "signal" /\ x.ts = hnow /\ hnow \in Nat /\ x.tid \in Nat
      /\ x.kind = "EXIT_ABNL" /\ x.kind \in SignalKinds /\ x.sig = 6
  BY HeapTraceAssumption DEF SignalEvent, HeapEvent, NoHeapEvent, HeapTypeOK, SignalKinds
<1>2. ReportsTyped(hrep)
  BY DEF HeapTypeOK
<1> HIDE DEF d, x
<1>3. SameHeap(hrep, r) /\ DOMAIN r.pm = DOMAIN hrep.pm
  BY <1>1, <1>2, OtherEventFolds DEF SameHeap
<1>4. ReportsTyped(r)
  BY <1>1, <1>2, <1>3, FoldIsTyped DEF SameHeap
<1> HIDE DEF r
<1>5. SameHeap(r, s) /\ DOMAIN s.pm = DOMAIN r.pm
  BY <1>1, <1>4, OtherEventFolds DEF SameHeap
<1>6. /\ s.sig \in SignalState
      /\ s.sig.evs = Append(r.sig.evs, v)
  <2>1. s.sig \in SignalState /\ s.sig.evs = EvsAfter(r, x)
    BY <1>1, <1>4, SignalFolds
  <2> QED  BY <2>1, <1>1 DEF EvsAfter
<1>7. ReportsTyped(s)
  BY <1>1, <1>4, <1>5, FoldIsTyped DEF SameHeap
<1>8. r.sig.evs \in Seq(SignalRecord) /\ v \in SignalRecord
  BY <1>1, <1>4 DEF ReportsTyped, SignalRecord, SignalState, RecordOf
<1> HIDE DEF s
<1>9. DeathIn(s, hnow)
  <2> DEFINE n == Len(r.sig.evs) + 1
  <2>1. v.kind = "EXIT_ABNL" /\ v.sig = 6 /\ v.ts = hnow
    BY <1>1 DEF RecordOf
  <2> HIDE DEF v
  <2>2. n \in DOMAIN s.sig.evs /\ s.sig.evs[n] = v
    BY <1>6, <1>8
  <2> QED  BY <2>1, <2>2 DEF DeathIn
<1>0. AfterDeath(t) = s
  BY DEF AfterDeath, s, r, d, x
<1> QED  BY <1>0, <1>3, <1>5, <1>7, <1>9 DEF SameHeap

\* A probe's events are read, or counted as lost.
LEMMA EmitIs ==
  ASSUME NEW after, NEW gone \in BOOLEAN, HeapEmit(after, gone), hlost \in Nat
  PROVE  /\ hlost' \in Nat
         /\ hlost' = 0 => hlost = 0
         /\ hrep' = after \/ (hrep' = hrep /\ hlost' # 0)
  BY DEF HeapEmit

\* A free's probe: the guard has the address, and the reports have read its event
\* unless it was lost or taken for an echo.
FreeIsTold(t, a) ==
  /\ echo' \in [Workers -> [ptr : Addrs \cup {0}, ts : Nat]]
  /\ echo'[t].ptr = a
  /\ \A u \in Workers \ {t} : echo'[u] = echo[u]
  /\ hlost' \in Nat
  /\ hlost' = 0 => hlost = 0
  /\ ReportsTyped(hrep') /\ hrep'.sig.evs = hrep.sig.evs
  /\ \/ hrep' = hrep /\ (IsEcho(t, a) \/ hlost' # 0)
     \/ Drops(hrep, hrep', a)

LEMMA FreeProbeIs ==
  ASSUME HeapTypeOK, NEW t \in Workers, NEW a \in Addrs, NEW gone \in BOOLEAN,
         FreeProbe(t, a, gone)
  PROVE  FreeIsTold(t, a)
<1>1. CASE IsEcho(t, a)
  BY <1>1 DEF FreeProbe, IsEcho, FreeIsTold, HeapTypeOK
<1>2. CASE ~IsEcho(t, a)
  <2> DEFINE s == HeapFold(hrep, FreeEvent(t, a))
  <2>1. ReportsTyped(s) /\ Drops(hrep, s, a) /\ s.sig.evs = hrep.sig.evs
    BY AfterFreeIs
  <2>2. HeapEmit(s, gone) /\ echo' = [echo EXCEPT ![t] = [ptr |-> a, ts |-> hnow]]
    BY <1>2 DEF FreeProbe
  <2> HIDE DEF s
  <2>3. hlost \in Nat /\ ReportsTyped(hrep)
    BY DEF HeapTypeOK
  <2>4. /\ hlost' \in Nat
        /\ hlost' = 0 => hlost = 0
        /\ hrep' = s \/ (hrep' = hrep /\ hlost' # 0)
    BY <2>2, <2>3, EmitIs
  <2>5. /\ echo' \in [Workers -> [ptr : Addrs \cup {0}, ts : Nat]]
        /\ echo'[t].ptr = a
        /\ \A u \in Workers \ {t} : echo'[u] = echo[u]
    BY <2>2 DEF HeapTypeOK
  <2> QED  BY <2>1, <2>3, <2>4, <2>5 DEF FreeIsTold
<1> QED  BY <1>1, <1>2

----------------------------------------------------------------------------
\* The types, and where each call is.

LEMMA HeapStartTyped == HeapInit => HeapTypeOK
<1> SUFFICES ASSUME HeapInit PROVE HeapTypeOK
  OBVIOUS
<1>1. ReportsTyped(hrep)
  <2>1. hrep.df = DoubleFreeInit /\ hrep.pm = AbortInit /\ hrep.sig = SignalsInit
    BY DEF HeapInit
  <2>2. <<>> \in Seq(SignalRecord)
    OBVIOUS
  <2> QED  BY <2>1, <2>2
           DEF ReportsTyped, DoubleFreeInit, AbortInit, SignalsInit, SignalState
<1>2. CallsFit
  BY DEF HeapInit, CallsFit, Idle, AllocCalls
<1>3. Idle \in HeapCall
  BY DEF HeapCall, Idle
<1>4. doing \in [Workers -> HeapCall] /\ 1 \in Nat \ {0} /\ 0 \in Nat
  BY <1>3 DEF HeapInit
<1> QED  BY <1>1, <1>2, <1>4 DEF HeapInit, HeapTypeOK

\* A step of one thread leaves the calls of the others fit.
LEMMA OneCallMoves ==
  ASSUME HeapTypeOK, NEW t \in Workers, NEW c \in HeapCall,
         doing' = [doing EXCEPT ![t] = c],
         \A u \in Workers \ {t} : echo'[u] = echo[u],
         /\ c.op = "none" => c = Idle
         /\ c.op = "ABORT" => c.arg = 0 /\ c.ret = 0 /\ c.step = "out"
         /\ c.op = "FREE" => /\ c.arg \in Addrs /\ c.ret = 0 /\ c.step = "in"
                             /\ echo'[t].ptr = c.arg
         /\ c.op \in {"MALLOC", "CALLOC"} => c.arg = 0
         /\ c.op = "REALLOC" => c.arg \in Addrs
         /\ c.op \in AllocCalls => /\ c.step \in {"in", "done"}
                                   /\ c.step = "in" => c.ret = 0
  PROVE  doing' \in [Workers -> HeapCall] /\ CallsFit'
<1>1. doing' \in [Workers -> HeapCall]
  BY DEF HeapTypeOK
<1>2. doing'[t] = c /\ \A u \in Workers \ {t} : doing'[u] = doing[u]
  BY DEF HeapTypeOK
<1>3. CallsFit
  BY DEF HeapTypeOK
<1>4. CallsFit'
  <2> SUFFICES ASSUME NEW u \in Workers
               PROVE  LET d == doing'[u]
                      IN  /\ d.op = "none" => d = Idle
                          /\ d.op = "ABORT" => d.arg = 0 /\ d.ret = 0 /\ d.step = "out"
                          /\ d.op = "FREE" => /\ d.arg \in Addrs /\ d.ret = 0
                                              /\ d.step = "in" /\ echo'[u].ptr = d.arg
                          /\ d.op \in {"MALLOC", "CALLOC"} => d.arg = 0
                          /\ d.op = "REALLOC" => d.arg \in Addrs
                          /\ d.op \in AllocCalls => /\ d.step \in {"in", "done"}
                                                    /\ d.step = "in" => d.ret = 0
    BY DEF CallsFit, Idle
  <2>1. CASE u = t
    BY <1>2, <2>1
  <2>2. CASE u # t
    BY <1>2, <1>3, <2>2 DEF CallsFit
  <2> QED  BY <2>1, <2>2
<1> QED  BY <1>1, <1>4

LEMMA HeapStepTyped == HeapTypeOK /\ [HeapNext]_hvars => HeapTypeOK'
<1> SUFFICES ASSUME HeapTypeOK, [HeapNext]_hvars PROVE HeapTypeOK'
  OBVIOUS
<1> DEFINE Rest == /\ heap' \in [Addrs -> {"free", "live"}]
                   /\ echo' \in [Workers -> [ptr : Addrs \cup {0}, ts : Nat]]
                   /\ hnow' \in Nat \ {0} /\ hlost' \in Nat /\ dead' \in Nat
                   /\ blurred' \in BOOLEAN /\ swallowed' \in Nat
                   /\ ReportsTyped(hrep')
<1>0. Idle \in HeapCall
  BY DEF Idle, HeapCall
<1>1. ASSUME NEW t \in Workers, NEW op \in AllocCalls, NEW a \in Addrs \cup {0},
             op = "REALLOC" => a # 0, uprobe_alloc(t, op, a)
      PROVE  HeapTypeOK'
  <2> DEFINE c == [Idle EXCEPT !.op = op, !.arg = a, !.step = "in"]
  <2>1. doing' = [doing EXCEPT ![t] = c]
    BY <1>1 DEF uprobe_alloc
  <2>2. /\ c \in HeapCall /\ c.op = op /\ c.arg = a /\ c.step = "in" /\ c.ret = 0
    BY DEF Idle, HeapCall
  <2>3. Rest
    BY <1>1 DEF uprobe_alloc, HeapTypeOK
  <2>4. \A u \in Workers \ {t} : echo'[u] = echo[u]
    BY <1>1 DEF uprobe_alloc
  <2>5. /\ op \in {"MALLOC", "CALLOC"} => a = 0
        /\ op = "REALLOC" => a \in Addrs
    BY <1>1 DEF uprobe_alloc
  <2>6. op # "none" /\ op # "ABORT" /\ op # "FREE"
    BY DEF AllocCalls
  <2> HIDE DEF c
  <2>7. doing' \in [Workers -> HeapCall] /\ CallsFit'
    BY <2>1, <2>2, <2>4, <2>5, <2>6, OneCallMoves
  <2> QED  BY <2>3, <2>7 DEF HeapTypeOK
<1>2. ASSUME NEW t \in Workers, NEW a \in Addrs \cup {0}, Allocate(t, a)
      PROVE  HeapTypeOK'
  <2> DEFINE c == [doing[t] EXCEPT !.ret = a, !.step = "done"]
  <2>1. doing' = [doing EXCEPT ![t] = c]
    BY <1>2 DEF Allocate, HeapTypeOK
  <2>2. doing[t] \in HeapCall /\ doing[t].op # "FREE" /\ doing[t].step = "in"
    BY <1>2 DEF Allocate, HeapTypeOK
  <2>3. /\ c \in HeapCall /\ c.op = doing[t].op /\ c.arg = doing[t].arg
        /\ c.step = "done" /\ c.ret = a
    BY <2>2 DEF HeapCall
  <2>4. /\ doing[t].op \in AllocCalls
        /\ doing[t].op \in {"MALLOC", "CALLOC"} => doing[t].arg = 0
        /\ doing[t].op = "REALLOC" => doing[t].arg \in Addrs
    BY <2>2 DEF HeapTypeOK, CallsFit, HeapCall, Idle
  <2>5. Rest
    BY <1>2 DEF Allocate, HeapTypeOK
  <2>6. \A u \in Workers \ {t} : echo'[u] = echo[u]
    BY <1>2 DEF Allocate
  <2> HIDE DEF c
  <2>7. doing' \in [Workers -> HeapCall] /\ CallsFit'
    BY <2>1, <2>3, <2>4, <2>6, OneCallMoves DEF AllocCalls
  <2> QED  BY <2>5, <2>7 DEF HeapTypeOK
<1>3. ASSUME NEW t \in Workers, NEW gone \in BOOLEAN, uretprobe_alloc(t, gone)
      PROVE  HeapTypeOK'
  <2>1. doing' = [doing EXCEPT ![t] = Idle]
    BY <1>3 DEF uretprobe_alloc
  <2>2. doing[t].op \in AllocCalls
    BY <1>3 DEF uretprobe_alloc, HeapTypeOK, CallsFit, HeapCall, Idle
  <2>3. ReportsTyped(AfterAlloc(t))
    BY <2>2, AfterAllocIs
  <2>4. ReportsTyped(hrep') /\ hlost' \in Nat
    BY <1>3, <2>3, EmitIs DEF uretprobe_alloc, HeapTypeOK
  <2>5. Rest /\ \A u \in Workers \ {t} : echo'[u] = echo[u]
    BY <1>3, <2>4 DEF uretprobe_alloc, HeapTypeOK
  <2>6. doing' \in [Workers -> HeapCall] /\ CallsFit'
    BY <1>0, <2>1, <2>5, OneCallMoves DEF AllocCalls, Idle
  <2> QED  BY <2>5, <2>6 DEF HeapTypeOK
<1>4. ASSUME NEW t \in Workers, NEW a \in Addrs, NEW gone \in BOOLEAN,
             uprobe_free(t, a, gone)
      PROVE  HeapTypeOK'
  <2> DEFINE c == [op |-> "FREE", arg |-> a, ret |-> 0, step |-> "in", dup |-> TRUE]
  <2>1. doing' = [doing EXCEPT ![t] = c]
    BY <1>4 DEF uprobe_free
  <2>2. c \in HeapCall /\ c.op = "FREE" /\ c.arg = a /\ c.ret = 0 /\ c.step = "in"
    BY DEF HeapCall
  <2>3. FreeIsTold(t, a)
    BY <1>4, FreeProbeIs DEF uprobe_free
  <2>7. swallowed' \in Nat
    BY <1>4 DEF uprobe_free, HeapTypeOK
  <2>8. heap' = heap /\ hnow' = hnow /\ dead' = dead /\ blurred' = blurred
    BY <1>4 DEF uprobe_free
  <2>4. Rest /\ \A u \in Workers \ {t} : echo'[u] = echo[u]
    BY <2>3, <2>7, <2>8 DEF HeapTypeOK, FreeIsTold
  <2>5. echo'[t].ptr = a
    BY <2>3 DEF FreeIsTold
  <2> HIDE DEF c
  <2>6. doing' \in [Workers -> HeapCall] /\ CallsFit'
    BY <2>1, <2>2, <2>4, <2>5, OneCallMoves DEF AllocCalls
  <2> QED  BY <2>4, <2>6 DEF HeapTypeOK
<1>5. ASSUME NEW t \in Workers, NEW gone \in BOOLEAN, Echo(t, gone)
      PROVE  HeapTypeOK'
  <2> DEFINE a == doing[t].arg
             c == [doing[t] EXCEPT !.dup = FALSE]
  <2>1. doing' = [doing EXCEPT ![t] = c]
    BY <1>5 DEF Echo, HeapTypeOK
  <2>2. /\ doing[t] \in HeapCall /\ doing[t].op = "FREE" /\ a \in Addrs
        /\ doing[t].ret = 0 /\ doing[t].step = "in"
    BY <1>5 DEF Echo, HeapTypeOK, CallsFit
  <2>3. c \in HeapCall /\ c.op = "FREE" /\ c.arg = a /\ c.ret = 0 /\ c.step = "in"
    BY <2>2 DEF HeapCall
  <2>4. FreeIsTold(t, a)
    BY <1>5, <2>2, FreeProbeIs DEF Echo
  <2>5. Rest /\ \A u \in Workers \ {t} : echo'[u] = echo[u]
    BY <1>5, <2>4 DEF Echo, HeapTypeOK, FreeIsTold
  <2>6. echo'[t].ptr = a
    BY <2>4 DEF FreeIsTold
  <2> HIDE DEF c, a
  <2>7. doing' \in [Workers -> HeapCall] /\ CallsFit'
    BY <2>1, <2>2, <2>3, <2>5, <2>6, OneCallMoves DEF AllocCalls
  <2> QED  BY <2>5, <2>7 DEF HeapTypeOK
<1>6. ASSUME NEW t \in Workers, FreeDone(t)
      PROVE  HeapTypeOK'
  <2>1. doing' = [doing EXCEPT ![t] = Idle]
    BY <1>6 DEF FreeDone
  <2>2. Rest /\ \A u \in Workers \ {t} : echo'[u] = echo[u]
    BY <1>6 DEF FreeDone, HeapTypeOK
  <2>3. doing' \in [Workers -> HeapCall] /\ CallsFit'
    BY <1>0, <2>1, <2>2, OneCallMoves DEF AllocCalls, Idle
  <2> QED  BY <2>2, <2>3 DEF HeapTypeOK
<1>7. ASSUME NEW t \in Workers, NEW gone \in BOOLEAN, uprobe_abort(t, gone)
      PROVE  HeapTypeOK'
  <2> DEFINE c == [Idle EXCEPT !.op = "ABORT"]
             e == [HeapEvent(t) EXCEPT !.type = "abort"]
  <2>1. doing' = [doing EXCEPT ![t] = c]
    BY <1>7 DEF uprobe_abort, HeapTypeOK
  <2>2. c \in HeapCall /\ c.op = "ABORT" /\ c.arg = 0 /\ c.ret = 0 /\ c.step = "out"
    BY DEF HeapCall, Idle
  <2>3. /\ e.type = "abort" /\ e.ts \in Nat /\ e.tid \in Nat
        /\ e.kind \in SignalKinds /\ e.sig \in Nat
    BY HeapTraceAssumption DEF HeapEvent, NoHeapEvent, HeapTypeOK, SignalKinds
  <2>4. HeapEmit(HeapFold(hrep, e), gone)
    BY <1>7 DEF uprobe_abort
  <2> HIDE DEF c, e
  <2>5. ReportsTyped(HeapFold(hrep, e))
    BY <2>3, AfterOtherIs
  <2>6. ReportsTyped(hrep') /\ hlost' \in Nat
    BY <2>4, <2>5, EmitIs DEF HeapTypeOK
  <2>7. Rest /\ \A u \in Workers \ {t} : echo'[u] = echo[u]
    BY <1>7, <2>6 DEF uprobe_abort, HeapTypeOK
  <2>8. doing' \in [Workers -> HeapCall] /\ CallsFit'
    BY <2>1, <2>2, <2>7, OneCallMoves DEF AllocCalls
  <2> QED  BY <2>7, <2>8 DEF HeapTypeOK
<1>8. ASSUME NEW t \in Workers, NEW gone \in BOOLEAN, Die(t, gone)
      PROVE  HeapTypeOK'
  <2>1. ReportsTyped(AfterDeath(t))
    BY AfterDeathIs
  <2>2. ReportsTyped(hrep') /\ hlost' \in Nat
    BY <1>8, <2>1, EmitIs DEF Die, HeapTypeOK
  <2>3. CallsFit'
    BY <1>8 DEF Die, HeapTypeOK, CallsFit
  <2> QED  BY <1>8, <2>2, <2>3 DEF Die, HeapTypeOK
<1>9. ASSUME OtherActivity
      PROVE  HeapTypeOK'
  <2> DEFINE e == [NoHeapEvent EXCEPT !.type = "io", !.ts = hnow]
  <2>1. /\ e.type = "io" /\ e.ts \in Nat /\ e.tid \in Nat
        /\ e.kind \in SignalKinds /\ e.sig \in Nat
    BY DEF NoHeapEvent, HeapTypeOK, SignalKinds
  <2>2. HeapEmit(HeapFold(hrep, e), FALSE)
    BY <1>9 DEF OtherActivity
  <2> HIDE DEF e
  <2>3. ReportsTyped(HeapFold(hrep, e))
    BY <2>1, AfterOtherIs
  <2>4. ReportsTyped(hrep') /\ hlost' \in Nat
    <3>1. FALSE \in BOOLEAN /\ hlost \in Nat /\ ReportsTyped(hrep)
      BY DEF HeapTypeOK
    <3> QED  BY <2>2, <2>3, <3>1, EmitIs
  <2>5. CallsFit'
    BY <1>9 DEF OtherActivity, HeapTypeOK, CallsFit
  <2> QED  BY <1>9, <2>4, <2>5 DEF OtherActivity, HeapTypeOK
<1>10. ASSUME HeapTick
       PROVE  HeapTypeOK'
  <2>1. CallsFit'
    BY <1>10 DEF HeapTick, HeapTypeOK, CallsFit
  <2> QED  BY <1>10, <2>1 DEF HeapTick, HeapTypeOK
<1>11. ASSUME UNCHANGED hvars
       PROVE  HeapTypeOK'
  <2>1. CallsFit'
    BY <1>11 DEF hvars, HeapTypeOK, CallsFit
  <2> QED  BY <1>11, <2>1 DEF hvars, HeapTypeOK
<1> QED  BY <1>1, <1>2, <1>3, <1>4, <1>5, <1>6, <1>7, <1>8, <1>9, <1>10, <1>11
         DEF HeapNext, AllocCalls

----------------------------------------------------------------------------
\* No false double free: an address the program holds is not remembered as freed.
FreedAreNotHeld ==
  ~Buggy /\ hlost = 0 =>
    /\ hrep.df.hits = <<>>
    /\ \A a \in Addrs : Held(a) => <<Main, a>> \notin DOMAIN hrep.df.freed

\* An address held after a step of t that t did not have was held before.
LEMMA HeldBefore ==
  ASSUME NEW t \in Workers, NEW x \in Addrs, Held(x)',
         \A u \in Workers \ {t} : doing'[u] = doing[u],
         heap'[x] = "live" => heap[x] = "live",
         x \notin {doing[t].arg, doing[t].ret}
  PROVE  Held(x)
  BY DEF Held

LEMMA FreedAreNotHeldStep ==
  ASSUME HeapTypeOK, FreedAreNotHeld, [HeapNext]_hvars
  PROVE  FreedAreNotHeld'
<1> SUFFICES ASSUME ~Buggy, hlost' = 0
             PROVE  /\ hrep'.df.hits = <<>>
                    /\ \A x \in Addrs : Held(x)' => <<Main, x>> \notin DOMAIN hrep'.df.freed
  BY DEF FreedAreNotHeld
<1> USE HeapTraceAssumption
<1>0. /\ hlost \in Nat /\ doing \in [Workers -> HeapCall] /\ ReportsTyped(hrep)
      /\ heap \in [Addrs -> {"free", "live"}]
  BY DEF HeapTypeOK
<1>1. ASSUME NEW t \in Workers, NEW op \in AllocCalls, NEW a \in Addrs \cup {0},
             uprobe_alloc(t, op, a), NEW x \in Addrs, Held(x)'
      PROVE  Held(x) /\ hrep' = hrep /\ hlost' = hlost
  <2>1. /\ \A u \in Workers \ {t} : doing'[u] = doing[u]
        /\ heap' = heap /\ hrep' = hrep /\ hlost' = hlost
        /\ doing[t].arg = 0 /\ doing[t].ret = 0
    BY <1>0, <1>1 DEF uprobe_alloc, Idle
  <2> QED  BY <1>1, <2>1, HeldBefore
<1>2. ASSUME NEW t \in Workers, NEW a \in Addrs \cup {0}, Allocate(t, a),
             NEW x \in Addrs, Held(x)'
      PROVE  Held(x) /\ hrep' = hrep /\ hlost' = hlost
  <2> DEFINE d == doing[t]
  <2>1. /\ hrep' = hrep /\ hlost' = hlost
        /\ doing' = [doing EXCEPT ![t].ret = a, ![t].step = "done"]
        /\ heap'[x] = IF x = a THEN "live"
                      ELSE IF x = d.arg /\ a # 0 THEN "free" ELSE heap[x]
        /\ d.step = "in" /\ d.op # "FREE"
    BY <1>2 DEF Allocate
  <2>2. d.ret = 0
    BY <1>0, <2>1 DEF HeapTypeOK, CallsFit, HeapCall, Idle
  <2>3. /\ \A u \in Workers \ {t} : doing'[u] = doing[u]
        /\ doing'[t].ret = a /\ doing'[t].arg = d.arg
    BY <1>0, <2>1 DEF HeapCall
  <2>4. x # a /\ x # d.arg
    BY <1>2, <2>3 DEF Held
  <2> QED  BY <1>2, <2>1, <2>2, <2>3, <2>4, HeldBefore
<1>3. ASSUME NEW t \in Workers, NEW gone \in BOOLEAN, uretprobe_alloc(t, gone)
      PROVE  /\ hlost = 0 /\ hrep'.df.hits = hrep.df.hits
             /\ \A x \in Addrs : Held(x)' /\ <<Main, x>> \in DOMAIN hrep'.df.freed
                                => Held(x) /\ <<Main, x>> \in DOMAIN hrep.df.freed
  <2>1. doing[t].op \in AllocCalls
    BY <1>0, <1>3 DEF uretprobe_alloc, HeapTypeOK, CallsFit, HeapCall, Idle
  <2>2. Moves(hrep, AfterAlloc(t), doing[t].arg, doing[t].ret)
    BY <2>1, AfterAllocIs
  <2>3. hlost = 0 /\ hrep' = AfterAlloc(t)
    BY <1>0, <1>3, EmitIs DEF uretprobe_alloc
  <2>4. heap' = heap /\ \A u \in Workers \ {t} : doing'[u] = doing[u]
    BY <1>0, <1>3 DEF uretprobe_alloc
  <2>5. ASSUME NEW x \in Addrs, Held(x)', <<Main, x>> \in DOMAIN hrep'.df.freed
        PROVE  Held(x) /\ <<Main, x>> \in DOMAIN hrep.df.freed
    <3>1. /\ x \notin {doing[t].arg, doing[t].ret}
          /\ <<Main, x>> \in DOMAIN hrep.df.freed
      BY <2>2, <2>3, <2>5 DEF Moves
    <3> QED  BY <2>4, <2>5, <3>1, HeldBefore
  <2> QED  BY <2>2, <2>3, <2>5 DEF Moves
<1>4. ASSUME NEW t \in Workers, NEW a \in Addrs, NEW gone \in BOOLEAN,
             uprobe_free(t, a, gone)
      PROVE  /\ hrep'.df.hits = <<>>
             /\ \A x \in Addrs : Held(x)' => <<Main, x>> \notin DOMAIN hrep'.df.freed
  <2>1. FreeIsTold(t, a)
    BY <1>4, FreeProbeIs DEF uprobe_free
  <2>2. hlost = 0 /\ (hrep' = hrep \/ Drops(hrep, hrep', a))
    BY <2>1 DEF FreeIsTold
  <2>3. /\ Held(a) /\ heap' = heap /\ doing[t] = Idle
        /\ doing' = [doing EXCEPT ![t] = [op |-> "FREE", arg |-> a, ret |-> 0,
                                          step |-> "in", dup |-> TRUE]]
    BY <1>4 DEF uprobe_free
  <2>4. /\ \A u \in Workers \ {t} : doing'[u] = doing[u]
        /\ doing'[t].arg = a /\ doing[t].arg = 0 /\ doing[t].ret = 0
    BY <1>0, <2>3 DEF Idle
  <2>5. /\ hrep.df.hits = <<>> /\ <<Main, a>> \notin DOMAIN hrep.df.freed
        /\ \A x \in Addrs : Held(x) => <<Main, x>> \notin DOMAIN hrep.df.freed
    BY <2>2, <2>3 DEF FreedAreNotHeld
  <2>6. ASSUME NEW x \in Addrs, Held(x)' PROVE x # a /\ Held(x)
    <3>1. x # a
      BY <2>4, <2>6 DEF Held
    <3> QED  BY <2>3, <2>4, <2>6, <3>1, HeldBefore
  <2> QED  BY <2>2, <2>5, <2>6 DEF Drops
<1>5. ASSUME NEW t \in Workers, NEW gone \in BOOLEAN, Echo(t, gone)
      PROVE  hrep' = hrep /\ hlost' = hlost /\ \A x \in Addrs : Held(x)' => Held(x)
  <2>1. IsEcho(t, doing[t].arg)
    BY <1>5 DEF Echo, IsEcho, HeapTypeOK, CallsFit
  <2>2. hrep' = hrep /\ hlost' = hlost
    BY <1>5, <2>1 DEF Echo, FreeProbe
  <2>3. heap' = heap /\ \A u \in Workers : doing'[u].arg = doing[u].arg
                                       /\ doing'[u].ret = doing[u].ret
    BY <1>0, <1>5 DEF Echo, HeapCall
  <2> QED  BY <2>2, <2>3 DEF Held
<1>6. ASSUME NEW t \in Workers, FreeDone(t), NEW x \in Addrs, Held(x)'
      PROVE  Held(x) /\ hrep' = hrep /\ hlost' = hlost
  <2>1. /\ \A u \in Workers \ {t} : doing'[u] = doing[u]
        /\ heap' = [heap EXCEPT ![doing[t].arg] = "free"]
        /\ hrep' = hrep /\ hlost' = hlost /\ doing[t].op = "FREE"
    BY <1>0, <1>6 DEF FreeDone
  <2>2. doing[t].ret = 0
    BY <2>1 DEF HeapTypeOK, CallsFit
  <2>3. x # doing[t].arg
    BY <1>0, <1>6, <2>1 DEF Held
  <2> QED  BY <1>0, <1>6, <2>1, <2>2, <2>3, HeldBefore
<1>7. ASSUME NEW t \in Workers, NEW gone \in BOOLEAN, uprobe_abort(t, gone)
      PROVE  /\ hlost = 0 /\ hrep'.df = hrep.df
             /\ \A x \in Addrs : Held(x)' => Held(x)
  <2> DEFINE e == [HeapEvent(t) EXCEPT !.type = "abort"]
  <2>1. e.type \in {"abort", "signal", "io", "heapstack"}
    BY DEF HeapEvent, NoHeapEvent
  <2>2. HeapEmit(HeapFold(hrep, e), gone)
    BY <1>7 DEF uprobe_abort
  <2> HIDE DEF e
  <2>3. HeapFold(hrep, e).df = hrep.df
    BY <1>0, <2>1, OtherEventFolds
  <2>4. hlost = 0 /\ hrep'.df = hrep.df
    BY <1>0, <2>2, <2>3, EmitIs
  <2>5. /\ \A u \in Workers \ {t} : doing'[u] = doing[u]
        /\ heap' = heap /\ doing[t].arg = 0 /\ doing[t].ret = 0
    BY <1>0, <1>7 DEF uprobe_abort, Idle
  <2> QED  BY <2>4, <2>5, HeldBefore
<1>8. ASSUME NEW t \in Workers, NEW gone \in BOOLEAN, Die(t, gone)
      PROVE  /\ hlost = 0 /\ hrep'.df = hrep.df
             /\ \A x \in Addrs : Held(x)' => Held(x)
  <2>1. hlost = 0 /\ hrep'.df = hrep.df
    BY <1>0, <1>8, AfterDeathIs, EmitIs DEF Die, SameHeap
  <2> QED  BY <1>8, <2>1 DEF Die, Held
<1>9. ASSUME OtherActivity
      PROVE  /\ hlost = 0 /\ hrep'.df = hrep.df
             /\ \A x \in Addrs : Held(x)' => Held(x)
  <2> DEFINE e == [NoHeapEvent EXCEPT !.type = "io", !.ts = hnow]
  <2>1. e.type \in {"abort", "signal", "io", "heapstack"}
    BY DEF NoHeapEvent
  <2>2. HeapEmit(HeapFold(hrep, e), FALSE)
    BY <1>9 DEF OtherActivity
  <2> HIDE DEF e
  <2>3. HeapFold(hrep, e).df = hrep.df
    BY <1>0, <2>1, OtherEventFolds
  <2>4. hlost = 0 /\ hrep'.df = hrep.df
    BY <1>0, <2>2, <2>3 DEF HeapEmit
  <2> QED  BY <1>9, <2>4 DEF OtherActivity, Held
<1>10. ASSUME HeapTick \/ UNCHANGED hvars
       PROVE  /\ hlost = 0 /\ hrep'.df = hrep.df
              /\ \A x \in Addrs : Held(x)' => Held(x)
  BY <1>10 DEF HeapTick, hvars, Held
<1>11. CASE \E t \in Workers, op \in AllocCalls, a \in Addrs \cup {0} : uprobe_alloc(t, op, a)
  <2>1. hrep' = hrep /\ hlost' = hlost
    BY <1>11 DEF uprobe_alloc
  <2> QED  BY <1>1, <1>11, <2>1 DEF FreedAreNotHeld
<1>12. CASE \E t \in Workers, a \in Addrs \cup {0} : Allocate(t, a)
  <2>1. hrep' = hrep /\ hlost' = hlost
    BY <1>12 DEF Allocate
  <2> QED  BY <1>2, <1>12, <2>1 DEF FreedAreNotHeld
<1>13. CASE \E t \in Workers : FreeDone(t)
  <2>1. hrep' = hrep /\ hlost' = hlost
    BY <1>13 DEF FreeDone
  <2> QED  BY <1>6, <1>13, <2>1 DEF FreedAreNotHeld
<1>14. CASE \E t \in Workers, gone \in BOOLEAN : uretprobe_alloc(t, gone)
  BY <1>3, <1>14 DEF FreedAreNotHeld
<1>15. CASE \E t \in Workers, gone \in BOOLEAN : Echo(t, gone)
  BY <1>5, <1>15 DEF FreedAreNotHeld
<1>16. CASE \E t \in Workers, gone \in BOOLEAN : uprobe_abort(t, gone) \/ Die(t, gone)
  BY <1>7, <1>8, <1>16 DEF FreedAreNotHeld
<1>17. CASE OtherActivity \/ HeapTick \/ UNCHANGED hvars
  BY <1>9, <1>10, <1>17 DEF FreedAreNotHeld
<1> QED  BY <1>4, <1>11, <1>12, <1>13, <1>14, <1>15, <1>16, <1>17
         DEF HeapNext, AllocCalls

----------------------------------------------------------------------------
\* The replayed heap is the real one.

\* Nothing the replay cannot follow has happened.
Clear == hlost = 0 /\ ~blurred /\ swallowed = 0 /\ ~Buggy

Uses(t) == {doing[t].arg, doing[t].ret} \ {0}

\* The reports have a live exactly when it is.
Known(a) ==
  /\ heap[a] = "live" <=> <<Main, a>> \in DOMAIN hrep.df.live
  /\ heap[a] = "live" <=> a \in DOMAIN hrep.pm.live

\* What holds of the chunks of a call: the one to be freed is live, and forgotten
\* already; the one to be moved is live until the move and free after it; the one
\* the allocator gave is live.
CallTold(t) ==
  LET d == doing[t]
  IN  /\ d.op = "FREE" => /\ heap[d.arg] = "live"
                          /\ <<Main, d.arg>> \notin DOMAIN hrep.df.live
                          /\ d.arg \notin DOMAIN hrep.pm.live
      /\ d.op = "REALLOC" => IF d.step = "in" THEN heap[d.arg] = "live"
                             ELSE d.ret # 0 /\ heap[d.arg] = "free"
      /\ d.ret # 0 => heap[d.ret] = "live" /\ d.ret # d.arg

ReplayTold ==
  Clear =>
    /\ \A t, u \in Workers : t # u => Uses(t) \cap Uses(u) = {}
    /\ \A t \in Workers : CallTold(t)
    /\ \A a \in Addrs : (\A t \in Workers : a \notin Uses(t)) => Known(a)

\* Where a step of t leaves the chunks of the other calls alone, only t's own
\* chunks have to be looked at.
Untouched(a) ==
  /\ heap'[a] = heap[a]
  /\ <<Main, a>> \in DOMAIN hrep'.df.live => <<Main, a>> \in DOMAIN hrep.df.live
  /\ a \in DOMAIN hrep'.pm.live => a \in DOMAIN hrep.pm.live

LEMMA ReplayFrame ==
  ASSUME HeapTypeOK, HeapTypeOK', ReplayTold, Clear, NEW t \in Workers,
         \A u \in Workers \ {t} : doing'[u] = doing[u],
         \A u \in Workers \ {t} : Uses(t)' \cap Uses(u) = {},
         \A u \in Workers \ {t}, a \in Addrs : a \in Uses(u) => Untouched(a),
         CallTold(t)',
         \A a \in Addrs : (\A u \in Workers : a \notin Uses(u)') => Known(a)'
  PROVE  ReplayTold'
<1>1. \A u \in Workers \ {t} : Uses(u)' = Uses(u)
  BY DEF Uses
<1>2. ASSUME NEW u \in Workers, NEW v \in Workers, u # v
      PROVE  Uses(u)' \cap Uses(v)' = {}
  BY <1>1, <1>2 DEF ReplayTold
<1>3. ASSUME NEW u \in Workers \ {t} PROVE CallTold(u)'
  <2>1. CallTold(u) /\ doing'[u] = doing[u]
    BY DEF ReplayTold
  <2>2. /\ doing[u].op \in {"FREE", "REALLOC"} => doing[u].arg \in Addrs
        /\ doing[u].ret # 0 => doing[u].ret \in Addrs
    BY DEF HeapTypeOK, CallsFit, HeapCall
  <2>3. ASSUME NEW a \in Addrs, a \in {doing[u].arg, doing[u].ret}
        PROVE  Untouched(a)
    BY <2>3, HeapTraceAssumption DEF Uses
  <2>4. /\ doing[u].op \in {"FREE", "REALLOC"} => Untouched(doing[u].arg)
        /\ doing[u].ret # 0 => Untouched(doing[u].ret)
    BY <2>2, <2>3
  <2> QED  BY <2>1, <2>4 DEF CallTold, Untouched
<1> QED  BY <1>2, <1>3 DEF ReplayTold

LEMMA ReplaySame ==
  ASSUME ReplayTold, Clear, heap' = heap,
         \A u \in Workers : doing'[u].op = doing[u].op /\ doing'[u].arg = doing[u].arg
                           /\ doing'[u].ret = doing[u].ret /\ doing'[u].step = doing[u].step,
         SameHeap(hrep, hrep')
  PROVE  ReplayTold'
<1>1. \A u \in Workers : Uses(u)' = Uses(u) /\ CallTold(u)' = CallTold(u)
  BY DEF Uses, CallTold, SameHeap
<1>2. \A a \in Addrs : Known(a) => Known(a)'
  BY DEF Known, SameHeap
<1> QED  BY <1>1, <1>2 DEF ReplayTold

LEMMA ReplayToldStep ==
  ASSUME HeapTypeOK, HeapTypeOK', ReplayTold, [HeapNext]_hvars
  PROVE  ReplayTold'
<1> SUFFICES ASSUME Clear' PROVE ReplayTold'
  BY DEF ReplayTold
<1> USE HeapTraceAssumption
<1>0. /\ hlost \in Nat /\ doing \in [Workers -> HeapCall] /\ ReportsTyped(hrep)
      /\ heap \in [Addrs -> {"free", "live"}] /\ swallowed \in Nat
  BY DEF HeapTypeOK
<1>a. Clear => /\ \A u, v \in Workers : u # v => Uses(u) \cap Uses(v) = {}
               /\ \A u \in Workers : CallTold(u)
               /\ \A x \in Addrs : (\A u \in Workers : x \notin Uses(u)) => Known(x)
  BY DEF ReplayTold
<1>1. ASSUME NEW t \in Workers, NEW op \in AllocCalls, NEW a \in Addrs \cup {0},
             op = "REALLOC" => a # 0, uprobe_alloc(t, op, a)
      PROVE  ReplayTold'
  <2>1. /\ doing[t] = Idle /\ heap' = heap /\ hrep' = hrep
        /\ doing' = [doing EXCEPT ![t] = [Idle EXCEPT !.op = op, !.arg = a, !.step = "in"]]
        /\ op # "REALLOC" => a = 0
        /\ op = "REALLOC" => Held(a)
    BY <1>1 DEF uprobe_alloc
  <2>2. Clear
    BY <1>1 DEF uprobe_alloc, Clear
  <2>3. /\ \A u \in Workers \ {t} : doing'[u] = doing[u]
        /\ doing'[t].op = op /\ doing'[t].arg = a /\ doing'[t].ret = 0
        /\ doing'[t].step = "in" /\ doing[t].arg = 0 /\ doing[t].ret = 0
    BY <1>0, <2>1 DEF Idle
  <2>4. a # 0 => heap[a] = "live" /\ \A u \in Workers : a \notin Uses(u)
    BY <2>1 DEF Held, Uses
  <2>5. Uses(t)' = {a} \ {0} /\ Uses(t) = {}
    BY <2>3 DEF Uses
  <2>6. CallTold(t)'
    BY <1>1, <2>1, <2>3, <2>4 DEF CallTold, AllocCalls
  <2>7. ASSUME NEW x \in Addrs, \A u \in Workers : x \notin Uses(u)'
        PROVE  Known(x)'
    <3>1. \A u \in Workers : x \notin Uses(u)
      BY <2>3, <2>5, <2>7 DEF Uses
    <3> QED  BY <1>a, <2>1, <2>2, <3>1 DEF Known
  <2>8. \A u \in Workers \ {t}, x \in Addrs : x \in Uses(u) => Untouched(x)
    BY <2>1 DEF Untouched
  <2>9. \A u \in Workers \ {t} : Uses(t)' \cap Uses(u) = {}
    BY <2>4, <2>5
  <2> QED  BY <2>2, <2>3, <2>6, <2>7, <2>8, <2>9, ReplayFrame
<1>2. ASSUME NEW t \in Workers, NEW a \in Addrs \cup {0}, Allocate(t, a)
      PROVE  ReplayTold'
  <2> DEFINE d == doing[t]
             left == {x \in Addrs : heap[x] = "free"}
  <2>1. /\ d.step = "in" /\ d.op # "FREE" /\ hrep' = hrep
        /\ a \in (IF left = {} THEN {0} ELSE left)
        /\ heap' = [x \in Addrs |->
                       IF x = a THEN "live"
                       ELSE IF x = d.arg /\ a # 0 THEN "free" ELSE heap[x]]
        /\ doing' = [doing EXCEPT ![t].ret = a, ![t].step = "done"]
    BY <1>2 DEF Allocate
  <2>2. Clear /\ ~(d.op = "REALLOC" /\ a = 0)
    BY <1>2 DEF Allocate, Clear
  <2>3. \A u \in Workers \ {t} :
           ~(/\ doing[u].op = "REALLOC" /\ doing[u].step = "done"
             /\ doing[u].arg = a /\ a # 0)
    BY <1>2 DEF Allocate, Clear
  <2>4. /\ d.ret = 0 /\ d.op \in AllocCalls
        /\ d.op \in {"MALLOC", "CALLOC"} => d.arg = 0
        /\ d.op = "REALLOC" => d.arg \in Addrs
    BY <1>0, <2>1 DEF HeapTypeOK, CallsFit, HeapCall, Idle
  <2>5. /\ \A u \in Workers \ {t} : doing'[u] = doing[u]
        /\ doing'[t].op = d.op /\ doing'[t].arg = d.arg /\ doing'[t].ret = a
        /\ doing'[t].step = "done"
    BY <1>0, <2>1 DEF HeapCall
  <2>6. a # 0 => a \in Addrs /\ heap[a] = "free"
    BY <2>1
  <2>7. d.arg # 0 => /\ d.op = "REALLOC" /\ d.arg \in Addrs
                    /\ heap[d.arg] = "live" /\ d.arg # a
    BY <1>a, <2>1, <2>2, <2>4, <2>6 DEF CallTold, AllocCalls
  <2>8. ASSUME NEW u \in Workers \ {t}, NEW x \in Addrs, x \in Uses(u)
        PROVE  x # d.arg /\ x # a
    <3>1. d.arg # 0 => d.arg \in Uses(t)
      BY DEF Uses
    <3>2. x # d.arg
      BY <1>a, <2>2, <2>8, <3>1
    <3>3. CASE x = doing[u].ret
      <4>1. heap[x] = "live"
        BY <1>a, <2>2, <3>3 DEF CallTold
      <4> QED  BY <2>6, <3>2, <4>1
    <3>4. CASE x = doing[u].arg
      <4>1. doing[u].op \in {"FREE", "REALLOC"}
        <5>1. doing[u].op \in AllocCalls \cup {"none", "FREE", "ABORT"}
          BY <1>0 DEF HeapCall
        <5>2. doing[u].op \in {"none", "ABORT", "MALLOC", "CALLOC"} => doing[u].arg = 0
          BY DEF HeapTypeOK, CallsFit, Idle
        <5> QED  BY <3>4, <5>1, <5>2 DEF AllocCalls
      <4>2. doing[u].op = "REALLOC" => doing[u].step \in {"in", "done"}
        BY DEF HeapTypeOK, CallsFit, AllocCalls
      <4>3. CASE doing[u].op = "FREE" \/ doing[u].step = "in"
        <5>1. heap[x] = "live"
          BY <1>a, <2>2, <3>4, <4>1, <4>3 DEF CallTold
        <5> QED  BY <2>6, <3>2, <5>1
      <4>4. CASE doing[u].op = "REALLOC" /\ doing[u].step = "done"
        BY <2>3, <3>2, <3>4, <4>4
      <4> QED  BY <4>1, <4>2, <4>3, <4>4
    <3> QED  BY <2>8, <3>3, <3>4 DEF Uses
  <2>9. \A u \in Workers \ {t}, x \in Addrs : x \in Uses(u) => Untouched(x)
    BY <2>1, <2>8 DEF Untouched
  <2>10. Uses(t)' = {d.arg, a} \ {0} /\ Uses(t) = {d.arg} \ {0}
    BY <2>4, <2>5 DEF Uses
  <2>11. \A u \in Workers \ {t} : Uses(t)' \cap Uses(u) = {}
    BY <2>6, <2>7, <2>8, <2>10
  <2>12. CallTold(t)'
    BY <2>1, <2>2, <2>4, <2>5, <2>6, <2>7 DEF CallTold
  <2>13. ASSUME NEW x \in Addrs, \A u \in Workers : x \notin Uses(u)'
         PROVE  Known(x)'
    <3>1. x # a /\ x # d.arg
      BY <2>10, <2>13
    <3>2. \A u \in Workers : x \notin Uses(u)
      BY <2>5, <2>10, <2>13, <3>1 DEF Uses
    <3>3. heap'[x] = heap[x]
      BY <2>1, <3>1
    <3> QED  BY <1>a, <2>1, <2>2, <3>2, <3>3 DEF Known
  <2> QED  BY <2>2, <2>5, <2>9, <2>11, <2>12, <2>13, ReplayFrame
<1>3. ASSUME NEW t \in Workers, NEW gone \in BOOLEAN, uretprobe_alloc(t, gone)
      PROVE  ReplayTold'
  <2> DEFINE d == doing[t]
  <2>1. d.op \in AllocCalls /\ d.step = "done"
    BY <1>0, <1>3 DEF uretprobe_alloc, HeapTypeOK, CallsFit, HeapCall, Idle
  <2>2. Moves(hrep, AfterAlloc(t), d.arg, d.ret)
    BY <2>1, AfterAllocIs
  <2>3. /\ hlost = 0 /\ hrep' = AfterAlloc(t) /\ heap' = heap
        /\ doing' = [doing EXCEPT ![t] = Idle]
        /\ blurred' = blurred /\ swallowed' = swallowed
    BY <1>0, <1>3, EmitIs DEF uretprobe_alloc, Clear
  <2>4. Clear
    BY <2>3 DEF Clear
  <2>5. /\ \A u \in Workers \ {t} : doing'[u] = doing[u]
        /\ doing'[t] = Idle
    BY <1>0, <2>3
  <2>6. Uses(t)' = {} /\ CallTold(t)'
    BY <2>5 DEF Uses, CallTold, Idle
  <2>7. ASSUME NEW u \in Workers \ {t}, NEW x \in Addrs, x \in Uses(u)
        PROVE  Untouched(x)
    <3>1. x # d.arg /\ x # d.ret
      BY <1>a, <2>4, <2>7 DEF Uses
    <3> QED  BY <2>2, <2>3, <3>1 DEF Moves, Untouched
  <2>8. ASSUME NEW x \in Addrs, \A u \in Workers : x \notin Uses(u)'
        PROVE  Known(x)'
    <3>1. CASE x = d.ret
      <4>1. heap[x] = "live"
        BY <1>a, <2>4, <3>1 DEF CallTold
      <4> QED  BY <2>2, <2>3, <3>1, <4>1 DEF Moves, Known
    <3>2. CASE x = d.arg /\ x # d.ret
      <4>1. d.op = "REALLOC"
        BY <2>1, <3>2 DEF HeapTypeOK, CallsFit, AllocCalls
      <4>2. heap[x] = "free"
        BY <1>a, <2>1, <2>4, <3>2, <4>1 DEF CallTold
      <4> QED  BY <2>2, <2>3, <3>2, <4>2 DEF Moves, Known
    <3>3. CASE x # d.arg /\ x # d.ret
      <4>1. \A u \in Workers : x \notin Uses(u)
        BY <2>5, <2>8, <3>3 DEF Uses
      <4> QED  BY <1>a, <2>2, <2>3, <2>4, <3>3, <4>1 DEF Moves, Known
    <3> QED  BY <3>1, <3>2, <3>3
  <2> QED  BY <2>4, <2>5, <2>6, <2>7, <2>8, ReplayFrame
<1>4. ASSUME NEW t \in Workers, NEW a \in Addrs, NEW gone \in BOOLEAN,
             uprobe_free(t, a, gone)
      PROVE  ReplayTold'
  <2>1. FreeIsTold(t, a)
    BY <1>4, FreeProbeIs DEF uprobe_free
  <2>2. /\ Held(a) /\ heap' = heap /\ doing[t] = Idle /\ blurred' = blurred
        /\ swallowed = 0 /\ ~IsEcho(t, a)
        /\ doing' = [doing EXCEPT ![t] = [op |-> "FREE", arg |-> a, ret |-> 0,
                                          step |-> "in", dup |-> TRUE]]
    BY <1>0, <1>4 DEF uprobe_free, Clear
  <2>3. Clear /\ Drops(hrep, hrep', a)
    BY <2>1, <2>2 DEF FreeIsTold, Clear
  <2>4. /\ \A u \in Workers \ {t} : doing'[u] = doing[u]
        /\ doing'[t].op = "FREE" /\ doing'[t].arg = a /\ doing'[t].ret = 0
        /\ doing[t].arg = 0 /\ doing[t].ret = 0
    BY <1>0, <2>2 DEF Idle
  <2>5. heap[a] = "live" /\ \A u \in Workers : a \notin Uses(u)
    BY <2>2 DEF Held, Uses
  <2>6. Uses(t)' = {a} /\ Uses(t) = {}
    BY <2>4 DEF Uses
  <2>7. CallTold(t)'
    BY <2>2, <2>3, <2>4, <2>5 DEF CallTold, Drops
  <2>8. \A u \in Workers \ {t}, x \in Addrs : x \in Uses(u) => Untouched(x)
    BY <2>2, <2>3 DEF Untouched, Drops
  <2>9. ASSUME NEW x \in Addrs, \A u \in Workers : x \notin Uses(u)'
        PROVE  Known(x)'
    <3>1. x # a /\ \A u \in Workers : x \notin Uses(u)
      BY <2>4, <2>6, <2>9 DEF Uses
    <3> QED  BY <1>a, <2>2, <2>3, <3>1 DEF Known, Drops
  <2>10. \A u \in Workers \ {t} : Uses(t)' \cap Uses(u) = {}
    BY <2>5, <2>6
  <2> QED  BY <2>3, <2>4, <2>7, <2>8, <2>9, <2>10, ReplayFrame
<1>5. ASSUME NEW t \in Workers, NEW gone \in BOOLEAN, Echo(t, gone)
      PROVE  ReplayTold'
  <2>1. IsEcho(t, doing[t].arg)
    BY <1>5 DEF Echo, IsEcho, HeapTypeOK, CallsFit
  <2>2. hrep' = hrep /\ hlost' = hlost
    BY <1>5, <2>1 DEF Echo, FreeProbe
  <2>3. Clear /\ SameHeap(hrep, hrep')
    BY <1>5, <2>2 DEF Echo, Clear, SameHeap
  <2>4. heap' = heap /\ \A u \in Workers : /\ doing'[u].op = doing[u].op
                                       /\ doing'[u].arg = doing[u].arg
                                       /\ doing'[u].ret = doing[u].ret
                                       /\ doing'[u].step = doing[u].step
    BY <1>0, <1>5 DEF Echo, HeapCall
  <2> QED  BY <2>3, <2>4, ReplaySame
<1>6. ASSUME NEW t \in Workers, FreeDone(t)
      PROVE  ReplayTold'
  <2> DEFINE d == doing[t]
  <2>1. /\ d.op = "FREE" /\ hrep' = hrep /\ heap' = [heap EXCEPT ![d.arg] = "free"]
        /\ doing' = [doing EXCEPT ![t] = Idle]
    BY <1>6 DEF FreeDone
  <2>2. Clear
    BY <1>6 DEF FreeDone, Clear
  <2>3. d.arg \in Addrs /\ d.ret = 0
    BY <2>1 DEF HeapTypeOK, CallsFit
  <2>4. /\ \A u \in Workers \ {t} : doing'[u] = doing[u]
        /\ doing'[t] = Idle
    BY <1>0, <2>1
  <2>5. Uses(t)' = {} /\ CallTold(t)'
    BY <2>4 DEF Uses, CallTold, Idle
  <2>6. Uses(t) = {d.arg}
    BY <2>3 DEF Uses
  <2>7. \A x \in Addrs : heap'[x] = IF x = d.arg THEN "free" ELSE heap[x]
    BY <1>0, <2>1
  <2>8. \A u \in Workers \ {t}, x \in Addrs : x \in Uses(u) => Untouched(x)
    BY <1>a, <2>1, <2>2, <2>6, <2>7 DEF Untouched
  <2>9. ASSUME NEW x \in Addrs, \A u \in Workers : x \notin Uses(u)'
        PROVE  Known(x)'
    <3>1. CASE x = d.arg
      BY <1>a, <2>1, <2>2, <2>7, <3>1 DEF CallTold, Known
    <3>2. CASE x # d.arg
      <4>1. \A u \in Workers : x \notin Uses(u)
        BY <2>4, <2>6, <2>9, <3>2 DEF Uses
      <4> QED  BY <1>a, <2>1, <2>2, <2>7, <3>2, <4>1 DEF Known
    <3> QED  BY <3>1, <3>2
  <2> QED  BY <2>2, <2>4, <2>5, <2>8, <2>9, ReplayFrame
<1>7. ASSUME NEW t \in Workers, NEW gone \in BOOLEAN, uprobe_abort(t, gone)
      PROVE  ReplayTold'
  <2> DEFINE e == [HeapEvent(t) EXCEPT !.type = "abort"]
  <2>1. e.type \in {"abort", "signal", "io", "heapstack"}
    BY DEF HeapEvent, NoHeapEvent
  <2>2. HeapEmit(HeapFold(hrep, e), gone)
    BY <1>7 DEF uprobe_abort
  <2> HIDE DEF e
  <2>3. SameHeap(hrep, HeapFold(hrep, e))
    BY <1>0, <2>1, OtherEventFolds DEF SameHeap
  <2>4. hlost = 0 /\ SameHeap(hrep, hrep')
    BY <1>0, <2>2, <2>3, EmitIs DEF Clear
  <2>5. Clear
    BY <1>7, <2>4 DEF uprobe_abort, Clear
  <2>6. /\ \A u \in Workers \ {t} : doing'[u] = doing[u]
        /\ heap' = heap /\ Uses(t)' = {} /\ Uses(t) = {} /\ CallTold(t)'
    BY <1>0, <1>7 DEF uprobe_abort, Idle, Uses, CallTold
  <2>7. \A u \in Workers \ {t}, x \in Addrs : x \in Uses(u) => Untouched(x)
    BY <2>4, <2>6 DEF Untouched, SameHeap
  <2>8. ASSUME NEW x \in Addrs, \A u \in Workers : x \notin Uses(u)'
        PROVE  Known(x)'
    <3>1. \A u \in Workers : x \notin Uses(u)
      BY <2>6, <2>8 DEF Uses
    <3> QED  BY <1>a, <2>4, <2>5, <2>6, <3>1 DEF Known, SameHeap
  <2> QED  BY <2>5, <2>6, <2>7, <2>8, ReplayFrame
<1>8. ASSUME NEW t \in Workers, NEW gone \in BOOLEAN, Die(t, gone)
      PROVE  ReplayTold'
  <2>1. hlost = 0 /\ SameHeap(hrep, hrep')
    BY <1>0, <1>8, AfterDeathIs, EmitIs DEF Die, Clear
  <2> QED  BY <1>8, <2>1, ReplaySame DEF Die, Clear
<1>9. ASSUME OtherActivity
      PROVE  ReplayTold'
  <2> DEFINE e == [NoHeapEvent EXCEPT !.type = "io", !.ts = hnow]
  <2>1. e.type \in {"abort", "signal", "io", "heapstack"}
    BY DEF NoHeapEvent
  <2>2. HeapEmit(HeapFold(hrep, e), FALSE)
    BY <1>9 DEF OtherActivity
  <2> HIDE DEF e
  <2>3. SameHeap(hrep, HeapFold(hrep, e))
    BY <1>0, <2>1, OtherEventFolds DEF SameHeap
  <2>4. hlost = 0 /\ SameHeap(hrep, hrep')
    BY <1>0, <2>2, <2>3 DEF HeapEmit, Clear
  <2> QED  BY <1>9, <2>4, ReplaySame DEF OtherActivity, Clear
<1>10. ASSUME HeapTick \/ UNCHANGED hvars
       PROVE  ReplayTold'
  <2>1. Clear /\ heap' = heap /\ doing' = doing /\ SameHeap(hrep, hrep')
    BY <1>10 DEF HeapTick, hvars, Clear, SameHeap
  <2> QED  BY <2>1, ReplaySame
<1> QED  BY <1>1, <1>2, <1>3, <1>4, <1>5, <1>6, <1>7, <1>8, <1>9, <1>10
         DEF HeapNext, AllocCalls

----------------------------------------------------------------------------
\* A death is in the trace, at its time.
DeathTold == dead # 0 /\ hlost = 0 => DeathIn(hrep, dead)

LEMMA DeathToldStep ==
  ASSUME HeapTypeOK, DeathTold, [HeapNext]_hvars
  PROVE  DeathTold'
<1> SUFFICES ASSUME dead' # 0, hlost' = 0 PROVE DeathIn(hrep', dead')
  BY DEF DeathTold
<1>0. hlost \in Nat
  BY DEF HeapTypeOK
<1>1. CASE dead = 0
  <2>1. PICK t \in Workers, gone \in BOOLEAN : Die(t, gone)
    BY <1>1 DEF HeapNext, hvars, uprobe_alloc, Allocate, uretprobe_alloc, uprobe_free,
                Echo, FreeDone, uprobe_abort, OtherActivity, HeapTick
  <2>2. hrep' = AfterDeath(t) /\ dead' = hnow
    BY <1>0, <2>1, EmitIs DEF Die
  <2> QED  BY <2>2, AfterDeathIs
<1>2. CASE dead # 0
  <2>1. dead' = dead /\ (OtherActivity \/ (hrep' = hrep /\ hlost' = hlost))
    BY <1>2 DEF HeapNext, hvars, uprobe_alloc, Allocate, uretprobe_alloc, uprobe_free,
                Echo, FreeDone, uprobe_abort, Die, OtherActivity, HeapTick
  <2>2. CASE OtherActivity
    <3> DEFINE e == [NoHeapEvent EXCEPT !.type = "io", !.ts = hnow]
    <3>1. /\ e.type = "io" /\ e.ts \in Nat /\ e.tid \in Nat
          /\ e.kind \in SignalKinds /\ e.sig \in Nat
      BY DEF NoHeapEvent, HeapTypeOK, SignalKinds
    <3>2. HeapEmit(HeapFold(hrep, e), FALSE)
      BY <2>2 DEF OtherActivity
    <3> HIDE DEF e
    <3>3. hrep' = HeapFold(hrep, e) /\ hlost = 0
      BY <3>2 DEF HeapEmit
    <3>4. hrep'.sig.evs = hrep.sig.evs
      BY <3>1, <3>3, AfterOtherIs
    <3> QED  BY <1>2, <2>1, <3>3, <3>4 DEF DeathTold, DeathIn
  <2>3. CASE hrep' = hrep /\ hlost' = hlost
    BY <1>2, <2>1, <2>3 DEF DeathTold
  <2> QED  BY <2>1, <2>2, <2>3
<1> QED  BY <1>1, <1>2

----------------------------------------------------------------------------
HeapIInv == HeapTypeOK /\ FreedAreNotHeld /\ ReplayTold /\ DeathTold

LEMMA HeapInitially == HeapInit => HeapIInv
<1> SUFFICES ASSUME HeapInit PROVE HeapIInv
  OBVIOUS
<1>1. HeapTypeOK
  BY HeapStartTyped
<1>2. /\ DOMAIN hrep.df.live = {} /\ DOMAIN hrep.pm.live = {}
      /\ DOMAIN hrep.df.freed = {} /\ hrep.df.hits = <<>>
  BY DEF HeapInit, DoubleFreeInit, AbortInit, EmptyMap
<1>3. /\ \A t \in Workers : doing[t] = Idle
      /\ \A a \in Addrs : heap[a] = "free"
  BY DEF HeapInit
<1>4. FreedAreNotHeld
  BY <1>2 DEF FreedAreNotHeld
<1>5. ReplayTold
  BY <1>2, <1>3 DEF ReplayTold, Uses, CallTold, Known, Idle
<1> QED  BY <1>1, <1>4, <1>5 DEF HeapIInv, DeathTold, HeapInit

LEMMA HeapIInvIsEnough == HeapIInv => HeapReplayExact
<1> SUFFICES ASSUME HeapIInv PROVE HeapReplayExact
  OBVIOUS
<1> USE HeapTraceAssumption
<1>1. ReplayIsHeap
  <2> SUFFICES ASSUME Clear, NEW a \in Addrs \ InCalls PROVE Known(a)
    BY DEF ReplayIsHeap, Clear, Known
  <2>1. \A t \in Workers : a \notin Uses(t)
    BY DEF InCalls, Uses
  <2> QED  BY <2>1 DEF HeapIInv, ReplayTold
<1>2. NoFalseDoubleFree
  BY DEF HeapIInv, FreedAreNotHeld, NoFalseDoubleFree, DoubleFreeVerdict
<1>3. DeathIsNamed
  <2> SUFFICES ASSUME dead # 0, hlost = 0, hrep.sig.max > dead + Window
               PROVE  SignalsVerdict(hrep.sig) = "MIDTRACE-DEATH"
    BY DEF DeathIsNamed
  <2>1. PICK i \in DOMAIN hrep.sig.evs :
          /\ hrep.sig.evs[i].kind = "EXIT_ABNL" /\ hrep.sig.evs[i].sig = 6
          /\ hrep.sig.evs[i].ts = dead
    BY DEF HeapIInv, DeathTold, DeathIn
  <2>2. hrep.sig.max \in Nat /\ dead \in Nat /\ Window \in Nat
    BY HeapAssumption DEF HeapIInv, HeapTypeOK, ReportsTyped, SignalState
  <2>3. ~Teardown(hrep.sig, hrep.sig.evs[i])
    BY <2>1, <2>2 DEF Teardown
  <2>4. MidtraceDeath(hrep.sig, hrep.sig.evs[i])
    BY <2>1, <2>3 DEF MidtraceDeath
  <2>5. hrep.sig.evs # <<>>
    BY <2>1
  <2> QED  BY <2>4, <2>5 DEF SignalsVerdict
<1> QED  BY <1>1, <1>2, <1>3 DEF HeapReplayExact

\* The heap the memory reports replay from the probes' events is the program's:
\* on a correct program doublefree stays silent, whatever is delivered twice and
\* whichever thread frees; while nothing was lost the live chunks are known; and a
\* death by a signal is named once the trace outlives the teardown window.
THEOREM HeapReplayed == HeapSpec => []HeapReplayExact
<1>1. HeapInit => HeapIInv
  BY HeapInitially
<1>2. HeapIInv /\ [HeapNext]_hvars => HeapIInv'
  <2> SUFFICES ASSUME HeapIInv, [HeapNext]_hvars PROVE HeapIInv'
    OBVIOUS
  <2>1. HeapTypeOK /\ HeapTypeOK'
    BY HeapStepTyped DEF HeapIInv
  <2> QED  BY <2>1, FreedAreNotHeldStep, ReplayToldStep, DeathToldStep DEF HeapIInv
<1>3. HeapIInv => HeapReplayExact
  BY HeapIInvIsEnough
<1> QED  BY <1>1, <1>2, <1>3, PTL DEF HeapSpec
(***************************************************************************)
(* Golden.                                                                 *)
(***************************************************************************)

\* What the file says is what was frozen: classes that are findings and the
\* printed number of the reduction, from a run that was let through the gate.
FileIsFrozen ==
  file.label # "" =>
    /\ Trusted(source.cap, source.allow)
    /\ \A f \in file.classes : /\ f.val = source.cap.class[f.key]
                               /\ f.val \notin Limits \cup {""}
    /\ \A f \in file.gauges :
          /\ f.val = Printed(Reduced(source.cap.series, source.red))
          /\ f.tol = source.tol

GoldenIInv ==
  /\ capture \in Captures
  /\ FileIsFrozen
  /\ RunMatchesItself /\ NoCheapPass

\* A series' last and largest sample are samples of it.
LEMMA ReducedIsSample ==
  ASSUME NEW c \in Captures, NEW o \in CheckOptions
  PROVE  Reduced(c.series, Reduction(o)) \in ToSet(c.series)
<1>1. c.series \in ScrapeValues \X ScrapeValues
  BY DEF Captures, AllCaptures
<1>2. PICK a \in ScrapeValues, b \in ScrapeValues : c.series = <<a, b>>
  BY <1>1
<1>3. Reduction(o) \in {"last", "max"}
  BY DEF CheckOptions, Options, Reduction
<1>4. ToSet(c.series) = {a, b}
  <2>1. DOMAIN <<a, b>> = {1, 2} /\ <<a, b>>[1] = a /\ <<a, b>>[2] = b
    OBVIOUS
  <2> QED  BY <1>2, <2>1 DEF ToSet
<1>5. CASE Reduction(o) = "last"
  <2>1. Reduced(c.series, Reduction(o)) = Last(<<a, b>>)
    BY <1>2, <1>5 DEF Reduced
  <2>2. Last(<<a, b>>) = b
    BY DEF Last
  <2> QED  BY <1>4, <2>1, <2>2
<1>6. CASE Reduction(o) = "max"
  <2>1. Reduced(c.series, Reduction(o)) = Max({a, b})
    BY <1>4, <1>6 DEF Reduced
  <2>2. a \in Int /\ b \in Int
    <3>1. ScrapeValues \subseteq Nat
      BY GoldenAssumption, Zenon
    <3> QED  BY <1>2, <3>1
  <2> DEFINE P(x) == x \in {a, b} /\ \A y \in {a, b} : x >= y
  <2>3. Max({a, b}) = CHOOSE x \in {a, b} : \A y \in {a, b} : x >= y
    BY DEF Max
  <2>4. P(a) \/ P(b)
    BY <2>2
  <2>5. Max({a, b}) \in {a, b}
    BY <2>3, <2>4
  <2> QED  BY <1>4, <2>1, <2>5
<1> QED  BY <1>3, <1>5, <1>6

\* A short write leaves lines of the file only.
LEMMA BeginningIsPart ==
  ASSUME NEW c, NEW o, NEW n, NEW left,
         left = NoFile \/ left = Beginning(Frozen(c, o), n), left.label # ""
  PROVE  /\ left.classes \subseteq Frozen(c, o).classes
         /\ left.gauges \subseteq Frozen(c, o).gauges
<1>1. ASSUME left = NoFile PROVE FALSE
  <2>1. left.label = ""
    BY <1>1 DEF NoFile
  <2> QED  BY <2>1
<1>2. left = Beginning(Frozen(c, o), n)
  BY <1>1
<1>3. left.classes \subseteq Frozen(c, o).classes
  BY <1>2 DEF Beginning
<1>4. left.gauges \subseteq Frozen(c, o).gauges
  BY <1>2 DEF Beginning
<1> QED  BY <1>3, <1>4

LEMMA FreezeKeeps ==
  ASSUME GoldenIInv, file = NoFile, NEW o \in FreezeOptions, NEW n, Freeze(o, n)
  PROVE  GoldenIInv'
<1>1. capture' = capture /\ did'.cmd = "freeze"
  BY DEF Freeze, Nothing
<1>2. RunMatchesItself' /\ NoCheapPass'
  BY <1>1 DEF RunMatchesItself, NoCheapPass, Checked
<1>3. CASE file' = file /\ source' = source
  BY <1>1, <1>2, <1>3 DEF GoldenIInv, FileIsFrozen
<1>4. CASE ~(file' = file /\ source' = source)
  <2> DEFINE all == Frozen(capture, o)
  <2>1. /\ ~Refuses(capture, o)
        /\ file' = NoFile \/ file' = Beginning(all, n)
        /\ source' = [cap |-> capture, red |-> Reduction(o), tol |-> o.tol,
                      allow |-> o.allow,
                      torn |-> file' # all]
    BY <1>4 DEF Freeze
  <2>2. Trusted(capture, o.allow)
    BY <2>1 DEF Refuses, Declines, Trusted
  <2>3. \A f \in all.classes : /\ f.val = capture.class[f.key]
                               /\ f.val \notin Limits \cup {""}
    <3>1. ASSUME NEW r \in Classed(capture, o) \ Limited(capture, o)
          PROVE  capture.class[r] \notin Limits /\ capture.class[r] # ""
      BY DEF Classed, Limited, is_capture_limitation
    <3>2. ASSUME NEW f \in all.classes
          PROVE  f.val = capture.class[f.key] /\ f.val \notin Limits \cup {""}
      <4>1. f \in ClassLines(capture, Classed(capture, o) \ Limited(capture, o))
        BY DEF Frozen
      <4>2. PICK r \in Classed(capture, o) \ Limited(capture, o) :
               f = [key |-> r, val |-> capture.class[r]]
        BY <4>1 DEF ClassLines
      <4> QED  BY <3>1, <4>2
    <3> QED  BY <3>2
  <2>4. \A f \in all.gauges : /\ f.val = Printed(Reduced(capture.series, Reduction(o)))
                              /\ f.tol = o.tol
    BY DEF Frozen, GaugeLines, Prom
  <2>5. file'.label # "" => /\ file'.classes \subseteq all.classes
                            /\ file'.gauges \subseteq all.gauges
    BY <2>1, BeginningIsPart
  <2> HIDE DEF all
  <2>6. FileIsFrozen'
    BY <2>1, <2>2, <2>3, <2>4, <2>5 DEF FileIsFrozen, Trusted, Incomplete
  <2> QED  BY <1>1, <1>2, <2>6 DEF GoldenIInv
<1> QED  BY <1>3, <1>4

\* Comparing a run with a golden frozen from it finds nothing moved.
LEMMA NothingMoved ==
  ASSUME FileIsFrozen, capture \in Captures, NEW o \in CheckOptions,
         source.cap = capture, source.red = Reduction(o),
         \A v \in ToSet(capture.series) : Within(v, Printed(v), source.tol)
  PROVE  Compare(capture, file, o).rc # 1
<1> SUFFICES ASSUME ~CannotRun(capture, file, o)
             PROVE  /\ ClassesMoved(capture, file, o) = {}
                    /\ GaugesMoved(capture, file, o) = {}
  BY DEF Compare, Keys
<1>1. file.label # ""
  BY DEF CannotRun
<1>2. ASSUME NEW f \in ClassFacts(file, o) PROVE ClassOf(capture, o, f.key) = f.val
  <2>1. ClassOf(capture, o, f.key) # ""
    BY DEF CannotRun
  <2>2. ClassOf(capture, o, f.key) = capture.class[f.key]
    BY <2>1 DEF ClassOf
  <2>3. f \in file.classes
    BY DEF ClassFacts
  <2> QED  BY <1>1, <2>2, <2>3 DEF FileIsFrozen
<1>3. ASSUME NEW f \in GaugeFacts(file, o), NEW p \in Prom(capture, o)
      PROVE  Within(p.val, f.val, f.tol)
  <2> DEFINE v == Reduced(capture.series, Reduction(o))
  <2>1. p.val = v
    BY DEF Prom
  <2>2. f \in file.gauges
    BY DEF GaugeFacts
  <2>3. f.val = Printed(v) /\ f.tol = source.tol
    BY <1>1, <2>2 DEF FileIsFrozen
  <2>4. v \in ToSet(capture.series)
    BY ReducedIsSample
  <2> QED  BY <2>1, <2>3, <2>4
<1> QED  BY <1>2, <1>3 DEF ClassesMoved, GaugesMoved

\* A comparison that passes could run, and found every class it looked at.
LEMMA PassMeans ==
  ASSUME NEW o, Compare(capture, file, o).rc = 0
  PROVE  /\ ~CannotRun(capture, file, o)
         /\ Compare(capture, file, o).compared # {}
         /\ \A f \in ClassFacts(file, o) : ClassOf(capture, o, f.key) = f.val
<1>1. /\ ~CannotRun(capture, file, o)
      /\ Keys(ClassesMoved(capture, file, o) \cup GaugesMoved(capture, file, o)) = {}
      /\ Compare(capture, file, o).compared
           = Keys(ClassFacts(file, o) \cup GaugeFacts(file, o))
  BY DEF Compare
<1>2. Compare(capture, file, o).compared # {}
  BY <1>1 DEF CannotRun, Keys
<1>3. ASSUME NEW f \in ClassesMoved(capture, file, o) PROVE FALSE
  <2>1. f.key \in Keys(ClassesMoved(capture, file, o) \cup GaugesMoved(capture, file, o))
    BY DEF Keys
  <2> QED  BY <1>1, <2>1
<1> QED  BY <1>1, <1>2, <1>3 DEF ClassesMoved

LEMMA CheckKeeps ==
  ASSUME GoldenIInv, NEW o \in CheckOptions, Check(o)
  PROVE  GoldenIInv'
<1> DEFINE r == Compare(capture, file, o)
           early == Early(capture, o)
<1>1. /\ capture' = capture /\ file' = file /\ source' = source
      /\ did'.cmd = "check" /\ did'.func = Functional(o) /\ did'.allow = o.allow
      /\ did'.red = Reduction(o)
      /\ did'.compared = IF early = 0 THEN r.compared ELSE {}
      /\ goldenRc' = IF early # 0 THEN early ELSE r.rc
  BY DEF Check
<1>2. capture \in Captures /\ FileIsFrozen
  BY DEF GoldenIInv
<1>3. FileIsFrozen' /\ capture' \in Captures
  BY <1>1, <1>2 DEF FileIsFrozen
<1>4. RunMatchesItself'
  <2> SUFFICES ASSUME capture.form # "unreadable", source.cap = capture,
                      Reduction(o) = source.red,
                      \A v \in ToSet(capture.series) : Within(v, Printed(v), source.tol),
                      goldenRc' = 1
               PROVE  FALSE
    BY <1>1 DEF RunMatchesItself, Checked
  <2>1. early # 1
    BY DEF Early
  <2>2. r.rc = 1
    BY <1>1, <2>1
  <2> QED  BY <1>2, <2>2, NothingMoved
<1>5. NoCheapPass'
  <2> SUFFICES ASSUME goldenRc' = 0
               PROVE  /\ did'.compared # {}
                      /\ Trusted(capture, did'.allow) /\ Trusted(source.cap, source.allow)
                      /\ did'.func => \A f \in file.classes :
                            /\ capture.class[f.key] = source.cap.class[f.key]
                            /\ capture.class[f.key] \notin Limits \cup {""}
    BY <1>1 DEF NoCheapPass, Trusted, Incomplete
  <2>1. early = 0 /\ r.rc = 0
    BY <1>1
  <2>2. /\ ~CannotRun(capture, file, o) /\ r.compared # {}
        /\ \A f \in ClassFacts(file, o) : ClassOf(capture, o, f.key) = f.val
    BY <2>1, PassMeans
  <2>3. file.label # "" /\ ~Declines(capture, o.allow)
    BY <2>2 DEF CannotRun
  <2>5. Trusted(capture, did'.allow)
    BY <1>1, <2>3 DEF Declines, Trusted
  <2>4. ASSUME Functional(o), NEW f \in file.classes
        PROVE  /\ capture.class[f.key] = source.cap.class[f.key]
               /\ capture.class[f.key] \notin Limits \cup {""}
    <3>1. f \in ClassFacts(file, o)
      BY <2>4 DEF ClassFacts
    <3>2. ClassOf(capture, o, f.key) = f.val /\ ClassOf(capture, o, f.key) # ""
      BY <2>2, <3>1 DEF CannotRun
    <3>3. capture.class[f.key] = f.val
      BY <3>2 DEF ClassOf
    <3> QED  BY <1>2, <2>3, <3>3 DEF FileIsFrozen
  <2> QED  BY <1>1, <1>2, <2>1, <2>2, <2>3, <2>4, <2>5 DEF FileIsFrozen
<1> QED  BY <1>3, <1>4, <1>5 DEF GoldenIInv

\* --golden passes only what it should: a run is never said to have moved from
\* itself, and a pass has compared something, between two recordings that were
\* known to be whole or let through, whose frozen classes are the same.
THEOREM GoldenEarned == GoldenSpec => []PassIsEarned
<1>1. ASSUME GoldenInit PROVE GoldenIInv
  <2>1. capture \in Captures /\ file.label = "" /\ did.cmd = "none"
    BY <1>1 DEF GoldenInit, NoFile, Nothing
  <2> QED  BY <2>1 DEF GoldenIInv, FileIsFrozen, RunMatchesItself, NoCheapPass, Checked
<1>2. GoldenIInv /\ [GoldenNext]_goldenVars => GoldenIInv'
  <2> SUFFICES ASSUME GoldenIInv, [GoldenNext]_goldenVars PROVE GoldenIInv'
    OBVIOUS
  <2>1. ASSUME NEW o \in FreezeOptions, NEW n \in -1 .. Len(GoldenReports) + 1,
               file = NoFile, Freeze(o, n)
        PROVE  GoldenIInv'
    BY <2>1, FreezeKeeps
  <2>2. ASSUME NEW o \in CheckOptions, Check(o)
        PROVE  GoldenIInv'
    BY <2>2, CheckKeeps
  <2>3. CASE Record
    <3>1. /\ capture' \in Captures /\ file' = file /\ source' = source
          /\ did'.cmd = "none"
      BY <2>3 DEF Record, Nothing
    <3> QED  BY <3>1 DEF GoldenIInv, FileIsFrozen, RunMatchesItself, NoCheapPass, Checked
  <2>4. CASE UNCHANGED goldenVars
    <3>1. /\ capture' = capture /\ file' = file /\ source' = source
          /\ did' = did /\ goldenRc' = goldenRc
      BY <2>4 DEF goldenVars
    <3>2. FileIsFrozen' /\ RunMatchesItself' /\ NoCheapPass'
      BY <3>1 DEF GoldenIInv, FileIsFrozen, RunMatchesItself, NoCheapPass, Checked
    <3> QED  BY <3>1, <3>2 DEF GoldenIInv
  <2> QED  BY <2>1, <2>2, <2>3, <2>4 DEF GoldenNext
<1>3. GoldenIInv => PassIsEarned
  BY DEF GoldenIInv, PassIsEarned
<1> QED  BY <1>1, <1>2, <1>3, PTL DEF GoldenSpec
=============================================================================
