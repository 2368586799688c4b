---------------------------- MODULE KernelTable ----------------------------
(***************************************************************************)
(* The montauk kernel module (components/kernel): a table of processes     *)
(* kept by kprobes on fork, exec and exit, filled once at load by a walk   *)
(* over the task list, refreshed by a worker and read by netlink requests. *)
(* Handlers run on every CPU at once; each of their atomic operations is   *)
(* an action.  The kernel around the module - processes, RCU, kprobes,     *)
(* workqueues - is modelled from how the module uses it.                   *)
(***************************************************************************)
EXTENDS Integers, FiniteSets

CONSTANTS Tgids,      \* process ids
          TableMax,  \* montauk_max_procs
          Lives,     \* bound: processes ever created
          LoadFails  \* may a step of montauk_init fail?

ASSUME KernelAssumption ==
  /\ IsFiniteSet(Tgids) /\ TableMax \in Nat /\ Lives \in Nat
  /\ LoadFails \in BOOLEAN

Walkers == {"refresh", "snapshot"}
Hooks   == {"fork", "exec", "exit"}

\* A struct montauk_proc is named by the process it was allocated for (its
\* start_time) and by who allocated it: nobody allocates twice for a process.
Objects  == (1..Lives) \X {"fork", "populate"}
NoPid    == "none"   \* an object not allocated yet
NoObject == <<0, "fork">>

VARIABLES listed,      \* the kernel's list: [stage, life] of each pid
          lives,     \* processes created so far
          obj,       \* struct montauk_proc: where it is, and its pid
          tracked,   \* montauk_stats.tracked
          rcu,       \* call_rcu()'s pending callbacks, with the readers they await
          hooks,     \* registered kprobes
          mpc,       \* where montauk_init() or montauk_exit() is
          pop,       \* montauk_populate_existing(): step, last task, its object
          walk,      \* rhashtable walks: step, buckets to visit, entry in hand
          refreshing,   \* refresh_running
          refused    \* history: processes montauk_proc_alloc() turned down

listedVars == <<listed, lives>>
modVars  == <<hooks, mpc, pop, refreshing>>
tableVars     == <<listedVars, obj, tracked, rcu, modVars, walk, refused>>

\* Mutant: the walk over the task list comes before the kprobes.
LoadOrderPopulateFirst == <<"populate", "fork", "exec", "exit", "start", "netlink", "loaded">>

\* The steps of montauk_init(), in order
LoadOrder == <<"fork", "exec", "exit", "populate", "start", "netlink", "loaded">>

StepAfter(step) == LoadOrder[1 + CHOOSE i \in 1..6 : LoadOrder[i] = step]

KernelInit ==
  /\ listed = [p \in Tgids |-> [stage |-> "free", life |-> 0]]
  /\ lives = 0
  /\ obj = [o \in Objects |-> [at |-> "none", pid |-> NoPid]]
  /\ tracked = 0
  /\ rcu = {}
  /\ hooks = {}
  /\ mpc = LoadOrder[1]
  /\ pop = [pc |-> "walk", last |-> 0, obj |-> NoObject]
  /\ walk = [w \in Walkers |-> [pc |-> "off", todo |-> {}, at |-> NoObject]]
  /\ refreshing = FALSE
  /\ refused = {}

\* montauk_proc_lookup(): the entries the table holds for a pid
Linked(p) == {o \in Objects : obj[o].at = "linked" /\ obj[o].pid = p}
Table     == {o \in Objects : obj[o].at = "linked"}
-----------------------------------------------------------------------------
(***************************************************************************)
(* montauk_proc_alloc(), montauk_proc_insert(), montauk_proc_remove().     *)
(***************************************************************************)

HasRoom == tracked < TableMax

Allocated(p) == [at |-> "private", pid |-> p]

\* rhashtable_insert_fast() refuses a pid it holds; the caller then frees.
Insert(o, p) ==
  obj' = [obj EXCEPT ![o].at = IF Linked(p) = {} THEN "linked" ELSE "freed"]

\* Mutant: the entry is freed at once, while walks may hold it.
RetireNow(o) ==
  /\ obj' = [obj EXCEPT ![o].at = "freed"]
  /\ rcu' = rcu

\* montauk_proc_free(): the callback awaits the walks that have begun.
RetireEntry(o) ==
  /\ rcu' = rcu \cup {[obj |-> o, readers |-> {w \in Walkers : walk[w].pc \in {"walk", "hold"}}]}
  /\ obj' = obj

\* montauk_proc_free_rcu()
RcuFree ==
  \E r \in rcu :
    /\ r.readers = {}
    /\ obj' = [obj EXCEPT ![r.obj].at = "freed"]
    /\ rcu' = rcu \ {r}
    /\ UNCHANGED <<listedVars, tracked, modVars, walk, refused>>
-----------------------------------------------------------------------------
(***************************************************************************)
(* Processes, and the handlers that run in them.                           *)
(***************************************************************************)

SetStage(p, stage) == listed' = [listed EXCEPT ![p].stage = stage]

\* copy_process() puts the task on the list before it is woken.
Clone(p) ==
  /\ listed[p].stage = "free" /\ lives < Lives
  /\ lives' = lives + 1
  /\ listed' = [listed EXCEPT ![p] = [stage |-> "new", life |-> lives + 1]]
  /\ UNCHANGED <<obj, tracked, rcu, modVars, walk, refused>>

WakeUnhooked(p) ==
  /\ listed[p].stage = "new" /\ "fork" \notin hooks
  /\ SetStage(p, "running")
  /\ UNCHANGED <<lives, obj, tracked, rcu, modVars, walk, refused>>

\* montauk_fork_handler() allocates and fills the atomic-safe fields ...
ForkAlloc(p) ==
  /\ listed[p].stage = "new" /\ "fork" \in hooks
  /\ HasRoom
  /\ obj' = [obj EXCEPT ![<<listed[p].life, "fork">>] = Allocated(p)]
  /\ SetStage(p, "fork_insert")
  /\ UNCHANGED <<lives, tracked, rcu, modVars, walk, refused>>

\* ... or gives up: the limit is reached, or kzalloc() fails ...
ForkRefused(p) ==
  /\ listed[p].stage = "new" /\ "fork" \in hooks
  /\ refused' = refused \cup {listed[p].life}
  /\ SetStage(p, "running")
  /\ UNCHANGED <<lives, obj, tracked, rcu, modVars, walk>>

\* ... inserts ...
ForkInsert(p) ==
  /\ listed[p].stage = "fork_insert"
  /\ Insert(<<listed[p].life, "fork">>, p)
  /\ SetStage(p, IF Linked(p) = {} THEN "fork_count" ELSE "running")
  /\ UNCHANGED <<lives, tracked, rcu, modVars, walk, refused>>

\* ... and counts what it inserted.
ForkCount(p) ==
  /\ listed[p].stage = "fork_count"
  /\ tracked' = tracked + 1
  /\ SetStage(p, "running")
  /\ UNCHANGED <<lives, obj, rcu, modVars, walk, refused>>

\* montauk_exec_handler() rewrites the name and path of the process's entry,
\* which only its own exit can unlink, on entry to begin_new_exec().
ExecHook(p) ==
  /\ listed[p].stage = "running"
  /\ SetStage(p, "exec")
  /\ UNCHANGED <<lives, obj, tracked, rcu, modVars, walk, refused>>

ExecDone(p) ==
  /\ listed[p].stage = "exec"
  /\ SetStage(p, "running")
  /\ UNCHANGED <<lives, obj, tracked, rcu, modVars, walk, refused>>

\* montauk_exit_handler() runs when the group's leader calls do_exit(): the
\* process ends, or its other threads carry on without the leader.
ExitUnlink(p) ==
  /\ listed[p].stage = "running"
  /\ IF "exit" \in hooks /\ Linked(p) # {}
       THEN /\ obj' = [o \in Objects |-> IF o \in Linked(p)
                                           THEN [obj[o] EXCEPT !.at = "removed"] ELSE obj[o]]
            /\ SetStage(p, "exit_count")
       ELSE /\ \E s \in {"zombie", "headless"} : SetStage(p, s)
            /\ UNCHANGED obj
  /\ UNCHANGED <<lives, tracked, rcu, modVars, walk, refused>>

\* It counts the entry out and leaves it to RCU.
ExitCount(p) ==
  /\ listed[p].stage = "exit_count"
  /\ tracked' = tracked - 1
  /\ \E o \in Objects :
       /\ obj[o].at = "removed" /\ obj[o].pid = p
       /\ \A r \in rcu : r.obj # o
       /\ RetireEntry(o)
  /\ \E s \in {"zombie", "headless"} : SetStage(p, s)
  /\ UNCHANGED <<lives, modVars, walk, refused>>

\* The last thread of a leaderless process ends: no handler acts on it.
LastThread(p) ==
  /\ listed[p].stage = "headless"
  /\ SetStage(p, "zombie")
  /\ UNCHANGED <<lives, obj, tracked, rcu, modVars, walk, refused>>

\* The parent waits: the task leaves the list and its pid may be reused.
ReapTask(p) ==
  /\ listed[p].stage = "zombie"
  /\ listed' = [listed EXCEPT ![p] = [stage |-> "free", life |-> 0]]
  /\ UNCHANGED <<lives, obj, tracked, rcu, modVars, walk, refused>>

TaskStep(p) ==
  \/ Clone(p) \/ WakeUnhooked(p) \/ ForkAlloc(p) \/ ForkRefused(p) \/ ForkInsert(p)
  \/ ForkCount(p) \/ ExecHook(p) \/ ExecDone(p) \/ ExitUnlink(p) \/ ExitCount(p)
  \/ LastThread(p) \/ ReapTask(p)
-----------------------------------------------------------------------------
(***************************************************************************)
(* montauk_init() and montauk_exit().                                      *)
(***************************************************************************)

RegisterHook(h) ==
  /\ mpc = h
  /\ hooks' = hooks \cup {h}
  /\ mpc' = StepAfter(h)
  /\ UNCHANGED <<listedVars, obj, tracked, rcu, pop, refreshing, walk, refused>>

\* A kprobe cannot be registered: err_exec, err_fork, err_table.
RegisterFails(h) ==
  /\ LoadFails /\ mpc = h
  /\ mpc' = CASE h = "exit" -> "x_exec" [] h = "exec" -> "x_fork" [] h = "fork" -> "x_table"
  /\ UNCHANGED <<listedVars, obj, tracked, rcu, hooks, pop, refreshing, walk, refused>>

\* for_each_process() follows the list in order of creation, new tasks included.
NotVisited == {p \in Tgids : listed[p].stage # "free" /\ listed[p].life > pop.last}
Visits(p)  == /\ mpc = "populate" /\ pop.pc = "walk"
              /\ p \in NotVisited
              /\ \A q \in NotVisited : listed[p].life <= listed[q].life

PopulateAlloc(p) ==
  /\ Visits(p) /\ HasRoom
  /\ LET o == <<listed[p].life, "populate">>
     IN /\ obj' = [obj EXCEPT ![o] = Allocated(p)]
        /\ pop' = [pc |-> "insert", last |-> listed[p].life, obj |-> o]
  /\ UNCHANGED <<listedVars, tracked, rcu, hooks, mpc, refreshing, walk, refused>>

PopulateRefused(p) ==
  /\ Visits(p)
  /\ refused' = refused \cup {listed[p].life}
  /\ pop' = [pop EXCEPT !.last = listed[p].life]
  /\ UNCHANGED <<listedVars, obj, tracked, rcu, hooks, mpc, refreshing, walk>>

PopulateInsert ==
  /\ pop.pc = "insert"
  /\ LET p == obj[pop.obj].pid
     IN /\ Insert(pop.obj, p)
        /\ pop' = [pop EXCEPT !.pc = IF Linked(p) = {} THEN "count" ELSE "walk"]
  /\ UNCHANGED <<listedVars, tracked, rcu, hooks, mpc, refreshing, walk, refused>>

PopulateCount ==
  /\ pop.pc = "count"
  /\ tracked' = tracked + 1
  /\ pop' = [pop EXCEPT !.pc = "walk"]
  /\ UNCHANGED <<listedVars, obj, rcu, hooks, mpc, refreshing, walk, refused>>

PopulateDone ==
  /\ mpc = "populate" /\ pop.pc = "walk" /\ NotVisited = {}
  /\ mpc' = StepAfter("populate")
  /\ UNCHANGED <<listedVars, obj, tracked, rcu, hooks, pop, refreshing, walk, refused>>

RefreshStart ==
  /\ mpc = "start"
  /\ refreshing' = TRUE
  /\ walk' = [walk EXCEPT !["refresh"].pc = "scheduled"]
  /\ mpc' = StepAfter("start")
  /\ UNCHANGED <<listedVars, obj, tracked, rcu, hooks, pop, refused>>

NetlinkInit ==
  /\ mpc = "netlink"
  /\ \/ mpc' = StepAfter("netlink")
     \/ LoadFails /\ mpc' = "x_refresh"
  /\ UNCHANGED <<listedVars, obj, tracked, rcu, hooks, pop, refreshing, walk, refused>>

\* genl_unregister_family() awaits the request in progress.
NetlinkExit ==
  /\ mpc = "loaded" /\ walk["snapshot"].pc = "off"
  /\ mpc' = "x_refresh"
  /\ UNCHANGED <<listedVars, obj, tracked, rcu, hooks, pop, refreshing, walk, refused>>

RefreshStop ==
  /\ mpc = "x_refresh"
  /\ refreshing' = FALSE
  /\ mpc' = "x_cancel"
  /\ UNCHANGED <<listedVars, obj, tracked, rcu, hooks, pop, walk, refused>>

\* cancel_delayed_work_sync() awaits the worker and undoes its rescheduling.
RefreshCancel ==
  /\ mpc = "x_cancel" /\ walk["refresh"].pc \in {"scheduled", "off"}
  /\ walk' = [walk EXCEPT !["refresh"].pc = "off"]
  /\ mpc' = "x_exit"
  /\ UNCHANGED <<listedVars, obj, tracked, rcu, hooks, pop, refreshing, refused>>

\* unregister_kprobe() awaits the handlers in progress.
InHandler(h) ==
  CASE h = "fork" -> \E p \in Tgids : listed[p].stage \in {"fork_insert", "fork_count"}
    [] h = "exec" -> FALSE
    [] h = "exit" -> \E p \in Tgids : listed[p].stage = "exit_count"

UnregisterHook(h) ==
  /\ mpc = CASE h = "exit" -> "x_exit" [] h = "exec" -> "x_exec" [] h = "fork" -> "x_fork"
  /\ ~InHandler(h)
  /\ hooks' = hooks \ {h}
  /\ mpc' = CASE h = "exit" -> "x_exec" [] h = "exec" -> "x_fork" [] h = "fork" -> "x_table"
  /\ UNCHANGED <<listedVars, obj, tracked, rcu, pop, refreshing, walk, refused>>

\* montauk_table_destroy() frees what is left; then the module's text goes.
TableDestroy ==
  /\ mpc = "x_table"
  /\ obj' = [o \in Objects |-> IF o \in Table THEN [obj[o] EXCEPT !.at = "freed"] ELSE obj[o]]
  /\ mpc' = "gone"
  /\ UNCHANGED <<listedVars, tracked, rcu, hooks, pop, refreshing, walk, refused>>
-----------------------------------------------------------------------------
(***************************************************************************)
(* Walks over the table, between rhashtable_walk_start() and _stop():      *)
(* montauk_refresh_worker() and montauk_cmd_get_snapshot().                *)
(***************************************************************************)

WalkBegin(w) ==
  /\ \/ w = "refresh" /\ walk[w].pc = "scheduled"
     \/ w = "snapshot" /\ walk[w].pc = "off" /\ mpc = "loaded"
  /\ walk' = [walk EXCEPT ![w] = [pc |-> "walk", todo |-> Tgids, at |-> NoObject]]
  /\ UNCHANGED <<listedVars, obj, tracked, rcu, modVars, refused>>

WalkNext(w) ==
  /\ walk[w].pc = "walk"
  /\ \E p \in walk[w].todo :
       \/ /\ Linked(p) = {}
          /\ walk' = [walk EXCEPT ![w].todo = @ \ {p}]
       \/ \E o \in Linked(p) :
            walk' = [walk EXCEPT ![w] = [pc |-> "hold", todo |-> @.todo \ {p}, at |-> o]]
  /\ UNCHANGED <<listedVars, obj, tracked, rcu, modVars, refused>>

\* montauk_refresh_proc_times() rewrites the fields of the entry in hand from
\* whatever task has its pid now, if any.
RefreshProc ==
  /\ walk["refresh"].pc = "hold"
  /\ walk' = [walk EXCEPT !["refresh"].pc = "walk"]
  /\ UNCHANGED <<listedVars, obj, tracked, rcu, modVars, refused>>

\* montauk_add_proc_entry(): the next entry fits, or the message is full.
SnapshotProc ==
  /\ walk["snapshot"].pc = "hold"
  /\ \/ walk' = [walk EXCEPT !["snapshot"].pc = "walk"]
     \/ walk' = [walk EXCEPT !["snapshot"].pc = "walk", !["snapshot"].todo = {}]
  /\ UNCHANGED <<listedVars, obj, tracked, rcu, modVars, refused>>

WalkEnd(w) ==
  /\ walk[w].pc = "walk" /\ walk[w].todo = {}
  /\ walk' = [walk EXCEPT ![w] = [pc |-> IF w = "refresh" /\ refreshing THEN "scheduled" ELSE "off",
                                  todo |-> {}, at |-> NoObject]]
  /\ rcu' = {[r EXCEPT !.readers = @ \ {w}] : r \in rcu}
  /\ UNCHANGED <<listedVars, obj, tracked, modVars, refused>>
-----------------------------------------------------------------------------
Load ==
  \/ \E h \in Hooks : RegisterHook(h) \/ RegisterFails(h)
  \/ \E p \in Tgids : PopulateAlloc(p) \/ PopulateRefused(p)
  \/ PopulateInsert \/ PopulateCount \/ PopulateDone \/ RefreshStart \/ NetlinkInit

Unload ==
  \/ NetlinkExit \/ RefreshStop \/ RefreshCancel
  \/ \E h \in Hooks : UnregisterHook(h)
  \/ TableDestroy

Walk == \/ \E w \in Walkers : WalkBegin(w) \/ WalkNext(w) \/ WalkEnd(w)
        \/ RefreshProc \/ SnapshotProc

KernelNext == (\E p \in Tgids : TaskStep(p)) \/ Load \/ Unload \/ Walk \/ RcuFree

KernelSpec == KernelInit /\ [][KernelNext]_tableVars
-----------------------------------------------------------------------------
\* Every variable is of its type.
KernelTypeOK ==
  /\ listed \in [Tgids -> [stage : {"free", "new", "fork_insert", "fork_count", "running", "exec",
                                 "exit_count", "headless", "zombie"},
                        life : 0..Lives]]
  /\ lives \in 0..Lives
  /\ obj \in [Objects -> [at : {"none", "private", "linked", "removed", "freed"},
                          pid : Tgids \cup {NoPid}]]
  /\ tracked \in Int
  /\ rcu \subseteq [obj : Objects, readers : SUBSET Walkers]
  /\ hooks \subseteq Hooks
  /\ mpc \in Hooks \cup {"populate", "start", "netlink", "loaded", "x_refresh", "x_cancel",
                         "x_exit", "x_exec", "x_fork", "x_table", "gone"}
  /\ pop \in [pc : {"walk", "insert", "count"}, last : 0..Lives, obj : Objects \cup {NoObject}]
  /\ walk \in [Walkers -> [pc : {"off", "scheduled", "walk", "hold"}, todo : SUBSET Tgids,
                           at : Objects \cup {NoObject}]]
  /\ refreshing \in BOOLEAN
  /\ refused \subseteq 1..Lives

\* montauk_stats.tracked is the number of entries, give or take the inserts
\* and removals in progress on other CPUs: the counter max_procs is tested
\* against never drifts, whichever handlers collide on a pid.  It falls below
\* zero by at most one, while the walk over the task list has an entry uncounted.
TrackedIsExact ==
  /\ tracked >= -1
  /\ mpc # "gone" =>
       tracked + Cardinality({p \in Tgids : listed[p].stage = "fork_count"})
               + (IF pop.pc = "count" THEN 1 ELSE 0)
         = Cardinality(Table) + Cardinality({p \in Tgids : listed[p].stage = "exit_count"})

\* Neither the refresh worker nor a snapshot request ever has a freed entry
\* in hand, and the table links none: call_rcu() awaits both walks.
NoUseAfterFree ==
  /\ \A w \in Walkers : walk[w].pc = "hold" => obj[walk[w].at].at \in {"linked", "removed"}
  /\ \A p \in Tgids : Cardinality(Linked(p)) <= 1
  /\ \A r \in rcu : obj[r.obj].at = "removed"

\* Once montauk_init() has walked the task list, every process whose leader
\* runs has an entry under its pid, unless the limit or kzalloc() turned it
\* down: no fork slips between the kprobes and the walk.
EveryProcessTracked ==
  mpc \in {"start", "netlink", "loaded"} =>
    \A p \in Tgids : listed[p].stage \in {"running", "exec"} /\ listed[p].life \notin refused
                      => Linked(p) # {}

\* However loading ended, the unloaded module has left no kprobe, no work and
\* no entry that nobody will free.
NothingLeaks ==
  mpc = "gone" =>
    /\ hooks = {} /\ \A w \in Walkers : walk[w].pc = "off"
    /\ \A o \in Objects : \/ obj[o].at \in {"none", "freed"}
                          \/ \E r \in rcu : r.obj = o
\* The table is what it counts and what it should hold.
TableIsExact == TrackedIsExact /\ EveryProcessTracked

\* An entry is never touched after it is freed, and always freed in the end.
ObjectsAreSafe == NoUseAfterFree /\ NothingLeaks


\* The table lists no process that has been reaped: "do_exit | Process
\* termination | Remove from table".
NoGhosts ==
  mpc = "loaded" => \A o \in Table : listed[obj[o].pid].life = o[1]
=============================================================================
