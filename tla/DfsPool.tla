------------------------------ MODULE DfsPool ------------------------------
(***************************************************************************)
(* sub_dfs_run (sublimation/src/parallel/dfspool.c): workers run a tree of *)
(* frames, each on a deque of its own, and stop when the shared counter    *)
(* active says that no frame is outstanding anywhere.                      *)
(* sublimation_parallel_for and sublimation_scan run on it, and scan runs  *)
(* its callback serially when the pool cannot start.                       *)
(*                                                                         *)
(* Taking and stealing are one step each here: WsDeque shows that a frame  *)
(* is handed out exactly once.  A steal may also fail for no reason (it    *)
(* lost a race, or picked an empty victim).                                *)
(***************************************************************************)
EXTENDS Naturals, SequencesExt, FiniteSets

CONSTANTS NumWorkers,   \* num_workers
          Tree,       \* every frame of the tree
          Root,         \* the frame the caller passes
          Children      \* what fn pushes for each frame, in order

ASSUME PoolAssumption ==
  /\ NumWorkers \in Nat \ {0}
  /\ IsFiniteSet(Tree) /\ Root \in Tree
  /\ Children \in [Tree -> Seq(Tree)]

\* A frame is one sub_dfs_push(), or the caller's root: it has one place in
\* the tree, and the root leads to all of them.
ASSUME PoolTreeAssumption ==
  /\ \A f, g \in Tree : \A i \in 1..Len(Children[f]), j \in 1..Len(Children[g]) :
       Children[f][i] = Children[g][j] => f = g /\ i = j
  /\ \A f \in Tree : \A i \in 1..Len(Children[f]) : Children[f][i] # Root
  /\ \A S \in SUBSET Tree :
       Root \in S /\ (\A f \in S : \A i \in 1..Len(Children[f]) : Children[f][i] \in S) => S = Tree

Workers == 0..NumWorkers - 1

VARIABLES mpc,      \* where sub_dfs_run's caller is
          started,  \* workers created so far
          deque,    \* the frames on each worker's deque
          active,   \* pool.active
          poolPc,      \* where each worker is
          stack,    \* the frames a worker is inside of, with the next child to push
          runs      \* how often fn was called on each frame

poolVars == <<mpc, started, deque, active, poolPc, stack, runs>>

PoolInit ==
  /\ mpc = "alloc"
  /\ started = 0
  /\ deque = [w \in Workers |-> {}]
  /\ active = 0
  /\ poolPc = [w \in Workers |-> "none"]
  /\ stack = [w \in Workers |-> <<>>]
  /\ runs = [f \in Tree |-> 0]
-----------------------------------------------------------------------------
(***************************************************************************)
(* The caller.                                                             *)
(***************************************************************************)

\* The deques, then the root on worker 0's: active first.  The first push
\* never grows a ring, so it cannot fail.
Seed ==
  /\ mpc = "alloc"
  /\ active' = active + 1
  /\ deque' = [deque EXCEPT ![0] = @ \cup {Root}]
  /\ mpc' = "spawn"
  /\ UNCHANGED <<started, poolPc, stack, runs>>

\* An allocation fails: what was made is undone and nothing has run.
AllocFails ==
  /\ mpc = "alloc"
  /\ mpc' = "failed"
  /\ UNCHANGED <<started, deque, active, poolPc, stack, runs>>

\* pthread_create() for the next worker; a pool of one needs no thread.
Spawn ==
  /\ mpc = "spawn"
  /\ started < NumWorkers /\ NumWorkers > 1
  /\ poolPc' = [poolPc EXCEPT ![started] = "take"]
  /\ started' = started + 1
  /\ UNCHANGED <<mpc, deque, active, stack, runs>>

\* All created, or pthread_create() failed; if none was, the caller drains
\* the pool itself as worker 0.
SpawnEnds ==
  /\ mpc = "spawn"
  /\ mpc' = "join"
  /\ poolPc' = IF started = 0 THEN [poolPc EXCEPT ![0] = "take"] ELSE poolPc
  /\ UNCHANGED <<started, deque, active, stack, runs>>

\* Mutant: threads that were never created are joined too.
JoinAll ==
  /\ mpc = "join"
  /\ \A w \in Workers : poolPc[w] = "exited"
  /\ mpc' = "done"
  /\ UNCHANGED <<started, deque, active, poolPc, stack, runs>>

\* Every thread has been joined, or the inline run_worker() has returned.
Join ==
  /\ mpc = "join"
  /\ \A w \in Workers : poolPc[w] \in {"none", "exited"}
  /\ mpc' = "done"
  /\ UNCHANGED <<started, deque, active, poolPc, stack, runs>>

\* sublimation_scan: the pool could not start, so fn runs serially.
Serial ==
  /\ mpc = "failed"
  /\ runs' = [f \in Tree |-> runs[f] + 1]
  /\ mpc' = "done"
  /\ UNCHANGED <<started, deque, active, poolPc, stack>>
-----------------------------------------------------------------------------
(***************************************************************************)
(* A worker: run_worker() and, inside fn, sub_dfs_push().                  *)
(***************************************************************************)

Enter(w, f) == stack' = [stack EXCEPT ![w] = Append(@, <<f, 1>>)]

PoolTake(w) ==
  /\ poolPc[w] = "take"
  /\ \E f \in deque[w] :
       /\ deque' = [deque EXCEPT ![w] = @ \ {f}]
       /\ Enter(w, f)
  /\ poolPc' = [poolPc EXCEPT ![w] = "fn"]
  /\ UNCHANGED <<mpc, started, active, runs>>

PoolTakeEmpty(w) ==
  /\ poolPc[w] = "take"
  /\ deque[w] = {}
  /\ poolPc' = [poolPc EXCEPT ![w] = "steal"]
  /\ UNCHANGED <<mpc, started, deque, active, stack, runs>>

Steal(w) ==
  /\ poolPc[w] = "steal"
  /\ \E v \in Workers \ {w} : \E f \in deque[v] :
       /\ deque' = [deque EXCEPT ![v] = @ \ {f}]
       /\ Enter(w, f)
  /\ poolPc' = [poolPc EXCEPT ![w] = "fn"]
  /\ UNCHANGED <<mpc, started, active, runs>>

\* All tries lost or empty.
StealFails(w) ==
  /\ poolPc[w] = "steal"
  /\ poolPc' = [poolPc EXCEPT ![w] = "test"]
  /\ UNCHANGED <<mpc, started, deque, active, stack, runs>>

\* Mutant: leave when every deque looks empty.
QuiescentByDeques == \A w \in Workers : deque[w] = {}

\* active == 0
Quiescent == active = 0

TestActive(w) ==
  /\ poolPc[w] = "test"
  /\ poolPc' = [poolPc EXCEPT ![w] = IF Quiescent THEN "exited" ELSE "take"]
  /\ UNCHANGED <<mpc, started, deque, active, stack, runs>>

InFrame(w) == stack[w][Len(stack[w])][1]
NextChild(w) == stack[w][Len(stack[w])][2]
HasChild(w) == NextChild(w) <= Len(Children[InFrame(w)])
Child(w) == Children[InFrame(w)][NextChild(w)]

\* sub_dfs_push: count the child ...
PushCounts(w) ==
  /\ poolPc[w] = "fn"
  /\ HasChild(w)
  /\ active' = active + 1
  /\ poolPc' = [poolPc EXCEPT ![w] = "push"]
  /\ UNCHANGED <<mpc, started, deque, stack, runs>>

NextPushed(w) == [stack[w] EXCEPT ![Len(stack[w])][2] = @ + 1]

\* ... put it on the deque ...
PoolPushFits(w) ==
  /\ poolPc[w] = "push"
  /\ deque' = [deque EXCEPT ![w] = @ \cup {Child(w)}]
  /\ stack' = [stack EXCEPT ![w] = NextPushed(w)]
  /\ poolPc' = [poolPc EXCEPT ![w] = "fn"]
  /\ UNCHANGED <<mpc, started, active, runs>>

\* ... or, when the ring cannot grow, run it here and now.
PushInline(w) ==
  /\ poolPc[w] = "push"
  /\ stack' = [stack EXCEPT ![w] = Append(NextPushed(w), <<Child(w), 1>>)]
  /\ poolPc' = [poolPc EXCEPT ![w] = "fn"]
  /\ UNCHANGED <<mpc, started, deque, active, runs>>

\* fn returns and the frame is no longer outstanding.
Finish(w) ==
  /\ poolPc[w] = "fn"
  /\ ~HasChild(w)
  /\ runs' = [runs EXCEPT ![InFrame(w)] = @ + 1]
  /\ active' = active - 1
  /\ stack' = [stack EXCEPT ![w] = Front(@)]
  /\ poolPc' = [poolPc EXCEPT ![w] = IF Len(stack[w]) = 1 THEN "take" ELSE "fn"]
  /\ UNCHANGED <<mpc, started, deque>>
-----------------------------------------------------------------------------
CallerStep == Seed \/ AllocFails \/ Spawn \/ SpawnEnds \/ Join \/ Serial

PoolStep(w) ==
  \/ PoolTake(w) \/ PoolTakeEmpty(w) \/ Steal(w) \/ StealFails(w) \/ TestActive(w)
  \/ PushCounts(w) \/ PoolPushFits(w) \/ PushInline(w) \/ Finish(w)

PoolNext == CallerStep \/ \E w \in Workers : PoolStep(w)

PoolSpec == PoolInit /\ [][PoolNext]_poolVars

(***************************************************************************)
(* Every thread that was created is scheduled, and fn returns.  Which of   *)
(* several steps a worker takes (which victim, whether a steal succeeds)   *)
(* is left open.                                                           *)
(***************************************************************************)
PoolFairness ==
  /\ WF_poolVars(CallerStep)
  /\ \A w \in Workers : WF_poolVars(PoolStep(w))

PoolFairSpec == PoolSpec /\ PoolFairness
-----------------------------------------------------------------------------
(***************************************************************************)
(* Properties.                                                             *)
(***************************************************************************)

\* Frames on a deque, in a worker's hands, or counted and not yet placed.
Outstanding ==
  (UNION {deque[w] : w \in Workers})
    \cup (UNION {{stack[w][i][1] : i \in 1..Len(stack[w])} : w \in Workers})
    \cup {Child(w) : w \in {v \in Workers : poolPc[v] = "push"}}

(***************************************************************************)
(* active counts the outstanding frames exactly, at every step of every    *)
(* worker: never too low (a worker would leave early), never too high      *)
(* (the pool would spin for ever).                                         *)
(***************************************************************************)
ActiveIsExact == active = Cardinality(Outstanding)

(***************************************************************************)
(* A worker leaves only when there is nothing left to do: no frame is on   *)
(* any deque, in any worker's hands or about to be pushed.                 *)
(***************************************************************************)
NoEarlyExit == (\E w \in Workers : poolPc[w] = "exited") => Outstanding = {}

(***************************************************************************)
(* When the call returns, fn has run exactly once on every frame, whichever *)
(* threads could be created, pushes that found no memory included.         *)
(***************************************************************************)
EachFrameOnce == mpc = "done" => \A f \in Tree : runs[f] = 1

\* What the engine promises its caller, and the count it keeps it by.
FramesAreRun == ActiveIsExact /\ NoEarlyExit /\ EachFrameOnce

(***************************************************************************)
(* A call that was made returns.                                           *)
(***************************************************************************)
Returns == mpc # "alloc" ~> mpc = "done"
=============================================================================
