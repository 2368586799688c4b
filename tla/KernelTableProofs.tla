-------------------------- MODULE KernelTableProofs --------------------------
(***************************************************************************)
(* Proofs about the kernel module's process table: no entry is used after it  *)
(* is freed or left behind, and the table is what its counter says it is.    *)
(***************************************************************************)
EXTENDS KernelTable, FiniteSetTheorems, TLAPS

Stage(p) == listed[p].stage
Life(p)  == listed[p].life

\* The kprobes registered at each step of montauk_init() and montauk_exit();
\* a handler runs only while its kprobe is registered.
HooksFollow ==
  /\ mpc \in {"fork", "x_table", "gone"} => hooks = {}
  /\ mpc \in {"exec", "x_fork"} => hooks = {"fork"}
  /\ mpc \in {"exit", "x_exec"} => hooks = {"fork", "exec"}
  /\ mpc \in {"populate", "start", "netlink", "loaded", "x_refresh", "x_cancel", "x_exit"} =>
       hooks = Hooks
  /\ \A p \in Tgids : Stage(p) \in {"fork_insert", "fork_count"} => "fork" \in hooks
  /\ \A p \in Tgids : Stage(p) = "exit_count" => "exit" \in hooks

\* The walks run between the steps that start them and await them.
WalksFollow ==
  /\ walk["snapshot"].pc # "off" => mpc = "loaded"
  /\ walk["refresh"].pc # "off" => mpc \in {"netlink", "loaded", "x_refresh", "x_cancel"}
  /\ pop.pc # "walk" => mpc = "populate"
  /\ mpc \in Hooks => pop.last = 0

\* No two processes are the same, whatever pids are reused.
LivesAreUnique ==
  /\ pop.last <= lives
  /\ \A p \in Tgids : Stage(p) # "free" => Life(p) >= 1 /\ Life(p) <= lives
  /\ \A p, q \in Tgids : Stage(p) # "free" /\ Stage(q) # "free" /\ Life(p) = Life(q) => p = q

\* Whose an entry is before it is in the table: of the fork handler that
\* allocated it, or of the walk over the task list.
EntriesHaveOwners ==
  /\ \A o \in Objects : obj[o].at # "none" => o[1] <= lives /\ obj[o].pid \in Tgids
  /\ \A o \in Objects : o[2] = "populate" /\ o[1] > pop.last => obj[o].at = "none"
  /\ \A p \in Tgids : Stage(p) = "new" => obj[<<Life(p), "fork">>].at = "none"
  /\ \A p \in Tgids : Stage(p) = "fork_insert" =>
       obj[<<Life(p), "fork">>].at = "private" /\ obj[<<Life(p), "fork">>].pid = p
  /\ pop.pc = "insert" =>
       /\ pop.obj \in Objects /\ pop.obj = <<pop.last, "populate">> /\ obj[pop.obj].at = "private"
       /\ \A p \in Tgids : Stage(p) # "free" /\ Life(p) = pop.last => obj[pop.obj].pid = p
  /\ \A o \in Objects : obj[o].at = "private" =>
       IF o[2] = "fork" THEN Stage(obj[o].pid) = "fork_insert" /\ Life(obj[o].pid) = o[1]
                        ELSE pop.pc = "insert" /\ pop.obj = o

\* The table holds one entry per pid, and none once it is destroyed.
LinkedOnce ==
  /\ \A o1, o2 \in Table : obj[o1].pid = obj[o2].pid => o1 = o2
  /\ mpc = "gone" => Table = {}

Retired(o) == \E r \in rcu : r.obj = o

\* A removed entry is retired, once, by the exit handler that removed it.
RemovedOnce ==
  /\ \A r \in rcu : obj[r.obj].at = "removed"
  /\ \A r1, r2 \in rcu : r1.obj = r2.obj => r1 = r2
  /\ \A o \in Objects : obj[o].at = "removed" /\ ~Retired(o) => Stage(obj[o].pid) = "exit_count"
  /\ \A o1, o2 \in Objects :
       /\ obj[o1].at = "removed" /\ ~Retired(o1)
       /\ obj[o2].at = "removed" /\ ~Retired(o2)
       /\ obj[o1].pid = obj[o2].pid
       => o1 = o2

\* What a walk has in hand is in the table or removed from it, and if its
\* callback is pending it awaits that walk.
HeldSafely ==
  \A w \in Walkers : walk[w].pc = "hold" =>
    /\ walk[w].at \in Objects
    /\ obj[walk[w].at].at \in {"linked", "removed"}
    /\ \A r \in rcu : r.obj = walk[w].at => w \in r.readers

\* A running process has an entry, was turned down, or is still ahead of the
\* walk over the task list.
AheadOfWalk(p) ==
  /\ mpc \in Hooks \cup {"populate"}
  /\ Life(p) > pop.last \/ (pop.pc = "insert" /\ Life(p) = pop.last)

Unloading == {"x_refresh", "x_cancel", "x_exit", "x_exec", "x_fork", "x_table", "gone"}

NoneMissed ==
  /\ \A p \in Tgids : Stage(p) \in {"running", "exec"} =>
       Life(p) \in refused \/ Linked(p) # {} \/ AheadOfWalk(p) \/ mpc \in Unloading
  /\ \A p \in Tgids : Stage(p) = "fork_count" => Linked(p) # {}

Counting(s) == {p \in Tgids : Stage(p) = s}

\* Each handler between its insert or removal and its count is one to make up.
CountIsExact ==
  IF mpc = "gone" THEN tracked >= -1
  ELSE tracked + Cardinality(Counting("fork_count")) + (IF pop.pc = "count" THEN 1 ELSE 0)
         = Cardinality(Table) + Cardinality(Counting("exit_count"))

\* A step that neither changes what is in the table nor counts anything.
CountsNothing ==
  /\ Table' = Table /\ tracked' = tracked
  /\ \A s \in {"fork_count", "exit_count"} : Counting(s)' = Counting(s)
  /\ (pop'.pc = "count") = (pop.pc = "count")
  /\ (mpc' = "gone") = (mpc = "gone")

KernelInv ==
  /\ KernelTypeOK /\ HooksFollow /\ WalksFollow /\ LivesAreUnique /\ EntriesHaveOwners
  /\ LinkedOnce /\ RemovedOnce /\ HeldSafely /\ NoneMissed /\ CountIsExact

LEMMA LoadSteps ==
  /\ StepAfter("fork") = "exec" /\ StepAfter("exec") = "exit" /\ StepAfter("exit") = "populate"
  /\ StepAfter("populate") = "start" /\ StepAfter("start") = "netlink" /\ StepAfter("netlink") = "loaded"
  BY DEF StepAfter, LoadOrder

\* What the helpers of the handlers do to the process list and to the entries.
LEMMA StageIsSet ==
  ASSUME KernelTypeOK, NEW p \in Tgids, NEW s, SetStage(p, s)
  PROVE  \A q \in Tgids : Stage(q)' = (IF q = p THEN s ELSE Stage(q)) /\ Life(q)' = Life(q)
  BY DEF KernelTypeOK, SetStage, Stage, Life

LEMMA EntryIsAllocated ==
  ASSUME KernelTypeOK, NEW p \in Tgids, NEW o \in Objects, obj' = [obj EXCEPT ![o] = Allocated(p)]
  PROVE  /\ obj' \in [Objects -> [at : {"none", "private", "linked", "removed", "freed"},
                                  pid : Tgids \cup {NoPid}]]
         /\ obj'[o].at = "private" /\ obj'[o].pid = p
         /\ \A x \in Objects \ {o} : obj'[x] = obj[x]
<1>1. Allocated(p) \in [at : {"none", "private", "linked", "removed", "freed"},
                        pid : Tgids \cup {NoPid}]
  BY DEF Allocated
<1>2. QED
  BY <1>1 DEF KernelTypeOK, Allocated

LEMMA EntryIsInserted ==
  ASSUME KernelTypeOK, NEW p, NEW o \in Objects, Insert(o, p)
  PROVE  /\ obj' \in [Objects -> [at : {"none", "private", "linked", "removed", "freed"},
                                  pid : Tgids \cup {NoPid}]]
         /\ obj'[o].at = (IF Linked(p) = {} THEN "linked" ELSE "freed")
         /\ \A x \in Objects : obj'[x].pid = obj[x].pid
         /\ \A x \in Objects \ {o} : obj'[x].at = obj[x].at
<1>1. PICK at \in {"linked", "freed"} :
         /\ at = IF Linked(p) = {} THEN "linked" ELSE "freed"
         /\ obj' = [obj EXCEPT ![o].at = at]
  BY DEF Insert
<1>2. QED
  BY <1>1 DEF KernelTypeOK

\* A process on the list names an entry of each kind.
LEMMA EntryOfProcess ==
  ASSUME KernelTypeOK, LivesAreUnique, NEW p \in Tgids, Stage(p) # "free"
  PROVE  /\ Life(p) \in Int /\ lives \in Int
         /\ <<Life(p), "fork">> \in Objects /\ <<Life(p), "populate">> \in Objects
<1>1. Life(p) \in 1 .. Lives /\ lives \in Int
  BY KernelAssumption DEF KernelTypeOK, LivesAreUnique, Stage, Life
<1>2. QED
  BY <1>1 DEF Objects

\* The process the walk comes to next is the oldest of those ahead.
LEMMA VisitedIsNext ==
  ASSUME KernelTypeOK, LivesAreUnique, NEW p \in Tgids, Visits(p)
  PROVE  /\ mpc = "populate" /\ pop.pc = "walk" /\ Stage(p) # "free" /\ Life(p) > pop.last
         /\ \A q \in Tgids : Stage(q) # "free" /\ Life(q) > pop.last /\ q # p => Life(q) > Life(p)
<1>1. /\ mpc = "populate" /\ pop.pc = "walk" /\ Stage(p) # "free" /\ Life(p) > pop.last
      /\ \A q \in Tgids : Stage(q) # "free" /\ Life(q) > pop.last => Life(p) <= Life(q)
  BY DEF Visits, NotVisited, Stage, Life
<1>2. ASSUME NEW q \in Tgids, Stage(q) # "free", Life(q) > pop.last, q # p
      PROVE  Life(q) > Life(p)
  <2>1. Life(p) <= Life(q) /\ Life(p) # Life(q)
    BY <1>1, <1>2 DEF LivesAreUnique
  <2>2. Life(p) \in Int /\ Life(q) \in Int
    BY <1>1, <1>2, EntryOfProcess
  <2>3. QED
    BY <2>1, <2>2
<1>3. QED
  BY <1>1, <1>2

\* Every step keeps the types.
LEMMA KernelKeepsTypes == KernelInv /\ [KernelNext]_tableVars => KernelTypeOK'
<1> SUFFICES ASSUME KernelTypeOK, HooksFollow, WalksFollow, LivesAreUnique, EntriesHaveOwners, LinkedOnce, RemovedOnce,
                    HeldSafely, NoneMissed, CountIsExact,
                    [KernelNext]_tableVars
             PROVE  KernelTypeOK'
  BY DEF KernelInv
<1> USE KernelAssumption DEF KernelTypeOK, Hooks, Walkers, listedVars, modVars
<1>1. ASSUME NEW p \in Tgids, Clone(p) PROVE KernelTypeOK'
  BY <1>1 DEF Clone
<1>2. ASSUME NEW p \in Tgids, WakeUnhooked(p) PROVE KernelTypeOK'
  BY <1>2 DEF WakeUnhooked, SetStage
<1>3. ASSUME NEW p \in Tgids, ForkAlloc(p) PROVE KernelTypeOK'
  <2>1. <<listed[p].life, "fork">> \in Objects
    BY <1>3, EntryOfProcess DEF ForkAlloc, Stage, Life
  <2>2. obj' \in [Objects -> [at : {"none", "private", "linked", "removed", "freed"},
                              pid : Tgids \cup {NoPid}]]
    BY <1>3, <2>1, EntryIsAllocated DEF ForkAlloc
  <2>3. QED
    BY <1>3, <2>2 DEF ForkAlloc, SetStage
<1>4. ASSUME NEW p \in Tgids, ForkRefused(p) PROVE KernelTypeOK'
  <2>1. listed[p].life \in 1 .. Lives
    BY <1>4 DEF ForkRefused, LivesAreUnique, Stage, Life
  <2>2. QED
    BY <1>4, <2>1 DEF ForkRefused, SetStage
<1>5. ASSUME NEW p \in Tgids, ForkInsert(p) PROVE KernelTypeOK'
  <2>1. <<listed[p].life, "fork">> \in Objects
    BY <1>5, EntryOfProcess DEF ForkInsert, Stage, Life
  <2>2. obj' \in [Objects -> [at : {"none", "private", "linked", "removed", "freed"},
                              pid : Tgids \cup {NoPid}]]
    BY <1>5, <2>1, EntryIsInserted DEF ForkInsert
  <2>3. listed' \in [Tgids -> [stage : {"free", "new", "fork_insert", "fork_count", "running", "exec",
                                        "exit_count", "headless", "zombie"}, life : 0 .. Lives]]
    BY <1>5 DEF ForkInsert, SetStage
  <2>4. QED
    BY <1>5, <2>2, <2>3 DEF ForkInsert
<1>6. ASSUME NEW p \in Tgids, ForkCount(p) PROVE KernelTypeOK'
  BY <1>6 DEF ForkCount, SetStage
<1>7. ASSUME NEW p \in Tgids, ExecHook(p) PROVE KernelTypeOK'
  BY <1>7 DEF ExecHook, SetStage
<1>8. ASSUME NEW p \in Tgids, ExecDone(p) PROVE KernelTypeOK'
  BY <1>8 DEF ExecDone, SetStage
<1>9. ASSUME NEW p \in Tgids, ExitUnlink(p) PROVE KernelTypeOK'
  BY <1>9 DEF ExitUnlink, SetStage, Linked
<1>10. ASSUME NEW p \in Tgids, ExitCount(p) PROVE KernelTypeOK'
  BY <1>10 DEF ExitCount, SetStage, RetireEntry
<1>11. ASSUME NEW p \in Tgids, LastThread(p) PROVE KernelTypeOK'
  BY <1>11 DEF LastThread, SetStage
<1>12. ASSUME NEW p \in Tgids, ReapTask(p) PROVE KernelTypeOK'
  BY <1>12 DEF ReapTask
<1>13. ASSUME NEW h \in Hooks, RegisterHook(h) PROVE KernelTypeOK'
  BY <1>13, LoadSteps DEF RegisterHook
<1>14. ASSUME NEW h \in Hooks, RegisterFails(h) PROVE KernelTypeOK'
  BY <1>14 DEF RegisterFails
<1>15. ASSUME NEW h \in Hooks, UnregisterHook(h) PROVE KernelTypeOK'
  BY <1>15 DEF UnregisterHook, InHandler
<1>16. ASSUME NEW p \in Tgids, PopulateAlloc(p) PROVE KernelTypeOK'
  <2>1. Stage(p) # "free" /\ listed[p].life \in 0 .. Lives
    BY <1>16, VisitedIsNext DEF PopulateAlloc
  <2>2. <<listed[p].life, "populate">> \in Objects
    BY <2>1, EntryOfProcess DEF Life
  <2>3. obj' \in [Objects -> [at : {"none", "private", "linked", "removed", "freed"},
                              pid : Tgids \cup {NoPid}]]
    BY <1>16, <2>2, EntryIsAllocated DEF PopulateAlloc
  <2>4. pop' \in [pc : {"walk", "insert", "count"}, last : 0 .. Lives, obj : Objects \cup {NoObject}]
    BY <1>16, <2>1, <2>2 DEF PopulateAlloc
  <2>5. QED
    BY <1>16, <2>3, <2>4 DEF PopulateAlloc
<1>17. ASSUME NEW p \in Tgids, PopulateRefused(p) PROVE KernelTypeOK'
  BY <1>17, SMTT(30) DEF PopulateRefused, Visits, NotVisited
<1>18. CASE PopulateInsert
  <2>1. pop.obj \in Objects
    BY <1>18 DEF PopulateInsert, EntriesHaveOwners
  <2>2. obj' \in [Objects -> [at : {"none", "private", "linked", "removed", "freed"},
                              pid : Tgids \cup {NoPid}]]
    BY <1>18, <2>1, EntryIsInserted DEF PopulateInsert
  <2>3. pop' \in [pc : {"walk", "insert", "count"}, last : 0 .. Lives, obj : Objects \cup {NoObject}]
    BY <1>18 DEF PopulateInsert
  <2>4. QED
    BY <1>18, <2>2, <2>3 DEF PopulateInsert
<1>19. CASE PopulateCount
  BY <1>19 DEF PopulateCount
<1>20. CASE PopulateDone
  BY <1>20, LoadSteps DEF PopulateDone, NotVisited
<1>21. CASE RefreshStart
  BY <1>21, LoadSteps DEF RefreshStart
<1>22. CASE NetlinkInit
  BY <1>22, LoadSteps DEF NetlinkInit
<1>23. CASE NetlinkExit
  BY <1>23 DEF NetlinkExit
<1>24. CASE RefreshStop
  BY <1>24 DEF RefreshStop
<1>25. CASE RefreshCancel
  BY <1>25 DEF RefreshCancel
<1>26. CASE TableDestroy
  BY <1>26 DEF TableDestroy, Table
<1>27. CASE RefreshProc
  BY <1>27 DEF RefreshProc
<1>28. CASE SnapshotProc
  BY <1>28 DEF SnapshotProc
<1>29. CASE RcuFree
  BY <1>29, SMTT(30) DEF RcuFree
<1>30. ASSUME NEW w \in Walkers, WalkBegin(w) PROVE KernelTypeOK'
  BY <1>30 DEF WalkBegin
<1>31. ASSUME NEW w \in Walkers, WalkNext(w) PROVE KernelTypeOK'
  BY <1>31 DEF WalkNext, Linked
<1>32. ASSUME NEW w \in Walkers, WalkEnd(w) PROVE KernelTypeOK'
  BY <1>32 DEF WalkEnd
<1>33. CASE UNCHANGED tableVars
  BY <1>33 DEF tableVars
<1>34. QED
  BY <1>1, <1>2, <1>3, <1>4, <1>5, <1>6, <1>7, <1>8, <1>9, <1>10, <1>11, <1>12, <1>13, <1>14,
     <1>15, <1>16, <1>17, <1>18, <1>19, <1>20, <1>21, <1>22, <1>23, <1>24, <1>25, <1>26, <1>27, <1>28,
     <1>29, <1>30, <1>31, <1>32, <1>33
  DEF KernelNext, TaskStep, Load, Unload, Walk

\* Loading and unloading await the handlers in progress.
LEMMA HooksKeepStep == KernelInv /\ [KernelNext]_tableVars => HooksFollow'
<1> SUFFICES ASSUME KernelTypeOK, HooksFollow, WalksFollow, LivesAreUnique, EntriesHaveOwners, LinkedOnce, RemovedOnce,
                    HeldSafely, NoneMissed, CountIsExact,
                    [KernelNext]_tableVars
             PROVE  HooksFollow'
  BY DEF KernelInv
<1> USE KernelAssumption DEF KernelTypeOK, HooksFollow, Stage, Hooks, listedVars, modVars
<1>1. ASSUME NEW p \in Tgids, Clone(p) PROVE HooksFollow'
  BY <1>1 DEF Clone
<1>2. ASSUME NEW p \in Tgids, WakeUnhooked(p) PROVE HooksFollow'
  BY <1>2 DEF WakeUnhooked, SetStage
<1>3. ASSUME NEW p \in Tgids, ForkAlloc(p) PROVE HooksFollow'
  BY <1>3 DEF ForkAlloc, SetStage, Allocated
<1>4. ASSUME NEW p \in Tgids, ForkRefused(p) PROVE HooksFollow'
  BY <1>4 DEF ForkRefused, SetStage
<1>5. ASSUME NEW p \in Tgids, ForkInsert(p) PROVE HooksFollow'
  BY <1>5 DEF ForkInsert, SetStage, Insert, Linked
<1>6. ASSUME NEW p \in Tgids, ForkCount(p) PROVE HooksFollow'
  BY <1>6 DEF ForkCount, SetStage
<1>7. ASSUME NEW p \in Tgids, ExecHook(p) PROVE HooksFollow'
  BY <1>7 DEF ExecHook, SetStage
<1>8. ASSUME NEW p \in Tgids, ExecDone(p) PROVE HooksFollow'
  BY <1>8 DEF ExecDone, SetStage
<1>9. ASSUME NEW p \in Tgids, ExitUnlink(p) PROVE HooksFollow'
  BY <1>9, SMTT(30) DEF ExitUnlink, SetStage, Linked
<1>10. ASSUME NEW p \in Tgids, ExitCount(p) PROVE HooksFollow'
  BY <1>10 DEF ExitCount, SetStage, RetireEntry
<1>11. ASSUME NEW p \in Tgids, LastThread(p) PROVE HooksFollow'
  BY <1>11 DEF LastThread, SetStage
<1>12. ASSUME NEW p \in Tgids, ReapTask(p) PROVE HooksFollow'
  BY <1>12 DEF ReapTask
<1>13. ASSUME NEW h \in Hooks, RegisterHook(h) PROVE HooksFollow'
  BY <1>13, LoadSteps, ZenonT(30) DEF RegisterHook
<1>14. ASSUME NEW h \in Hooks, RegisterFails(h) PROVE HooksFollow'
  BY <1>14 DEF RegisterFails
<1>15. ASSUME NEW h \in Hooks, UnregisterHook(h) PROVE HooksFollow'
  BY <1>15, ZenonT(30) DEF UnregisterHook, InHandler
<1>16. ASSUME NEW p \in Tgids, PopulateAlloc(p) PROVE HooksFollow'
  BY <1>16 DEF PopulateAlloc, Visits, NotVisited, Allocated
<1>17. ASSUME NEW p \in Tgids, PopulateRefused(p) PROVE HooksFollow'
  BY <1>17 DEF PopulateRefused, Visits, NotVisited
<1>18. CASE PopulateInsert
  BY <1>18 DEF PopulateInsert, Insert, Linked
<1>19. CASE PopulateCount
  BY <1>19 DEF PopulateCount
<1>20. CASE PopulateDone
  BY <1>20, LoadSteps DEF PopulateDone, NotVisited
<1>21. CASE RefreshStart
  BY <1>21, LoadSteps DEF RefreshStart
<1>22. CASE NetlinkInit
  BY <1>22, LoadSteps DEF NetlinkInit
<1>23. CASE NetlinkExit
  BY <1>23 DEF NetlinkExit
<1>24. CASE RefreshStop
  BY <1>24 DEF RefreshStop
<1>25. CASE RefreshCancel
  BY <1>25 DEF RefreshCancel
<1>26. CASE TableDestroy
  BY <1>26 DEF TableDestroy, Table
<1>27. CASE RefreshProc
  BY <1>27 DEF RefreshProc
<1>28. CASE SnapshotProc
  BY <1>28 DEF SnapshotProc
<1>29. CASE RcuFree
  BY <1>29 DEF RcuFree
<1>30. ASSUME NEW w \in Walkers, WalkBegin(w) PROVE HooksFollow'
  BY <1>30 DEF WalkBegin
<1>31. ASSUME NEW w \in Walkers, WalkNext(w) PROVE HooksFollow'
  BY <1>31 DEF WalkNext, Linked
<1>32. ASSUME NEW w \in Walkers, WalkEnd(w) PROVE HooksFollow'
  BY <1>32 DEF WalkEnd
<1>33. CASE UNCHANGED tableVars
  BY <1>33 DEF tableVars
<1>34. QED
  BY <1>1, <1>2, <1>3, <1>4, <1>5, <1>6, <1>7, <1>8, <1>9, <1>10, <1>11, <1>12, <1>13, <1>14,
     <1>15, <1>16, <1>17, <1>18, <1>19, <1>20, <1>21, <1>22, <1>23, <1>24, <1>25, <1>26, <1>27, <1>28,
     <1>29, <1>30, <1>31, <1>32, <1>33
  DEF KernelNext, TaskStep, Load, Unload, Walk

\* Loading and unloading await the walks in progress.
LEMMA WalksKeepStep == KernelInv /\ [KernelNext]_tableVars => WalksFollow'
<1> SUFFICES ASSUME KernelTypeOK, HooksFollow, WalksFollow, LivesAreUnique, EntriesHaveOwners, LinkedOnce, RemovedOnce,
                    HeldSafely, NoneMissed, CountIsExact,
                    [KernelNext]_tableVars
             PROVE  WalksFollow'
  BY DEF KernelInv
<1> USE KernelAssumption DEF KernelTypeOK, WalksFollow, Walkers, Hooks, listedVars, modVars
<1>1. ASSUME NEW p \in Tgids, Clone(p) PROVE WalksFollow'
  BY <1>1 DEF Clone
<1>2. ASSUME NEW p \in Tgids, WakeUnhooked(p) PROVE WalksFollow'
  BY <1>2 DEF WakeUnhooked, SetStage
<1>3. ASSUME NEW p \in Tgids, ForkAlloc(p) PROVE WalksFollow'
  BY <1>3 DEF ForkAlloc, SetStage, Allocated
<1>4. ASSUME NEW p \in Tgids, ForkRefused(p) PROVE WalksFollow'
  BY <1>4 DEF ForkRefused, SetStage
<1>5. ASSUME NEW p \in Tgids, ForkInsert(p) PROVE WalksFollow'
  BY <1>5 DEF ForkInsert, SetStage, Insert, Linked
<1>6. ASSUME NEW p \in Tgids, ForkCount(p) PROVE WalksFollow'
  BY <1>6 DEF ForkCount, SetStage
<1>7. ASSUME NEW p \in Tgids, ExecHook(p) PROVE WalksFollow'
  BY <1>7 DEF ExecHook, SetStage
<1>8. ASSUME NEW p \in Tgids, ExecDone(p) PROVE WalksFollow'
  BY <1>8 DEF ExecDone, SetStage
<1>9. ASSUME NEW p \in Tgids, ExitUnlink(p) PROVE WalksFollow'
  BY <1>9 DEF ExitUnlink, SetStage, Linked
<1>10. ASSUME NEW p \in Tgids, ExitCount(p) PROVE WalksFollow'
  BY <1>10 DEF ExitCount, SetStage, RetireEntry
<1>11. ASSUME NEW p \in Tgids, LastThread(p) PROVE WalksFollow'
  BY <1>11 DEF LastThread, SetStage
<1>12. ASSUME NEW p \in Tgids, ReapTask(p) PROVE WalksFollow'
  BY <1>12 DEF ReapTask
<1>13. ASSUME NEW h \in Hooks, RegisterHook(h) PROVE WalksFollow'
  BY <1>13, LoadSteps DEF RegisterHook
<1>14. ASSUME NEW h \in Hooks, RegisterFails(h) PROVE WalksFollow'
  BY <1>14 DEF RegisterFails
<1>15. ASSUME NEW h \in Hooks, UnregisterHook(h) PROVE WalksFollow'
  BY <1>15 DEF UnregisterHook, InHandler
<1>16. ASSUME NEW p \in Tgids, PopulateAlloc(p) PROVE WalksFollow'
  BY <1>16 DEF PopulateAlloc, Visits, NotVisited, Allocated
<1>17. ASSUME NEW p \in Tgids, PopulateRefused(p) PROVE WalksFollow'
  BY <1>17 DEF PopulateRefused, Visits, NotVisited
<1>18. CASE PopulateInsert
  BY <1>18 DEF PopulateInsert, Insert, Linked
<1>19. CASE PopulateCount
  BY <1>19 DEF PopulateCount
<1>20. CASE PopulateDone
  BY <1>20, LoadSteps DEF PopulateDone, NotVisited
<1>21. CASE RefreshStart
  BY <1>21, LoadSteps DEF RefreshStart
<1>22. CASE NetlinkInit
  BY <1>22, LoadSteps DEF NetlinkInit
<1>23. CASE NetlinkExit
  BY <1>23 DEF NetlinkExit
<1>24. CASE RefreshStop
  BY <1>24 DEF RefreshStop
<1>25. CASE RefreshCancel
  BY <1>25 DEF RefreshCancel
<1>26. CASE TableDestroy
  BY <1>26 DEF TableDestroy, Table
<1>27. CASE RefreshProc
  BY <1>27 DEF RefreshProc
<1>28. CASE SnapshotProc
  BY <1>28 DEF SnapshotProc
<1>29. CASE RcuFree
  BY <1>29 DEF RcuFree
<1>30. ASSUME NEW w \in Walkers, WalkBegin(w) PROVE WalksFollow'
  BY <1>30 DEF WalkBegin
<1>31. ASSUME NEW w \in Walkers, WalkNext(w) PROVE WalksFollow'
  BY <1>31 DEF WalkNext, Linked
<1>32. ASSUME NEW w \in Walkers, WalkEnd(w) PROVE WalksFollow'
  BY <1>32 DEF WalkEnd
<1>33. CASE UNCHANGED tableVars
  BY <1>33 DEF tableVars
<1>34. QED
  BY <1>1, <1>2, <1>3, <1>4, <1>5, <1>6, <1>7, <1>8, <1>9, <1>10, <1>11, <1>12, <1>13, <1>14,
     <1>15, <1>16, <1>17, <1>18, <1>19, <1>20, <1>21, <1>22, <1>23, <1>24, <1>25, <1>26, <1>27, <1>28,
     <1>29, <1>30, <1>31, <1>32, <1>33
  DEF KernelNext, TaskStep, Load, Unload, Walk

\* A process is new when it is created.
LEMMA LivesStayUnique == KernelInv /\ [KernelNext]_tableVars => LivesAreUnique'
<1> SUFFICES ASSUME KernelTypeOK, HooksFollow, WalksFollow, LivesAreUnique, EntriesHaveOwners, LinkedOnce, RemovedOnce,
                    HeldSafely, NoneMissed, CountIsExact,
                    [KernelNext]_tableVars
             PROVE  LivesAreUnique'
  BY DEF KernelInv
<1> USE KernelAssumption DEF KernelTypeOK, LivesAreUnique, Stage, Life, listedVars, modVars
<1>1. ASSUME NEW p \in Tgids, Clone(p) PROVE LivesAreUnique'
  BY <1>1 DEF Clone
<1>2. ASSUME NEW p \in Tgids, WakeUnhooked(p) PROVE LivesAreUnique'
  BY <1>2 DEF WakeUnhooked, SetStage
<1>3. ASSUME NEW p \in Tgids, ForkAlloc(p) PROVE LivesAreUnique'
  BY <1>3 DEF ForkAlloc, SetStage, Allocated
<1>4. ASSUME NEW p \in Tgids, ForkRefused(p) PROVE LivesAreUnique'
  BY <1>4 DEF ForkRefused, SetStage
<1>5. ASSUME NEW p \in Tgids, ForkInsert(p) PROVE LivesAreUnique'
  BY <1>5 DEF ForkInsert, SetStage, Insert, Linked
<1>6. ASSUME NEW p \in Tgids, ForkCount(p) PROVE LivesAreUnique'
  BY <1>6 DEF ForkCount, SetStage
<1>7. ASSUME NEW p \in Tgids, ExecHook(p) PROVE LivesAreUnique'
  BY <1>7 DEF ExecHook, SetStage
<1>8. ASSUME NEW p \in Tgids, ExecDone(p) PROVE LivesAreUnique'
  BY <1>8 DEF ExecDone, SetStage
<1>9. ASSUME NEW p \in Tgids, ExitUnlink(p) PROVE LivesAreUnique'
  <2>1. \A q \in Tgids : (Stage(q)' # "free" => Stage(q) # "free") /\ Life(q)' = Life(q)
    BY <1>9 DEF ExitUnlink, SetStage
  <2>2. UNCHANGED <<lives, pop>>
    BY <1>9 DEF ExitUnlink
  <2>3. QED
    BY <2>1, <2>2
<1>10. ASSUME NEW p \in Tgids, ExitCount(p) PROVE LivesAreUnique'
  BY <1>10 DEF ExitCount, SetStage, RetireEntry
<1>11. ASSUME NEW p \in Tgids, LastThread(p) PROVE LivesAreUnique'
  BY <1>11 DEF LastThread, SetStage
<1>12. ASSUME NEW p \in Tgids, ReapTask(p) PROVE LivesAreUnique'
  BY <1>12 DEF ReapTask
<1>13. ASSUME NEW h \in Hooks, RegisterHook(h) PROVE LivesAreUnique'
  BY <1>13, LoadSteps DEF RegisterHook
<1>14. ASSUME NEW h \in Hooks, RegisterFails(h) PROVE LivesAreUnique'
  BY <1>14 DEF RegisterFails
<1>15. ASSUME NEW h \in Hooks, UnregisterHook(h) PROVE LivesAreUnique'
  BY <1>15 DEF UnregisterHook, InHandler
<1>16. ASSUME NEW p \in Tgids, PopulateAlloc(p) PROVE LivesAreUnique'
  BY <1>16 DEF PopulateAlloc, Visits, NotVisited, Allocated
<1>17. ASSUME NEW p \in Tgids, PopulateRefused(p) PROVE LivesAreUnique'
  BY <1>17 DEF PopulateRefused, Visits, NotVisited
<1>18. CASE PopulateInsert
  BY <1>18 DEF PopulateInsert, Insert, Linked
<1>19. CASE PopulateCount
  BY <1>19 DEF PopulateCount
<1>20. CASE PopulateDone
  BY <1>20, LoadSteps DEF PopulateDone, NotVisited
<1>21. CASE RefreshStart
  BY <1>21, LoadSteps DEF RefreshStart
<1>22. CASE NetlinkInit
  BY <1>22, LoadSteps DEF NetlinkInit
<1>23. CASE NetlinkExit
  BY <1>23 DEF NetlinkExit
<1>24. CASE RefreshStop
  BY <1>24 DEF RefreshStop
<1>25. CASE RefreshCancel
  BY <1>25 DEF RefreshCancel
<1>26. CASE TableDestroy
  BY <1>26 DEF TableDestroy, Table
<1>27. CASE RefreshProc
  BY <1>27 DEF RefreshProc
<1>28. CASE SnapshotProc
  BY <1>28 DEF SnapshotProc
<1>29. CASE RcuFree
  BY <1>29 DEF RcuFree
<1>30. ASSUME NEW w \in Walkers, WalkBegin(w) PROVE LivesAreUnique'
  BY <1>30 DEF WalkBegin
<1>31. ASSUME NEW w \in Walkers, WalkNext(w) PROVE LivesAreUnique'
  BY <1>31 DEF WalkNext, Linked
<1>32. ASSUME NEW w \in Walkers, WalkEnd(w) PROVE LivesAreUnique'
  BY <1>32 DEF WalkEnd
<1>33. CASE UNCHANGED tableVars
  BY <1>33 DEF tableVars
<1>34. QED
  BY <1>1, <1>2, <1>3, <1>4, <1>5, <1>6, <1>7, <1>8, <1>9, <1>10, <1>11, <1>12, <1>13, <1>14,
     <1>15, <1>16, <1>17, <1>18, <1>19, <1>20, <1>21, <1>22, <1>23, <1>24, <1>25, <1>26, <1>27, <1>28,
     <1>29, <1>30, <1>31, <1>32, <1>33
  DEF KernelNext, TaskStep, Load, Unload, Walk

\* An entry is private to the handler that allocated it until that inserts or frees it.
LEMMA OwnersAreKept == KernelInv /\ [KernelNext]_tableVars => EntriesHaveOwners'
<1> SUFFICES ASSUME KernelTypeOK, HooksFollow, WalksFollow, LivesAreUnique, EntriesHaveOwners, LinkedOnce, RemovedOnce,
                    HeldSafely, NoneMissed, CountIsExact,
                    [KernelNext]_tableVars
             PROVE  EntriesHaveOwners'
  BY DEF KernelInv
<1> USE KernelAssumption DEF KernelTypeOK, HooksFollow, WalksFollow, LivesAreUnique, EntriesHaveOwners, Stage, Life, listedVars, modVars
<1>1. ASSUME NEW p \in Tgids, Clone(p) PROVE EntriesHaveOwners'
  <2>20. p \in Tgids
    BY <1>1
  <2>1. /\ \A q \in Tgids : Stage(q)' = (IF q = p THEN "new" ELSE Stage(q))
                            /\ Life(q)' = (IF q = p THEN lives + 1 ELSE Life(q))
        /\ Stage(p) = "free" /\ lives' = lives + 1 /\ UNCHANGED <<obj, pop>>
    BY <1>1 DEF Clone
  <2>2. obj[<<lives + 1, "fork">>].at = "none"
    <3>1. <<lives + 1, "fork">> \in Objects /\ <<lives + 1, "fork">>[1] = lives + 1 /\ lives \in Int
      BY <1>1 DEF Clone, Objects
    <3>2. QED
      BY <3>1
  <2>3. lives \in Int /\ pop.last \in Int /\ pop.last <= lives /\ \A o \in Objects : o[1] \in Int
    BY DEF Objects
  <2>4. \A o \in Objects : obj'[o].at # "none" => o[1] <= lives' /\ obj'[o].pid \in Tgids
    BY <2>20, <2>1, <2>3
  <2>5. \A q \in Tgids : Stage(q)' = "new" => obj'[<<Life(q)', "fork">>].at = "none"
    BY <2>1, <2>2
  <2>6. \A q \in Tgids : Stage(q)' = "fork_insert" =>
          obj'[<<Life(q)', "fork">>].at = "private" /\ obj'[<<Life(q)', "fork">>].pid = q
    BY <2>1
  <2>7. pop'.pc = "insert" =>
          \A q \in Tgids : Stage(q)' # "free" /\ Life(q)' = pop'.last => obj'[pop'.obj].pid = q
    BY <2>1, <2>3
  <2>8. \A o \in Objects : obj'[o].at = "private" =>
          IF o[2] = "fork" THEN Stage(obj[o].pid)' = "fork_insert" /\ Life(obj[o].pid)' = o[1]
                           ELSE pop'.pc = "insert" /\ pop'.obj = o
    BY <2>20, <2>1
  <2>9. QED
    BY <2>1, <2>4, <2>5, <2>6, <2>7, <2>8
<1>2. ASSUME NEW p \in Tgids, WakeUnhooked(p) PROVE EntriesHaveOwners'
  BY <1>2 DEF WakeUnhooked, SetStage
<1>3. ASSUME NEW p \in Tgids, ForkAlloc(p) PROVE EntriesHaveOwners'
  <2>20. p \in Tgids
    BY <1>3
  <2>1. \A q \in Tgids : Stage(q)' = (IF q = p THEN "fork_insert" ELSE Stage(q)) /\ Life(q)' = Life(q)
    BY <1>3, StageIsSet DEF ForkAlloc
  <2> DEFINE e == <<Life(p), "fork">>
  <2>2. e \in Objects /\ Stage(p) = "new" /\ Life(p) <= lives /\ e[1] = Life(p) /\ e[2] = "fork"
    BY <1>3, EntryOfProcess DEF ForkAlloc
  <2>3. /\ obj'[e].at = "private" /\ obj'[e].pid = p
        /\ \A x \in Objects \ {e} : obj'[x] = obj[x]
    <3>1. obj' = [obj EXCEPT ![e] = Allocated(p)]
      BY <1>3 DEF ForkAlloc
    <3> HIDE DEF e, EntriesHaveOwners, LivesAreUnique, KernelTypeOK
    <3>2. QED
      BY <2>20, <2>2, <3>1 DEF KernelTypeOK, Allocated
  <2>4. UNCHANGED <<lives, pop>>
    BY <1>3 DEF ForkAlloc
  <2>5. \A q \in Tgids : q # p /\ Stage(q) # "free" => <<Life(q), "fork">> \in Objects \ {e}
    BY <1>3, <2>2, EntryOfProcess, ZenonT(30)
  <2>6. pop.pc = "insert" => pop.obj \in Objects \ {e}
    BY <2>2
  <2>7. \A o \in Objects : obj'[o].at # "none" => o[1] <= lives' /\ obj'[o].pid \in Tgids
    BY <2>20, <2>2, <2>3, <2>4
  <2>8. \A o \in Objects : o[2] = "populate" /\ o[1] > pop'.last => obj'[o].at = "none"
    BY <2>2, <2>3, <2>4
  <2>9. \A q \in Tgids : /\ Stage(q)' = "new" => obj'[<<Life(q)', "fork">>].at = "none"
                         /\ Stage(q)' = "fork_insert" =>
                              obj'[<<Life(q)', "fork">>].at = "private" /\ obj'[<<Life(q)', "fork">>].pid = q
    BY <2>1, <2>3, <2>5
  <2>10. pop'.pc = "insert" =>
           /\ pop'.obj \in Objects /\ pop'.obj = <<pop'.last, "populate">> /\ obj'[pop'.obj].at = "private"
           /\ \A q \in Tgids : Stage(q)' # "free" /\ Life(q)' = pop'.last => obj'[pop'.obj].pid = q
    BY <2>1, <2>2, <2>3, <2>4, <2>6
  <2>11. ASSUME NEW o \in Objects, obj'[o].at = "private"
         PROVE  IF o[2] = "fork" THEN Stage(obj[o].pid)' = "fork_insert" /\ Life(obj[o].pid)' = o[1]
                                 ELSE pop'.pc = "insert" /\ pop'.obj = o
    <3>1. CASE o = e
      BY <2>20, <2>1, <2>2, <2>3, <3>1
    <3>2. CASE o # e
      <4>1. obj'[o] = obj[o]
        BY <2>3, <2>11, <3>2
      <4>2. obj[o].at = "private" /\ obj[o].pid \in Tgids
        BY <2>11, <4>1
      <4>3. Stage(obj[o].pid) = "fork_insert" => obj[o].pid # p
        BY <2>2
      <4>4. QED
        BY <2>1, <2>4, <4>1, <4>2, <4>3
    <3>3. QED
      BY <3>1, <3>2
  <2>12. QED
    BY <2>7, <2>8, <2>9, <2>10, <2>11, ZenonT(30)
<1>4. ASSUME NEW p \in Tgids, ForkRefused(p) PROVE EntriesHaveOwners'
  BY <1>4 DEF ForkRefused, SetStage
<1>5. ASSUME NEW p \in Tgids, ForkInsert(p) PROVE EntriesHaveOwners'
  <2>20. p \in Tgids
    BY <1>5
  <2>0. PICK s \in {"fork_count", "running"} : SetStage(p, s)
    BY <1>5 DEF ForkInsert
  <2>1. \A q \in Tgids : Stage(q)' = (IF q = p THEN s ELSE Stage(q)) /\ Life(q)' = Life(q)
    BY <2>0, StageIsSet
  <2> DEFINE e == <<Life(p), "fork">>
  <2>2. /\ e \in Objects /\ Stage(p) = "fork_insert" /\ e[1] = Life(p) /\ e[2] = "fork"
        /\ obj[e].at = "private" /\ obj[e].pid = p
    BY <1>5, EntryOfProcess DEF ForkInsert
  <2>3. /\ obj'[e].at \in {"linked", "freed"} /\ \A x \in Objects : obj'[x].pid = obj[x].pid
        /\ \A x \in Objects \ {e} : obj'[x].at = obj[x].at
    BY <1>5, <2>2, EntryIsInserted DEF ForkInsert
  <2>4. UNCHANGED <<lives, pop>>
    BY <1>5 DEF ForkInsert
  <2>5. \A q \in Tgids : q # p /\ Stage(q) # "free" => <<Life(q), "fork">> \in Objects \ {e}
    BY <1>5, <2>2, EntryOfProcess, ZenonT(30)
  <2>6. pop.pc = "insert" => pop.obj \in Objects \ {e}
    BY <2>2
  <2>7. \A o \in Objects : obj'[o].at # "none" => o[1] <= lives' /\ obj'[o].pid \in Tgids
    BY <2>20, <2>2, <2>3, <2>4
  <2>8. \A o \in Objects : o[2] = "populate" /\ o[1] > pop'.last => obj'[o].at = "none"
    BY <2>2, <2>3, <2>4
  <2>9. \A q \in Tgids : /\ Stage(q)' = "new" => obj'[<<Life(q)', "fork">>].at = "none"
                         /\ Stage(q)' = "fork_insert" =>
                              obj'[<<Life(q)', "fork">>].at = "private" /\ obj'[<<Life(q)', "fork">>].pid = q
    BY <2>1, <2>3, <2>5
  <2>10. pop'.pc = "insert" =>
           /\ pop'.obj \in Objects /\ pop'.obj = <<pop'.last, "populate">> /\ obj'[pop'.obj].at = "private"
           /\ \A q \in Tgids : Stage(q)' # "free" /\ Life(q)' = pop'.last => obj'[pop'.obj].pid = q
    BY <2>1, <2>2, <2>3, <2>4, <2>6
  <2>11. ASSUME NEW o \in Objects, obj'[o].at = "private"
         PROVE  IF o[2] = "fork" THEN Stage(obj[o].pid)' = "fork_insert" /\ Life(obj[o].pid)' = o[1]
                                 ELSE pop'.pc = "insert" /\ pop'.obj = o
    <3>1. o # e /\ obj[o].at = "private" /\ obj'[o].pid = obj[o].pid /\ obj[o].pid \in Tgids
      <4>1. o # e
        BY <2>3, <2>11
      <4>2. obj'[o].at = obj[o].at /\ obj'[o].pid = obj[o].pid
        BY <2>3, <2>11, <4>1
      <4>3. QED
        BY <2>11, <4>1, <4>2
    <3>2. CASE o[2] = "fork"
      <4>1. Stage(obj[o].pid) = "fork_insert" /\ Life(obj[o].pid) = o[1]
        BY <3>1, <3>2
      <4>2. obj[o].pid # p
        BY <1>5, <3>1, <3>2, <4>1 DEF Objects
      <4>3. QED
        BY <2>1, <3>1, <3>2, <4>1, <4>2
    <3>3. CASE o[2] # "fork"
      BY <2>4, <3>1, <3>3
    <3>4. QED
      BY <3>2, <3>3
  <2>12. QED
    BY <2>7, <2>8, <2>9, <2>10, <2>11
<1>6. ASSUME NEW p \in Tgids, ForkCount(p) PROVE EntriesHaveOwners'
  BY <1>6 DEF ForkCount, SetStage
<1>7. ASSUME NEW p \in Tgids, ExecHook(p) PROVE EntriesHaveOwners'
  BY <1>7 DEF ExecHook, SetStage
<1>8. ASSUME NEW p \in Tgids, ExecDone(p) PROVE EntriesHaveOwners'
  BY <1>8 DEF ExecDone, SetStage
<1>9. ASSUME NEW p \in Tgids, ExitUnlink(p) PROVE EntriesHaveOwners'
  <2>20. p \in Tgids
    BY <1>9
  <2>1. PICK s \in {"exit_count", "zombie", "headless"} : SetStage(p, s)
    BY <1>9 DEF ExitUnlink
  <2>2. \A q \in Tgids : Stage(q)' = (IF q = p THEN s ELSE Stage(q)) /\ Life(q)' = Life(q)
    BY <2>1, StageIsSet
  <2>3. /\ UNCHANGED <<lives, pop>> /\ Stage(p) = "running"
        /\ \A x \in Objects : /\ obj'[x].pid = obj[x].pid
                              /\ obj'[x].at = obj[x].at \/ (obj[x].at = "linked" /\ obj'[x].at = "removed")
    BY <1>9 DEF ExitUnlink, Linked
  <2>4. \A q \in Tgids : Stage(q) # "free" => <<Life(q), "fork">> \in Objects
    BY EntryOfProcess
  <2>5. \A o \in Objects : obj'[o].at = "private" => obj[o].at = "private" /\ obj[o].pid \in Tgids
    BY <2>20, <2>3
  <2>6. \A o \in Objects : /\ obj'[o].at # "none" => o[1] <= lives' /\ obj'[o].pid \in Tgids
                           /\ o[2] = "populate" /\ o[1] > pop'.last => obj'[o].at = "none"
    BY <2>3
  <2>7. \A q \in Tgids : /\ Stage(q)' = "new" => obj'[<<Life(q)', "fork">>].at = "none"
                         /\ Stage(q)' = "fork_insert" =>
                              obj'[<<Life(q)', "fork">>].at = "private" /\ obj'[<<Life(q)', "fork">>].pid = q
    BY <2>2, <2>3, <2>4
  <2>8. pop'.pc = "insert" =>
           /\ pop'.obj \in Objects /\ pop'.obj = <<pop'.last, "populate">> /\ obj'[pop'.obj].at = "private"
           /\ \A q \in Tgids : Stage(q)' # "free" /\ Life(q)' = pop'.last => obj'[pop'.obj].pid = q
    BY <2>2, <2>3, SMTT(30)
  <2>9. \A o \in Objects : obj'[o].at = "private" =>
           IF o[2] = "fork" THEN Stage(obj[o].pid)' = "fork_insert" /\ Life(obj[o].pid)' = o[1]
                            ELSE pop'.pc = "insert" /\ pop'.obj = o
    BY <2>20, <2>2, <2>3, <2>5
  <2>10. QED
    BY <2>6, <2>7, <2>8, <2>9
<1>10. ASSUME NEW p \in Tgids, ExitCount(p) PROVE EntriesHaveOwners'
  BY <1>10 DEF ExitCount, SetStage, RetireEntry
<1>11. ASSUME NEW p \in Tgids, LastThread(p) PROVE EntriesHaveOwners'
  BY <1>11 DEF LastThread, SetStage
<1>12. ASSUME NEW p \in Tgids, ReapTask(p) PROVE EntriesHaveOwners'
  BY <1>12 DEF ReapTask
<1>13. ASSUME NEW h \in Hooks, RegisterHook(h) PROVE EntriesHaveOwners'
  BY <1>13, LoadSteps DEF RegisterHook
<1>14. ASSUME NEW h \in Hooks, RegisterFails(h) PROVE EntriesHaveOwners'
  BY <1>14 DEF RegisterFails
<1>15. ASSUME NEW h \in Hooks, UnregisterHook(h) PROVE EntriesHaveOwners'
  BY <1>15 DEF UnregisterHook, InHandler
<1>16. ASSUME NEW p \in Tgids, PopulateAlloc(p) PROVE EntriesHaveOwners'
  <2>20. p \in Tgids
    BY <1>16
  <2>1. /\ mpc = "populate" /\ pop.pc = "walk" /\ Stage(p) # "free" /\ Life(p) > pop.last
        /\ UNCHANGED <<listed, lives>>
    BY <1>16, VisitedIsNext DEF PopulateAlloc
  <2> DEFINE e == <<Life(p), "populate">>
  <2>2. /\ e \in Objects /\ e[1] = Life(p) /\ e[2] = "populate" /\ Life(p) \in Int /\ Life(p) <= lives
        /\ pop' = [pc |-> "insert", last |-> Life(p), obj |-> e]
    BY <1>16, <2>1, EntryOfProcess DEF PopulateAlloc
  <2>3. /\ obj'[e].at = "private" /\ obj'[e].pid = p
        /\ \A x \in Objects \ {e} : obj'[x] = obj[x]
    <3>1. obj' = [obj EXCEPT ![e] = Allocated(p)]
      BY <1>16 DEF PopulateAlloc
    <3> HIDE DEF e, EntriesHaveOwners, LivesAreUnique, KernelTypeOK
    <3>2. QED
      BY <2>20, <2>2, <3>1 DEF KernelTypeOK, Allocated
  <2>4. \A q \in Tgids : Stage(q) # "free" => <<Life(q), "fork">> \in Objects \ {e}
    BY <1>16, <2>2, EntryOfProcess
  <2>5. pop.last \in Int /\ \A o \in Objects : o[1] \in Int
    BY DEF Objects
  <2>6. \A o \in Objects : o[2] = "populate" /\ o[1] > pop'.last => obj'[o].at = "none"
    BY <2>1, <2>2, <2>3, <2>5
  <2>7. ASSUME NEW o \in Objects, obj'[o].at # "none" PROVE o[1] <= lives' /\ obj'[o].pid \in Tgids
    <3>1. CASE o = e
      BY <2>20, <2>1, <2>2, <2>3, <3>1
    <3>2. CASE o # e
      <4>1. obj'[o] = obj[o]
        BY <2>3, <2>7, <3>2
      <4>2. QED
        BY <2>1, <2>7, <4>1
    <3>3. QED
      BY <3>1, <3>2
  <2>8. \A q \in Tgids : /\ Stage(q)' = "new" => obj'[<<Life(q)', "fork">>].at = "none"
                         /\ Stage(q)' = "fork_insert" =>
                              obj'[<<Life(q)', "fork">>].at = "private" /\ obj'[<<Life(q)', "fork">>].pid = q
    BY <2>1, <2>3, <2>4
  <2>9. pop'.pc = "insert" =>
           /\ pop'.obj \in Objects /\ pop'.obj = <<pop'.last, "populate">> /\ obj'[pop'.obj].at = "private"
           /\ \A q \in Tgids : Stage(q)' # "free" /\ Life(q)' = pop'.last => obj'[pop'.obj].pid = q
    BY <2>1, <2>2, <2>3, ZenonT(30)
  <2>10. \A o \in Objects : obj'[o].at = "private" =>
           IF o[2] = "fork" THEN Stage(obj[o].pid)' = "fork_insert" /\ Life(obj[o].pid)' = o[1]
                            ELSE pop'.pc = "insert" /\ pop'.obj = o
    BY <2>20, <2>1, <2>2, <2>3
  <2>11. QED
    BY <2>6, <2>7, <2>8, <2>9, <2>10
<1>17. ASSUME NEW p \in Tgids, PopulateRefused(p) PROVE EntriesHaveOwners'
  <2>20. p \in Tgids
    BY <1>17
  <2>1. /\ pop.pc = "walk" /\ Life(p) > pop.last /\ Life(p) \in Int
        /\ UNCHANGED <<listed, lives, obj>> /\ pop'.pc = "walk" /\ pop'.last = Life(p)
    BY <1>17, VisitedIsNext, EntryOfProcess DEF PopulateRefused
  <2>2. pop.last \in Int /\ \A o \in Objects : o[1] \in Int
    BY DEF Objects
  <2>3. QED
    BY <2>1, <2>2
<1>18. CASE PopulateInsert
  BY <1>18 DEF PopulateInsert, Insert, Linked
<1>19. CASE PopulateCount
  BY <1>19 DEF PopulateCount
<1>20. CASE PopulateDone
  BY <1>20, LoadSteps DEF PopulateDone, NotVisited
<1>21. CASE RefreshStart
  BY <1>21, LoadSteps DEF RefreshStart
<1>22. CASE NetlinkInit
  BY <1>22, LoadSteps DEF NetlinkInit
<1>23. CASE NetlinkExit
  BY <1>23 DEF NetlinkExit
<1>24. CASE RefreshStop
  BY <1>24 DEF RefreshStop
<1>25. CASE RefreshCancel
  BY <1>25 DEF RefreshCancel
<1>26. CASE TableDestroy
  <2>1. /\ UNCHANGED <<listed, lives, pop>>
        /\ \A x \in Objects : /\ obj'[x].pid = obj[x].pid
                              /\ obj'[x].at = obj[x].at \/ (obj[x].at = "linked" /\ obj'[x].at = "freed")
    BY <1>26 DEF TableDestroy, Table
  <2>2. \A q \in Tgids : Stage(q) # "free" => <<Life(q), "fork">> \in Objects
    BY EntryOfProcess
  <2>3. QED
    BY <2>1, <2>2
<1>27. CASE RefreshProc
  BY <1>27 DEF RefreshProc
<1>28. CASE SnapshotProc
  BY <1>28 DEF SnapshotProc
<1>29. CASE RcuFree
  <2>1. PICK r \in rcu : obj' = [obj EXCEPT ![r.obj].at = "freed"] /\ UNCHANGED <<listed, lives, pop>>
    BY <1>29 DEF RcuFree
  <2>2. r.obj \in Objects /\ obj[r.obj].at = "removed"
    BY DEF RemovedOnce
  <2>3. \A x \in Objects : /\ obj'[x].pid = obj[x].pid
                           /\ obj'[x].at = obj[x].at \/ (obj[x].at = "removed" /\ obj'[x].at = "freed")
    BY <2>1, <2>2
  <2>4. \A q \in Tgids : Stage(q) # "free" => <<Life(q), "fork">> \in Objects
    BY EntryOfProcess
  <2>5. UNCHANGED <<listed, lives, pop>>
    BY <2>1
  <2>6. \A o \in Objects : /\ obj'[o].at # "none" => o[1] <= lives' /\ obj'[o].pid \in Tgids
                           /\ o[2] = "populate" /\ o[1] > pop'.last => obj'[o].at = "none"
    BY <2>3, <2>5
  <2>7. \A q \in Tgids : /\ Stage(q)' = "new" => obj'[<<Life(q)', "fork">>].at = "none"
                         /\ Stage(q)' = "fork_insert" =>
                              obj'[<<Life(q)', "fork">>].at = "private" /\ obj'[<<Life(q)', "fork">>].pid = q
    BY <2>3, <2>4, <2>5
  <2>8. pop'.pc = "insert" =>
           /\ pop'.obj \in Objects /\ pop'.obj = <<pop'.last, "populate">> /\ obj'[pop'.obj].at = "private"
           /\ \A q \in Tgids : Stage(q)' # "free" /\ Life(q)' = pop'.last => obj'[pop'.obj].pid = q
    BY <2>3, <2>5
  <2>9. \A o \in Objects : obj'[o].at = "private" =>
           IF o[2] = "fork" THEN Stage(obj[o].pid)' = "fork_insert" /\ Life(obj[o].pid)' = o[1]
                            ELSE pop'.pc = "insert" /\ pop'.obj = o
    BY <2>3, <2>5
  <2>10. QED
    BY <2>6, <2>7, <2>8, <2>9, ZenonT(30)
<1>30. ASSUME NEW w \in Walkers, WalkBegin(w) PROVE EntriesHaveOwners'
  BY <1>30 DEF WalkBegin
<1>31. ASSUME NEW w \in Walkers, WalkNext(w) PROVE EntriesHaveOwners'
  BY <1>31 DEF WalkNext, Linked
<1>32. ASSUME NEW w \in Walkers, WalkEnd(w) PROVE EntriesHaveOwners'
  BY <1>32 DEF WalkEnd
<1>33. CASE UNCHANGED tableVars
  BY <1>33 DEF tableVars
<1>34. QED
  BY <1>1, <1>2, <1>3, <1>4, <1>5, <1>6, <1>7, <1>8, <1>9, <1>10, <1>11, <1>12, <1>13, <1>14,
     <1>15, <1>16, <1>17, <1>18, <1>19, <1>20, <1>21, <1>22, <1>23, <1>24, <1>25, <1>26, <1>27, <1>28,
     <1>29, <1>30, <1>31, <1>32, <1>33
  DEF KernelNext, TaskStep, Load, Unload, Walk

\* No two entries of one pid come into the table.
LEMMA TableKeepsOneEach == KernelInv /\ [KernelNext]_tableVars => LinkedOnce'
<1> SUFFICES ASSUME KernelTypeOK, HooksFollow, WalksFollow, LivesAreUnique, EntriesHaveOwners, LinkedOnce, RemovedOnce,
                    HeldSafely, NoneMissed, CountIsExact,
                    [KernelNext]_tableVars
             PROVE  LinkedOnce'
  BY DEF KernelInv
<1> USE KernelAssumption DEF KernelTypeOK, HooksFollow, EntriesHaveOwners, LinkedOnce, Table, Stage, Life, listedVars, modVars
<1>1. ASSUME NEW p \in Tgids, Clone(p) PROVE LinkedOnce'
  BY <1>1 DEF Clone
<1>2. ASSUME NEW p \in Tgids, WakeUnhooked(p) PROVE LinkedOnce'
  BY <1>2 DEF WakeUnhooked, SetStage
<1>3. ASSUME NEW p \in Tgids, ForkAlloc(p) PROVE LinkedOnce'
  BY <1>3 DEF ForkAlloc, SetStage, Allocated
<1>4. ASSUME NEW p \in Tgids, ForkRefused(p) PROVE LinkedOnce'
  BY <1>4 DEF ForkRefused, SetStage
<1>5. ASSUME NEW p \in Tgids, ForkInsert(p) PROVE LinkedOnce'
  BY <1>5 DEF ForkInsert, SetStage, Insert, Linked
<1>6. ASSUME NEW p \in Tgids, ForkCount(p) PROVE LinkedOnce'
  BY <1>6 DEF ForkCount, SetStage
<1>7. ASSUME NEW p \in Tgids, ExecHook(p) PROVE LinkedOnce'
  BY <1>7 DEF ExecHook, SetStage
<1>8. ASSUME NEW p \in Tgids, ExecDone(p) PROVE LinkedOnce'
  BY <1>8 DEF ExecDone, SetStage
<1>9. ASSUME NEW p \in Tgids, ExitUnlink(p) PROVE LinkedOnce'
  BY <1>9 DEF ExitUnlink, SetStage, Linked
<1>10. ASSUME NEW p \in Tgids, ExitCount(p) PROVE LinkedOnce'
  BY <1>10 DEF ExitCount, SetStage, RetireEntry
<1>11. ASSUME NEW p \in Tgids, LastThread(p) PROVE LinkedOnce'
  BY <1>11 DEF LastThread, SetStage
<1>12. ASSUME NEW p \in Tgids, ReapTask(p) PROVE LinkedOnce'
  BY <1>12 DEF ReapTask
<1>13. ASSUME NEW h \in Hooks, RegisterHook(h) PROVE LinkedOnce'
  BY <1>13, LoadSteps DEF RegisterHook, Hooks
<1>14. ASSUME NEW h \in Hooks, RegisterFails(h) PROVE LinkedOnce'
  BY <1>14 DEF RegisterFails, Hooks
<1>15. ASSUME NEW h \in Hooks, UnregisterHook(h) PROVE LinkedOnce'
  BY <1>15 DEF UnregisterHook, Hooks
<1>16. ASSUME NEW p \in Tgids, PopulateAlloc(p) PROVE LinkedOnce'
  BY <1>16 DEF PopulateAlloc, Visits, NotVisited, Allocated
<1>17. ASSUME NEW p \in Tgids, PopulateRefused(p) PROVE LinkedOnce'
  BY <1>17 DEF PopulateRefused, Visits, NotVisited
<1>18. CASE PopulateInsert
  <2>1. pop.obj \in Objects /\ Insert(pop.obj, obj[pop.obj].pid) /\ mpc' = "populate"
    BY <1>18 DEF PopulateInsert, WalksFollow
  <2>2. /\ obj'[pop.obj].at = (IF Linked(obj[pop.obj].pid) = {} THEN "linked" ELSE "freed")
        /\ \A x \in Objects : obj'[x].pid = obj[x].pid
        /\ \A x \in Objects \ {pop.obj} : obj'[x].at = obj[x].at
    BY <2>1, EntryIsInserted
  <2>3. Linked(obj[pop.obj].pid) = {} =>
          \A x \in Objects : obj[x].at = "linked" => obj[x].pid # obj[pop.obj].pid
    BY DEF Linked
  <2>4. ASSUME NEW o1 \in Objects, NEW o2 \in Objects, obj'[o1].at = "linked", obj'[o2].at = "linked",
               obj'[o1].pid = obj'[o2].pid
        PROVE  o1 = o2
    BY <2>2, <2>3, <2>4
  <2>5. QED
    BY <2>1, <2>4
<1>19. CASE PopulateCount
  BY <1>19 DEF PopulateCount
<1>20. CASE PopulateDone
  BY <1>20, LoadSteps DEF PopulateDone, NotVisited
<1>21. CASE RefreshStart
  BY <1>21, LoadSteps DEF RefreshStart
<1>22. CASE NetlinkInit
  BY <1>22, LoadSteps DEF NetlinkInit
<1>23. CASE NetlinkExit
  BY <1>23 DEF NetlinkExit
<1>24. CASE RefreshStop
  BY <1>24 DEF RefreshStop
<1>25. CASE RefreshCancel
  BY <1>25 DEF RefreshCancel
<1>26. CASE TableDestroy
  BY <1>26 DEF TableDestroy, Table
<1>27. CASE RefreshProc
  BY <1>27 DEF RefreshProc
<1>28. CASE SnapshotProc
  BY <1>28 DEF SnapshotProc
<1>29. CASE RcuFree
  BY <1>29 DEF RcuFree
<1>30. ASSUME NEW w \in Walkers, WalkBegin(w) PROVE LinkedOnce'
  BY <1>30 DEF WalkBegin
<1>31. ASSUME NEW w \in Walkers, WalkNext(w) PROVE LinkedOnce'
  BY <1>31 DEF WalkNext, Linked
<1>32. ASSUME NEW w \in Walkers, WalkEnd(w) PROVE LinkedOnce'
  BY <1>32 DEF WalkEnd
<1>33. CASE UNCHANGED tableVars
  BY <1>33 DEF tableVars
<1>34. QED
  BY <1>1, <1>2, <1>3, <1>4, <1>5, <1>6, <1>7, <1>8, <1>9, <1>10, <1>11, <1>12, <1>13, <1>14,
     <1>15, <1>16, <1>17, <1>18, <1>19, <1>20, <1>21, <1>22, <1>23, <1>24, <1>25, <1>26, <1>27, <1>28,
     <1>29, <1>30, <1>31, <1>32, <1>33
  DEF KernelNext, TaskStep, Load, Unload, Walk

\* An entry is removed by one exit handler and retired by it.
LEMMA RemovalIsOnce == KernelInv /\ [KernelNext]_tableVars => RemovedOnce'
<1> SUFFICES ASSUME KernelTypeOK, HooksFollow, WalksFollow, LivesAreUnique, EntriesHaveOwners, LinkedOnce, RemovedOnce,
                    HeldSafely, NoneMissed, CountIsExact,
                    [KernelNext]_tableVars
             PROVE  RemovedOnce'
  BY DEF KernelInv
<1> USE KernelAssumption DEF KernelTypeOK, EntriesHaveOwners, LinkedOnce, RemovedOnce, Retired, Table, Stage, Life, listedVars, modVars
<1>1. ASSUME NEW p \in Tgids, Clone(p) PROVE RemovedOnce'
  BY <1>1 DEF Clone
<1>2. ASSUME NEW p \in Tgids, WakeUnhooked(p) PROVE RemovedOnce'
  BY <1>2 DEF WakeUnhooked, SetStage
<1>3. ASSUME NEW p \in Tgids, ForkAlloc(p) PROVE RemovedOnce'
  <2>1. \A q \in Tgids : Stage(q)' = "exit_count" <=> Stage(q) = "exit_count"
    BY <1>3, StageIsSet DEF ForkAlloc
  <2>2. <<Life(p), "fork">> \in Objects /\ obj[<<Life(p), "fork">>].at = "none"
    BY <1>3, EntryOfProcess DEF ForkAlloc
  <2>3. \A x \in Objects : obj'[x] = obj[x] \/ (obj[x].at = "none" /\ obj'[x].at = "private")
    BY <1>3, <2>2 DEF ForkAlloc, Allocated
  <2>4. rcu' = rcu
    BY <1>3 DEF ForkAlloc
  <2>5. QED
    BY <2>1, <2>3, <2>4, SMTT(30)
<1>4. ASSUME NEW p \in Tgids, ForkRefused(p) PROVE RemovedOnce'
  BY <1>4 DEF ForkRefused, SetStage
<1>5. ASSUME NEW p \in Tgids, ForkInsert(p) PROVE RemovedOnce'
  <2>0. PICK s \in {"fork_count", "running"} : SetStage(p, s)
    BY <1>5 DEF ForkInsert
  <2>1. \A q \in Tgids : Stage(q)' = "exit_count" <=> Stage(q) = "exit_count"
    BY <1>5, <2>0, StageIsSet DEF ForkInsert
  <2>2. <<Life(p), "fork">> \in Objects /\ obj[<<Life(p), "fork">>].at = "private"
    BY <1>5, EntryOfProcess DEF ForkInsert
  <2>3. \A x \in Objects : /\ obj'[x].pid = obj[x].pid
                           /\ obj'[x].at = obj[x].at
                              \/ (obj[x].at = "private" /\ obj'[x].at \in {"linked", "freed"})
    BY <1>5, <2>2, EntryIsInserted DEF ForkInsert
  <2>4. rcu' = rcu
    BY <1>5 DEF ForkInsert
  <2>5. QED
    BY <2>1, <2>3, <2>4, SMTT(30)
<1>6. ASSUME NEW p \in Tgids, ForkCount(p) PROVE RemovedOnce'
  BY <1>6 DEF ForkCount, SetStage
<1>7. ASSUME NEW p \in Tgids, ExecHook(p) PROVE RemovedOnce'
  BY <1>7 DEF ExecHook, SetStage
<1>8. ASSUME NEW p \in Tgids, ExecDone(p) PROVE RemovedOnce'
  BY <1>8 DEF ExecDone, SetStage
<1>9. ASSUME NEW p \in Tgids, ExitUnlink(p) PROVE RemovedOnce'
  BY <1>9, SMTT(30) DEF ExitUnlink, SetStage, Linked
<1>10. ASSUME NEW p \in Tgids, ExitCount(p) PROVE RemovedOnce'
  <2>1. PICK o \in Objects : /\ obj[o].at = "removed" /\ obj[o].pid = p /\ ~Retired(o)
                             /\ RetireEntry(o)
    BY <1>10 DEF ExitCount
  <2>2. PICK s \in {"zombie", "headless"} : SetStage(p, s)
    BY <1>10 DEF ExitCount
  <2>3. \A q \in Tgids : q # p => Stage(q)' = Stage(q)
    BY <1>10, <2>2, StageIsSet
  <2>4. PICK e : e.obj = o /\ rcu' = rcu \cup {e} /\ obj' = obj
    BY <2>1 DEF RetireEntry
  <2>5. \A x \in Objects : Retired(x)' <=> Retired(x) \/ x = o
    BY <2>4
  <2>6. \A r \in rcu' : obj'[r.obj].at = "removed"
    BY <2>1, <2>4
  <2>7. \A r1, r2 \in rcu' : r1.obj = r2.obj => r1 = r2
    BY <2>1, <2>4
  <2>8. ASSUME NEW x \in Objects, obj'[x].at = "removed", ~Retired(x)' PROVE Stage(obj[x].pid)' = "exit_count"
    <3>1. obj[x].at = "removed" /\ ~Retired(x) /\ x # o
      BY <2>4, <2>5, <2>8
    <3>2. obj[x].pid # p /\ obj[x].pid \in Tgids
      BY <2>1, <3>1
    <3>3. QED
      BY <2>3, <2>4, <3>1, <3>2
  <2>9. QED
    BY <2>4, <2>5, <2>6, <2>7, <2>8, SMTT(30)
<1>11. ASSUME NEW p \in Tgids, LastThread(p) PROVE RemovedOnce'
  BY <1>11 DEF LastThread, SetStage
<1>12. ASSUME NEW p \in Tgids, ReapTask(p) PROVE RemovedOnce'
  BY <1>12 DEF ReapTask
<1>13. ASSUME NEW h \in Hooks, RegisterHook(h) PROVE RemovedOnce'
  BY <1>13, LoadSteps DEF RegisterHook
<1>14. ASSUME NEW h \in Hooks, RegisterFails(h) PROVE RemovedOnce'
  BY <1>14 DEF RegisterFails
<1>15. ASSUME NEW h \in Hooks, UnregisterHook(h) PROVE RemovedOnce'
  BY <1>15 DEF UnregisterHook, InHandler
<1>16. ASSUME NEW p \in Tgids, PopulateAlloc(p) PROVE RemovedOnce'
  BY <1>16, SMTT(30) DEF PopulateAlloc, Visits, NotVisited, Allocated
<1>17. ASSUME NEW p \in Tgids, PopulateRefused(p) PROVE RemovedOnce'
  BY <1>17 DEF PopulateRefused, Visits, NotVisited
<1>18. CASE PopulateInsert
  <2>1. pop.obj \in Objects /\ obj[pop.obj].at = "private" /\ UNCHANGED <<listed, rcu>>
    BY <1>18 DEF PopulateInsert
  <2>2. \A x \in Objects : /\ obj'[x].pid = obj[x].pid
                           /\ obj'[x].at = obj[x].at
                              \/ (obj[x].at = "private" /\ obj'[x].at \in {"linked", "freed"})
    BY <1>18, <2>1, EntryIsInserted DEF PopulateInsert
  <2>3. QED
    BY <2>1, <2>2, SMTT(30)
<1>19. CASE PopulateCount
  BY <1>19 DEF PopulateCount
<1>20. CASE PopulateDone
  BY <1>20, LoadSteps DEF PopulateDone, NotVisited
<1>21. CASE RefreshStart
  BY <1>21, LoadSteps DEF RefreshStart
<1>22. CASE NetlinkInit
  BY <1>22, LoadSteps DEF NetlinkInit
<1>23. CASE NetlinkExit
  BY <1>23 DEF NetlinkExit
<1>24. CASE RefreshStop
  BY <1>24 DEF RefreshStop
<1>25. CASE RefreshCancel
  BY <1>25 DEF RefreshCancel
<1>26. CASE TableDestroy
  BY <1>26 DEF TableDestroy, Table
<1>27. CASE RefreshProc
  BY <1>27 DEF RefreshProc
<1>28. CASE SnapshotProc
  BY <1>28 DEF SnapshotProc
<1>29. CASE RcuFree
  BY <1>29 DEF RcuFree
<1>30. ASSUME NEW w \in Walkers, WalkBegin(w) PROVE RemovedOnce'
  BY <1>30 DEF WalkBegin
<1>31. ASSUME NEW w \in Walkers, WalkNext(w) PROVE RemovedOnce'
  BY <1>31 DEF WalkNext, Linked
<1>32. ASSUME NEW w \in Walkers, WalkEnd(w) PROVE RemovedOnce'
  <2> DEFINE Waits(r) == [r EXCEPT !.readers = r.readers \ {w}]
  <2>1. UNCHANGED <<listed, obj>> /\ rcu' = {Waits(r) : r \in rcu}
    BY <1>32 DEF WalkEnd
  <2>2. \A r \in rcu : Waits(r).obj = r.obj
    OBVIOUS
  <2> HIDE DEF Waits
  <2>3. \A r \in rcu' : \E r0 \in rcu : r = Waits(r0) /\ r.obj = r0.obj
    BY <2>1, <2>2
  <2>4. \A r0 \in rcu : Waits(r0) \in rcu' /\ Waits(r0).obj = r0.obj
    BY <2>1, <2>2
  <2>5. ASSUME NEW x \in Objects PROVE Retired(x)' <=> Retired(x)
    <3>1. Retired(x)' => Retired(x)
      BY <2>3 DEF Retired
    <3>2. Retired(x) => Retired(x)'
      BY <2>4 DEF Retired
    <3>3. QED
      BY <3>1, <3>2
  <2>6. ASSUME NEW r1 \in rcu', NEW r2 \in rcu', r1.obj = r2.obj PROVE r1 = r2
    <3>1. PICK s1 \in rcu : r1 = Waits(s1) /\ r1.obj = s1.obj
      BY <2>3
    <3>2. PICK s2 \in rcu : r2 = Waits(s2) /\ r2.obj = s2.obj
      BY <2>3
    <3>3. s1 = s2
      BY <2>6, <3>1, <3>2
    <3>4. QED
      BY <3>1, <3>2, <3>3
  <2>7. \A r \in rcu' : obj'[r.obj].at = "removed"
    BY <2>1, <2>3
  <2>8. QED
    BY <2>1, <2>5, <2>6, <2>7, SMTT(30)
<1>33. CASE UNCHANGED tableVars
  BY <1>33 DEF tableVars
<1>34. QED
  BY <1>1, <1>2, <1>3, <1>4, <1>5, <1>6, <1>7, <1>8, <1>9, <1>10, <1>11, <1>12, <1>13, <1>14,
     <1>15, <1>16, <1>17, <1>18, <1>19, <1>20, <1>21, <1>22, <1>23, <1>24, <1>25, <1>26, <1>27, <1>28,
     <1>29, <1>30, <1>31, <1>32, <1>33
  DEF KernelNext, TaskStep, Load, Unload, Walk

\* RCU frees nothing a walk has in hand.
LEMMA HandsStaySafe == KernelInv /\ [KernelNext]_tableVars => HeldSafely'
<1> SUFFICES ASSUME KernelTypeOK, HooksFollow, WalksFollow, LivesAreUnique, EntriesHaveOwners, LinkedOnce, RemovedOnce,
                    HeldSafely, NoneMissed, CountIsExact,
                    [KernelNext]_tableVars
             PROVE  HeldSafely'
  BY DEF KernelInv
<1> USE KernelAssumption DEF KernelTypeOK, WalksFollow, EntriesHaveOwners, RemovedOnce, HeldSafely, Table, Stage, Life, listedVars, modVars
<1>1. ASSUME NEW p \in Tgids, Clone(p) PROVE HeldSafely'
  BY <1>1 DEF Clone
<1>2. ASSUME NEW p \in Tgids, WakeUnhooked(p) PROVE HeldSafely'
  BY <1>2 DEF WakeUnhooked, SetStage
<1>3. ASSUME NEW p \in Tgids, ForkAlloc(p) PROVE HeldSafely'
  BY <1>3 DEF ForkAlloc, SetStage, Allocated
<1>4. ASSUME NEW p \in Tgids, ForkRefused(p) PROVE HeldSafely'
  BY <1>4 DEF ForkRefused, SetStage
<1>5. ASSUME NEW p \in Tgids, ForkInsert(p) PROVE HeldSafely'
  BY <1>5 DEF ForkInsert, SetStage, Insert, Linked
<1>6. ASSUME NEW p \in Tgids, ForkCount(p) PROVE HeldSafely'
  BY <1>6 DEF ForkCount, SetStage
<1>7. ASSUME NEW p \in Tgids, ExecHook(p) PROVE HeldSafely'
  BY <1>7 DEF ExecHook, SetStage
<1>8. ASSUME NEW p \in Tgids, ExecDone(p) PROVE HeldSafely'
  BY <1>8 DEF ExecDone, SetStage
<1>9. ASSUME NEW p \in Tgids, ExitUnlink(p) PROVE HeldSafely'
  BY <1>9 DEF ExitUnlink, SetStage, Linked
<1>10. ASSUME NEW p \in Tgids, ExitCount(p) PROVE HeldSafely'
  BY <1>10 DEF ExitCount, SetStage, RetireEntry
<1>11. ASSUME NEW p \in Tgids, LastThread(p) PROVE HeldSafely'
  BY <1>11 DEF LastThread, SetStage
<1>12. ASSUME NEW p \in Tgids, ReapTask(p) PROVE HeldSafely'
  BY <1>12 DEF ReapTask
<1>13. ASSUME NEW h \in Hooks, RegisterHook(h) PROVE HeldSafely'
  BY <1>13, LoadSteps DEF RegisterHook
<1>14. ASSUME NEW h \in Hooks, RegisterFails(h) PROVE HeldSafely'
  BY <1>14 DEF RegisterFails
<1>15. ASSUME NEW h \in Hooks, UnregisterHook(h) PROVE HeldSafely'
  BY <1>15 DEF UnregisterHook, InHandler
<1>16. ASSUME NEW p \in Tgids, PopulateAlloc(p) PROVE HeldSafely'
  BY <1>16, SMTT(30) DEF PopulateAlloc, Visits, NotVisited, Allocated
<1>17. ASSUME NEW p \in Tgids, PopulateRefused(p) PROVE HeldSafely'
  BY <1>17 DEF PopulateRefused, Visits, NotVisited
<1>18. CASE PopulateInsert
  BY <1>18 DEF PopulateInsert, Insert, Linked
<1>19. CASE PopulateCount
  BY <1>19 DEF PopulateCount
<1>20. CASE PopulateDone
  BY <1>20, LoadSteps DEF PopulateDone, NotVisited
<1>21. CASE RefreshStart
  BY <1>21, LoadSteps DEF RefreshStart
<1>22. CASE NetlinkInit
  BY <1>22, LoadSteps DEF NetlinkInit
<1>23. CASE NetlinkExit
  BY <1>23 DEF NetlinkExit
<1>24. CASE RefreshStop
  BY <1>24 DEF RefreshStop
<1>25. CASE RefreshCancel
  BY <1>25 DEF RefreshCancel
<1>26. CASE TableDestroy
  <2>1. /\ UNCHANGED <<walk, rcu>> /\ mpc = "x_table"
        /\ \A w \in Walkers : w \in {"refresh", "snapshot"}
    BY <1>26 DEF TableDestroy, Walkers
  <2>2. \A w \in Walkers : walk[w].pc # "hold"
    BY <2>1
  <2>3. QED
    BY <2>1, <2>2
<1>27. CASE RefreshProc
  BY <1>27 DEF RefreshProc
<1>28. CASE SnapshotProc
  BY <1>28 DEF SnapshotProc
<1>29. CASE RcuFree
  BY <1>29 DEF RcuFree
<1>30. ASSUME NEW w \in Walkers, WalkBegin(w) PROVE HeldSafely'
  BY <1>30 DEF WalkBegin
<1>31. ASSUME NEW w \in Walkers, WalkNext(w) PROVE HeldSafely'
  <2>1. PICK q \in Tgids :
          \/ walk' = [walk EXCEPT ![w].todo = walk[w].todo \ {q}]
          \/ \E o \in Linked(q) :
               walk' = [walk EXCEPT ![w] = [pc |-> "hold", todo |-> walk[w].todo \ {q}, at |-> o]]
    BY <1>31 DEF WalkNext
  <2>2. UNCHANGED <<obj, rcu>> /\ walk[w].pc = "walk" /\ w \in Walkers
    BY <1>31 DEF WalkNext
  <2>3. CASE walk' = [walk EXCEPT ![w].todo = walk[w].todo \ {q}]
    <3>1. \A v \in Walkers : walk'[v].pc = walk[v].pc /\ walk'[v].at = walk[v].at
      BY <2>2, <2>3
    <3>2. QED
      BY <2>2, <3>1
  <2>4. CASE \E o \in Linked(q) :
               walk' = [walk EXCEPT ![w] = [pc |-> "hold", todo |-> walk[w].todo \ {q}, at |-> o]]
    <3>1. PICK o \in Linked(q) :
            walk' = [walk EXCEPT ![w] = [pc |-> "hold", todo |-> walk[w].todo \ {q}, at |-> o]]
      BY <2>4
    <3>2. o \in Objects /\ obj[o].at = "linked" /\ \A r \in rcu : r.obj # o
      BY <3>1 DEF Linked
    <3>3. walk'[w].at = o /\ \A v \in Walkers \ {w} : walk'[v] = walk[v]
      BY <2>2, <3>1
    <3>4. QED
      BY <2>2, <3>2, <3>3
  <2>5. QED
    BY <2>1, <2>3, <2>4
<1>32. ASSUME NEW w \in Walkers, WalkEnd(w) PROVE HeldSafely'
  BY <1>32 DEF WalkEnd
<1>33. CASE UNCHANGED tableVars
  BY <1>33 DEF tableVars
<1>34. QED
  BY <1>1, <1>2, <1>3, <1>4, <1>5, <1>6, <1>7, <1>8, <1>9, <1>10, <1>11, <1>12, <1>13, <1>14,
     <1>15, <1>16, <1>17, <1>18, <1>19, <1>20, <1>21, <1>22, <1>23, <1>24, <1>25, <1>26, <1>27, <1>28,
     <1>29, <1>30, <1>31, <1>32, <1>33
  DEF KernelNext, TaskStep, Load, Unload, Walk

\* No process slips between the kprobes and the walk over the task list.
LEMMA NoneIsMissed == KernelInv /\ [KernelNext]_tableVars => NoneMissed'
<1> SUFFICES ASSUME KernelTypeOK, HooksFollow, WalksFollow, LivesAreUnique, EntriesHaveOwners, LinkedOnce, RemovedOnce,
                    HeldSafely, NoneMissed, CountIsExact,
                    [KernelNext]_tableVars
             PROVE  NoneMissed'
  BY DEF KernelInv
<1> USE KernelAssumption DEF KernelTypeOK, HooksFollow, WalksFollow, LivesAreUnique, EntriesHaveOwners, NoneMissed, AheadOfWalk, Unloading, Hooks, Linked, Stage, Life, listedVars, modVars
<1>1. ASSUME NEW p \in Tgids, Clone(p) PROVE NoneMissed'
  BY <1>1 DEF Clone
<1>2. ASSUME NEW p \in Tgids, WakeUnhooked(p) PROVE NoneMissed'
  BY <1>2 DEF WakeUnhooked, SetStage
<1>3. ASSUME NEW p \in Tgids, ForkAlloc(p) PROVE NoneMissed'
  BY <1>3 DEF ForkAlloc, SetStage, Allocated
<1>4. ASSUME NEW p \in Tgids, ForkRefused(p) PROVE NoneMissed'
  BY <1>4 DEF ForkRefused, SetStage
<1>5. ASSUME NEW p \in Tgids, ForkInsert(p) PROVE NoneMissed'
  <2>0. PICK s \in {"fork_count", "running"} : SetStage(p, s)
    BY <1>5 DEF ForkInsert
  <2>1. \A q \in Tgids : Stage(q)' = (IF q = p THEN s ELSE Stage(q)) /\ Life(q)' = Life(q)
    BY <1>5, <2>0, StageIsSet
  <2> DEFINE e == <<Life(p), "fork">>
  <2>2. e \in Objects /\ obj[e].at = "private" /\ obj[e].pid = p /\ Insert(e, p)
    BY <1>5, EntryOfProcess DEF ForkInsert
  <2>3. /\ obj'[e].at = (IF Linked(p) = {} THEN "linked" ELSE "freed")
        /\ \A x \in Objects : obj'[x].pid = obj[x].pid
        /\ \A x \in Objects \ {e} : obj'[x].at = obj[x].at
    BY <2>2, EntryIsInserted
  <2>4. UNCHANGED <<lives, pop, mpc, refused>>
    BY <1>5 DEF ForkInsert
  <2>5. \A q \in Tgids : Linked(q) # {} => Linked(q)' # {}
    BY <2>2, <2>3, SMTT(30)
  <2>6. Linked(p)' # {}
    <3>1. CASE Linked(p) = {}
      BY <2>2, <2>3, <3>1
    <3>2. CASE Linked(p) # {}
      BY <1>5, <2>5, <3>2
    <3>3. QED
      BY <3>1, <3>2
  <2>7. QED
    BY <2>1, <2>4, <2>5, <2>6, SMTT(30)
<1>6. ASSUME NEW p \in Tgids, ForkCount(p) PROVE NoneMissed'
  BY <1>6 DEF ForkCount, SetStage
<1>7. ASSUME NEW p \in Tgids, ExecHook(p) PROVE NoneMissed'
  BY <1>7 DEF ExecHook, SetStage
<1>8. ASSUME NEW p \in Tgids, ExecDone(p) PROVE NoneMissed'
  BY <1>8 DEF ExecDone, SetStage
<1>9. ASSUME NEW p \in Tgids, ExitUnlink(p) PROVE NoneMissed'
  <2>1. PICK s \in {"exit_count", "zombie", "headless"} : SetStage(p, s)
    BY <1>9 DEF ExitUnlink
  <2>2. \A q \in Tgids : Stage(q)' = (IF q = p THEN s ELSE Stage(q)) /\ Life(q)' = Life(q)
    BY <1>9, <2>1, StageIsSet
  <2>3. UNCHANGED <<lives, pop, mpc, refused>> /\ \A x \in Objects : x \notin Linked(p) => obj'[x] = obj[x]
    BY <1>9 DEF ExitUnlink
  <2>4. \A q \in Tgids : q # p /\ Linked(q) # {} => Linked(q)' # {}
    BY <2>3
  <2>5. QED
    BY <2>2, <2>3, <2>4
<1>10. ASSUME NEW p \in Tgids, ExitCount(p) PROVE NoneMissed'
  BY <1>10 DEF ExitCount, SetStage, RetireEntry
<1>11. ASSUME NEW p \in Tgids, LastThread(p) PROVE NoneMissed'
  BY <1>11 DEF LastThread, SetStage
<1>12. ASSUME NEW p \in Tgids, ReapTask(p) PROVE NoneMissed'
  BY <1>12 DEF ReapTask
<1>13. ASSUME NEW h \in Hooks, RegisterHook(h) PROVE NoneMissed'
  BY <1>13, LoadSteps DEF RegisterHook
<1>14. ASSUME NEW h \in Hooks, RegisterFails(h) PROVE NoneMissed'
  BY <1>14 DEF RegisterFails
<1>15. ASSUME NEW h \in Hooks, UnregisterHook(h) PROVE NoneMissed'
  BY <1>15 DEF UnregisterHook, InHandler
<1>16. ASSUME NEW p \in Tgids, PopulateAlloc(p) PROVE NoneMissed'
  <2>1. /\ mpc = "populate" /\ pop.pc = "walk" /\ Stage(p) # "free" /\ Life(p) > pop.last
        /\ \A q \in Tgids : Stage(q) # "free" /\ Life(q) > pop.last /\ q # p => Life(q) > Life(p)
        /\ UNCHANGED <<listed, mpc, refused>>
    BY <1>16, VisitedIsNext DEF PopulateAlloc
  <2>2. pop'.pc = "insert" /\ pop'.last = Life(p)
    BY <1>16 DEF PopulateAlloc
  <2> DEFINE e == <<Life(p), "populate">>
  <2>3. e \in Objects /\ obj[e].at = "none"
    BY <1>16, <2>1, EntryOfProcess
  <2>4. \A x \in Objects : obj[x].at = "linked" => obj'[x] = obj[x]
    <3>1. obj' = [obj EXCEPT ![e] = Allocated(p)]
      BY <1>16 DEF PopulateAlloc
    <3>2. \A x \in Objects \ {e} : obj'[x] = obj[x]
      BY <3>1
    <3>3. QED
      BY <2>3, <3>2
  <2>5. \A q \in Tgids : Linked(q) # {} => Linked(q)' # {}
    BY <2>4
  <2>6. \A q \in Tgids : Stage(q) # "free" /\ AheadOfWalk(q) => AheadOfWalk(q)'
    BY <2>1, <2>2
  <2>7. QED
    BY <2>1, <2>5, <2>6, SMTT(30)
<1>17. ASSUME NEW p \in Tgids, PopulateRefused(p) PROVE NoneMissed'
  <2>1. /\ mpc = "populate" /\ pop.pc = "walk" /\ Stage(p) # "free" /\ Life(p) > pop.last
        /\ \A q \in Tgids : Stage(q) # "free" /\ Life(q) > pop.last /\ q # p => Life(q) > Life(p)
        /\ UNCHANGED <<listed, mpc, obj>> /\ refused' = refused \cup {Life(p)}
    BY <1>17, VisitedIsNext DEF PopulateRefused
  <2>2. pop'.pc = "walk" /\ pop'.last = Life(p)
    BY <1>17, <2>1 DEF PopulateRefused
  <2>3. \A q \in Tgids : Stage(q) # "free" /\ AheadOfWalk(q) => AheadOfWalk(q)' \/ q = p
    BY <2>1, <2>2
  <2>4. QED
    BY <2>1, <2>3
<1>18. CASE PopulateInsert
  BY <1>18, SMTT(30) DEF PopulateInsert, Insert, Linked
<1>19. CASE PopulateCount
  BY <1>19 DEF PopulateCount
<1>20. CASE PopulateDone
  BY <1>20, LoadSteps DEF PopulateDone, NotVisited
<1>21. CASE RefreshStart
  BY <1>21, LoadSteps DEF RefreshStart
<1>22. CASE NetlinkInit
  BY <1>22, LoadSteps DEF NetlinkInit
<1>23. CASE NetlinkExit
  BY <1>23 DEF NetlinkExit
<1>24. CASE RefreshStop
  BY <1>24 DEF RefreshStop
<1>25. CASE RefreshCancel
  BY <1>25 DEF RefreshCancel
<1>26. CASE TableDestroy
  BY <1>26 DEF TableDestroy, Table
<1>27. CASE RefreshProc
  BY <1>27 DEF RefreshProc
<1>28. CASE SnapshotProc
  BY <1>28 DEF SnapshotProc
<1>29. CASE RcuFree
  <2>1. PICK r \in rcu : obj' = [obj EXCEPT ![r.obj].at = "freed"]
    BY <1>29 DEF RcuFree
  <2>2. r.obj \in Objects /\ obj[r.obj].at = "removed" /\ UNCHANGED <<listed, pop, mpc, refused>>
    BY <1>29 DEF RemovedOnce, RcuFree
  <2>3. \A q \in Tgids : Linked(q) # {} => Linked(q)' # {}
    BY <2>1, <2>2
  <2>4. QED
    BY <2>2, <2>3
<1>30. ASSUME NEW w \in Walkers, WalkBegin(w) PROVE NoneMissed'
  BY <1>30 DEF WalkBegin
<1>31. ASSUME NEW w \in Walkers, WalkNext(w) PROVE NoneMissed'
  BY <1>31 DEF WalkNext, Linked
<1>32. ASSUME NEW w \in Walkers, WalkEnd(w) PROVE NoneMissed'
  BY <1>32 DEF WalkEnd
<1>33. CASE UNCHANGED tableVars
  BY <1>33 DEF tableVars
<1>34. QED
  BY <1>1, <1>2, <1>3, <1>4, <1>5, <1>6, <1>7, <1>8, <1>9, <1>10, <1>11, <1>12, <1>13, <1>14,
     <1>15, <1>16, <1>17, <1>18, <1>19, <1>20, <1>21, <1>22, <1>23, <1>24, <1>25, <1>26, <1>27, <1>28,
     <1>29, <1>30, <1>31, <1>32, <1>33, SMTT(30)
  DEF KernelNext, TaskStep, Load, Unload, Walk

LEMMA SetsAreFinite ==
  /\ IsFiniteSet(Objects)
  /\ IsFiniteSet(Table) /\ Cardinality(Table) \in Nat
  /\ \A s : IsFiniteSet(Counting(s)) /\ Cardinality(Counting(s)) \in Nat
<1>1. IsFiniteSet(1 .. Lives)
  BY FS_Interval, KernelAssumption
<1>2. IsFiniteSet({"fork", "populate"})
  <2>1. {"fork", "populate"} = {"fork"} \cup {"populate"}
    OBVIOUS
  <2>2. IsFiniteSet({"fork"})
    BY FS_Singleton
  <2>3. QED
    BY <2>1, <2>2, FS_AddElement
<1>3. IsFiniteSet(Objects)
  BY <1>1, <1>2, FS_Product DEF Objects
<1>4. Table \subseteq Objects /\ \A s : Counting(s) \subseteq Tgids
  BY DEF Table, Counting
<1>5. \A s : IsFiniteSet(Counting(s))
  BY <1>4, FS_Subset, KernelAssumption
<1>6. QED
  BY <1>3, <1>4, <1>5, FS_Subset, FS_CardinalityType

\* A handler that is about to count its insert has its entry in the table.
LEMMA InsertsAreInTable ==
  ASSUME KernelTypeOK, NoneMissed
  PROVE  Cardinality(Counting("fork_count")) <= Cardinality(Table)
<1>1. \A p \in Counting("fork_count") : Linked(p) # {}
  BY DEF NoneMissed, Counting
<1> DEFINE entry == [p \in Counting("fork_count") |-> CHOOSE o \in Linked(p) : TRUE]
<1>2. \A p \in Counting("fork_count") : entry[p] \in Linked(p)
  BY <1>1
<1>3. \A p \in Counting("fork_count") : entry[p] \in Table /\ obj[entry[p]].pid = p
  BY <1>2 DEF Linked, Table
<1>4. entry \in [Counting("fork_count") -> Table]
  BY <1>3
<1> HIDE DEF entry
<1>5. ~ Cardinality(Table) < Cardinality(Counting("fork_count"))
  <2>1. ASSUME Cardinality(Table) < Cardinality(Counting("fork_count")) PROVE FALSE
    <3>1. \E x, y \in Counting("fork_count") : x # y /\ entry[x] = entry[y]
      BY <1>4, <2>1, SetsAreFinite, FS_PigeonHole
    <3>2. QED
      BY <1>3, <3>1
  <2>2. QED
    BY <2>1
<1>6. QED
  BY <1>5, SetsAreFinite

\* The counter is never more than one below zero.
LEMMA CountIsBounded ==
  ASSUME KernelTypeOK, NoneMissed, CountIsExact
  PROVE  tracked >= -1
<1>1. CASE mpc = "gone"
  BY <1>1 DEF CountIsExact
<1>2. CASE mpc # "gone"
  <2>1. PICK F \in Nat, T \in Nat, X \in Nat :
          F = Cardinality(Counting("fork_count")) /\ T = Cardinality(Table)
            /\ X = Cardinality(Counting("exit_count"))
    BY SetsAreFinite
  <2>2. PICK c \in {0, 1} : c = IF pop.pc = "count" THEN 1 ELSE 0
    OBVIOUS
  <2>3. tracked + F + c = T + X /\ F <= T /\ tracked \in Int
    BY <1>2, <2>1, <2>2, InsertsAreInTable DEF CountIsExact, KernelTypeOK
  <2>4. QED
    BY <2>3
<1>3. QED
  BY <1>1, <1>2

LEMMA CountsAreKept == CountIsExact /\ CountsNothing => CountIsExact'
  BY DEF CountIsExact, CountsNothing

\* A handler's step from one uncounted stage to another.
LEMMA StageIsNotCounted ==
  ASSUME KernelTypeOK, NEW p \in Tgids, NEW s, SetStage(p, s),
         s \notin {"fork_count", "exit_count"}, Stage(p) \notin {"fork_count", "exit_count"}
  PROVE  \A c \in {"fork_count", "exit_count"} : Counting(c)' = Counting(c)
  BY StageIsSet DEF Counting

\* A step that counts, or changes what is to be counted, by as much on each side.
InProgress == IF pop.pc = "count" THEN 1 ELSE 0

LEMMA CountsMoveTogether ==
  ASSUME KernelTypeOK, CountIsExact, mpc # "gone", mpc' = mpc,
         NEW n \in Int, NEW f \in Int, NEW c \in Int, NEW t \in Int, NEW x \in Int,
         tracked' = tracked + n,
         Cardinality(Counting("fork_count"))' = Cardinality(Counting("fork_count")) + f,
         InProgress' = InProgress + c,
         Cardinality(Table)' = Cardinality(Table) + t,
         Cardinality(Counting("exit_count"))' = Cardinality(Counting("exit_count")) + x,
         n + f + c = t + x
  PROVE  CountIsExact'
<1>1. /\ Cardinality(Counting("fork_count")) \in Nat /\ Cardinality(Counting("exit_count")) \in Nat
      /\ Cardinality(Table) \in Nat /\ InProgress \in Int /\ tracked \in Int
  BY SetsAreFinite DEF InProgress, KernelTypeOK
<1>2. tracked + Cardinality(Counting("fork_count")) + InProgress
        = Cardinality(Table) + Cardinality(Counting("exit_count"))
  BY DEF CountIsExact, InProgress
<1>3. tracked' + Cardinality(Counting("fork_count"))' + InProgress'
        = Cardinality(Table)' + Cardinality(Counting("exit_count"))'
  BY <1>1, <1>2
<1>4. QED
  BY <1>3 DEF CountIsExact, InProgress

\* The counter and the table move together.
LEMMA CountStaysExact == KernelInv /\ [KernelNext]_tableVars => CountIsExact'
<1> SUFFICES ASSUME KernelTypeOK, HooksFollow, WalksFollow, LivesAreUnique, EntriesHaveOwners, LinkedOnce, RemovedOnce,
                    HeldSafely, NoneMissed, CountIsExact,
                    [KernelNext]_tableVars
             PROVE  CountIsExact'
  BY DEF KernelInv
<1> USE DEF Hooks, listedVars, modVars
<1>1. ASSUME NEW p \in Tgids, Clone(p) PROVE CountIsExact'
  <2>1. \A q \in Tgids : Stage(q)' = (IF q = p THEN "new" ELSE Stage(q))
    BY <1>1 DEF Clone, KernelTypeOK, Stage
  <2>2. CountsNothing
    BY <1>1, <2>1 DEF Clone, CountsNothing, Table, Counting, Stage
  <2>3. QED
    BY <2>2, CountsAreKept
<1>2. ASSUME NEW p \in Tgids, WakeUnhooked(p) PROVE CountIsExact'
  <2>1. \A c \in {"fork_count", "exit_count"} : Counting(c)' = Counting(c)
    BY <1>2, StageIsNotCounted DEF WakeUnhooked, Stage
  <2>2. CountsNothing
    BY <1>2, <2>1 DEF WakeUnhooked, CountsNothing, Table
  <2>3. QED
    BY <2>2, CountsAreKept
<1>3. ASSUME NEW p \in Tgids, ForkAlloc(p) PROVE CountIsExact'
  <2> DEFINE e == <<Life(p), "fork">>
  <2>1. e \in Objects /\ obj[e].at = "none"
    BY <1>3, EntryOfProcess DEF ForkAlloc, Stage, EntriesHaveOwners
  <2>2. obj' = [obj EXCEPT ![e] = Allocated(p)]
    BY <1>3 DEF ForkAlloc, Life
  <2>3. Table' = Table
    BY <2>1, <2>2, EntryIsAllocated DEF Table
  <2>4. \A c \in {"fork_count", "exit_count"} : Counting(c)' = Counting(c)
    BY <1>3, StageIsNotCounted DEF ForkAlloc, Stage
  <2>5. CountsNothing
    BY <1>3, <2>3, <2>4 DEF ForkAlloc, CountsNothing
  <2>6. QED
    BY <2>5, CountsAreKept
<1>4. ASSUME NEW p \in Tgids, ForkRefused(p) PROVE CountIsExact'
  <2>1. \A c \in {"fork_count", "exit_count"} : Counting(c)' = Counting(c)
    BY <1>4, StageIsNotCounted DEF ForkRefused, Stage
  <2>2. CountsNothing
    BY <1>4, <2>1 DEF ForkRefused, CountsNothing, Table
  <2>3. QED
    BY <2>2, CountsAreKept
<1>5. ASSUME NEW p \in Tgids, ForkInsert(p) PROVE CountIsExact'
  <2> DEFINE e == <<Life(p), "fork">>
  <2>1. e \in Objects /\ obj[e].at = "private" /\ Insert(e, p) /\ Stage(p) = "fork_insert"
    BY <1>5, EntryOfProcess DEF ForkInsert, Stage, Life, EntriesHaveOwners
  <2>2. /\ obj'[e].at = (IF Linked(p) = {} THEN "linked" ELSE "freed")
        /\ \A x \in Objects \ {e} : obj'[x].at = obj[x].at
    BY <2>1, EntryIsInserted
  <2>3. mpc # "gone" /\ UNCHANGED <<mpc, pop, tracked>>
    BY <1>5, <2>1 DEF ForkInsert, HooksFollow
  <2>4. CASE Linked(p) = {}
    <3>1. Table' = Table \cup {e} /\ e \notin Table
      BY <2>1, <2>2, <2>4 DEF Table
    <3>2. SetStage(p, "fork_count")
      BY <1>5, <2>4 DEF ForkInsert
    <3>3. /\ Counting("fork_count")' = Counting("fork_count") \cup {p} /\ p \notin Counting("fork_count")
          /\ Counting("exit_count")' = Counting("exit_count")
      BY <2>1, <3>2, StageIsSet DEF Counting
    <3>4. /\ Cardinality(Table)' = Cardinality(Table) + 1
          /\ Cardinality(Counting("fork_count"))' = Cardinality(Counting("fork_count")) + 1
          /\ Cardinality(Counting("exit_count"))' = Cardinality(Counting("exit_count")) + 0
      <4>1. Cardinality(Table)' = Cardinality(Table) + 1
        BY <3>1, SetsAreFinite, FS_AddElement
      <4>2. Cardinality(Counting("fork_count"))' = Cardinality(Counting("fork_count")) + 1
        BY <3>3, SetsAreFinite, FS_AddElement
      <4>3. Cardinality(Counting("exit_count"))' = Cardinality(Counting("exit_count")) + 0
        BY <3>3, SetsAreFinite
      <4>4. QED
        BY <4>1, <4>2, <4>3
    <3>5. tracked' = tracked + 0 /\ InProgress' = InProgress + 0
      BY <2>3 DEF InProgress, KernelTypeOK
    <3>6. QED
      BY <2>3, <3>4, <3>5, CountsMoveTogether
  <2>5. CASE Linked(p) # {}
    <3>1. Table' = Table
      BY <2>1, <2>2, <2>5 DEF Table
    <3>2. SetStage(p, "running")
      BY <1>5, <2>5 DEF ForkInsert
    <3>3. CountsNothing
      BY <2>1, <2>3, <3>1, <3>2, StageIsNotCounted DEF CountsNothing
    <3>4. QED
      BY <3>3, CountsAreKept
  <2>6. QED
    BY <2>4, <2>5
<1>6. ASSUME NEW p \in Tgids, ForkCount(p) PROVE CountIsExact'
  <2>1. Stage(p) = "fork_count" /\ SetStage(p, "running") /\ tracked' = tracked + 1 /\ UNCHANGED <<mpc, pop, obj>>
    BY <1>6 DEF ForkCount, Stage
  <2>2. mpc # "gone"
    BY <2>1 DEF HooksFollow
  <2>3. /\ Counting("fork_count")' = Counting("fork_count") \ {p} /\ p \in Counting("fork_count")
        /\ Counting("exit_count")' = Counting("exit_count")
    BY <2>1, StageIsSet DEF Counting
  <2>4. /\ Cardinality(Counting("fork_count"))' = Cardinality(Counting("fork_count")) - 1
        /\ Cardinality(Counting("exit_count"))' = Cardinality(Counting("exit_count")) + 0
    BY <2>3, SetsAreFinite, FS_RemoveElement
  <2>5. Cardinality(Table)' = Cardinality(Table) + 0 /\ InProgress' = InProgress + 0
    BY <2>1, SetsAreFinite DEF InProgress, Table
  <2>6. Cardinality(Counting("fork_count"))' = Cardinality(Counting("fork_count")) + (-1)
    BY <2>4, SetsAreFinite
  <2>7. QED
    BY <2>1, <2>2, <2>4, <2>5, <2>6, CountsMoveTogether
<1>7. ASSUME NEW p \in Tgids, ExecHook(p) PROVE CountIsExact'
  <2>1. \A c \in {"fork_count", "exit_count"} : Counting(c)' = Counting(c)
    BY <1>7, StageIsNotCounted DEF ExecHook, Stage
  <2>2. CountsNothing
    BY <1>7, <2>1 DEF ExecHook, CountsNothing, Table
  <2>3. QED
    BY <2>2, CountsAreKept
<1>8. ASSUME NEW p \in Tgids, ExecDone(p) PROVE CountIsExact'
  <2>1. \A c \in {"fork_count", "exit_count"} : Counting(c)' = Counting(c)
    BY <1>8, StageIsNotCounted DEF ExecDone, Stage
  <2>2. CountsNothing
    BY <1>8, <2>1 DEF ExecDone, CountsNothing, Table
  <2>3. QED
    BY <2>2, CountsAreKept
<1>9. ASSUME NEW p \in Tgids, ExitUnlink(p) PROVE CountIsExact'
  <2>1. CASE "exit" \in hooks /\ Linked(p) # {}
    <3>1. /\ obj' = [o \in Objects |-> IF o \in Linked(p)
                                         THEN [obj[o] EXCEPT !.at = "removed"] ELSE obj[o]]
          /\ SetStage(p, "exit_count") /\ Stage(p) = "running" /\ UNCHANGED <<mpc, pop, tracked>>
      BY <1>9, <2>1 DEF ExitUnlink, Stage
    <3>2. PICK e \in Linked(p) : TRUE
      BY <2>1
    <3>3. Linked(p) = {e} /\ e \in Table
      BY <3>2 DEF Linked, Table, LinkedOnce
    <3>4. \A o \in Objects : obj'[o].at = (IF o = e THEN "removed" ELSE obj[o].at)
      BY <3>1, <3>3 DEF KernelTypeOK
    <3>5. Table' = Table \ {e}
      BY <3>4 DEF Table
    <3>6. /\ Counting("exit_count")' = Counting("exit_count") \cup {p} /\ p \notin Counting("exit_count")
          /\ Counting("fork_count")' = Counting("fork_count")
      BY <3>1, StageIsSet DEF Counting
    <3>7. mpc # "gone"
      BY <2>1 DEF HooksFollow
    <3>8. /\ Cardinality(Table)' = Cardinality(Table) - 1
          /\ Cardinality(Counting("exit_count"))' = Cardinality(Counting("exit_count")) + 1
          /\ Cardinality(Counting("fork_count"))' = Cardinality(Counting("fork_count")) + 0
      <4>1. Cardinality(Table)' = Cardinality(Table) - 1
        BY <3>3, <3>5, SetsAreFinite, FS_RemoveElement
      <4>2. Cardinality(Counting("exit_count"))' = Cardinality(Counting("exit_count")) + 1
        BY <3>6, SetsAreFinite, FS_AddElement
      <4>3. Cardinality(Counting("fork_count"))' = Cardinality(Counting("fork_count")) + 0
        BY <3>6, SetsAreFinite
      <4>4. QED
        BY <4>1, <4>2, <4>3
    <3>9. Cardinality(Table)' = Cardinality(Table) + (-1)
      BY <3>8, SetsAreFinite
    <3>10. tracked' = tracked + 0 /\ InProgress' = InProgress + 0
      BY <3>1 DEF InProgress, KernelTypeOK
    <3>11. QED
      BY <3>1, <3>7, <3>8, <3>9, <3>10, CountsMoveTogether
  <2>2. CASE ~("exit" \in hooks /\ Linked(p) # {})
    <3>1. PICK s \in {"zombie", "headless"} : SetStage(p, s)
      BY <1>9, <2>2 DEF ExitUnlink
    <3>2. Stage(p) = "running" /\ UNCHANGED <<obj, mpc, pop, tracked>>
      BY <1>9, <2>2 DEF ExitUnlink, Stage
    <3>3. CountsNothing
      BY <3>1, <3>2, StageIsNotCounted DEF CountsNothing, Table
    <3>4. QED
      BY <3>3, CountsAreKept
  <2>3. QED
    BY <2>1, <2>2
<1>10. ASSUME NEW p \in Tgids, ExitCount(p) PROVE CountIsExact'
  <2>1. PICK s \in {"zombie", "headless"} : SetStage(p, s)
    BY <1>10 DEF ExitCount
  <2>2. Stage(p) = "exit_count" /\ tracked' = tracked - 1 /\ UNCHANGED <<mpc, pop, obj>>
    BY <1>10 DEF ExitCount, Stage, RetireEntry
  <2>3. mpc # "gone"
    BY <2>2 DEF HooksFollow
  <2>4. /\ Counting("exit_count")' = Counting("exit_count") \ {p} /\ p \in Counting("exit_count")
        /\ Counting("fork_count")' = Counting("fork_count")
    BY <2>1, <2>2, StageIsSet DEF Counting
  <2>5. /\ Cardinality(Counting("exit_count"))' = Cardinality(Counting("exit_count")) - 1
        /\ Cardinality(Counting("fork_count"))' = Cardinality(Counting("fork_count")) + 0
    BY <2>4, SetsAreFinite, FS_RemoveElement
  <2>6. Cardinality(Table)' = Cardinality(Table) + 0 /\ InProgress' = InProgress + 0
    BY <2>2, SetsAreFinite DEF InProgress, Table
  <2>7. /\ Cardinality(Counting("exit_count"))' = Cardinality(Counting("exit_count")) + (-1)
        /\ tracked' = tracked + (-1)
    BY <2>2, <2>5, SetsAreFinite DEF KernelTypeOK
  <2>8. QED
    BY <2>2, <2>3, <2>5, <2>6, <2>7, CountsMoveTogether
<1>11. ASSUME NEW p \in Tgids, LastThread(p) PROVE CountIsExact'
  <2>1. \A c \in {"fork_count", "exit_count"} : Counting(c)' = Counting(c)
    BY <1>11, StageIsNotCounted DEF LastThread, Stage
  <2>2. CountsNothing
    BY <1>11, <2>1 DEF LastThread, CountsNothing, Table
  <2>3. QED
    BY <2>2, CountsAreKept
<1>12. ASSUME NEW p \in Tgids, ReapTask(p) PROVE CountIsExact'
  <2>1. \A q \in Tgids : Stage(q)' = (IF q = p THEN "free" ELSE Stage(q))
    BY <1>12 DEF ReapTask, KernelTypeOK, Stage
  <2>2. CountsNothing
    BY <1>12, <2>1 DEF ReapTask, CountsNothing, Table, Counting, Stage
  <2>3. QED
    BY <2>2, CountsAreKept
<1>13. ASSUME NEW h \in Hooks, RegisterHook(h) PROVE CountIsExact'
  <2>1. CountsNothing
    BY <1>13, LoadSteps DEF RegisterHook, CountsNothing, Table, Counting, Stage
  <2>2. QED
    BY <2>1, CountsAreKept
<1>14. ASSUME NEW h \in Hooks, RegisterFails(h) PROVE CountIsExact'
  <2>1. CountsNothing
    BY <1>14, LoadSteps DEF RegisterFails, CountsNothing, Table, Counting, Stage
  <2>2. QED
    BY <2>1, CountsAreKept
<1>15. ASSUME NEW h \in Hooks, UnregisterHook(h) PROVE CountIsExact'
  <2>1. CountsNothing
    BY <1>15, LoadSteps DEF UnregisterHook, CountsNothing, Table, Counting, Stage
  <2>2. QED
    BY <2>1, CountsAreKept
<1>16. ASSUME NEW p \in Tgids, PopulateAlloc(p) PROVE CountIsExact'
  <2> DEFINE e == <<Life(p), "populate">>
  <2>1. mpc = "populate" /\ pop.pc = "walk" /\ Stage(p) # "free" /\ Life(p) > pop.last
    BY <1>16, VisitedIsNext DEF PopulateAlloc
  <2>2. e \in Objects /\ obj[e].at = "none"
    BY <2>1, EntryOfProcess DEF EntriesHaveOwners
  <2>3. obj' = [obj EXCEPT ![e] = Allocated(p)]
    BY <1>16 DEF PopulateAlloc, Life
  <2>4. Table' = Table
    BY <2>2, <2>3, EntryIsAllocated DEF Table
  <2>5. pop'.pc = "insert" /\ UNCHANGED <<listed, mpc, tracked>>
    BY <1>16 DEF PopulateAlloc
  <2>6. CountsNothing
    BY <2>1, <2>4, <2>5 DEF CountsNothing, Counting, Stage
  <2>7. QED
    BY <2>6, CountsAreKept
<1>17. ASSUME NEW p \in Tgids, PopulateRefused(p) PROVE CountIsExact'
  <2>1. CountsNothing
    BY <1>17, LoadSteps DEF PopulateRefused, CountsNothing, Table, Counting, Stage
  <2>2. QED
    BY <2>1, CountsAreKept
<1>18. CASE PopulateInsert
  <2> DEFINE p == obj[pop.obj].pid
  <2>1. /\ pop.obj \in Objects /\ obj[pop.obj].at = "private" /\ pop.pc = "insert" /\ mpc = "populate"
        /\ Insert(pop.obj, p) /\ UNCHANGED <<listed, mpc, tracked>>
    BY <1>18 DEF PopulateInsert, EntriesHaveOwners, WalksFollow
  <2>2. /\ obj'[pop.obj].at = (IF Linked(p) = {} THEN "linked" ELSE "freed")
        /\ \A x \in Objects \ {pop.obj} : obj'[x].at = obj[x].at
    BY <2>1, EntryIsInserted
  <2>3. pop'.pc = (IF Linked(p) = {} THEN "count" ELSE "walk")
    BY <1>18 DEF PopulateInsert, KernelTypeOK
  <2> HIDE DEF p
  <2>4. Counting("fork_count")' = Counting("fork_count") /\ Counting("exit_count")' = Counting("exit_count")
    BY <2>1 DEF Counting, Stage
  <2>5. CASE Linked(p) = {}
    <3>1. Table' = Table \cup {pop.obj} /\ pop.obj \notin Table
      BY <2>1, <2>2, <2>5 DEF Table
    <3>2. /\ Cardinality(Table)' = Cardinality(Table) + 1
          /\ Cardinality(Counting("fork_count"))' = Cardinality(Counting("fork_count")) + 0
          /\ Cardinality(Counting("exit_count"))' = Cardinality(Counting("exit_count")) + 0
      <4>1. Cardinality(Table)' = Cardinality(Table) + 1
        BY <3>1, SetsAreFinite, FS_AddElement
      <4>2. /\ Cardinality(Counting("fork_count"))' = Cardinality(Counting("fork_count")) + 0
            /\ Cardinality(Counting("exit_count"))' = Cardinality(Counting("exit_count")) + 0
        BY <2>4, SetsAreFinite
      <4>3. QED
        BY <4>1, <4>2
    <3>3. tracked' = tracked + 0 /\ InProgress' = InProgress + 1
      BY <2>1, <2>3, <2>5 DEF InProgress, KernelTypeOK
    <3>4. QED
      BY <2>1, <3>2, <3>3, CountsMoveTogether
  <2>6. CASE Linked(p) # {}
    <3>1. Table' = Table
      BY <2>1, <2>2, <2>6 DEF Table
    <3>2. CountsNothing
      BY <2>1, <2>3, <2>4, <2>6, <3>1 DEF CountsNothing
    <3>3. QED
      BY <3>2, CountsAreKept
  <2>7. QED
    BY <2>5, <2>6
<1>19. CASE PopulateCount
  <2>1. pop.pc = "count" /\ tracked' = tracked + 1 /\ UNCHANGED <<mpc, listed, obj>> /\ mpc = "populate"
    BY <1>19 DEF PopulateCount, WalksFollow
  <2>2. pop'.pc = "walk"
    BY <1>19 DEF PopulateCount, KernelTypeOK
  <2>3. InProgress' = InProgress + (-1)
    BY <2>1, <2>2 DEF InProgress
  <2>4. /\ Cardinality(Table)' = Cardinality(Table) + 0
        /\ Cardinality(Counting("fork_count"))' = Cardinality(Counting("fork_count")) + 0
        /\ Cardinality(Counting("exit_count"))' = Cardinality(Counting("exit_count")) + 0
    <3>1. Table' = Table /\ Counting("fork_count")' = Counting("fork_count")
            /\ Counting("exit_count")' = Counting("exit_count")
      BY <2>1 DEF Table, Counting, Stage
    <3>2. QED
      BY <3>1, SetsAreFinite
  <2>5. QED
    BY <2>1, <2>3, <2>4, CountsMoveTogether
<1>20. CASE PopulateDone
  <2>1. CountsNothing
    BY <1>20, LoadSteps DEF PopulateDone, CountsNothing, Table, Counting, Stage
  <2>2. QED
    BY <2>1, CountsAreKept
<1>21. CASE RefreshStart
  <2>1. CountsNothing
    BY <1>21, LoadSteps DEF RefreshStart, CountsNothing, Table, Counting, Stage
  <2>2. QED
    BY <2>1, CountsAreKept
<1>22. CASE NetlinkInit
  <2>1. CountsNothing
    BY <1>22, LoadSteps DEF NetlinkInit, CountsNothing, Table, Counting, Stage
  <2>2. QED
    BY <2>1, CountsAreKept
<1>23. CASE NetlinkExit
  <2>1. CountsNothing
    BY <1>23, LoadSteps DEF NetlinkExit, CountsNothing, Table, Counting, Stage
  <2>2. QED
    BY <2>1, CountsAreKept
<1>24. CASE RefreshStop
  <2>1. CountsNothing
    BY <1>24, LoadSteps DEF RefreshStop, CountsNothing, Table, Counting, Stage
  <2>2. QED
    BY <2>1, CountsAreKept
<1>25. CASE RefreshCancel
  <2>1. CountsNothing
    BY <1>25, LoadSteps DEF RefreshCancel, CountsNothing, Table, Counting, Stage
  <2>2. QED
    BY <2>1, CountsAreKept
<1>26. CASE TableDestroy
  <2>1. tracked' = tracked /\ mpc' = "gone"
    BY <1>26 DEF TableDestroy
  <2>2. QED
    BY <2>1, CountIsBounded DEF CountIsExact
<1>27. CASE RefreshProc
  <2>1. CountsNothing
    BY <1>27, LoadSteps DEF RefreshProc, CountsNothing, Table, Counting, Stage
  <2>2. QED
    BY <2>1, CountsAreKept
<1>28. CASE SnapshotProc
  <2>1. CountsNothing
    BY <1>28, LoadSteps DEF SnapshotProc, CountsNothing, Table, Counting, Stage
  <2>2. QED
    BY <2>1, CountsAreKept
<1>29. CASE RcuFree
  <2>1. PICK r \in rcu : obj' = [obj EXCEPT ![r.obj].at = "freed"]
    BY <1>29 DEF RcuFree
  <2>2. r.obj \in Objects /\ obj[r.obj].at = "removed" /\ UNCHANGED <<listed, mpc, pop, tracked>>
    BY <1>29 DEF KernelTypeOK, RemovedOnce, RcuFree
  <2>3. \A x \in Objects : obj'[x].at = (IF x = r.obj THEN "freed" ELSE obj[x].at)
    BY <2>1, <2>2 DEF KernelTypeOK
  <2>4. Table' = Table
    BY <2>2, <2>3 DEF Table
  <2>5. CountsNothing
    BY <2>2, <2>4 DEF CountsNothing, Counting, Stage
  <2>6. QED
    BY <2>5, CountsAreKept
<1>30. ASSUME NEW w \in Walkers, WalkBegin(w) PROVE CountIsExact'
  <2>1. CountsNothing
    BY <1>30, LoadSteps DEF WalkBegin, CountsNothing, Table, Counting, Stage
  <2>2. QED
    BY <2>1, CountsAreKept
<1>31. ASSUME NEW w \in Walkers, WalkNext(w) PROVE CountIsExact'
  <2>1. CountsNothing
    BY <1>31, LoadSteps DEF WalkNext, CountsNothing, Table, Counting, Stage
  <2>2. QED
    BY <2>1, CountsAreKept
<1>32. ASSUME NEW w \in Walkers, WalkEnd(w) PROVE CountIsExact'
  <2>1. CountsNothing
    BY <1>32, LoadSteps DEF WalkEnd, CountsNothing, Table, Counting, Stage
  <2>2. QED
    BY <2>1, CountsAreKept
<1>33. CASE UNCHANGED tableVars
  <2>1. CountsNothing
    BY <1>33, LoadSteps DEF tableVars, CountsNothing, Table, Counting, Stage
  <2>2. QED
    BY <2>1, CountsAreKept
<1>34. QED
  BY <1>1, <1>2, <1>3, <1>4, <1>5, <1>6, <1>7, <1>8, <1>9, <1>10, <1>11, <1>12, <1>13, <1>14,
     <1>15, <1>16, <1>17, <1>18, <1>19, <1>20, <1>21, <1>22, <1>23, <1>24, <1>25, <1>26, <1>27, <1>28,
     <1>29, <1>30, <1>31, <1>32, <1>33
  DEF KernelNext, TaskStep, Load, Unload, Walk

\* Before the module is loaded no process exists that it could have missed.
LEMMA KernelStarts == KernelInit => KernelInv
<1> SUFFICES ASSUME KernelInit PROVE KernelInv
  OBVIOUS
<1>1. mpc = "fork" /\ hooks = {} /\ rcu = {} /\ tracked = 0 /\ lives = 0 /\ refused = {}
  BY DEF KernelInit, LoadOrder
<1>2. \A p \in Tgids : Stage(p) = "free"
  BY DEF KernelInit, Stage
<1>3. \A o \in Objects : obj[o] = [at |-> "none", pid |-> NoPid]
  BY DEF KernelInit
<1>4. /\ pop = [pc |-> "walk", last |-> 0, obj |-> NoObject]
      /\ \A w \in Walkers : walk[w].pc = "off"
  BY DEF KernelInit
<1>5. KernelTypeOK
  <2>1. 0 \in 0 .. Lives
    BY KernelAssumption
  <2>2. listed \in [Tgids -> [stage : {"free", "new", "fork_insert", "fork_count", "running", "exec",
                                      "exit_count", "headless", "zombie"}, life : 0 .. Lives]]
    BY <2>1 DEF KernelInit
  <2>3. obj \in [Objects -> [at : {"none", "private", "linked", "removed", "freed"},
                             pid : Tgids \cup {NoPid}]]
    BY DEF KernelInit
  <2>4. pop \in [pc : {"walk", "insert", "count"}, last : 0 .. Lives, obj : Objects \cup {NoObject}]
    BY <1>4, <2>1
  <2>5. walk \in [Walkers -> [pc : {"off", "scheduled", "walk", "hold"}, todo : SUBSET Tgids,
                              at : Objects \cup {NoObject}]]
    BY DEF KernelInit
  <2>6. refreshing \in BOOLEAN
    BY DEF KernelInit
  <2>7. QED
    BY <1>1, <2>1, <2>2, <2>3, <2>4, <2>5, <2>6 DEF KernelTypeOK, Hooks
<1>6. HooksFollow /\ WalksFollow
  BY <1>1, <1>2, <1>4 DEF HooksFollow, WalksFollow, Walkers, Hooks
<1>7. LivesAreUnique
  BY <1>1, <1>2, <1>4 DEF LivesAreUnique
<1>8. EntriesHaveOwners
  BY <1>2, <1>3, <1>4 DEF EntriesHaveOwners
<1>9. Table = {} /\ \A s \in {"fork_count", "exit_count"} : Counting(s) = {}
  BY <1>2, <1>3 DEF Table, Counting
<1>10. LinkedOnce /\ RemovedOnce /\ HeldSafely
  BY <1>1, <1>3, <1>4, <1>9 DEF LinkedOnce, RemovedOnce, HeldSafely
<1>11. NoneMissed
  BY <1>2 DEF NoneMissed
<1>12. CountIsExact
  BY <1>1, <1>4, <1>9, FS_EmptySet DEF CountIsExact
<1>13. QED
  BY <1>5, <1>6, <1>7, <1>8, <1>10, <1>11, <1>12 DEF KernelInv

LEMMA KernelInductive == KernelInv /\ [KernelNext]_tableVars => KernelInv'
<1> SUFFICES ASSUME KernelInv, [KernelNext]_tableVars PROVE KernelInv'
  OBVIOUS
<1>1. KernelTypeOK' /\ HooksFollow' /\ WalksFollow' /\ LivesAreUnique' /\ EntriesHaveOwners'
  BY KernelKeepsTypes, HooksKeepStep, WalksKeepStep, LivesStayUnique, OwnersAreKept
<1>2. LinkedOnce' /\ RemovedOnce' /\ HeldSafely' /\ NoneMissed' /\ CountIsExact'
  BY TableKeepsOneEach, RemovalIsOnce, HandsStaySafe, NoneIsMissed, CountStaysExact
<1>3. QED
  BY <1>1, <1>2 DEF KernelInv

LEMMA KernelInvHolds == KernelSpec => []KernelInv
<1>1. KernelInit => KernelInv
  BY KernelStarts
<1>2. KernelInv /\ [KernelNext]_tableVars => KernelInv'
  BY KernelInductive
<1>3. QED
  BY <1>1, <1>2, PTL DEF KernelSpec

\* Every variable of the kernel module keeps its type.
THEOREM KernelTypeCorrect == KernelSpec => []KernelTypeOK
<1>1. KernelInv => KernelTypeOK
  BY DEF KernelInv
<1>2. QED
  BY <1>1, KernelInvHolds, PTL

\* The table is what montauk_stats.tracked says it is, and once loaded it
\* misses no process, for any number of processes, pids and entries.
THEOREM TableExact == KernelSpec => []TableIsExact
<1>1. KernelInv => TableIsExact
  <2> SUFFICES ASSUME KernelInv PROVE TableIsExact
    OBVIOUS
  <2>1. TrackedIsExact
    <3>1. tracked >= -1
      BY CountIsBounded DEF KernelInv
    <3>2. CountIsExact
      BY DEF KernelInv
    <3>3. QED
      BY <3>1, <3>2 DEF TrackedIsExact, CountIsExact, Counting, Stage
  <2>2. EveryProcessTracked
    BY DEF KernelInv, NoneMissed, AheadOfWalk, Unloading, Hooks, EveryProcessTracked, Stage, Life
  <2>3. QED
    BY <2>1, <2>2 DEF TableIsExact
<1>2. QED
  BY <1>1, KernelInvHolds, PTL

\* No walk ever has a freed entry in hand, and the unloaded module has left
\* no kprobe, no work and no entry that nobody will free.
THEOREM EntriesAreSafe == KernelSpec => []ObjectsAreSafe
<1>1. KernelInv => ObjectsAreSafe
  <2> SUFFICES ASSUME KernelInv PROVE ObjectsAreSafe
    OBVIOUS
  <2>1. /\ KernelTypeOK /\ HooksFollow /\ WalksFollow /\ EntriesHaveOwners
        /\ LinkedOnce /\ RemovedOnce /\ HeldSafely
    BY DEF KernelInv
  <2>2. ASSUME NEW p \in Tgids PROVE Cardinality(Linked(p)) <= 1
    <3>1. CASE Linked(p) = {}
      BY <3>1, FS_EmptySet
    <3>2. CASE Linked(p) # {}
      <4>1. PICK o \in Linked(p) : TRUE
        BY <3>2
      <4>2. Linked(p) = {o}
        BY <2>1, <4>1 DEF Linked, Table, LinkedOnce
      <4>3. Cardinality({o}) = 1
        BY FS_Singleton
      <4>4. QED
        BY <4>2, <4>3
    <3>3. QED
      BY <3>1, <3>2
  <2>3. NoUseAfterFree
    BY <2>1, <2>2 DEF NoUseAfterFree, HeldSafely, RemovedOnce
  <2>4. ASSUME mpc = "gone" PROVE hooks = {} /\ \A w \in Walkers : walk[w].pc = "off"
    BY <2>1, <2>4 DEF HooksFollow, WalksFollow, Walkers
  <2>5. ASSUME mpc = "gone", NEW o \in Objects
        PROVE  obj[o].at \in {"none", "freed"} \/ \E r \in rcu : r.obj = o
    <3>1. obj[o].at # "linked"
      BY <2>1, <2>5 DEF LinkedOnce, Table
    <3>2. obj[o].at # "none" => obj[o].pid \in Tgids
      BY <2>1 DEF EntriesHaveOwners
    <3>3. \A p \in Tgids : Stage(p) \notin {"fork_insert", "fork_count", "exit_count"}
      BY <2>1, <2>5 DEF HooksFollow
    <3>4. pop.pc = "walk"
      BY <2>1, <2>5 DEF WalksFollow
    <3>5. obj[o].at # "private"
      BY <2>1, <3>2, <3>3, <3>4 DEF EntriesHaveOwners
    <3>6. obj[o].at = "removed" => Retired(o)
      BY <2>1, <3>2, <3>3 DEF RemovedOnce
    <3>7. obj[o].at \in {"none", "private", "linked", "removed", "freed"}
      BY <2>1 DEF KernelTypeOK
    <3>8. QED
      BY <3>1, <3>5, <3>6, <3>7 DEF Retired
  <2>6. NothingLeaks
    BY <2>4, <2>5 DEF NothingLeaks
  <2>7. QED
    BY <2>3, <2>6 DEF ObjectsAreSafe
<1>2. QED
  BY <1>1, KernelInvHolds, PTL
=============================================================================
