---------------------------- MODULE NetlinkProofs ----------------------------
(***************************************************************************)
(* Proofs about NetlinkProcessCollector: once its events are handled the   *)
(* event thread's maps describe the processes there are, and a share that  *)
(* sample() reports is of the task it names.                               *)
(***************************************************************************)
EXTENDS NetlinkTracker, NetlinkSampler, SetInduction, FiniteSetTheorems, TLAPS

TaskType == [at : {"free", "live", "zombie"}, thread : BOOLEAN,
             cmd : 0 .. MaxTitles, name : 0 .. MaxTitles]

EventType == [what : {"fork", "exec", "comm", "exit"}, pid : Pids, name : 0 .. MaxTitles]

\* The events that are queued for a pid, and whether one is the last of them.
Queued(p) == \E i \in 1 .. Len(queue) : queue[i].pid = p
IsLast(i) == \A j \in 1 .. Len(queue) : j > i => queue[j].pid # queue[i].pid

\* Nothing is queued, listed or cached before the subscription; the thread
\* starts once /proc is scanned.
StepsFollow ==
  /\ queue \in Seq(EventType)
  /\ (sock = "listening") = (ipc \in {"scan", "start", "up"})
  /\ ipc \in {"init", "listen"} => queue = <<>> /\ active = {} /\ \A p \in Pids : comm[p] = None
  /\ ipc \in {"init", "listen", "scan", "start", "failed"} => epc = "none"
  /\ ipc = "scan" => cursor <= NumPids
  /\ ipc \in {"init", "listen"} => cursor = 1
  /\ ipc \in {"start", "up"} => cursor = NumPids + 1
  /\ overrun => lost

\* Every event so far was queued, and none but the queued are unhandled.
Following == ipc \in {"scan", "start", "up"} /\ ~lost

\* The last event queued for a pid says whether it lives, and its name.
LastEventIsTrue ==
  Following => \A i \in 1 .. Len(queue) : IsLast(i) =>
    IF queue[i].what = "exit" THEN ~Live(queue[i].pid)
    ELSE Live(queue[i].pid) /\ queue[i].name = task[queue[i].pid].name

\* A pid is forked again only after it exited.
ForkFollowsExit ==
  Following => \A j \in 1 .. Len(queue) : queue[j].what = "fork" =>
    \/ \E i \in 1 .. Len(queue) :
         /\ i < j /\ queue[i].pid = queue[j].pid /\ queue[i].what = "exit"
         /\ \A k \in 1 .. Len(queue) : i < k /\ k < j => queue[k].pid # queue[j].pid
    \/ /\ \A i \in 1 .. Len(queue) : i < j => queue[i].pid # queue[j].pid
       /\ comm[queue[j].pid] = None

\* A zombie that no queued event explains exited before the subscription.
ZombiesAreKnown ==
  ipc \in {"init", "listen", "scan", "start"} /\ ~lost =>
    \A p \in Pids : task[p].at = "zombie" => Queued(p) \/ p \in missed

\* What is kept of a pid no event is queued for.
KeptIsCurrent ==
  Following => \A p \in Pids : ~Queued(p) =>
    /\ Live(p) /\ ~task[p].thread => p \in active \/ (ipc = "scan" /\ p >= cursor)
    /\ p \in active => Live(p) \/ p \in missed
    /\ comm[p] # None => Live(p) /\ comm[p] \in {task[p].cmd, task[p].name}

TrackerInv ==
  /\ TrackerTypeOK /\ StepsFollow /\ LastEventIsTrue /\ ForkFollowsExit /\ ZombiesAreKnown
  /\ KeptIsCurrent

\* What the kernel does when it reports a task: a title, a birth or an end.
Reports(what, q) ==
  /\ q \in Pids /\ what \in {"fork", "exec", "comm", "exit"}
  /\ Emit(what, q)
  /\ UNCHANGED <<sock, ipc, cursor, running, epc, active, comm>>
  /\ \A r \in Pids \ {q} : task'[r] = task[r]
  /\ IF what = "exit" THEN task'[q].at # "live" ELSE task'[q].at = "live"
  /\ what = "fork" => ~Live(q)
  /\ \A r \in Pids \ {q} : (r \in missed') = (r \in missed)
  /\ task'[q].at = "zombie" /\ ~Subscribed => q \in missed'
-----------------------------------------------------------------------------
\* What an event appended, or taken, does to the pids' last events.
LEMMA AppendedIsLast ==
  ASSUME queue \in Seq(EventType), NEW e \in EventType, queue' = Append(queue, e)
  PROVE  /\ queue' \in Seq(EventType) /\ Len(queue') = Len(queue) + 1 /\ Len(queue) \in Nat
         /\ \A i \in 1 .. Len(queue) : queue'[i] = queue[i]
         /\ queue'[Len(queue) + 1] = e
         /\ \A i \in 1 .. Len(queue) : IsLast(i)' <=> IsLast(i) /\ queue[i].pid # e.pid
         /\ \A p : Queued(p)' <=> Queued(p) \/ p = e.pid
<1>1. /\ queue' \in Seq(EventType) /\ Len(queue') = Len(queue) + 1 /\ Len(queue) \in Nat
      /\ \A i \in 1 .. Len(queue) : queue'[i] = queue[i]
      /\ queue'[Len(queue) + 1] = e
  OBVIOUS
<1>2. \A j \in 1 .. Len(queue) + 1 : j \in 1 .. Len(queue) \/ j = Len(queue) + 1
  BY <1>1
<1>3. ASSUME NEW i \in 1 .. Len(queue)
      PROVE  IsLast(i)' <=> IsLast(i) /\ queue[i].pid # e.pid
  BY <1>1, <1>2 DEF IsLast
<1>4. ASSUME NEW p PROVE Queued(p)' <=> Queued(p) \/ p = e.pid
  BY <1>1, <1>2 DEF Queued
<1>5. QED
  BY <1>1, <1>3, <1>4

LEMMA HandledIsFirst ==
  ASSUME queue \in Seq(EventType), queue # <<>>, queue' = Tail(queue)
  PROVE  /\ queue' \in Seq(EventType) /\ Len(queue') = Len(queue) - 1 /\ Len(queue) \in Nat
         /\ Len(queue) >= 1 /\ Head(queue) = queue[1] /\ queue[1] \in EventType
         /\ \A i \in 1 .. Len(queue') : queue'[i] = queue[i + 1] /\ i + 1 \in 1 .. Len(queue)
         /\ \A i \in 1 .. Len(queue') : IsLast(i)' <=> IsLast(i + 1)
         /\ \A p : p # queue[1].pid => (Queued(p)' <=> Queued(p))
         /\ \A p : p = queue[1].pid /\ ~Queued(p)' => IsLast(1)
<1>1. /\ queue' \in Seq(EventType) /\ Len(queue') = Len(queue) - 1 /\ Len(queue) \in Nat
      /\ Len(queue) >= 1 /\ Head(queue) = queue[1] /\ queue[1] \in EventType
      /\ \A i \in 1 .. Len(queue') : queue'[i] = queue[i + 1] /\ i + 1 \in 1 .. Len(queue)
  OBVIOUS
<1>2. \A j \in 1 .. Len(queue) : j > 1 => j - 1 \in 1 .. Len(queue') /\ queue[j] = queue'[j - 1]
  BY <1>1
<1>3. ASSUME NEW i \in 1 .. Len(queue') PROVE IsLast(i)' <=> IsLast(i + 1)
  <2>1. ASSUME IsLast(i)', NEW j \in 1 .. Len(queue), j > i + 1 PROVE queue[j].pid # queue[i + 1].pid
    <3>1. j - 1 \in 1 .. Len(queue') /\ queue[j] = queue'[j - 1] /\ j - 1 > i
      BY <1>1, <1>2, <2>1
    <3>2. QED
      BY <1>1, <2>1, <3>1 DEF IsLast
  <2>2. ASSUME IsLast(i + 1), NEW j \in 1 .. Len(queue'), j > i PROVE queue'[j].pid # queue'[i].pid
    <3>1. j + 1 \in 1 .. Len(queue) /\ j + 1 > i + 1 /\ queue'[j] = queue[j + 1] /\ queue'[i] = queue[i + 1]
      BY <1>1, <2>2
    <3>2. QED
      BY <2>2, <3>1 DEF IsLast
  <2>3. QED
    BY <2>1, <2>2 DEF IsLast
<1>4. ASSUME NEW p, p # queue[1].pid PROVE Queued(p)' <=> Queued(p)
  <2>1. Queued(p)' => Queued(p)
    BY <1>1 DEF Queued
  <2>2. ASSUME Queued(p) PROVE Queued(p)'
    <3>1. PICK j \in 1 .. Len(queue) : queue[j].pid = p
      BY <2>2 DEF Queued
    <3>2. j > 1
      BY <1>1, <1>4, <3>1
    <3>3. QED
      BY <1>2, <3>1, <3>2 DEF Queued
  <2>3. QED
    BY <2>1, <2>2
<1>5. ASSUME NEW p, p = queue[1].pid, ~Queued(p)' PROVE IsLast(1)
  BY <1>1, <1>2, <1>5 DEF Queued, IsLast
<1>6. QED
  BY <1>1, <1>3, <1>4, <1>5

\* A pid with an event queued has a last one.
LEMMA QueuedHasLast ==
  ASSUME queue \in Seq(EventType), NEW p, Queued(p)
  PROVE  \E i \in 1 .. Len(queue) : queue[i].pid = p /\ IsLast(i)
<1> DEFINE back(n) == Len(queue) - n
           S == {n \in Nat : n < Len(queue) /\ queue[back(n)].pid = p}
<1>1. Len(queue) \in Nat
  OBVIOUS
<1>2. PICK j \in 1 .. Len(queue) : queue[j].pid = p
  BY DEF Queued
<1>3. Len(queue) - j \in S
  <2>1. Len(queue) - (Len(queue) - j) = j /\ Len(queue) - j \in Nat /\ Len(queue) - j < Len(queue)
    BY <1>1
  <2>2. QED
    BY <1>2, <2>1
<1>4. PICK n \in S : \A m \in S : n <= m
  <2>1. S \in SUBSET Nat /\ S # {}
    BY <1>3
  <2>2. QED
    BY <2>1, LeastNatural
<1>5. back(n) \in 1 .. Len(queue) /\ queue[back(n)].pid = p
  BY <1>1, <1>4
<1>6. ASSUME NEW k \in 1 .. Len(queue), k > back(n) PROVE queue[k].pid # p
  <2>1. ASSUME queue[k].pid = p PROVE FALSE
    <3>1. Len(queue) - (Len(queue) - k) = k /\ Len(queue) - k \in Nat /\ Len(queue) - k < Len(queue)
      BY <1>1
    <3>2. Len(queue) - k \in S
      BY <2>1, <3>1
    <3>3. n <= Len(queue) - k
      BY <1>4, <3>2
    <3>4. QED
      BY <1>1, <1>4, <1>6, <3>3
  <2>2. QED
    BY <2>1
<1>7. QED
  BY <1>5, <1>6 DEF IsLast

\* Fork, Exec, SetName and Exit are what the kernel reports.
LEMMA KernelReports ==
  ASSUME TrackerTypeOK, NEW p \in Pids
  PROVE  /\ \A q \in Pids, thread \in BOOLEAN : Fork(p, q, thread) => Reports("fork", q)
         /\ Exec(p) => Reports("exec", p)
         /\ SetName(p) => Reports("comm", p)
         /\ Exit(p) => Reports("exit", p)
<1> USE DEF TrackerTypeOK, Live, InProc, threadVars, trackVars
<1>1. ASSUME NEW q \in Pids, NEW thread \in BOOLEAN, Fork(p, q, thread) PROVE Reports("fork", q)
  <2>1. task'[q].at = "live" /\ \A r \in Pids \ {q} : task'[r] = task[r]
    BY <1>1 DEF Fork
  <2>2. QED
    BY <1>1, <2>1 DEF Fork, Reports
<1>2. ASSUME Exec(p) PROVE Reports("exec", p)
  <2>1. task'[p].at = "live" /\ \A r \in Pids \ {p} : task'[r] = task[r]
    BY <1>2 DEF Exec
  <2>2. QED
    BY <1>2, <2>1 DEF Exec, Reports
<1>3. ASSUME SetName(p) PROVE Reports("comm", p)
  <2>1. task'[p].at = "live" /\ \A r \in Pids \ {p} : task'[r] = task[r]
    BY <1>3 DEF SetName
  <2>2. QED
    BY <1>3, <2>1 DEF SetName, Reports
<1>4. ASSUME Exit(p) PROVE Reports("exit", p)
  <2>1. task'[p].at # "live" /\ \A r \in Pids \ {p} : task'[r] = task[r]
    BY <1>4 DEF Exit, Free
  <2>2. QED
    BY <1>4, <2>1 DEF Exit, Reports
<1>5. QED
  BY <1>1, <1>2, <1>3, <1>4

\* A report is queued unless nobody is subscribed or one is dropped.
LEMMA ReportIsQueued ==
  ASSUME TrackerTypeOK, NEW q, NEW what, Reports(what, q), task'[q].name \in 0 .. MaxTitles
  PROVE  /\ Event(what, q) \in EventType
         /\ Event(what, q).what = what /\ Event(what, q).pid = q
         /\ Event(what, q).name = task'[q].name
         /\ ~lost' => ~lost /\ (Subscribed => queue' = Append(queue, Event(what, q)))
         /\ ~Subscribed => queue' = queue
<1>1. /\ Event(what, q) \in EventType
      /\ Event(what, q).what = what /\ Event(what, q).pid = q /\ Event(what, q).name = task'[q].name
  BY DEF Reports, Event, EventType
<1>2. CASE Subscribed /\ Len(queue) < MaxQueue
  BY <1>1, <1>2 DEF Reports, Emit
<1>3. CASE Subscribed /\ ~(Len(queue) < MaxQueue)
  BY <1>1, <1>3 DEF Reports, Emit
<1>4. CASE ~Subscribed
  BY <1>1, <1>4 DEF Reports, Emit
<1>5. QED
  BY <1>2, <1>3, <1>4

\* A report keeps what is said of the pids' last events, and of what is kept.
LEMMA ReportsAreFollowed ==
  ASSUME TrackerInv, TrackerTypeOK', NEW q, NEW what, Reports(what, q)
  PROVE  /\ queue' \in Seq(EventType)
         /\ LastEventIsTrue' /\ ForkFollowsExit' /\ ZombiesAreKnown' /\ KeptIsCurrent'
<1> DEFINE e == Event(what, q)
<1>1. /\ e \in EventType /\ e.what = what /\ e.pid = q /\ e.name = task'[q].name
      /\ ~lost' => ~lost /\ (Subscribed => queue' = Append(queue, e))
      /\ ~Subscribed => queue' = queue
  <2>1. task'[q].name \in 0 .. MaxTitles
    BY DEF TrackerTypeOK, Reports
  <2>2. QED
    BY <2>1, ReportIsQueued DEF TrackerInv
<1>2. /\ queue \in Seq(EventType) /\ q \in Pids
      /\ UNCHANGED <<sock, ipc, cursor, epc, active, comm>>
      /\ \A r \in Pids \ {q} : task'[r] = task[r]
      /\ IF what = "exit" THEN ~Live(q)' ELSE Live(q)'
      /\ what = "fork" => ~Live(q)
      /\ \A r \in Pids \ {q} : (r \in missed') = (r \in missed)
      /\ task'[q].at = "zombie" /\ ~Subscribed => q \in missed'
  BY DEF TrackerInv, StepsFollow, Reports, Live
<1>3. Following' => Following /\ queue' = Append(queue, e)
  BY <1>1, <1>2 DEF Following, Subscribed, TrackerInv, StepsFollow
<1> HIDE DEF e
<1>4. queue' = Append(queue, e) =>
        /\ queue' \in Seq(EventType) /\ Len(queue') = Len(queue) + 1 /\ Len(queue) \in Nat
        /\ \A i \in 1 .. Len(queue) : queue'[i] = queue[i]
        /\ queue'[Len(queue) + 1] = e
        /\ \A i \in 1 .. Len(queue) : IsLast(i)' <=> IsLast(i) /\ queue[i].pid # e.pid
        /\ \A r : Queued(r)' <=> Queued(r) \/ r = e.pid
  BY <1>1, <1>2, AppendedIsLast
<1>5. \A i \in 1 .. Len(queue) : queue[i].pid \in Pids
  <2>1. \A i \in 1 .. Len(queue) : queue[i] \in EventType
    BY <1>2
  <2>2. QED
    BY <2>1 DEF EventType
<1>6. queue' \in Seq(EventType)
  <2>1. queue' = queue \/ queue' = Append(queue, e)
    BY <1>1 DEF e, Reports, Emit
  <2>2. QED
    BY <1>2, <1>4, <2>1
<1>7. LastEventIsTrue'
  <2> SUFFICES ASSUME Following', NEW i \in 1 .. Len(queue'), IsLast(i)'
               PROVE  IF queue'[i].what = "exit" THEN task'[queue'[i].pid].at # "live"
                      ELSE task'[queue'[i].pid].at = "live" /\ queue'[i].name = task'[queue'[i].pid].name
    BY DEF LastEventIsTrue, Live
  <2>1. CASE i = Len(queue) + 1
    BY <1>1, <1>2, <1>3, <1>4, <2>1 DEF Live
  <2>2. CASE i \in 1 .. Len(queue)
    <3>1. queue'[i] = queue[i] /\ IsLast(i) /\ queue[i].pid \in Pids \ {q} /\ Following
      BY <1>1, <1>3, <1>4, <1>5, <2>2
    <3>2. IF queue[i].what = "exit" THEN ~Live(queue[i].pid)
          ELSE Live(queue[i].pid) /\ queue[i].name = task[queue[i].pid].name
      BY <2>2, <3>1 DEF TrackerInv, LastEventIsTrue
    <3>3. QED
      BY <1>2, <3>1, <3>2 DEF Live
  <2>3. QED
    BY <1>3, <1>4, <2>1, <2>2
<1>8. ForkFollowsExit'
  <2> SUFFICES ASSUME Following', NEW j \in 1 .. Len(queue'), queue'[j].what = "fork"
               PROVE  \/ \E i \in 1 .. Len(queue') :
                           /\ i < j /\ queue'[i].pid = queue'[j].pid /\ queue'[i].what = "exit"
                           /\ \A k \in 1 .. Len(queue') : i < k /\ k < j => queue'[k].pid # queue'[j].pid
                      \/ /\ \A i \in 1 .. Len(queue') : i < j => queue'[i].pid # queue'[j].pid
                         /\ comm'[queue'[j].pid] = None
    BY DEF ForkFollowsExit
  <2>1. /\ Following /\ Len(queue') = Len(queue) + 1 /\ Len(queue) \in Nat
        /\ \A i \in 1 .. Len(queue) : queue'[i] = queue[i]
        /\ queue'[Len(queue) + 1] = e
    BY <1>3, <1>4
  <2>2. \A i \in 1 .. Len(queue') : i < j => i \in 1 .. Len(queue)
    BY <2>1
  <2>3. CASE j = Len(queue) + 1
    <3>1. what = "fork" /\ ~Live(q) /\ queue'[j].pid = q
      BY <1>1, <1>2, <2>1, <2>3
    <3>2. CASE Queued(q)
      <4>1. PICK i \in 1 .. Len(queue) : queue[i].pid = q /\ IsLast(i)
        BY <1>2, <3>2, QueuedHasLast
      <4>2. queue[i].what = "exit"
        BY <2>1, <3>1, <4>1 DEF TrackerInv, LastEventIsTrue
      <4>3. i \in 1 .. Len(queue') /\ i < j
        BY <2>1, <2>3
      <4>4. \A k \in 1 .. Len(queue') : i < k /\ k < j => queue'[k].pid # queue'[j].pid
        BY <2>1, <2>2, <3>1, <4>1 DEF IsLast
      <4>5. QED
        BY <2>1, <3>1, <4>1, <4>2, <4>3, <4>4
    <3>3. CASE ~Queued(q)
      <4>1. \A i \in 1 .. Len(queue') : i < j => queue'[i].pid # q
        BY <2>1, <2>2, <3>3 DEF Queued
      <4>2. comm'[q] = None
        BY <1>2, <2>1, <3>1, <3>3 DEF TrackerInv, KeptIsCurrent
      <4>3. QED
        BY <3>1, <4>1, <4>2
    <3>4. QED
      BY <3>2, <3>3
  <2>4. CASE j \in 1 .. Len(queue)
    <3>1. queue'[j] = queue[j] /\ queue[j].what = "fork" /\ comm' = comm
      BY <1>2, <2>1, <2>4
    <3>2. CASE \E i \in 1 .. Len(queue) :
                 /\ i < j /\ queue[i].pid = queue[j].pid /\ queue[i].what = "exit"
                 /\ \A k \in 1 .. Len(queue) : i < k /\ k < j => queue[k].pid # queue[j].pid
      <4>1. PICK i \in 1 .. Len(queue) :
              /\ i < j /\ queue[i].pid = queue[j].pid /\ queue[i].what = "exit"
              /\ \A k \in 1 .. Len(queue) : i < k /\ k < j => queue[k].pid # queue[j].pid
        BY <3>2
      <4>2. i \in 1 .. Len(queue') /\ queue'[i] = queue[i]
        BY <2>1
      <4>3. \A k \in 1 .. Len(queue') : i < k /\ k < j => queue'[k].pid # queue'[j].pid
        BY <2>1, <2>2, <3>1, <4>1
      <4>4. QED
        BY <3>1, <4>1, <4>2, <4>3
    <3>3. CASE (\A i \in 1 .. Len(queue) : i < j => queue[i].pid # queue[j].pid) /\ comm[queue[j].pid] = None
      BY <2>1, <2>2, <3>1, <3>3
    <3>4. QED
      BY <2>1, <2>4, <3>1, <3>2, <3>3 DEF TrackerInv, ForkFollowsExit
  <2>5. QED
    BY <2>1, <2>3, <2>4
<1>9. ZombiesAreKnown'
  <2> SUFFICES ASSUME ipc' \in {"init", "listen", "scan", "start"}, ~lost', NEW p \in Pids, task'[p].at = "zombie"
               PROVE  Queued(p)' \/ p \in missed'
    BY DEF ZombiesAreKnown
  <2>1. ~lost /\ ipc \in {"init", "listen", "scan", "start"} /\ (Queued(p) => Queued(p)')
    <3>1. CASE Subscribed
      BY <1>1, <1>2, <1>4, <3>1
    <3>2. CASE ~Subscribed
      BY <1>1, <1>2, <3>2 DEF Queued
    <3>3. QED
      BY <3>1, <3>2
  <2>2. CASE p = q
    BY <1>1, <1>2, <1>4, <2>2
  <2>3. CASE p # q
    BY <1>2, <2>1, <2>3 DEF TrackerInv, ZombiesAreKnown
  <2>4. QED
    BY <2>2, <2>3
<1>10. KeptIsCurrent'
  <2> SUFFICES ASSUME Following', NEW p \in Pids, ~Queued(p)'
               PROVE  /\ Live(p)' /\ ~task'[p].thread => p \in active' \/ (ipc' = "scan" /\ p >= cursor')
                      /\ p \in active' => Live(p)' \/ p \in missed'
                      /\ comm'[p] # None => Live(p)' /\ comm'[p] \in {task'[p].cmd, task'[p].name}
    BY DEF KeptIsCurrent
  <2>1. Following /\ ~Queued(p) /\ p # q
    BY <1>1, <1>3, <1>4
  <2>2. task'[p] = task[p] /\ UNCHANGED <<active, comm, ipc, cursor>> /\ (p \in missed') = (p \in missed)
    BY <1>2, <2>1
  <2>3. /\ Live(p) /\ ~task[p].thread => p \in active \/ (ipc = "scan" /\ p >= cursor)
        /\ p \in active => Live(p) \/ p \in missed
        /\ comm[p] # None => Live(p) /\ comm[p] \in {task[p].cmd, task[p].name}
    BY <2>1 DEF TrackerInv, KeptIsCurrent
  <2>4. Live(p)' = Live(p)
    BY <2>2 DEF Live
  <2>5. QED
    BY <2>2, <2>3, <2>4
<1>11. QED
  BY <1>6, <1>7, <1>8, <1>9, <1>10

LEMMA InitSteps ==
  InitOrder[1] = "listen" /\ After("listen") = "scan" /\ After("scan") = "start"
  BY DEF InitOrder, After

LEMMA ReportKeepsTypes ==
  ASSUME TrackerTypeOK, StepsFollow, NEW q, NEW what, Reports(what, q), task'[q].name \in 0 .. MaxTitles
  PROVE  Len(queue') <= MaxQueue /\ overrun' \in BOOLEAN /\ lost' \in BOOLEAN
<1> DEFINE e == Event(what, q)
<1>1. e \in EventType
  BY ReportIsQueued
<1> HIDE DEF e
<1>2. Len(queue) <= MaxQueue /\ overrun \in BOOLEAN /\ lost \in BOOLEAN /\ queue \in Seq(EventType)
  BY DEF TrackerTypeOK, StepsFollow
<1>3. CASE Subscribed /\ Len(queue) < MaxQueue
  <2>1. queue' = Append(queue, e) /\ UNCHANGED <<overrun, lost>>
    BY <1>3 DEF Reports, Emit, e
  <2>2. Len(queue') = Len(queue) + 1 /\ Len(queue) \in Nat
    BY <1>1, <1>2, <2>1
  <2>3. QED
    BY <1>2, <1>3, <2>1, <2>2, NetlinkAssumption
<1>4. CASE Subscribed /\ ~(Len(queue) < MaxQueue)
  BY <1>2, <1>4 DEF Reports, Emit
<1>5. CASE ~Subscribed
  BY <1>2, <1>5 DEF Reports, Emit
<1>6. QED
  BY <1>3, <1>4, <1>5

\* Every step keeps the types.
LEMMA TrackerKeepsTypes ==
  ASSUME TrackerInv, [TrackerNext]_trackerVars
  PROVE  TrackerTypeOK'
<1> USE NetlinkAssumption DEF TrackerTypeOK, TrackerInv, StepsFollow, Pids, TaskType, kernelVars, threadVars, trackVars, historyVars
<1>0. TrackerTypeOK /\ StepsFollow
  OBVIOUS
<1>1. ASSUME NEW p \in Pids, NEW q \in Pids, NEW thread \in BOOLEAN, Fork(p, q, thread) PROVE TrackerTypeOK'
  <2>1. [task[p] EXCEPT !.thread = thread] \in TaskType
    BY <1>1, SMTT(30)
  <2>2. task' \in [Pids -> TaskType]
    BY <1>1, <2>1 DEF Fork
  <2>3. Reports("fork", q)
    BY <1>1, <1>0, KernelReports
  <2>4. task'[q].name \in 0 .. MaxTitles
    BY <2>2 DEF Reports
  <2>5. Len(queue') <= MaxQueue /\ overrun' \in BOOLEAN /\ lost' \in BOOLEAN
    BY <1>0, <2>3, <2>4, ReportKeepsTypes
  <2>6. UNCHANGED <<sock, ipc, cursor, running, epc, active, comm>> /\ missed' \subseteq Pids
    BY <1>1 DEF Fork
  <2>7. forks' \in 0 .. MaxForks /\ titles' \in 0 .. MaxTitles
    BY <1>1, <2>1, SMTT(30) DEF Fork
  <2>8. QED
    BY <2>2, <2>5, <2>6, <2>7
<1>2. ASSUME NEW p \in Pids, Exec(p) PROVE TrackerTypeOK'
  <2>0. titles + 1 \in 0 .. MaxTitles /\ task[p] \in TaskType
    BY <1>2 DEF Exec
  <2>1. [task[p] EXCEPT !.cmd = titles + 1, !.name = titles + 1] \in TaskType
    BY <2>0
  <2>2. task' \in [Pids -> TaskType]
    BY <1>2, <2>0, <2>1 DEF Exec
  <2>3. Reports("exec", p)
    BY <1>2, <1>0, KernelReports
  <2>4. task'[p].name \in 0 .. MaxTitles
    BY <2>2 DEF Reports
  <2>5. Len(queue') <= MaxQueue /\ overrun' \in BOOLEAN /\ lost' \in BOOLEAN
    BY <1>0, <2>3, <2>4, ReportKeepsTypes
  <2>6. UNCHANGED <<sock, ipc, cursor, running, epc, active, comm>> /\ missed' \subseteq Pids
    BY <1>2 DEF Exec
  <2>7. forks' \in 0 .. MaxForks /\ titles' \in 0 .. MaxTitles
    BY <1>2, <2>0, <2>1 DEF Exec
  <2>8. QED
    BY <2>2, <2>5, <2>6, <2>7
<1>3. ASSUME NEW p \in Pids, SetName(p) PROVE TrackerTypeOK'
  <2>0. titles + 1 \in 0 .. MaxTitles /\ task[p] \in TaskType
    BY <1>3 DEF SetName
  <2>1. [task[p] EXCEPT !.name = titles + 1] \in TaskType
    BY <2>0
  <2>2. task' \in [Pids -> TaskType]
    BY <1>3, <2>0, <2>1 DEF SetName
  <2>3. Reports("comm", p)
    BY <1>3, <1>0, KernelReports
  <2>4. task'[p].name \in 0 .. MaxTitles
    BY <2>2 DEF Reports
  <2>5. Len(queue') <= MaxQueue /\ overrun' \in BOOLEAN /\ lost' \in BOOLEAN
    BY <1>0, <2>3, <2>4, ReportKeepsTypes
  <2>6. UNCHANGED <<sock, ipc, cursor, running, epc, active, comm>> /\ missed' \subseteq Pids
    BY <1>3 DEF SetName
  <2>7. forks' \in 0 .. MaxForks /\ titles' \in 0 .. MaxTitles
    BY <1>3, <2>0, <2>1 DEF SetName
  <2>8. QED
    BY <2>2, <2>5, <2>6, <2>7
<1>4. ASSUME NEW p \in Pids, Exit(p) PROVE TrackerTypeOK'
  <2>0. Free \in TaskType
    BY DEF Free, Initial
  <2>1. [task[p] EXCEPT !.at = "zombie"] \in TaskType
    BY SMTT(30)
  <2>2. task' \in [Pids -> TaskType]
    BY <1>4, <2>0, <2>1 DEF Exit
  <2>3. Reports("exit", p)
    BY <1>4, <1>0, KernelReports
  <2>4. task'[p].name \in 0 .. MaxTitles
    BY <2>2 DEF Reports
  <2>5. Len(queue') <= MaxQueue /\ overrun' \in BOOLEAN /\ lost' \in BOOLEAN
    BY <1>0, <2>3, <2>4, ReportKeepsTypes
  <2>6. UNCHANGED <<sock, ipc, cursor, running, epc, active, comm>> /\ missed' \subseteq Pids
    BY <1>4 DEF Exit
  <2>7. forks' \in 0 .. MaxForks /\ titles' \in 0 .. MaxTitles
    BY <1>4, <2>0, <2>1 DEF Exit
  <2>8. QED
    BY <2>2, <2>5, <2>6, <2>7
<1>5. ASSUME NEW p \in Pids, Reap(p) PROVE TrackerTypeOK'
  BY <1>5 DEF Reap, Free, Initial
<1>6. CASE OpenSocket
  BY <1>6, InitSteps DEF OpenSocket
<1>7. CASE Subscribe
  BY <1>7, InitSteps DEF Subscribe
<1>8. CASE ScanProc
  <2>1. cursor \in 1 .. NumPids /\ cursor + 1 \in 1 .. NumPids + 1
    BY <1>8 DEF ScanProc
  <2>2. active' \cup missed' \subseteq Pids
    BY <1>8, <2>1 DEF ScanProc
  <2>3. ipc' \in {"scan", "start"}
    BY <1>8, InitSteps DEF ScanProc
  <2>4. QED
    BY <1>8, <2>1, <2>2, <2>3 DEF ScanProc
<1>9. CASE StartThread
  BY <1>9 DEF StartThread
<1>10. CASE Shutdown
  BY <1>10 DEF Shutdown
<1>11. CASE Join
  BY <1>11 DEF Join
<1>12. CASE TestRunning
  BY <1>12 DEF TestRunning
<1>13. CASE EnterRecv
  BY <1>13 DEF EnterRecv
<1>14. CASE RecvFails
  BY <1>14 DEF RecvFails
<1>15. CASE HandleEvent
  <2>1. /\ queue' \in Seq(EventType) /\ Len(queue') = Len(queue) - 1 /\ Len(queue) \in Nat
        /\ Head(queue) \in EventType
    BY <1>15, HandledIsFirst DEF HandleEvent
  <2>2. Head(queue).pid \in Pids /\ Head(queue).name \in 0 .. MaxTitles
    BY <2>1 DEF EventType
  <2>3. Head(queue).what \in {"fork", "exec", "comm", "exit"}
    BY <2>1 DEF EventType
  <2>4. TitleNow(Head(queue).pid) \in 0 .. MaxTitles \cup {None}
    BY <2>2 DEF TitleNow, Live
  <2>5. CommAfter(Head(queue)) \in 0 .. MaxTitles \cup {None}
    BY <2>2, <2>3, <2>4 DEF CommAfter
  <2>6. comm' \in [Pids -> 0 .. MaxTitles \cup {None}] /\ active' \subseteq Pids
    BY <1>15, <2>2, <2>5 DEF HandleEvent
  <2>7. Len(queue') <= MaxQueue
    BY <2>1
  <2>8. QED
    BY <1>15, <2>6, <2>7 DEF HandleEvent
<1>16. CASE UNCHANGED trackerVars
  BY <1>16 DEF trackerVars
<1>17. QED
  BY <1>1, <1>2, <1>3, <1>4, <1>5, <1>6, <1>7, <1>8, <1>9, <1>10, <1>11, <1>12, <1>13, <1>14, <1>15, <1>16, SMTT(30)
  DEF TrackerNext, Kernel, Main, EventThread

\* The thread and the socket follow init() and shutdown().
LEMMA StepsAreFollowed ==
  ASSUME TrackerInv, [TrackerNext]_trackerVars
  PROVE  StepsFollow'
<1> USE NetlinkAssumption DEF kernelVars, threadVars, trackVars, historyVars
<1>0. TrackerTypeOK /\ StepsFollow /\ TrackerTypeOK'
  BY TrackerKeepsTypes DEF TrackerInv
<1>1. ASSUME NEW p \in Pids, NEW q \in Pids, NEW thread \in BOOLEAN, Fork(p, q, thread) PROVE StepsFollow'
  <2>1. Reports("fork", q)
    BY <1>1, <1>0, KernelReports
  <2>2. queue' \in Seq(EventType) /\ UNCHANGED <<sock, ipc, cursor, epc, active, comm>>
    BY <1>0, <2>1, ReportsAreFollowed DEF Reports
  <2>3. overrun' => lost'
    BY <1>0, <2>1 DEF StepsFollow, Reports, Emit
  <2>4. ipc \in {"init", "listen"} => queue' = queue
    BY <1>0, <2>1 DEF StepsFollow, Reports, Emit, Subscribed
  <2>5. QED
    BY <1>0, <2>2, <2>3, <2>4 DEF StepsFollow
<1>2. ASSUME NEW p \in Pids, Exec(p) PROVE StepsFollow'
  <2>1. Reports("exec", p)
    BY <1>2, <1>0, KernelReports
  <2>2. queue' \in Seq(EventType) /\ UNCHANGED <<sock, ipc, cursor, epc, active, comm>>
    BY <1>0, <2>1, ReportsAreFollowed DEF Reports
  <2>3. overrun' => lost'
    BY <1>0, <2>1 DEF StepsFollow, Reports, Emit
  <2>4. ipc \in {"init", "listen"} => queue' = queue
    BY <1>0, <2>1 DEF StepsFollow, Reports, Emit, Subscribed
  <2>5. QED
    BY <1>0, <2>2, <2>3, <2>4 DEF StepsFollow
<1>3. ASSUME NEW p \in Pids, SetName(p) PROVE StepsFollow'
  <2>1. Reports("comm", p)
    BY <1>3, <1>0, KernelReports
  <2>2. queue' \in Seq(EventType) /\ UNCHANGED <<sock, ipc, cursor, epc, active, comm>>
    BY <1>0, <2>1, ReportsAreFollowed DEF Reports
  <2>3. overrun' => lost'
    BY <1>0, <2>1 DEF StepsFollow, Reports, Emit
  <2>4. ipc \in {"init", "listen"} => queue' = queue
    BY <1>0, <2>1 DEF StepsFollow, Reports, Emit, Subscribed
  <2>5. QED
    BY <1>0, <2>2, <2>3, <2>4 DEF StepsFollow
<1>4. ASSUME NEW p \in Pids, Exit(p) PROVE StepsFollow'
  <2>1. Reports("exit", p)
    BY <1>4, <1>0, KernelReports
  <2>2. queue' \in Seq(EventType) /\ UNCHANGED <<sock, ipc, cursor, epc, active, comm>>
    BY <1>0, <2>1, ReportsAreFollowed DEF Reports
  <2>3. overrun' => lost'
    BY <1>0, <2>1 DEF StepsFollow, Reports, Emit
  <2>4. ipc \in {"init", "listen"} => queue' = queue
    BY <1>0, <2>1 DEF StepsFollow, Reports, Emit, Subscribed
  <2>5. QED
    BY <1>0, <2>2, <2>3, <2>4 DEF StepsFollow
<1>5. ASSUME NEW p \in Pids, Reap(p) PROVE StepsFollow'
  BY <1>5, <1>0 DEF Reap, StepsFollow
<1>6. CASE OpenSocket
  BY <1>6, <1>0, InitSteps DEF OpenSocket, StepsFollow
<1>7. CASE Subscribe
  BY <1>7, <1>0, InitSteps DEF Subscribe, StepsFollow
<1>8. CASE ScanProc
  <2>1. /\ ipc = "scan" /\ cursor' = cursor + 1 /\ UNCHANGED <<queue, sock, epc, comm, overrun, lost>>
        /\ ipc' = (IF cursor = NumPids THEN "start" ELSE "scan")
    BY <1>8, InitSteps DEF ScanProc
  <2>2. cursor \in Int /\ cursor <= NumPids /\ NumPids \in Int
    BY <1>0, <2>1 DEF TrackerTypeOK, StepsFollow
  <2>3. (ipc' = "scan" => cursor' <= NumPids) /\ (ipc' = "start" => cursor' = NumPids + 1)
    BY <2>1, <2>2
  <2>4. QED
    BY <1>0, <2>1, <2>3 DEF StepsFollow
<1>9. CASE StartThread
  BY <1>9, <1>0, InitSteps DEF StartThread, StepsFollow
<1>10. CASE Shutdown
  BY <1>10, <1>0, InitSteps DEF Shutdown, StepsFollow
<1>11. CASE Join
  BY <1>11, <1>0, InitSteps DEF Join, StepsFollow
<1>12. CASE TestRunning
  BY <1>12, <1>0, InitSteps DEF TestRunning, StepsFollow
<1>13. CASE EnterRecv
  BY <1>13, <1>0, InitSteps DEF EnterRecv, StepsFollow
<1>14. CASE RecvFails
  BY <1>14, <1>0, InitSteps DEF RecvFails, StepsFollow
<1>15. CASE HandleEvent
  <2>1. queue' \in Seq(EventType)
    BY <1>15, <1>0, HandledIsFirst DEF HandleEvent, StepsFollow
  <2>2. ipc \notin {"init", "listen", "scan", "start", "failed"}
    BY <1>15, <1>0 DEF HandleEvent, StepsFollow
  <2>3. QED
    BY <1>15, <1>0, <2>1, <2>2 DEF HandleEvent, StepsFollow
<1>16. CASE UNCHANGED trackerVars
  BY <1>16, <1>0 DEF trackerVars, StepsFollow
<1>17. QED
  BY <1>1, <1>2, <1>3, <1>4, <1>5, <1>6, <1>7, <1>8, <1>9, <1>10, <1>11, <1>12, <1>13, <1>14, <1>15, <1>16
  DEF TrackerNext, Kernel, Main, EventThread

\* What is said of the last events, and of what is kept, stays so.
LEMMA EventsAreFollowed ==
  ASSUME TrackerInv, [TrackerNext]_trackerVars
  PROVE  LastEventIsTrue' /\ ForkFollowsExit' /\ ZombiesAreKnown' /\ KeptIsCurrent'
<1> USE NetlinkAssumption DEF kernelVars, threadVars, trackVars, historyVars
<1>0. TrackerTypeOK /\ StepsFollow /\ TrackerTypeOK'
  BY TrackerKeepsTypes DEF TrackerInv
<1>1. ASSUME NEW p \in Pids, NEW q \in Pids, NEW thread \in BOOLEAN, Fork(p, q, thread) PROVE LastEventIsTrue' /\ ForkFollowsExit' /\ ZombiesAreKnown' /\ KeptIsCurrent'
  <2>1. Reports("fork", q)
    BY <1>1, <1>0, KernelReports
  <2>2. QED
    BY <1>0, <2>1, ReportsAreFollowed
<1>2. ASSUME NEW p \in Pids, Exec(p) PROVE LastEventIsTrue' /\ ForkFollowsExit' /\ ZombiesAreKnown' /\ KeptIsCurrent'
  <2>1. Reports("exec", p)
    BY <1>2, <1>0, KernelReports
  <2>2. QED
    BY <1>0, <2>1, ReportsAreFollowed
<1>3. ASSUME NEW p \in Pids, SetName(p) PROVE LastEventIsTrue' /\ ForkFollowsExit' /\ ZombiesAreKnown' /\ KeptIsCurrent'
  <2>1. Reports("comm", p)
    BY <1>3, <1>0, KernelReports
  <2>2. QED
    BY <1>0, <2>1, ReportsAreFollowed
<1>4. ASSUME NEW p \in Pids, Exit(p) PROVE LastEventIsTrue' /\ ForkFollowsExit' /\ ZombiesAreKnown' /\ KeptIsCurrent'
  <2>1. Reports("exit", p)
    BY <1>4, <1>0, KernelReports
  <2>2. QED
    BY <1>0, <2>1, ReportsAreFollowed
<1>5. ASSUME NEW p \in Pids, Reap(p) PROVE LastEventIsTrue' /\ ForkFollowsExit' /\ ZombiesAreKnown' /\ KeptIsCurrent'
  <2>1. /\ UNCHANGED <<queue, ipc, cursor, lost, active, comm, missed>> /\ task[p].at = "zombie"
        /\ \A r \in Pids \ {p} : task'[r] = task[r]
        /\ task'[p].at = "free"
    BY <1>5, <1>0 DEF Reap, Free, TrackerTypeOK
  <2>2. /\ LastEventIsTrue /\ ForkFollowsExit /\ ZombiesAreKnown /\ KeptIsCurrent
        /\ \A i \in 1 .. Len(queue) : queue[i] \in EventType
    BY <1>0 DEF TrackerInv, StepsFollow
  <2>3. \A i \in 1 .. Len(queue) : queue[i].pid \in Pids
    BY <2>2 DEF EventType
  <2>4. LastEventIsTrue'
    BY <2>1, <2>2, <2>3 DEF LastEventIsTrue, Following, IsLast, Live
  <2>5. ForkFollowsExit'
    <3>1. Following' = Following /\ queue' = queue /\ comm' = comm
      BY <2>1 DEF Following
    <3>2. QED
      BY <2>2, <3>1 DEF ForkFollowsExit
  <2>6. ZombiesAreKnown'
    BY <2>1, <2>2 DEF ZombiesAreKnown, Queued
  <2>7. KeptIsCurrent'
    BY <2>1, <2>2 DEF KeptIsCurrent, Following, Queued, Live
  <2>8. QED
    BY <2>4, <2>5, <2>6, <2>7
<1>6. CASE OpenSocket
  <2>1. ~Following' /\ ipc' \notin {"scan", "start"}
    BY <1>6, InitSteps DEF OpenSocket, Following
  <2>2. ipc' \in {"init", "listen"} /\ ~lost' => UNCHANGED <<task, queue, missed>> /\ ipc \in {"init", "listen"} /\ ~lost
    BY <1>6, InitSteps DEF OpenSocket
  <2>3. ZombiesAreKnown'
    BY <2>1, <2>2 DEF TrackerInv, ZombiesAreKnown, Queued
  <2>4. QED
    BY <2>1, <2>3 DEF LastEventIsTrue, ForkFollowsExit, KeptIsCurrent
<1>7. CASE Subscribe
  <2>1. /\ queue = <<>> /\ active = {} /\ cursor = 1 /\ \A p \in Pids : comm[p] = None
        /\ UNCHANGED <<task, queue, cursor, lost, active, comm, missed>> /\ ipc = "listen" /\ ipc' = "scan"
    BY <1>7, <1>0, InitSteps DEF Subscribe, StepsFollow
  <2>2. LastEventIsTrue' /\ ForkFollowsExit'
    BY <2>1 DEF LastEventIsTrue, ForkFollowsExit
  <2>3. ZombiesAreKnown'
    BY <2>1 DEF TrackerInv, ZombiesAreKnown, Queued
  <2>4. KeptIsCurrent'
    BY <2>1 DEF KeptIsCurrent, Pids
  <2>5. QED
    BY <2>2, <2>3, <2>4
<1>8. CASE ScanProc
  <2>1. /\ UNCHANGED <<task, queue, lost, comm, missed>> /\ ipc = "scan" /\ ipc' \in {"scan", "start"}
        /\ cursor' = cursor + 1 /\ (ipc' = "start" => cursor = NumPids)
        /\ active' = (IF Listed(cursor) THEN active \cup {cursor} ELSE active)
    BY <1>8, InitSteps DEF ScanProc
  <2>2. /\ cursor \in Int /\ LastEventIsTrue /\ ForkFollowsExit /\ ZombiesAreKnown /\ KeptIsCurrent
    BY <1>0 DEF TrackerInv, TrackerTypeOK
  <2>3. Following' = Following
    BY <2>1 DEF Following
  <2>4. LastEventIsTrue' /\ ForkFollowsExit'
    BY <2>1, <2>2, <2>3 DEF LastEventIsTrue, ForkFollowsExit, IsLast, Live
  <2>5. ZombiesAreKnown'
    BY <2>1, <2>2 DEF ZombiesAreKnown, Queued
  <2>6. ASSUME Following', NEW p \in Pids, ~Queued(p)'
        PROVE  /\ Live(p)' /\ ~task'[p].thread => p \in active' \/ (ipc' = "scan" /\ p >= cursor')
               /\ p \in active' => Live(p)' \/ p \in missed'
               /\ comm'[p] # None => Live(p)' /\ comm'[p] \in {task'[p].cmd, task'[p].name}
    <3>1. ~Queued(p) /\ Following /\ ~lost /\ Live(p)' = Live(p)
      BY <2>1, <2>3, <2>6 DEF Queued, Live, Following
    <3>2. /\ Live(p) /\ ~task[p].thread => p \in active \/ p >= cursor
          /\ p \in active => Live(p) \/ p \in missed
          /\ comm[p] # None => Live(p) /\ comm[p] \in {task[p].cmd, task[p].name}
      BY <2>2, <3>1 DEF KeptIsCurrent
    <3>3. task[p].at \in {"free", "live", "zombie"} /\ p \in 1 .. NumPids
      BY <1>0 DEF TrackerTypeOK, Pids
    <3>4. CASE p = cursor
      <4>1. Listed(p) <=> task[p].at # "free" /\ ~task[p].thread
        BY DEF Listed, InProc
      <4>2. task[p].at = "zombie" => p \in missed
        BY <2>1, <2>2, <3>1 DEF ZombiesAreKnown
      <4>3. QED
        BY <2>1, <3>1, <3>2, <3>3, <3>4, <4>1, <4>2 DEF Live
    <3>5. CASE p # cursor
      <4>1. p \in active' <=> p \in active
        BY <2>1, <3>5
      <4>2. p >= cursor => ipc' = "scan" /\ p >= cursor'
        BY <2>1, <2>2, <3>3, <3>5
      <4>3. QED
        BY <2>1, <3>1, <3>2, <4>1, <4>2
    <3>6. QED
      BY <3>4, <3>5
  <2>7. QED
    BY <2>4, <2>5, <2>6 DEF KeptIsCurrent
<1>9. CASE StartThread
  <2>1. UNCHANGED <<task, queue, cursor, lost, active, comm, missed>>
    BY <1>9 DEF StartThread
  <2>2. (Following' => Following) /\ (ipc' = ipc \/ (ipc = "start" /\ ipc' = "up") \/ (~Following' /\ ipc' = "joined"))
    BY <1>9 DEF StartThread, Following
  <2>3. \A i \in 1 .. Len(queue) : IsLast(i)' <=> IsLast(i)
    BY <2>1 DEF IsLast
  <2>4. \A r \in Pids : (Queued(r)' <=> Queued(r)) /\ (Live(r)' <=> Live(r))
    BY <2>1 DEF Queued, Live
  <2>5. LastEventIsTrue' /\ ForkFollowsExit'
    BY <2>1, <2>2, <2>3 DEF TrackerInv, LastEventIsTrue, ForkFollowsExit, Live
  <2>6. ZombiesAreKnown' /\ KeptIsCurrent'
    BY <2>1, <2>2, <2>4 DEF TrackerInv, ZombiesAreKnown, KeptIsCurrent
  <2>7. QED
    BY <2>5, <2>6
<1>10. CASE Shutdown
  <2>1. ~Following' /\ ipc' \notin {"scan", "start"}
    BY <1>10, InitSteps DEF Shutdown, Following
  <2>2. ipc' \in {"init", "listen"} /\ ~lost' => UNCHANGED <<task, queue, missed>> /\ ipc \in {"init", "listen"} /\ ~lost
    BY <1>10, InitSteps DEF Shutdown
  <2>3. ZombiesAreKnown'
    BY <2>1, <2>2 DEF TrackerInv, ZombiesAreKnown, Queued
  <2>4. QED
    BY <2>1, <2>3 DEF LastEventIsTrue, ForkFollowsExit, KeptIsCurrent
<1>11. CASE Join
  <2>1. UNCHANGED <<task, queue, cursor, lost, active, comm, missed>>
    BY <1>11 DEF Join
  <2>2. (Following' => Following) /\ (ipc' = ipc \/ (ipc = "start" /\ ipc' = "up") \/ (~Following' /\ ipc' = "joined"))
    BY <1>11 DEF Join, Following
  <2>3. \A i \in 1 .. Len(queue) : IsLast(i)' <=> IsLast(i)
    BY <2>1 DEF IsLast
  <2>4. \A r \in Pids : (Queued(r)' <=> Queued(r)) /\ (Live(r)' <=> Live(r))
    BY <2>1 DEF Queued, Live
  <2>5. LastEventIsTrue' /\ ForkFollowsExit'
    BY <2>1, <2>2, <2>3 DEF TrackerInv, LastEventIsTrue, ForkFollowsExit, Live
  <2>6. ZombiesAreKnown' /\ KeptIsCurrent'
    BY <2>1, <2>2, <2>4 DEF TrackerInv, ZombiesAreKnown, KeptIsCurrent
  <2>7. QED
    BY <2>5, <2>6
<1>12. CASE TestRunning
  <2>1. UNCHANGED <<task, queue, cursor, lost, active, comm, missed>>
    BY <1>12 DEF TestRunning
  <2>2. (Following' => Following) /\ (ipc' = ipc \/ (ipc = "start" /\ ipc' = "up") \/ (~Following' /\ ipc' = "joined"))
    BY <1>12 DEF TestRunning, Following
  <2>3. \A i \in 1 .. Len(queue) : IsLast(i)' <=> IsLast(i)
    BY <2>1 DEF IsLast
  <2>4. \A r \in Pids : (Queued(r)' <=> Queued(r)) /\ (Live(r)' <=> Live(r))
    BY <2>1 DEF Queued, Live
  <2>5. LastEventIsTrue' /\ ForkFollowsExit'
    BY <2>1, <2>2, <2>3 DEF TrackerInv, LastEventIsTrue, ForkFollowsExit, Live
  <2>6. ZombiesAreKnown' /\ KeptIsCurrent'
    BY <2>1, <2>2, <2>4 DEF TrackerInv, ZombiesAreKnown, KeptIsCurrent
  <2>7. QED
    BY <2>5, <2>6
<1>13. CASE EnterRecv
  <2>1. UNCHANGED <<task, queue, cursor, lost, active, comm, missed>>
    BY <1>13 DEF EnterRecv
  <2>2. (Following' => Following) /\ (ipc' = ipc \/ (ipc = "start" /\ ipc' = "up") \/ (~Following' /\ ipc' = "joined"))
    BY <1>13 DEF EnterRecv, Following
  <2>3. \A i \in 1 .. Len(queue) : IsLast(i)' <=> IsLast(i)
    BY <2>1 DEF IsLast
  <2>4. \A r \in Pids : (Queued(r)' <=> Queued(r)) /\ (Live(r)' <=> Live(r))
    BY <2>1 DEF Queued, Live
  <2>5. LastEventIsTrue' /\ ForkFollowsExit'
    BY <2>1, <2>2, <2>3 DEF TrackerInv, LastEventIsTrue, ForkFollowsExit, Live
  <2>6. ZombiesAreKnown' /\ KeptIsCurrent'
    BY <2>1, <2>2, <2>4 DEF TrackerInv, ZombiesAreKnown, KeptIsCurrent
  <2>7. QED
    BY <2>5, <2>6
<1>14. CASE RecvFails
  <2>1. UNCHANGED <<task, queue, cursor, lost, active, comm, missed>>
    BY <1>14 DEF RecvFails
  <2>2. (Following' => Following) /\ (ipc' = ipc \/ (ipc = "start" /\ ipc' = "up") \/ (~Following' /\ ipc' = "joined"))
    BY <1>14 DEF RecvFails, Following
  <2>3. \A i \in 1 .. Len(queue) : IsLast(i)' <=> IsLast(i)
    BY <2>1 DEF IsLast
  <2>4. \A r \in Pids : (Queued(r)' <=> Queued(r)) /\ (Live(r)' <=> Live(r))
    BY <2>1 DEF Queued, Live
  <2>5. LastEventIsTrue' /\ ForkFollowsExit'
    BY <2>1, <2>2, <2>3 DEF TrackerInv, LastEventIsTrue, ForkFollowsExit, Live
  <2>6. ZombiesAreKnown' /\ KeptIsCurrent'
    BY <2>1, <2>2, <2>4 DEF TrackerInv, ZombiesAreKnown, KeptIsCurrent
  <2>7. QED
    BY <2>5, <2>6
<1>15. CASE HandleEvent
  <2> DEFINE ev == queue[1]
  <2>1. /\ queue' \in Seq(EventType) /\ Len(queue') = Len(queue) - 1 /\ Len(queue) \in Nat
        /\ Len(queue) >= 1 /\ Head(queue) = ev /\ ev \in EventType
        /\ \A i \in 1 .. Len(queue') : queue'[i] = queue[i + 1] /\ i + 1 \in 1 .. Len(queue)
        /\ \A i \in 1 .. Len(queue') : IsLast(i)' <=> IsLast(i + 1)
        /\ \A p : p # ev.pid => (Queued(p)' <=> Queued(p))
        /\ \A p : p = ev.pid /\ ~Queued(p)' => IsLast(1)
    BY <1>15, <1>0, HandledIsFirst DEF HandleEvent, StepsFollow
  <2>2. /\ UNCHANGED <<task, ipc, cursor, lost, missed>>
        /\ active' = (IF ev.what = "exit" THEN active \ {ev.pid} ELSE active \cup {ev.pid})
        /\ comm' = [comm EXCEPT ![ev.pid] = CommAfter(ev)]
    BY <1>15, <2>1 DEF HandleEvent
  <2>3. ev.pid \in Pids /\ ev.what \in {"fork", "exec", "comm", "exit"}
    BY <2>1 DEF EventType
  <2> HIDE DEF ev
  <2>4. /\ comm'[ev.pid] = CommAfter(ev)
        /\ \A p \in Pids \ {ev.pid} : comm'[p] = comm[p] /\ (p \in active' <=> p \in active)
        /\ IF ev.what = "exit" THEN ev.pid \notin active' ELSE ev.pid \in active'
    BY <1>0, <2>2, <2>3 DEF TrackerTypeOK
  <2>5. /\ Following' = Following /\ LastEventIsTrue /\ ForkFollowsExit /\ KeptIsCurrent
        /\ ipc \notin {"init", "listen", "scan", "start"}
    BY <1>15, <1>0, <2>2 DEF Following, TrackerInv, HandleEvent, StepsFollow
  <2>6. LastEventIsTrue'
    <3> SUFFICES ASSUME Following', NEW i \in 1 .. Len(queue'), IsLast(i)'
                 PROVE  IF queue'[i].what = "exit" THEN task[queue'[i].pid].at # "live"
                        ELSE task[queue'[i].pid].at = "live" /\ queue'[i].name = task[queue'[i].pid].name
      BY <2>2 DEF LastEventIsTrue, Live
    <3>1. i + 1 \in 1 .. Len(queue) /\ IsLast(i + 1) /\ queue'[i] = queue[i + 1]
      BY <2>1
    <3>2. QED
      BY <2>5, <3>1 DEF LastEventIsTrue, Live
  <2>7. ForkFollowsExit'
    <3> SUFFICES ASSUME Following', NEW j \in 1 .. Len(queue'), queue'[j].what = "fork"
                 PROVE  \/ \E i \in 1 .. Len(queue') :
                             /\ i < j /\ queue'[i].pid = queue'[j].pid /\ queue'[i].what = "exit"
                             /\ \A k \in 1 .. Len(queue') : i < k /\ k < j => queue'[k].pid # queue'[j].pid
                        \/ /\ \A i \in 1 .. Len(queue') : i < j => queue'[i].pid # queue'[j].pid
                           /\ comm'[queue'[j].pid] = None
      BY DEF ForkFollowsExit
    <3>1. j + 1 \in 1 .. Len(queue) /\ queue'[j] = queue[j + 1] /\ queue[j + 1].what = "fork"
      BY <2>1
    <3>2. queue[j + 1].pid \in Pids
      <4>1. queue'[j] \in EventType
        BY <2>1
      <4>2. QED
        BY <3>1, <4>1 DEF EventType
    <3>3. CASE \E i \in 1 .. Len(queue) :
                 /\ i < j + 1 /\ queue[i].pid = queue[j + 1].pid /\ queue[i].what = "exit"
                 /\ \A k \in 1 .. Len(queue) : i < k /\ k < j + 1 => queue[k].pid # queue[j + 1].pid
      <4>1. PICK i \in 1 .. Len(queue) :
              /\ i < j + 1 /\ queue[i].pid = queue[j + 1].pid /\ queue[i].what = "exit"
              /\ \A k \in 1 .. Len(queue) : i < k /\ k < j + 1 => queue[k].pid # queue[j + 1].pid
        BY <3>3
      <4>2. CASE i = 1
        <5>1. \A k \in 1 .. Len(queue') : k < j => queue'[k].pid # queue'[j].pid
          <6>1. ASSUME NEW k \in 1 .. Len(queue'), k < j PROVE queue'[k].pid # queue'[j].pid
            <7>0. k \in Int /\ j \in Int /\ k >= 1
              BY <2>1, <6>1
            <7>1. k + 1 \in 1 .. Len(queue) /\ queue'[k] = queue[k + 1]
              BY <2>1, <6>1
            <7>2. 1 < k + 1 /\ k + 1 < j + 1
              BY <6>1, <7>0
            <7>3. QED
              BY <3>1, <4>1, <4>2, <7>1, <7>2
          <6>2. QED
            BY <6>1
        <5>2. comm'[queue'[j].pid] = None
          BY <2>4, <3>1, <4>1, <4>2 DEF ev, CommAfter
        <5>3. QED
          BY <5>1, <5>2
      <4>3. CASE i > 1
        <5>1. i - 1 \in 1 .. Len(queue') /\ i - 1 < j /\ queue'[i - 1] = queue[i]
          BY <2>1, <4>1, <4>3
        <5>2. \A k \in 1 .. Len(queue') : i - 1 < k /\ k < j => queue'[k].pid # queue'[j].pid
          <6>1. ASSUME NEW k \in 1 .. Len(queue'), i - 1 < k, k < j PROVE queue'[k].pid # queue'[j].pid
            <7>1. k + 1 \in 1 .. Len(queue) /\ i < k + 1 /\ k + 1 < j + 1 /\ queue'[k] = queue[k + 1]
              BY <2>1, <6>1, SMTT(30)
            <7>2. QED
              BY <3>1, <4>1, <7>1
          <6>2. QED
            BY <6>1
        <5>3. QED
          BY <3>1, <4>1, <5>1, <5>2
      <4>4. QED
        BY <4>1, <4>2, <4>3
    <3>4. CASE (\A i \in 1 .. Len(queue) : i < j + 1 => queue[i].pid # queue[j + 1].pid) /\ comm[queue[j + 1].pid] = None
      <4>1. queue[j + 1].pid # ev.pid
        BY <2>1, <3>4 DEF ev
      <4>2. comm'[queue[j + 1].pid] = None
        BY <2>4, <3>2, <3>4, <4>1
      <4>3. \A i \in 1 .. Len(queue') : i < j => queue'[i].pid # queue'[j].pid
        <5>1. ASSUME NEW i \in 1 .. Len(queue'), i < j PROVE queue'[i].pid # queue'[j].pid
          <6>1. i + 1 \in 1 .. Len(queue) /\ i + 1 < j + 1 /\ queue'[i] = queue[i + 1]
            BY <2>1, <5>1
          <6>2. QED
            BY <3>1, <3>4, <6>1
        <5>2. QED
          BY <5>1
      <4>4. QED
        BY <3>1, <4>2, <4>3
    <3>5. QED
      BY <2>5, <3>1, <3>3, <3>4 DEF ForkFollowsExit
  <2>8. ZombiesAreKnown'
    BY <2>2, <2>5 DEF ZombiesAreKnown
  <2>9. KeptIsCurrent'
    <3> SUFFICES ASSUME Following', NEW p \in Pids, ~Queued(p)'
                 PROVE  /\ Live(p) /\ ~task[p].thread => p \in active' \/ (ipc = "scan" /\ p >= cursor)
                        /\ p \in active' => Live(p) \/ p \in missed
                        /\ comm'[p] # None => Live(p) /\ comm'[p] \in {task[p].cmd, task[p].name}
      BY <2>2 DEF KeptIsCurrent, Live
    <3>1. CASE p # ev.pid
      BY <2>1, <2>4, <2>5, <3>1 DEF KeptIsCurrent
    <3>2. CASE p = ev.pid
      <4>1. IF ev.what = "exit" THEN ~Live(p) ELSE Live(p) /\ ev.name = task[p].name
        <5>1. 1 \in 1 .. Len(queue) /\ IsLast(1) /\ Following
          BY <2>1, <2>5, <3>2
        <5>2. IF queue[1].what = "exit" THEN ~Live(queue[1].pid)
              ELSE Live(queue[1].pid) /\ queue[1].name = task[queue[1].pid].name
          BY <2>5, <5>1 DEF LastEventIsTrue
        <5>3. QED
          BY <3>2, <5>2 DEF ev
      <4>2. ev.what = "fork" => comm[p] = None
        <5>1. \A i \in 1 .. Len(queue) : ~(i < 1)
          BY <2>1
        <5>2. 1 \in 1 .. Len(queue)
          BY <2>1
        <5>3. QED
          BY <2>5, <3>2, <5>1, <5>2 DEF ForkFollowsExit, ev
      <4>3. comm'[p] # None => Live(p) /\ comm'[p] \in {task[p].cmd, task[p].name}
        BY <2>3, <2>4, <3>2, <4>1, <4>2 DEF CommAfter, TitleNow
      <4>4. QED
        BY <2>4, <3>2, <4>1, <4>3
    <3>3. QED
      BY <3>1, <3>2
  <2>10. QED
    BY <2>6, <2>7, <2>8, <2>9
<1>16. CASE UNCHANGED trackerVars
  <2>1. UNCHANGED <<task, queue, cursor, lost, active, comm, missed>>
    BY <1>16 DEF trackerVars
  <2>2. (Following' => Following) /\ (ipc' = ipc \/ (ipc = "start" /\ ipc' = "up") \/ (~Following' /\ ipc' = "joined"))
    BY <1>16 DEF trackerVars, Following
  <2>3. \A i \in 1 .. Len(queue) : IsLast(i)' <=> IsLast(i)
    BY <2>1 DEF IsLast
  <2>4. \A r \in Pids : (Queued(r)' <=> Queued(r)) /\ (Live(r)' <=> Live(r))
    BY <2>1 DEF Queued, Live
  <2>5. LastEventIsTrue' /\ ForkFollowsExit'
    BY <2>1, <2>2, <2>3 DEF TrackerInv, LastEventIsTrue, ForkFollowsExit, Live
  <2>6. ZombiesAreKnown' /\ KeptIsCurrent'
    BY <2>1, <2>2, <2>4 DEF TrackerInv, ZombiesAreKnown, KeptIsCurrent
  <2>7. QED
    BY <2>5, <2>6
<1>17. QED
  BY <1>1, <1>2, <1>3, <1>4, <1>5, <1>6, <1>7, <1>8, <1>9, <1>10, <1>11, <1>12, <1>13, <1>14, <1>15, <1>16
  DEF TrackerNext, Kernel, Main, EventThread

LEMMA TrackerStarts == TrackerInit => TrackerInv
<1> SUFFICES ASSUME TrackerInit PROVE TrackerInv
  OBVIOUS
<1>1. /\ ipc = "init" /\ sock = "none" /\ queue = <<>> /\ overrun = FALSE /\ lost = FALSE /\ running = FALSE
      /\ epc = "none" /\ cursor = 1 /\ active = {} /\ missed = {} /\ forks = 0 /\ titles = 0
      /\ \A p \in Pids : comm[p] = None
  BY DEF TrackerInit
<1>2. \A p \in Pids : task[p].at \in {"free", "live"}
  BY DEF TrackerInit, Free
<1>3. TrackerTypeOK
  <2>0. Free \in TaskType
    BY NetlinkAssumption DEF Free, TaskType, Initial
  <2>1. [Free EXCEPT !.at = "live"] \in TaskType
    BY <2>0 DEF TaskType
  <2>2. task \in [Pids -> TaskType]
    BY <2>0, <2>1 DEF TrackerInit
  <2>3. comm \in [Pids -> 0 .. MaxTitles \cup {None}]
    BY DEF TrackerInit
  <2>4. Len(queue) = 0 /\ 0 <= MaxQueue /\ 1 \in 1 .. NumPids + 1 /\ 0 \in 0 .. MaxForks /\ 0 \in 0 .. MaxTitles
    BY <1>1, NetlinkAssumption
  <2>5. QED
    BY <1>1, <2>2, <2>3, <2>4 DEF TrackerTypeOK, TaskType
<1>4. StepsFollow
  <2>1. queue \in Seq(EventType)
    BY <1>1
  <2>2. QED
    BY <1>1, <2>1 DEF StepsFollow
<1>5. LastEventIsTrue /\ ForkFollowsExit /\ KeptIsCurrent
  BY <1>1 DEF LastEventIsTrue, ForkFollowsExit, KeptIsCurrent, Following
<1>6. ZombiesAreKnown
  BY <1>2 DEF ZombiesAreKnown
<1>7. QED
  BY <1>3, <1>4, <1>5, <1>6 DEF TrackerInv

LEMMA TrackerInvHolds == TrackerSpec => []TrackerInv
<1>1. TrackerInit => TrackerInv
  BY TrackerStarts
<1>2. TrackerInv /\ [TrackerNext]_trackerVars => TrackerInv'
  BY TrackerKeepsTypes, StepsAreFollowed, EventsAreFollowed DEF TrackerInv
<1>3. QED
  BY <1>1, <1>2, PTL DEF TrackerSpec

\* Every variable of the event half keeps its type.
THEOREM TrackerTypeCorrect == TrackerSpec => []TrackerTypeOK
<1>1. TrackerInv => TrackerTypeOK
  BY DEF TrackerInv
<1>2. QED
  BY <1>1, TrackerInvHolds, PTL

\* Whatever raced the scan of /proc and the queue, once the events are handled
\* active_pids_ and pid_to_comm_ describe the processes there are.
THEOREM ActiveCurrent == TrackerSpec => []ActiveIsCurrent
<1>1. TrackerInv => ActiveIsCurrent
  <2> SUFFICES ASSUME TrackerInv, Settled PROVE ActiveIsCurrent
    BY DEF ActiveIsCurrent, SetIsCurrent, CommIsCurrent
  <2>1. Following /\ ipc = "up" /\ \A p \in Pids : ~Queued(p)
    BY DEF Settled, Following, Queued
  <2>2. \A p \in Pids : /\ Live(p) /\ ~task[p].thread => p \in active
                        /\ p \in active => Live(p) \/ p \in missed
                        /\ comm[p] # None => Live(p) /\ comm[p] \in {task[p].cmd, task[p].name}
    BY <2>1 DEF TrackerInv, KeptIsCurrent
  <2>3. active \subseteq Pids
    BY DEF TrackerInv, TrackerTypeOK
  <2>4. QED
    BY <2>2, <2>3 DEF ActiveIsCurrent, SetIsCurrent, CommIsCurrent
<1>2. QED
  BY <1>1, TrackerInvHolds, PTL
-----------------------------------------------------------------------------
(***************************************************************************)
(* sample().                                                               *)
(***************************************************************************)

\* Every candidate is read once, and gets one row.
OneRowEach ==
  /\ \A r, s \in rows : r.pid = s.pid => r = s
  /\ \A r \in rows : r.pid \notin todo /\ r.total <= MaxCpu
  /\ spc = "idle" => rows = {} /\ todo = {} /\ current = {}

\* A task has used at least what was last read of it.
SeenIsPast == \A p \in Sampled : seen[p] <= cpu[p]

\* What was read in the tick before is the baseline of a task still to be read.
BaselineIsSeen ==
  \A p \in previous : spc = "idle" \/ p \in todo =>
    have /\ last[p] = seen[p] /\ seen[p] # NoSample

\* What was read in this tick is in the rows, of which the next baseline is made.
CurrentHasRow ==
  \A p \in current : seen[p] # NoSample /\ \E r \in rows : r.pid = p /\ r.total = seen[p]

SamplerInv ==
  /\ SamplerTypeOK /\ OneRowEach /\ SeenIsPast /\ BaselineIsSeen /\ CurrentHasRow /\ ExactShare

LEMMA MinOfTwo ==
  ASSUME NEW a \in Int, NEW b \in Int
  PROVE  Min({a, b}) = IF a <= b THEN a ELSE b
<1> DEFINE m == IF a <= b THEN a ELSE b
<1>1. m \in {a, b} /\ \A y \in {a, b} : m <= y
  OBVIOUS
<1>2. \A x \in {a, b} : (\A y \in {a, b} : x <= y) => x = m
  OBVIOUS
<1> HIDE DEF m
<1>3. (CHOOSE x \in {a, b} : \A y \in {a, b} : x <= y) = m
  BY <1>1, <1>2
<1>4. QED
  BY <1>3 DEF Min, m

\* The candidates are active pids, and the cursor stays a position.
LEMMA CandidatesAreActive ==
  ASSUME SamplerTypeOK, SampleBegin
  PROVE  todo' \subseteq activePids /\ rr' \in 0 .. NumSampled
<1> DEFINE C == Cardinality(activePids)
<1>1. activePids \subseteq Sampled /\ rr \in 0 .. NumSampled /\ NumSampled \in Nat /\ Budget \in Nat
  BY SamplerAssumption DEF SamplerTypeOK
<1>2. IsFiniteSet(activePids) /\ C \in Nat /\ C <= NumSampled
  <2>1. IsFiniteSet(Sampled) /\ Cardinality(Sampled) = (IF 1 > NumSampled THEN 0 ELSE NumSampled - 1 + 1)
    BY <1>1, FS_Interval DEF Sampled
  <2>2. IsFiniteSet(activePids) /\ C <= Cardinality(Sampled)
    BY <1>1, <2>1, FS_Subset
  <2>3. C \in Nat
    BY <2>2, FS_CardinalityType
  <2>4. QED
    BY <1>1, <2>1, <2>2, <2>3
<1>3. PICK H \in HotPicks :
        LET picked == Kept \cup H
            taken  == Min({Cardinality(activePids), Budget - Cardinality(picked)})
        IN /\ todo' = picked \cup Turns(taken)
           /\ rr' = IF taken = 0 THEN rr ELSE Advance(taken, Cardinality(Turns(taken) \ picked))
  BY DEF SampleBegin
<1> DEFINE picked == Kept \cup H
           taken  == Min({Cardinality(activePids), Budget - Cardinality(picked)})
<1>4. picked \subseteq activePids
  BY DEF HotPicks, Kept
<1>5. IsFiniteSet(picked) /\ Cardinality(picked) \in Nat
  BY <1>2, <1>4, FS_Subset, FS_CardinalityType
<1>6. taken = IF C <= Budget - Cardinality(picked) THEN C ELSE Budget - Cardinality(picked)
  <2>1. C \in Int /\ Budget - Cardinality(picked) \in Int
    BY <1>1, <1>2, <1>5
  <2> HIDE DEF picked, C
  <2>2. Min({C, Budget - Cardinality(picked)})
          = IF C <= Budget - Cardinality(picked) THEN C ELSE Budget - Cardinality(picked)
    BY <2>1, MinOfTwo
  <2>3. QED
    BY <2>2 DEF C
<1>7. taken \in Int
  BY <1>1, <1>2, <1>5, <1>6
<1>8. taken # 0 => C > 0
  <2>1. ASSUME C = 0 PROVE taken = 0
    <3>1. activePids = {}
      BY <1>2, <2>1, FS_EmptySet
    <3>2. Cardinality(picked) = 0
      BY <1>4, <3>1, FS_EmptySet
    <3>3. QED
      BY <1>1, <1>6, <2>1, <3>2
  <2>2. QED
    BY <1>2, <2>1
<1>9. todo' = picked \cup Turns(taken) /\ (rr' = rr \/ (taken # 0 /\ rr' = (rr + taken) % C))
  BY <1>3 DEF Advance
<1> HIDE DEF picked, taken, C
<1>10. rr' \in 0 .. NumSampled
  <2>1. CASE rr' = rr
    BY <1>1, <2>1
  <2>2. CASE taken # 0 /\ rr' = (rr + taken) % C
    <3>1. C \in Nat \ {0} /\ rr + taken \in Int
      BY <1>1, <1>2, <1>7, <1>8, <2>2
    <3>2. (rr + taken) % C \in 0 .. C - 1
      BY <3>1
    <3>3. QED
      BY <1>1, <1>2, <2>2, <3>1, <3>2
  <2>3. QED
    BY <1>9, <2>1, <2>2
<1>11. QED
  BY <1>4, <1>9, <1>10 DEF Turns

\* The baseline of a pid is the total of the one row it has.
LEMMA BaselineOfRow ==
  ASSUME OneRowEach, NEW K, NEW p \in Sampled
  PROVE  /\ Baseline(K)[p] = NoSample \/ \E r \in rows : r.pid = p /\ Baseline(K)[p] = r.total
         /\ \A r \in rows : r.pid = p => Baseline(K)[p] = r.total
<1>1. Baseline(K)[p] = IF \E r \in rows : r.pid = p
                         THEN (CHOOSE r \in rows : r.pid = p).total ELSE NoSample
  BY DEF Baseline, Totals
<1>2. CASE \E r \in rows : r.pid = p
  <2>1. /\ (CHOOSE r \in rows : r.pid = p) \in rows
        /\ (CHOOSE r \in rows : r.pid = p).pid = p
    BY <1>2
  <2>2. QED
    BY <1>1, <1>2, <2>1 DEF OneRowEach
<1>3. CASE ~\E r \in rows : r.pid = p
  BY <1>1, <1>3
<1>4. QED
  BY <1>2, <1>3

\* A reading of a task that is still there ends in a row that is exact.
LEMMA RowIsExact ==
  ASSUME SamplerInv, NEW p \in todo, NEW total \in cpu[p] .. MaxCpu, spc = "read"
  PROVE  /\ [pid |-> p, total |-> total, pct |-> Pct(p, total), was |-> seen[p], direct |-> p \in previous] \in Row
         /\ p \in previous => Pct(p, total) = total - seen[p]
<1>1. /\ p \in Sampled /\ cpu[p] \in 0 .. MaxCpu /\ last[p] \in 0 .. MaxCpu \cup {NoSample}
      /\ seen[p] \in 0 .. MaxCpu \cup {NoSample} /\ seen[p] <= cpu[p] /\ MaxCpu \in Nat
  BY SamplerAssumption DEF SamplerInv, SamplerTypeOK, SeenIsPast
<1>2. total \in Nat /\ total >= cpu[p]
  BY <1>1
<1>3. Pct(p, total) \in Nat
  BY <1>1, <1>2 DEF Pct, NoSample
<1>4. seen[p] \in Nat \cup {NoSample}
  BY <1>1
<1>5. p \in previous => Pct(p, total) = total - seen[p]
  <2> SUFFICES ASSUME p \in previous PROVE Pct(p, total) = total - seen[p]
    OBVIOUS
  <2>1. have /\ last[p] = seen[p] /\ seen[p] # NoSample
    BY DEF SamplerInv, BaselineIsSeen
  <2>2. QED
    BY <1>1, <1>2, <2>1 DEF Pct
<1>6. (p \in previous) \in BOOLEAN
  OBVIOUS
<1>7. QED
  BY <1>1, <1>2, <1>3, <1>4, <1>5, <1>6 DEF Row

LEMMA SamplerInductive == SamplerInv /\ [SamplerNext]_samplerVars => SamplerInv'
<1> SUFFICES ASSUME SamplerInv, [SamplerNext]_samplerVars PROVE SamplerInv'
  OBVIOUS
<1>0. SamplerTypeOK /\ OneRowEach /\ SeenIsPast /\ BaselineIsSeen /\ CurrentHasRow /\ ExactShare
  BY DEF SamplerInv
<1> USE SamplerAssumption DEF taskVars, activeVars, sampleVars, usageVars
<1>1. ASSUME NEW p \in Sampled, Born(p) PROVE SamplerInv'
  BY <1>0, <1>1 DEF Born, SamplerInv, SamplerTypeOK, OneRowEach, SeenIsPast, BaselineIsSeen, CurrentHasRow, ExactShare
<1>2. ASSUME NEW p \in Sampled, Gone(p) PROVE SamplerInv'
  <2>1. SamplerTypeOK'
    BY <1>0, <1>2 DEF Gone, SamplerTypeOK
  <2>2. OneRowEach' /\ ExactShare'
    BY <1>0, <1>2 DEF Gone, OneRowEach, ExactShare
  <2>3. /\ seen'[p] = NoSample /\ cpu'[p] = 0
        /\ \A q \in Sampled \ {p} : seen'[q] = seen[q] /\ cpu'[q] = cpu[q]
    BY <1>0, <1>2 DEF Gone, SamplerTypeOK
  <2>4. SeenIsPast'
    BY <1>0, <2>3 DEF SeenIsPast, NoSample
  <2>5. BaselineIsSeen' /\ CurrentHasRow'
    BY <1>0, <1>2, <2>3 DEF Gone, BaselineIsSeen, CurrentHasRow, SamplerTypeOK
  <2>6. QED
    BY <2>1, <2>2, <2>4, <2>5 DEF SamplerInv
<1>3. ASSUME NEW p \in Sampled, EventInsert(p) PROVE SamplerInv'
  <2>1. SamplerTypeOK'
    BY <1>0, <1>3 DEF EventInsert, SamplerTypeOK
  <2>2. QED
    BY <1>0, <1>3, <2>1 DEF EventInsert, SamplerInv, OneRowEach, SeenIsPast, BaselineIsSeen, CurrentHasRow, ExactShare
<1>4. ASSUME NEW p \in Sampled, EventErase(p) PROVE SamplerInv'
  <2>1. SamplerTypeOK'
    BY <1>0, <1>4 DEF EventErase, SamplerTypeOK
  <2>2. QED
    BY <1>0, <1>4, <2>1 DEF EventErase, SamplerInv, OneRowEach, SeenIsPast, BaselineIsSeen, CurrentHasRow, ExactShare
<1>5. CASE SampleBegin
  <2>1. todo' \subseteq activePids /\ rr' \in 0 .. NumSampled
    BY <1>0, <1>5, CandidatesAreActive
  <2>2. /\ spc = "idle" /\ spc' = "read" /\ hot' = {} /\ scanned' = todo'
        /\ UNCHANGED <<taskVars, activePids, rows, last, have, top, seen, previous, current>>
    BY <1>5 DEF SampleBegin
  <2>3. SamplerTypeOK'
    BY <1>0, <2>1, <2>2 DEF SamplerTypeOK
  <2>4. rows = {} /\ current = {}
    BY <1>0, <2>2 DEF OneRowEach
  <2>5. OneRowEach' /\ CurrentHasRow' /\ ExactShare'
    BY <2>2, <2>4 DEF OneRowEach, CurrentHasRow, ExactShare
  <2>6. SeenIsPast' /\ BaselineIsSeen'
    BY <1>0, <2>2 DEF SeenIsPast, BaselineIsSeen
  <2>7. QED
    BY <2>3, <2>5, <2>6 DEF SamplerInv
<1>6. ASSUME NEW p \in todo, ReadStat(p) PROVE SamplerInv'
  <2>1. PICK total \in cpu[p] .. MaxCpu :
          /\ cpu' = [cpu EXCEPT ![p] = total]
          /\ seen' = [seen EXCEPT ![p] = total]
          /\ rows' = rows \cup {[pid |-> p, total |-> total, pct |-> Pct(p, total),
                                 was |-> seen[p], direct |-> p \in previous]}
    BY <1>6 DEF ReadStat
  <2> DEFINE row == [pid |-> p, total |-> total, pct |-> Pct(p, total),
                     was |-> seen[p], direct |-> p \in previous]
  <2>2. /\ spc = "read" /\ todo' = todo \ {p} /\ current' = current \cup {p}
        /\ UNCHANGED <<inProc, events, activeVars, spc, last, have, top, rr, scanned, previous>>
    BY <1>6 DEF ReadStat
  <2>3. row \in Row /\ (p \in previous => row.pct = row.total - row.was)
    BY <1>0, <1>6, <2>2, RowIsExact
  <2>4. row.pid = p /\ row.total = total /\ row.direct = (p \in previous)
    OBVIOUS
  <2> HIDE DEF row
  <2>5. p \in Sampled /\ cpu[p] \in 0 .. MaxCpu /\ total \in 0 .. MaxCpu
    BY <1>0, <1>6 DEF SamplerTypeOK
  <2>6. /\ rows' = rows \cup {row}
        /\ seen'[p] = total /\ cpu'[p] = total
        /\ \A q \in Sampled \ {p} : seen'[q] = seen[q] /\ cpu'[q] = cpu[q]
    BY <1>0, <2>1, <2>5 DEF row, SamplerTypeOK
  <2>7. SamplerTypeOK'
    <3>1. cpu' \in [Sampled -> 0 .. MaxCpu] /\ seen' \in [Sampled -> 0 .. MaxCpu \cup {NoSample}]
      BY <1>0, <2>1, <2>5 DEF SamplerTypeOK
    <3>2. rows' \subseteq Row
      BY <1>0, <2>3, <2>6 DEF SamplerTypeOK
    <3>3. QED
      BY <1>0, <2>2, <2>5, <3>1, <3>2 DEF SamplerTypeOK
  <2>8. OneRowEach'
    BY <1>0, <1>6, <2>2, <2>4, <2>5, <2>6 DEF OneRowEach
  <2>9. SeenIsPast'
    BY <1>0, <2>5, <2>6 DEF SeenIsPast
  <2>10. BaselineIsSeen'
    BY <1>0, <2>2, <2>6 DEF BaselineIsSeen, SamplerTypeOK
  <2>11. CurrentHasRow'
    <3>1. seen'[p] # NoSample /\ \E r \in rows' : r.pid = p /\ r.total = seen'[p]
      BY <2>4, <2>5, <2>6 DEF NoSample
    <3>2. ASSUME NEW q \in current, q # p
          PROVE  seen'[q] # NoSample /\ \E r \in rows' : r.pid = q /\ r.total = seen'[q]
      BY <1>0, <2>6, <3>2 DEF CurrentHasRow, SamplerTypeOK
    <3>3. QED
      BY <2>2, <3>1, <3>2 DEF CurrentHasRow
  <2>12. ExactShare'
    BY <1>0, <2>3, <2>4, <2>6 DEF ExactShare
  <2>13. QED
    BY <2>7, <2>8, <2>9, <2>10, <2>11, <2>12 DEF SamplerInv
<1>7. ASSUME NEW p \in todo, ReadFailed(p) PROVE SamplerInv'
  <2> DEFINE row == [pid |-> p, total |-> 0, pct |-> 0, was |-> NoSample, direct |-> FALSE]
  <2>1. /\ spc = "read" /\ todo' = todo \ {p} /\ rows' = rows \cup {row}
        /\ UNCHANGED <<taskVars, activeVars, spc, last, have, top, rr, usageVars>>
    BY <1>7 DEF ReadFailed
  <2>2. p \in Sampled
    BY <1>0, <1>7 DEF SamplerTypeOK
  <2>3. row \in Row /\ row.pid = p /\ row.total = 0 /\ ~row.direct
    BY <2>2 DEF Row
  <2> HIDE DEF row
  <2>4. SamplerTypeOK'
    BY <1>0, <2>1, <2>3 DEF SamplerTypeOK
  <2>5. OneRowEach'
    BY <1>0, <1>7, <2>1, <2>3 DEF OneRowEach
  <2>6. SeenIsPast' /\ BaselineIsSeen'
    BY <1>0, <2>1 DEF SeenIsPast, BaselineIsSeen
  <2>7. CurrentHasRow' /\ ExactShare'
    BY <1>0, <2>1, <2>3 DEF CurrentHasRow, ExactShare
  <2>8. QED
    BY <2>4, <2>5, <2>6, <2>7 DEF SamplerInv
<1>8. CASE SampleEnd
  <2>1. PICK K \in TopRows : last' = Baseline(K) /\ top' = {r.pid : r \in K}
    BY <1>8 DEF SampleEnd
  <2>2. /\ spc = "read" /\ todo = {} /\ have' = TRUE /\ rows' = {} /\ spc' = "idle"
        /\ previous' = current /\ current' = {}
        /\ UNCHANGED <<taskVars, activeVars, todo, rr, scanned, seen>>
    BY <1>8 DEF SampleEnd
  <2>3. \A p \in Sampled :
          /\ last'[p] = NoSample \/ \E r \in rows : r.pid = p /\ last'[p] = r.total
          /\ \A r \in rows : r.pid = p => last'[p] = r.total
    BY <1>0, <2>1, BaselineOfRow
  <2>4. \A r \in rows : r.pid \in Sampled /\ r.total \in 0 .. MaxCpu
    BY <1>0 DEF SamplerTypeOK, Row, OneRowEach
  <2>5. SamplerTypeOK'
    <3>1. last' \in [Sampled -> 0 .. MaxCpu \cup {NoSample}]
      <4>1. DOMAIN last' = Sampled /\ last' = [p \in Sampled |-> last'[p]]
        BY <2>1 DEF Baseline, Totals
      <4>2. \A p \in Sampled : last'[p] \in 0 .. MaxCpu \cup {NoSample}
        BY <2>3, <2>4
      <4>3. QED
        BY <4>1, <4>2
    <3>2. top' \subseteq Sampled
      BY <2>1, <2>4 DEF TopRows
    <3>3. QED
      BY <1>0, <2>2, <3>1, <3>2 DEF SamplerTypeOK
  <2>6. OneRowEach' /\ SeenIsPast' /\ CurrentHasRow' /\ ExactShare'
    BY <1>0, <2>2 DEF OneRowEach, SeenIsPast, CurrentHasRow, ExactShare
  <2>7. BaselineIsSeen'
    <3>1. ASSUME NEW p \in current PROVE last'[p] = seen[p] /\ seen[p] # NoSample
      <4>1. p \in Sampled
        BY <1>0 DEF SamplerTypeOK
      <4>2. QED
        BY <1>0, <2>3, <4>1 DEF CurrentHasRow
    <3>2. QED
      BY <2>2, <3>1 DEF BaselineIsSeen
  <2>8. QED
    BY <2>5, <2>6, <2>7 DEF SamplerInv
<1>9. CASE UNCHANGED samplerVars
  BY <1>0, <1>9 DEF samplerVars, SamplerInv, SamplerTypeOK, OneRowEach, SeenIsPast, BaselineIsSeen, CurrentHasRow, ExactShare
<1>10. QED
  BY <1>1, <1>2, <1>3, <1>4, <1>5, <1>6, <1>7, <1>8, <1>9 DEF SamplerNext, Environment, Sampler

LEMMA SamplerStarts == SamplerInit => SamplerInv
<1> SUFFICES ASSUME SamplerInit PROVE SamplerInv
  OBVIOUS
<1> USE SamplerAssumption
<1>1. /\ cpu \in [Sampled -> 0 .. MaxCpu]
      /\ last \in [Sampled -> 0 .. MaxCpu \cup {NoSample}]
      /\ seen \in [Sampled -> 0 .. MaxCpu \cup {NoSample}]
  BY DEF SamplerInit
<1>2. SamplerTypeOK
  <2>1. inProc \subseteq Sampled /\ activePids = inProc
    BY DEF SamplerInit
  <2>2. /\ hot = {} /\ todo = {} /\ top = {} /\ scanned = {} /\ previous = {} /\ current = {}
        /\ rows = {} /\ have = FALSE /\ spc = "idle" /\ events = 0 /\ rr = 0
    BY DEF SamplerInit
  <2>3. events \in 0 .. MaxEvents /\ rr \in 0 .. NumSampled
    BY <2>2
  <2>4. QED
    BY <1>1, <2>1, <2>2, <2>3 DEF SamplerTypeOK
<1>3. SeenIsPast
  BY DEF SamplerInit, SeenIsPast, NoSample
<1>4. OneRowEach /\ BaselineIsSeen /\ CurrentHasRow /\ ExactShare
  BY DEF SamplerInit, OneRowEach, BaselineIsSeen, CurrentHasRow, ExactShare
<1>5. QED
  BY <1>2, <1>3, <1>4 DEF SamplerInv

LEMMA SamplerInvHolds == SamplerSpec => []SamplerInv
<1>1. QED
  BY SamplerStarts, SamplerInductive, PTL DEF SamplerSpec

\* Every variable of the sampling half keeps its type.
THEOREM SamplerTypeCorrect == SamplerSpec => []SamplerTypeOK
<1>1. SamplerInv => SamplerTypeOK
  BY DEF SamplerInv
<1>2. QED
  BY <1>1, SamplerInvHolds, PTL

\* A task that sample() reads in two ticks running is charged exactly what it
\* used in between, whoever had its pid before and whatever else was picked.
THEOREM SharesAreExact == SamplerSpec => []ExactShare
<1>1. SamplerInv => ExactShare
  BY DEF SamplerInv
<1>2. QED
  BY <1>1, SamplerInvHolds, PTL
=============================================================================
