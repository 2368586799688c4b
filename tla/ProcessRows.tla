---------------------------- MODULE ProcessRows -----------------------------
(***************************************************************************)
(* sample() of the two process collectors that take the whole population     *)
(* each time: KernelProcessCollector, which asks the kernel module for its    *)
(* table over a netlink socket, and ProcessCollector, which reads /proc pid   *)
(* by pid.  Processes come, run, exec and go between any two reads, also      *)
(* under the same pid.                                                      *)
(*                                                                         *)
(* A process is its life (a number of its own), the time it has used and      *)
(* its title.  A command shown is <<life, title>>: whose it is, and which;    *)
(* title 0 is the short name, or an empty command line.  Time is counted in   *)
(* ticks of cpu_total.                                                      *)
(***************************************************************************)
EXTENDS Integers, Sequences, FiniteSets

CONSTANTS ScanPids,      \* pids, positive
          TopK,          \* max_procs_
          EnrichTop,     \* enrich_top_n_
          MinInterval,   \* min_interval_ms_, in ticks
          MaxLives, MaxTitle, MaxTicks, MaxScans,
          MaxFaults      \* reads, replies and receives that fail for want of something

ASSUME RowBounds ==
    /\ ScanPids \subseteq Nat \ {0} /\ IsFiniteSet(ScanPids) /\ {TopK, EnrichTop, MinInterval} \subseteq Nat
    /\ {MaxLives, MaxTitle, MaxTicks, MaxScans, MaxFaults} \subseteq Nat

VARIABLES backend,    \* "kernel" or "procfs"
          proc,       \* pid -> [life, used, title]; life 0: no process
          cached,     \* pid -> the time used as the module's table has it
          ticks,      \* cpu_total
          rowAt,      \* where sample() is: "idle", "sent", "scan", "title"
          scans,      \* samples begun
          inbox,      \* replies on the socket, oldest first
          todo,       \* entries of /proc, or rows, still to be read
          rowSeq,     \* out.processes
          cpuTotal,   \* cpu_total as read by this sample
          lastPer,    \* last_per_proc_
          lastCpu,    \* last_cpu_total_; -1 before have_last_
          lastRun,    \* last_run_; -1 before
          titles,     \* cmdline_cache_
          \* kept beside the code, to judge it
          lives,      \* lives so far
          pidOf,      \* life -> its pid
          usedBy,     \* life -> the time it has used
          charged,    \* life -> the time it was charged with
          before,     \* pid -> <<life, reading>> of the sample before
          heldBy,     \* pid -> who held it since a reply last missed it, or the
                      \* scan began
          faults,     \* failed reads, replies and receives
          mischarged, \* lives charged otherwise than they ran between two readings
          slighted    \* lives whose reading failed while they lived
worldVars == <<proc, cached, ticks, lives, pidOf, usedBy, heldBy>>
scanVars == <<rowAt, scans, inbox, todo, rowSeq, cpuTotal, lastPer, lastCpu, lastRun, titles>>
judgeVars == <<charged, before, mischarged, faults, slighted>>
rowVars == <<backend, worldVars, scanVars, judgeVars>>

NoProc == [life |-> 0, used |-> 0, title |-> 0]
Living == {p \in ScanPids : proc[p].life # 0}
EmptyRows == [p \in {} |-> 0]

RowInit ==
    /\ backend \in {"kernel", "procfs"}
    /\ proc = [p \in ScanPids |-> NoProc] /\ cached = [p \in ScanPids |-> 0]
    /\ ticks = 0 /\ lives = 0
    /\ usedBy = [l \in 1 .. MaxLives |-> 0] /\ pidOf = [l \in 1 .. MaxLives |-> 0]
    /\ heldBy = [p \in ScanPids |-> {}]
    /\ rowAt = "idle" /\ scans = 0 /\ inbox = <<>> /\ todo = <<>> /\ rowSeq = <<>>
    /\ cpuTotal = 0 /\ lastPer = EmptyRows /\ lastCpu = -1 /\ lastRun = -1
    /\ titles = EmptyRows
    /\ charged = [l \in 1 .. MaxLives |-> 0] /\ before = EmptyRows
    /\ mischarged = {} /\ faults = 0 /\ slighted = {}
-----------------------------------------------------------------------------
(* The host.                                                               *)

Spawn(p) ==
    /\ proc[p].life = 0 /\ lives < MaxLives
    /\ lives' = lives + 1 /\ pidOf' = [pidOf EXCEPT ![lives + 1] = p]
    /\ proc' = [proc EXCEPT ![p] = [NoProc EXCEPT !.life = lives + 1]]
    /\ cached' = [cached EXCEPT ![p] = 0]
    /\ heldBy' = [heldBy EXCEPT ![p] = @ \cup {lives + 1}]
    /\ UNCHANGED <<backend, ticks, usedBy, scanVars, judgeVars>>

Run(p) ==
    /\ proc[p].life # 0 /\ ticks < MaxTicks
    /\ ticks' = ticks + 1
    /\ proc' = [proc EXCEPT ![p].used = @ + 1]
    /\ usedBy' = [usedBy EXCEPT ![proc[p].life] = @ + 1]
    /\ UNCHANGED <<backend, cached, lives, pidOf, heldBy, scanVars, judgeVars>>

Exec(p) ==
    /\ proc[p].life # 0 /\ proc[p].title < MaxTitle
    /\ proc' = [proc EXCEPT ![p].title = @ + 1]
    /\ UNCHANGED <<backend, cached, ticks, lives, pidOf, usedBy, heldBy, scanVars, judgeVars>>

Exit(p) ==
    /\ proc[p].life # 0
    /\ proc' = [proc EXCEPT ![p] = NoProc]
    /\ UNCHANGED <<backend, cached, ticks, lives, pidOf, usedBy, heldBy, scanVars, judgeVars>>

\* the module's work queue brings an entry of its table up to date
Refresh(p) ==
    /\ backend = "kernel" /\ proc[p].life # 0
    /\ cached' = [cached EXCEPT ![p] = proc[p].used]
    /\ UNCHANGED <<backend, proc, ticks, lives, pidOf, usedBy, heldBy, scanVars, judgeVars>>

Host == \E p \in ScanPids : Spawn(p) \/ Run(p) \/ Exec(p) \/ Exit(p) \/ Refresh(p)
-----------------------------------------------------------------------------
(* What both collectors do with a reading.                                 *)

\* time charged at cpu_total now: the growth since the sample before, nothing on
\* the first, on an unknown pid, on a smaller reading or when no time has passed
Charge(pid, reading, now) ==
    LET last == IF pid \in DOMAIN lastPer THEN lastPer[pid] ELSE reading
    IN  IF lastCpu >= 0 /\ now > lastCpu /\ reading > last THEN reading - last ELSE 0

Row(pid, life, reading, now) ==
    [pid |-> pid, life |-> life, total |-> reading, charge |-> Charge(pid, reading, now),
     cmd |-> <<life, 0>>]

\* the entries of S in the order of a walk: any
Walks(S) == {w \in [1 .. Cardinality(S) -> S] :
               /\ \A p \in S : \E i \in DOMAIN w : w[i] = p
               /\ \A i, j \in DOMAIN w : w[i] = w[j] => i = j}

PidsOf(rows) == {rows[i].pid : i \in DOMAIN rows}
RowOf(rows, p) == rows[CHOOSE i \in DOMAIN rows : rows[i].pid = p]

\* the orders of rows by charge, ties as they were: there is one
ByCharge(rows) ==
    {[i \in DOMAIN rows |-> rows[f[i]]] : f \in {g \in [DOMAIN rows -> DOMAIN rows] :
       \A i, j \in DOMAIN rows : i < j =>
          rows[g[i]].charge > rows[g[j]].charge \/ (rows[g[i]].charge = rows[g[j]].charge /\ g[i] < g[j])}}

Least(a, b) == IF a < b THEN a ELSE b

\* Mutant: the baseline is taken after the rows are cut to the top-K.
BaselinesOfTop(rows) ==
    LET order == CHOOSE o \in ByCharge(rows) : TRUE
        kept == [i \in 1 .. Least(TopK, Len(rows)) |-> order[i]]
    IN  [p \in PidsOf(kept) |-> RowOf(kept, p).total]

\* the baseline is taken of every row
Baselines(rows) == [p \in PidsOf(rows) |-> RowOf(rows, p).total]

\* the judge's books for the rows of a sample at cpu_total now
Book(rows, now) ==
    /\ before' = [p \in PidsOf(rows) |-> <<RowOf(rows, p).life, RowOf(rows, p).total>>]
    /\ charged' = [l \in DOMAIN charged |->
                     IF pidOf[l] \in PidsOf(rows) /\ RowOf(rows, pidOf[l]).life = l
                     THEN charged[l] + RowOf(rows, pidOf[l]).charge ELSE charged[l]]
    /\ mischarged' = mischarged \cup
         {RowOf(rows, p).life : p \in {q \in PidsOf(rows) \cap DOMAIN before :
            LET r == RowOf(rows, q)
            IN  /\ r.life # 0 /\ before[q][1] = r.life
                /\ now > lastCpu /\ r.charge # r.total - before[q][2]}}
-----------------------------------------------------------------------------
(* KernelProcessCollector.                                                 *)

\* the module's answer: its table, what of it has room in the message, or none
Answers == [seen : SUBSET Living, error : {FALSE}] \cup {[seen |-> {}, error |-> TRUE]}

\* send_get_snapshot(): the module answers before sendto() returns; or it fails
SendRequest ==
    /\ backend = "kernel" /\ rowAt = "idle" /\ scans < MaxScans
    /\ scans' = scans + 1 /\ rowSeq' = <<>>
    /\ \/ \E a \in Answers :
            /\ faults' = faults + (IF a.seen = Living /\ ~a.error THEN 0 ELSE 1) /\ faults' <= MaxFaults
            /\ inbox' = Append(inbox,
                 [error |-> a.error, rows |-> [p \in a.seen |-> [life |-> proc[p].life, used |-> cached[p]]]])
            /\ rowAt' = "sent"
       \/ /\ faults < MaxFaults /\ faults' = faults + 1
          /\ rowAt' = "idle" /\ inbox' = inbox
    /\ UNCHANGED <<backend, worldVars, todo, cpuTotal, lastPer, lastCpu, lastRun, titles,
                   charged, before, mischarged, slighted>>

\* recv() is interrupted: the reply stays on the socket, for the next sample; or
\* the reply is an error
ReceiveFails ==
    /\ rowAt = "sent" /\ rowAt' = "idle"
    /\ \/ faults < MaxFaults /\ faults' = faults + 1 /\ inbox' = inbox
       \/ Head(inbox).error /\ inbox' = Tail(inbox) /\ faults' = faults
    /\ UNCHANGED <<backend, worldVars, scans, todo, rowSeq, cpuTotal, lastPer, lastCpu, lastRun,
                   titles, charged, before, mischarged, slighted>>

\* titles of pids that are not in the reply are forgotten
KeptTitles(pids) == [p \in DOMAIN titles \cap pids |-> titles[p]]

\* recv_snapshot() up to the titles; nothing tells which request is answered
ReceiveReply ==
    /\ rowAt = "sent" /\ ~Head(inbox).error
    /\ \E walk \in Walks(DOMAIN Head(inbox).rows) :
         LET reply == Head(inbox).rows
             rows == [i \in DOMAIN walk |->
                        Row(walk[i], reply[walk[i]].life, reply[walk[i]].used, ticks)]
         IN  /\ titles' = KeptTitles(DOMAIN reply)
             /\ lastPer' = Baselines(rows)
             /\ rowSeq' \in ByCharge(rows)
             /\ todo' = [i \in DOMAIN rows |-> i]
             /\ Book(rows, ticks)
             /\ heldBy' = [p \in ScanPids |-> IF p \in DOMAIN reply THEN heldBy[p] ELSE {proc[p].life} \ {0}]
    /\ inbox' = Tail(inbox) /\ cpuTotal' = ticks /\ lastCpu' = ticks /\ rowAt' = "title"
    /\ UNCHANGED <<backend, proc, cached, ticks, lives, pidOf, usedBy, scans, lastRun, faults, slighted>>

\* the command line of the next row, from the cache or once from /proc
ResolveTitle ==
    /\ backend = "kernel" /\ rowAt = "title" /\ todo # <<>>
    /\ LET i == Head(todo)
           p == rowSeq[i].pid
           found == IF p \in DOMAIN titles THEN titles[p] ELSE <<proc[p].life, proc[p].title>>
       IN  /\ titles' = [q \in DOMAIN titles \cup {p} |-> IF q = p THEN found ELSE titles[q]]
           /\ rowSeq' = IF found[2] = 0 THEN rowSeq ELSE [rowSeq EXCEPT ![i].cmd = found]
    /\ todo' = Tail(todo)
    /\ UNCHANGED <<backend, worldVars, rowAt, scans, inbox, cpuTotal, lastPer, lastCpu, lastRun, judgeVars>>
-----------------------------------------------------------------------------
(* ProcessCollector.                                                       *)

\* called again within the interval: nothing is refreshed
TooSoon ==
    /\ backend = "procfs" /\ rowAt = "idle" /\ scans < MaxScans
    /\ lastRun >= 0 /\ ticks - lastRun < MinInterval
    /\ scans' = scans + 1
    /\ UNCHANGED <<backend, worldVars, rowAt, inbox, todo, rowSeq, cpuTotal, lastPer, lastCpu, lastRun,
                   titles, judgeVars>>

ListProc ==
    /\ backend = "procfs" /\ rowAt = "idle" /\ scans < MaxScans
    /\ lastRun < 0 \/ ticks - lastRun >= MinInterval
    /\ scans' = scans + 1 /\ lastRun' = ticks /\ cpuTotal' = ticks
    /\ todo' \in Walks(Living) /\ rowSeq' = <<>> /\ rowAt' = "scan"
    /\ heldBy' = [p \in ScanPids |-> {proc[p].life} \ {0}]
    /\ UNCHANGED <<backend, proc, cached, ticks, lives, pidOf, usedBy, inbox, lastPer, lastCpu, titles,
                   judgeVars>>

Placeholder(p) == [pid |-> p, life |-> 0, total |-> 0, charge |-> 0, cmd |-> <<0, 0>>]

\* a pid that has gone, or whose stat cannot be read, leaves a placeholder
ReadStat ==
    /\ rowAt = "scan" /\ todo # <<>>
    /\ LET p == Head(todo)
       IN  \/ /\ proc[p].life # 0
              /\ rowSeq' = Append(rowSeq, Row(p, proc[p].life, proc[p].used, cpuTotal))
              /\ UNCHANGED <<faults, slighted>>
           \/ /\ proc[p].life = 0
              /\ rowSeq' = Append(rowSeq, Placeholder(p))
              /\ UNCHANGED <<faults, slighted>>
           \/ /\ proc[p].life # 0 /\ faults < MaxFaults
              /\ rowSeq' = Append(rowSeq, Placeholder(p))
              /\ faults' = faults + 1 /\ slighted' = slighted \cup {proc[p].life}
    /\ todo' = Tail(todo)
    /\ UNCHANGED <<backend, worldVars, rowAt, scans, inbox, cpuTotal, lastPer, lastCpu, lastRun, titles,
                   charged, before, mischarged>>

\* the baseline of every row, then the top-K, whose first rows get their titles
EndScan ==
    /\ rowAt = "scan" /\ todo = <<>>
    /\ lastPer' = Baselines(rowSeq)
    /\ lastCpu' = cpuTotal
    /\ \E order \in ByCharge(rowSeq) : rowSeq' = [i \in 1 .. Least(TopK, Len(rowSeq)) |-> order[i]]
    /\ todo' = [i \in 1 .. Least(EnrichTop, Least(TopK, Len(rowSeq))) |-> i]
    /\ Book(rowSeq, cpuTotal)
    /\ rowAt' = "title"
    /\ UNCHANGED <<backend, worldVars, scans, inbox, cpuTotal, lastRun, titles, faults, slighted>>

EnrichRow ==
    /\ backend = "procfs" /\ rowAt = "title" /\ todo # <<>>
    /\ LET i == Head(todo)
           p == rowSeq[i].pid
       IN  rowSeq' = IF proc[p].title = 0 THEN rowSeq
                     ELSE [rowSeq EXCEPT ![i].cmd = <<proc[p].life, proc[p].title>>]
    /\ todo' = Tail(todo)
    /\ UNCHANGED <<backend, worldVars, rowAt, scans, inbox, cpuTotal, lastPer, lastCpu, lastRun, titles,
                   judgeVars>>

SampleReturns ==
    /\ rowAt = "title" /\ todo = <<>>
    /\ rowAt' = "idle"
    /\ UNCHANGED <<backend, worldVars, scans, inbox, todo, rowSeq, cpuTotal, lastPer, lastCpu, lastRun,
                   titles, judgeVars>>

RowNext ==
    \/ Host
    \/ SendRequest \/ ReceiveFails \/ ReceiveReply \/ ResolveTitle
    \/ TooSoon \/ ListProc \/ ReadStat \/ EndScan \/ EnrichRow \/ SampleReturns

RowSpec == RowInit /\ [][RowNext]_rowVars
-----------------------------------------------------------------------------
(***************************************************************************)
(* No process is charged with more time than it has used, over all samples:   *)
(* not when its pid was somebody else's, not when the reply is an old one,    *)
(* not twice.  (Excused: a process whose stat could not be read while it      *)
(* lived.  Its placeholder becomes the baseline 0, and the next sample        *)
(* charges its whole life.)                                                 *)
(***************************************************************************)
NeverOvercharged == \A l \in DOMAIN charged \ slighted : charged[l] <= usedBy[l]

(***************************************************************************)
(* And the charge is exact for a process that two samples in a row have seen, *)
(* also when it was not among the top-K.                                     *)
(***************************************************************************)
ChargeIsExact == mischarged = {}

(***************************************************************************)
(* The title a row shows was its pid's at some time since a reply last missed *)
(* that pid, or since the scan began; the cache never brings back an older    *)
(* holder's.                                                               *)
(***************************************************************************)
TitleIsOfPid ==
    \A i \in DOMAIN rowSeq : rowSeq[i].cmd[2] # 0 =>
        rowSeq[i].cmd[1] \in heldBy[rowSeq[i].pid]

\* A row is of its process: the time charged and the title shown.
RowsAreOwn == NeverOvercharged /\ ChargeIsExact /\ TitleIsOfPid
=============================================================================
