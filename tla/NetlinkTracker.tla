--------------------------- MODULE NetlinkTracker ---------------------------
(***************************************************************************)
(* NetlinkProcessCollector (src/collectors/NetlinkProcessCollector.cpp),   *)
(* the event half: init() subscribes to the kernel's process connector and *)
(* scans /proc, an event thread then keeps the set of active pids and a    *)
(* cache of command titles, shutdown() ends it.  sample() only reads what  *)
(* is kept here (NetlinkSampler).                                          *)
(*                                                                         *)
(* Tasks, /proc and the connector socket are the kernel's.  The connector  *)
(* reports every task, threads too, while /proc lists processes only.      *)
(* Events of one pid reach the socket in order; a full socket buffer drops *)
(* the event and makes the next recv() fail (ENOBUFS).                     *)
(***************************************************************************)
EXTENDS Integers, Sequences

CONSTANTS NumPids,    \* pids are 1..NumPids
          MaxQueue,   \* the socket buffer, in events
          MaxForks,   \* bound: tasks created after the start
          MaxTitles   \* bound: execs and name changes

ASSUME NetlinkAssumption ==
  /\ {NumPids, MaxQueue} \subseteq Nat \ {0}
  /\ {MaxForks, MaxTitles} \subseteq Nat

Pids == 1..NumPids
None == 0 - 1           \* no cached title
Initial == 0            \* the title everything starts with

VARIABLES task,      \* each pid: is it in use, by what, under which titles
          forks,     \* tasks created so far
          titles,    \* titles given so far
          sock,      \* nl_sock_ as the kernel sees it
          queue,     \* events received and not read
          overrun,   \* an event was dropped since the last recv()
          ipc,       \* init() and shutdown(), on the main thread
          cursor,    \* how far the scan of /proc is
          running,   \* running_
          epc,       \* the event thread
          active,    \* active_pids_
          comm,      \* pid_to_comm_
          missed,    \* history: pids whose last exit preceded the subscription
          lost       \* history: was an event ever dropped?

kernelVars  == <<task, forks, titles, sock, queue, overrun>>
threadVars  == <<ipc, cursor, running, epc>>
trackVars   == <<active, comm>>
historyVars == <<missed, lost>>
trackerVars == <<kernelVars, threadVars, trackVars, historyVars>>

Free == [at |-> "free", thread |-> FALSE, cmd |-> Initial, name |-> Initial]

TrackerInit ==
  /\ task = [p \in Pids |-> IF p = 1 THEN [Free EXCEPT !.at = "live"] ELSE Free]
  /\ forks = 0 /\ titles = 0
  /\ sock = "none" /\ queue = <<>> /\ overrun = FALSE
  /\ ipc = "init" /\ cursor = 1 /\ running = FALSE /\ epc = "none"
  /\ active = {} /\ comm = [p \in Pids |-> None]
  /\ missed = {} /\ lost = FALSE
-----------------------------------------------------------------------------
(***************************************************************************)
(* The kernel.                                                             *)
(***************************************************************************)
Live(p)    == task[p].at = "live"
InProc(p)  == task[p].at # "free"                   \* /proc/<pid> can be opened
Listed(p)  == InProc(p) /\ ~task[p].thread          \* and is in the listing of /proc

\* The connector multicasts to the socket while it exists: a recv() under way
\* keeps it after close(), and the IGNORE message never goes out, for
\* shutdown() has cleared nl_sock_ by then.
Subscribed == sock = "listening" \/ (sock = "closed" /\ epc = "blocked")

Event(what, p) == [what |-> what, pid |-> p, name |-> task'[p].name]

Emit(what, p) ==
  IF ~Subscribed THEN UNCHANGED <<queue, overrun, lost>>
  ELSE IF Len(queue) < MaxQueue
       THEN /\ queue' = Append(queue, Event(what, p))
            /\ UNCHANGED <<overrun, lost>>
       ELSE /\ overrun' = TRUE /\ lost' = TRUE
            /\ UNCHANGED queue

\* clone(): a child starts with its parent's titles, under any unused pid.
Fork(p, q, thread) ==
  /\ forks < MaxForks
  /\ Live(p) /\ ~InProc(q)
  /\ task' = [task EXCEPT ![q] = [task[p] EXCEPT !.thread = thread]]
  /\ forks' = forks + 1
  /\ Emit("fork", q)
  /\ missed' = missed \ {q}
  /\ UNCHANGED <<titles, sock, threadVars, trackVars>>

\* execve() renames command line and name, prctl(PR_SET_NAME) the name.
Exec(p) ==
  /\ titles < MaxTitles
  /\ Live(p) /\ ~task[p].thread
  /\ titles' = titles + 1
  /\ task' = [task EXCEPT ![p].cmd = titles + 1, ![p].name = titles + 1]
  /\ Emit("exec", p)
  /\ UNCHANGED <<forks, sock, threadVars, trackVars, missed>>

SetName(p) ==
  /\ titles < MaxTitles
  /\ Live(p)
  /\ titles' = titles + 1
  /\ task' = [task EXCEPT ![p].name = titles + 1]
  /\ Emit("comm", p)
  /\ UNCHANGED <<forks, sock, threadVars, trackVars, missed>>

\* A thread is gone at once, a process stays as a zombie until it is waited for.
Exit(p) ==
  /\ Live(p)
  /\ task' = [task EXCEPT ![p] = IF task[p].thread THEN Free ELSE [@ EXCEPT !.at = "zombie"]]
  /\ Emit("exit", p)
  /\ missed' = IF Subscribed THEN missed ELSE missed \cup {p}
  /\ UNCHANGED <<forks, titles, sock, threadVars, trackVars>>

Reap(p) ==
  /\ task[p].at = "zombie"
  /\ task' = [task EXCEPT ![p] = Free]
  /\ UNCHANGED <<forks, titles, sock, queue, overrun, threadVars, trackVars, historyVars>>

Kernel ==
  \E p \in Pids : \/ \E q \in Pids, thread \in BOOLEAN : Fork(p, q, thread)
                  \/ Exec(p) \/ SetName(p) \/ Exit(p) \/ Reap(p)
-----------------------------------------------------------------------------
(***************************************************************************)
(* init() and shutdown(), on the main thread.                              *)
(***************************************************************************)

\* Mutant: scan /proc first, then subscribe.
InitOrderScanFirst == <<"scan", "listen", "start">>

\* What init() does once its socket is bound.
InitOrder == <<"listen", "scan", "start">>

After(step) == InitOrder[1 + CHOOSE i \in 1..2 : InitOrder[i] = step]

\* socket() and bind() may fail; the Producer then falls back to /proc.
OpenSocket ==
  /\ ipc = "init"
  /\ \/ sock' = "bound" /\ ipc' = InitOrder[1]
     \/ sock' = "none" /\ ipc' = "failed"
  /\ UNCHANGED <<task, forks, titles, queue, overrun, cursor, running, epc, trackVars, historyVars>>

Subscribe ==
  /\ ipc = "listen"
  /\ sock' = "listening"
  /\ ipc' = After("listen")
  /\ UNCHANGED <<task, forks, titles, queue, overrun, cursor, running, epc, trackVars, historyVars>>

\* The scan lists /proc in pid order while processes come and go.
ScanProc ==
  /\ ipc = "scan"
  /\ active' = IF Listed(cursor) THEN active \cup {cursor} ELSE active
  /\ cursor' = cursor + 1
  /\ ipc' = IF cursor = NumPids THEN After("scan") ELSE ipc
  /\ UNCHANGED <<kernelVars, running, epc, comm, historyVars>>

StartThread ==
  /\ ipc = "start"
  /\ running' = TRUE
  /\ epc' = "test"
  /\ ipc' = "up"
  /\ UNCHANGED <<kernelVars, cursor, trackVars, historyVars>>

\* Mutant: the join comes first, the flag and the socket after it.
ShutdownJoinsFirst ==
  /\ ipc = "up"
  /\ ipc' = "join"
  /\ UNCHANGED <<kernelVars, cursor, running, epc, trackVars, historyVars>>

\* shutdown(), once the Producer has stopped: a netlink socket has no
\* shutdown(2), and close() does not end a recv() that another thread is in.
Shutdown ==
  /\ ipc = "up"
  /\ running' = FALSE
  /\ sock' = "closed"
  /\ ipc' = "join"
  /\ UNCHANGED <<task, forks, titles, queue, overrun, cursor, epc, trackVars, historyVars>>

Join ==
  /\ ipc = "join"
  /\ epc = "exited"
  /\ ipc' = "joined"
  /\ UNCHANGED <<kernelVars, cursor, running, epc, trackVars, historyVars>>

Main == OpenSocket \/ Subscribe \/ ScanProc \/ StartThread \/ Shutdown \/ Join
-----------------------------------------------------------------------------
(***************************************************************************)
(* event_loop() and handle_cn_msg(), which holds active_mu_ throughout.    *)
(***************************************************************************)
TestRunning ==
  /\ epc = "test"
  /\ epc' = IF running THEN "call" ELSE "exited"
  /\ UNCHANGED <<kernelVars, ipc, cursor, running, trackVars, historyVars>>

\* recv(nl_sock_): on a closed descriptor, or on -1, it fails at once.
EnterRecv ==
  /\ epc = "call"
  /\ epc' = IF sock = "listening" THEN "blocked" ELSE "exited"
  /\ UNCHANGED <<kernelVars, ipc, cursor, running, trackVars, historyVars>>

\* An overrun is an error like any other: the thread ends, the set freezes.
RecvFails ==
  /\ epc = "blocked"
  /\ overrun
  /\ overrun' = FALSE
  /\ epc' = "exited"
  /\ UNCHANGED <<task, forks, titles, sock, queue, ipc, cursor, running, trackVars, historyVars>>

\* read_cmdline() now, whoever has the pid by now; a zombie has only its comm.
TitleNow(p) ==
  CASE Live(p) -> task[p].cmd [] task[p].at = "zombie" -> task[p].name [] OTHER -> comm[p]

CommAfter(ev) ==
  CASE ev.what = "fork" -> comm[ev.pid]
    [] ev.what = "exec" -> TitleNow(ev.pid)
    [] ev.what = "comm" -> ev.name
    [] ev.what = "exit" -> None

\* A buffer holds one connector message.
HandleEvent ==
  /\ epc = "blocked"
  /\ ~overrun /\ queue # <<>>
  /\ LET ev == Head(queue) IN
       /\ active' = IF ev.what = "exit" THEN active \ {ev.pid} ELSE active \cup {ev.pid}
       /\ comm' = [comm EXCEPT ![ev.pid] = CommAfter(ev)]
  /\ queue' = Tail(queue)
  /\ epc' = "test"
  /\ UNCHANGED <<task, forks, titles, sock, overrun, ipc, cursor, running, historyVars>>

EventThread == TestRunning \/ EnterRecv \/ RecvFails \/ HandleEvent
-----------------------------------------------------------------------------
TrackerNext == Kernel \/ Main \/ EventThread

TrackerSpec == TrackerInit /\ [][TrackerNext]_trackerVars

\* The event thread runs and join() returns once it can; processes owe nothing.
TrackerFairness == WF_trackerVars(EventThread) /\ WF_trackerVars(Join)

TrackerFairSpec == TrackerSpec /\ TrackerFairness
-----------------------------------------------------------------------------
(***************************************************************************)
(* Properties.                                                             *)
(***************************************************************************)

\* The types of the tracker's state; a failed init() leaves no socket open.
TrackerTypeOK ==
  /\ task \in [Pids -> [at : {"free", "live", "zombie"}, thread : BOOLEAN,
                        cmd : 0..MaxTitles, name : 0..MaxTitles]]
  /\ forks \in 0..MaxForks /\ titles \in 0..MaxTitles
  /\ sock \in {"none", "bound", "listening", "closed"}
  /\ Len(queue) <= MaxQueue
  /\ overrun \in BOOLEAN /\ running \in BOOLEAN /\ lost \in BOOLEAN
  /\ ipc \in {"init", "listen", "scan", "start", "up", "join", "joined", "failed"}
  /\ ipc = "failed" => sock = "none"
  /\ cursor \in 1..NumPids + 1
  /\ epc \in {"none", "test", "call", "blocked", "exited"}
  /\ active \cup missed \subseteq Pids
  /\ comm \in [Pids -> 0..MaxTitles \cup {None}]

\* Every event so far has been handled, and none was dropped.
Settled == ipc = "up" /\ queue = <<>> /\ ~lost

(***************************************************************************)
(* Whatever raced the scan of /proc, once the events are handled every     *)
(* live process is active, and an active pid is a live task, unless its    *)
(* last exit was before the subscription, when no event was sent (the scan *)
(* lists zombies too).                                                     *)
(***************************************************************************)
SetIsCurrent ==
  Settled => /\ \A p \in Pids : Live(p) /\ ~task[p].thread => p \in active
             /\ \A p \in active : Live(p) \/ p \in missed

(***************************************************************************)
(* pid_to_comm_ never gives a pid's new holder the title of an earlier one *)
(* or of an earlier image, although EXEC is answered from /proc as it is   *)
(* when the event is read.                                                 *)
(***************************************************************************)
CommIsCurrent ==
  Settled => \A p \in Pids : comm[p] # None =>
    Live(p) /\ comm[p] \in {task[p].cmd, task[p].name}

\* Both maps of the tracker describe the processes there are now.
ActiveIsCurrent == SetIsCurrent /\ CommIsCurrent

(***************************************************************************)
(* shutdown() returns once one more event arrives.                         *)
(***************************************************************************)
EventEndsShutdown == (ipc = "join" /\ queue # <<>>) ~> ipc = "joined"
=============================================================================
