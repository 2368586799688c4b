------------------------------- MODULE IoTrace -------------------------------
(***************************************************************************)
(* Descriptors and file I/O of traced processes: the syscall programs of   *)
(* src/src/bpf/montauk_trace.bpf.c that keep fd_map and emit the I/O and   *)
(* mmap events, the task iterator that enrols threads, and the iolat       *)
(* report over the durations.                                              *)
(*                                                                         *)
(* A program runs atomically on the CPU its thread is on; a thread inside  *)
(* a call may sleep, let another thread make a call on that CPU, and wake  *)
(* on another CPU.  What an entry program learned travels to the exit      *)
(* program in the thread's entry of thread_map, or, for openat and mmap,   *)
(* in a scratch slot of the CPU.                                           *)
(***************************************************************************)
EXTENDS Maps, FiniteSetsExt, SequencesExt

CONSTANTS IoPids, IoThreads,   \* processes; threads, as pairs <<pid, n>>
          IoCpus, IoFds, MaxIoCalls, MaxIoTime

ASSUME IoAssumption ==
    /\ IoThreads \subseteq IoPids \X Nat /\ IoFds \subseteq Nat \ {0}
    /\ {"", "none"} \cap IoPids = {}   \* these stand for no process

VARIABLES
    ioTracked,   \* the pids in proc_map
    fdTable,       \* process -> fd -> what it is, as the kernel knows
    inside,      \* thread -> the call it is in
    tmap,        \* thread_map: what the entry programs keep of a call
    openScratch, \* CPU -> the half of an openat stored there
    mmapScratch, \* CPU -> the half of an mmap stored there
    fdMap,       \* fd_map: <<pid, fd>> -> its target
    lastIo,      \* the event just emitted, and (ghost) the call it is about
    iolat,       \* the report: call -> the durations of its completions
    ioNow, ioCalls

ioVars == <<ioTracked, fdTable, inside, tmap, openScratch, mmapScratch, fdMap,
            lastIo, iolat, ioNow, ioCalls>>

\* Calls that take a descriptor; timed ones carry their duration.  "read" is
\* read, write, lseek, pread64 and newfstat, which are treated alike; "poll"
\* is every blocking I/O call; "socket" is socket and eventfd2.
Timed == {"pwrite64", "io_getevents", "poll"}
OnFd == {"read"} \cup Timed
Makes == {"openat", "socket"}
IoCallNames == OnFd \cup Makes \cup {"close", "mmap_file", "mmap_anon"}

Outside == [call |-> "none", fd |-> 0, at |-> 0, target |-> "none"]
NoEntry == [fd |-> -1, enter |-> 0, nr |-> "none"]
NoIo == [type |-> "none", pid |-> "", call |-> "none", fd |-> 0, dur |-> 0,
         real |-> Outside, enrolled |-> TRUE]
NoOpen == [pid |-> "", target |-> "none"]
NoMmap == [fd |-> 0, anon |-> FALSE]
Pid(t) == t[1]

IoInit ==
    /\ ioTracked \in SUBSET IoPids
    /\ fdTable = [p \in IoPids |-> [f \in IoFds |-> "none"]]
    /\ inside = [t \in IoThreads |-> Outside]
    /\ tmap = EmptyMap
    /\ openScratch = [c \in IoCpus |-> NoOpen]
    /\ mmapScratch = [c \in IoCpus |-> NoMmap]
    /\ fdMap = EmptyMap
    /\ lastIo = NoIo /\ iolat = EmptyMap
    /\ ioNow = 1 /\ ioCalls = 0

----------------------------------------------------------------------------
(* Entry.                                                                  *)

\* handle_sys_enter(): the thread is enrolled at its first call; only an
\* entry that is already there is stamped for poll.
RawEnter(t, call) ==
    IF t \in DOMAIN tmap
    THEN [tmap[t] EXCEPT !.nr = call,
                         !.enter = IF call = "poll" THEN ioNow ELSE @]
    ELSE [NoEntry EXCEPT !.nr = call]

\* handle_read_enter() and its like, after it.
CallEnter(e, call, fd) ==
    IF call \notin OnFd \ {"poll"} THEN e
    ELSE [e EXCEPT !.fd = fd,
                   !.enter = IF call \in Timed THEN ioNow ELSE @]

IoEnter(t, c, call, fd, target) ==
    /\ inside[t] = Outside /\ ioCalls < MaxIoCalls
    /\ ioCalls' = ioCalls + 1
    /\ inside' = [inside EXCEPT ![t] = [call |-> call, fd |-> fd, at |-> ioNow,
                                        target |-> target]]
    /\ lastIo' = NoIo
    /\ IF Pid(t) \notin ioTracked
       THEN UNCHANGED <<tmap, openScratch, mmapScratch, fdMap>>
       ELSE /\ tmap' = Put(tmap, t, CallEnter(RawEnter(t, call), call, fd))
            /\ openScratch' = IF call # "openat" THEN openScratch
                              ELSE [openScratch EXCEPT ![c] =
                                       [pid |-> Pid(t), target |-> target]]
            /\ mmapScratch' = IF call # "mmap_file" THEN mmapScratch
                              ELSE [mmapScratch EXCEPT ![c] =
                                       [fd |-> fd, anon |-> FALSE]]
            /\ fdMap' = IF call # "close" THEN fdMap
                        ELSE Erase(fdMap, {<<Pid(t), fd>>})
    /\ UNCHANGED <<ioTracked, fdTable, iolat, ioNow>>

----------------------------------------------------------------------------
(* Exit, with the descriptor the kernel returns.                           *)

\* Mutant: the duration is taken from a stamp that was never made.
DurationUnstamped(t) == IF ioNow > tmap[t].enter THEN ioNow - tmap[t].enter ELSE 0

\* emit_io_event(), emit_io_event_dur(): fd and duration of the event.
Duration(t) ==
    LET e == tmap[t] IN IF e.enter # 0 /\ ioNow > e.enter THEN ioNow - e.enter ELSE 0

IoEvent(t) ==
    LET d == inside[t]
    IN  [NoIo EXCEPT !.type = "io", !.pid = Pid(t), !.call = d.call,
            !.fd = IF d.call = "poll" THEN -1 ELSE tmap[t].fd,
            !.dur = IF d.call \in Timed THEN Duration(t) ELSE 0,
            !.real = d, !.enrolled = tmap[t].nr = d.call]

MmapEvent(t, c) ==
    [NoIo EXCEPT !.type = "mmap", !.pid = Pid(t), !.call = inside[t].call,
                 !.fd = mmapScratch[c].fd, !.real = inside[t]]

\* The fd_map entry a successful openat or socket makes; an openat finds its
\* target in the slot of this CPU, if the slot is its process's.
OpenedFd(t, c, fd) ==
    IF inside[t].call = "socket" THEN Put(fdMap, <<Pid(t), fd>>, "socket")
    ELSE IF openScratch[c].pid = Pid(t)
    THEN Put(fdMap, <<Pid(t), fd>>, openScratch[c].target)
    ELSE fdMap

\* The event of the exit.  poll is completed by handle_sys_exit(), from the
\* recorded call; the others by their own program, if the thread is enrolled.
ExitEvent(t, c) ==
    LET call == inside[t].call
    IN  CASE call = "poll" ->
                 IF t \in DOMAIN tmap /\ tmap[t].nr = "poll" THEN IoEvent(t)
                 ELSE NoIo
          [] call \in OnFd \ {"poll"} ->
                 IF t \in DOMAIN tmap THEN IoEvent(t) ELSE NoIo
          [] call \in {"mmap_file", "mmap_anon"} ->
                 IF mmapScratch[c].anon THEN NoIo ELSE MmapEvent(t, c)
          [] OTHER -> NoIo

\* After the exit programs: io_getevents and poll clear the stamp.
ExitEntry(t) ==
    [tmap[t] EXCEPT !.nr = "none",
                    !.enter = IF inside[t].call \in {"io_getevents", "poll"}
                              THEN 0 ELSE @]

\* IolatReport::fold(): completions with a duration.
IolatFold(r, e) ==
    IF e.type # "io" \/ e.dur = 0 THEN r
    ELSE Put(r, e.call, Append(At(r, e.call, <<>>), e.dur))

IoExit(t, c, fd) ==
    LET d == inside[t]
        tr == Pid(t) \in ioTracked
        ev == IF tr THEN ExitEvent(t, c) ELSE NoIo
    IN  /\ d # Outside
        /\ d.call \in Makes => fd \in IoFds /\ fdTable[Pid(t)][fd] = "none"
        /\ d.call \notin Makes => fd = d.fd
        /\ fdTable' = CASE d.call \in Makes -> [fdTable EXCEPT ![Pid(t)][fd] = d.target]
                      [] d.call = "close" -> [fdTable EXCEPT ![Pid(t)][fd] = "none"]
                      [] OTHER -> fdTable
        /\ inside' = [inside EXCEPT ![t] = Outside]
        /\ fdMap' = IF tr /\ d.call \in Makes THEN OpenedFd(t, c, fd) ELSE fdMap
        /\ tmap' = IF tr /\ t \in DOMAIN tmap THEN Put(tmap, t, ExitEntry(t))
                   ELSE tmap
        /\ lastIo' = ev
        /\ iolat' = IolatFold(iolat, ev)
        /\ UNCHANGED <<ioTracked, openScratch, mmapScratch, ioNow, ioCalls>>

----------------------------------------------------------------------------
\* A process is enrolled, and enroll_threads() sweeps its threads in; both
\* may happen while a thread is inside a call.
IoTrack(p) ==
    /\ p \notin ioTracked /\ ioTracked' = ioTracked \cup {p}
    /\ lastIo' = NoIo
    /\ UNCHANGED <<fdTable, inside, tmap, openScratch, mmapScratch, fdMap, iolat,
                   ioNow, ioCalls>>

enroll_io_threads ==
    LET new == {t \in IoThreads : Pid(t) \in ioTracked} \ DOMAIN tmap
    IN  /\ new # {}
        /\ tmap' = [t \in DOMAIN tmap \cup new |-> At(tmap, t, NoEntry)]
        /\ lastIo' = NoIo
        /\ UNCHANGED <<ioTracked, fdTable, inside, openScratch, mmapScratch,
                       fdMap, iolat, ioNow, ioCalls>>

IoTick ==
    /\ ioNow < MaxIoTime /\ ioNow' = ioNow + 1
    /\ lastIo' = NoIo
    /\ UNCHANGED <<ioTracked, fdTable, inside, tmap, openScratch, mmapScratch,
                   fdMap, iolat, ioCalls>>

\* What a thread may ask for: a new file of its process, or an open one.
Asks(t, call, fd, target) ==
    CASE call = "openat" -> fd = 0 /\ target = Pid(t)
      [] call = "socket" -> fd = 0 /\ target = "socket"
      [] call = "mmap_anon" -> fd = 0 /\ target = "none"
      [] OTHER -> target = "none" /\ fd \in IoFds /\ fdTable[Pid(t)][fd] # "none"
                  /\ \A u \in IoThreads : inside[u].call = "close" /\ Pid(u) = Pid(t)
                                          => inside[u].fd # fd

IoNext ==
    \/ \E t \in IoThreads, c \in IoCpus, call \in IoCallNames,
          fd \in IoFds \cup {0}, target \in IoPids \cup {"socket", "none"} :
          Asks(t, call, fd, target) /\ IoEnter(t, c, call, fd, target)
    \/ \E t \in IoThreads, c \in IoCpus, fd \in IoFds \cup {0} :
          IoExit(t, c, fd)
    \/ \E p \in IoPids : IoTrack(p)
    \/ enroll_io_threads
    \/ IoTick

IoSpec == IoInit /\ [][IoNext]_ioVars

----------------------------------------------------------------------------
(* Properties.                                                             *)

\* An I/O event is about the call that returned: its descriptor and its
\* duration are that call's, whatever other threads did on the CPU and
\* wherever the thread woke.  A call the thread entered before it was
\* enrolled has no descriptor and no duration, never those of another call.
EventIsOfCall ==
    LET e == lastIo
    IN  e.type = "io" =>
            /\ e.fd \in {e.real.fd, -1}
            /\ e.dur \in {0, ioNow - e.real.at}
            /\ e.enrolled /\ e.call # "poll" => e.fd = e.real.fd
            /\ e.enrolled /\ e.call \in Timed \ {"poll"} =>
                  e.dur = ioNow - e.real.at

\* A descriptor is never given another process's file, although the name of
\* an opened file waits in a slot that every process's calls overwrite; and a
\* closed descriptor is not in the map until it is opened again.
FdMapIsOwn ==
    \A k \in DOMAIN fdMap :
        /\ fdMap[k] \in {k[1], "socket"}
        /\ fdTable[k[1]][k[2]] # "none"

\* Neither the events nor the map of open files mix two calls or two processes.
IoEventExact == EventIsOfCall /\ FdMapIsOwn

\* What the exit program of mmap says of itself: an anonymous mapping leaves
\* no event, stale scratch included.
AnonMmapIsSilent == lastIo.type = "mmap" => lastIo.real.call = "mmap_file"
=============================================================================
