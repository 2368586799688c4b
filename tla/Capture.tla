------------------------------- MODULE Capture -------------------------------
(***************************************************************************)
(* How a capture comes up and what its thread does with the records of the    *)
(* ring (src/src/collectors/BpfTraceCollector.cpp): the outputs, the size of   *)
(* the ring, open, load and attach of the BPF skeleton, the optional probes,   *)
(* the fallback pick stream, handle_event(), the maps sidecars and the        *)
(* destructor.  TraceTracking has the process table in full, TraceLog the      *)
(* binary log, to which handle_event() appends every record first.            *)
(***************************************************************************)
EXTENDS Integers, Sequences, FiniteSets

CONSTANTS Requests,     \* the captures asked for: see RequestType
          Page,         \* 4096
          RingBits,     \* width of max_entries: 32
          DefaultRing,  \* the compiled size
          Pids,         \* processes of the host
          Excluded,     \* montauk and its parent
          MaxNtsync,    \* TraceSnapshot::MAX_NTSYNC
          MaxRing,      \* records the host produces before they are consumed
          MaxActs       \* acts of the processes

ASSUME CaptureBounds ==
    /\ {Page, RingBits, DefaultRing} \subseteq Nat \ {0} /\ Excluded \subseteq Pids
    /\ {MaxNtsync, MaxRing, MaxActs} \subseteq Nat

Storm == {"scx_kick", "scx_reenq", "resched_curr"}
Roles == <<"enqueue", "pick">>     \* two of the six roles, in order
Heap == {"malloc", "abort"}
Keyed == {"keyed_wait"}

RequestType == [ring : Nat,              \* --trace-ring-bytes, 0 if not given
                file : {"none", "good", "bad"},    \* --trace-out
                stream : {"none", "good", "bad"},  \* --stream-out
                detail : BOOLEAN,        \* --sched-detail
                storm : BOOLEAN,         \* MONTAUK_SCX_STORM
                scx : BOOLEAN,           \* the kernel has sched_ext
                \* MONTAUK_SCHED_TRACEPOINTS, between the commas
                points : Seq({"good", "missing", "garbled", "empty"}),
                libs : SUBSET {"libc", "ntdll"}]

ASSUME RequestsAssumption == Requests \subseteq RequestType

VARIABLES req,        \* the request
          capStage,      \* where run() is
          skel,       \* the skeleton: "none", "open", "loaded", "attached"
          ringSize,   \* max_entries of the ring
          loads,      \* programs that are loaded
          links,      \* programs attached
          rb,         \* the ring buffer exists
          stormOn,    \* scx_storm_active_
          fallback,   \* switch_in_fallback
          failed,     \* load_failed_
          traceDir,   \* trace_dir_ is set
          sinks,      \* trace_fd_ and stream_fd_, those that are open
          picked,     \* kinds of pick records the programs emitted
          acts,       \* acts of the processes so far
          life,       \* pid -> "alive", "zombie" or "reaped"
          maps,       \* pid -> version of its address space
          rbq,        \* records in the ring
          seen,       \* maps_snapshotted_
          sidecar,    \* pid -> version in <pid>.maps, 0 if there is none
          ntq,        \* pending_ntsync_
          table       \* pids tracked in proc_map by handle_event()
setupVars == <<req, capStage, skel, ringSize, loads, links, rb, stormOn, fallback, failed, traceDir, sinks>>
hostVars == <<picked, acts, life, maps, rbq>>
userVars == <<seen, sidecar, ntq, table>>
captureVars == <<setupVars, hostVars, userVars>>

CaptureInit ==
    /\ req \in Requests /\ capStage = "outputs" /\ skel = "none" /\ ringSize = DefaultRing
    /\ loads = {} /\ links = {} /\ rb = FALSE /\ stormOn = FALSE /\ fallback = FALSE
    /\ failed = FALSE /\ traceDir = FALSE /\ sinks = {}
    /\ picked = {} /\ acts = 0 /\ life = [p \in Pids |-> "alive"]
    /\ maps = [p \in Pids |-> 1] /\ rbq = <<>>
    /\ seen = {} /\ sidecar = [p \in Pids |-> 0] /\ ntq = 0 /\ table = {}

----------------------------------------------------------------------------
(* Outputs and attach.                                                      *)

\* set_binary_output() sets the directory before it tries to open the file and
\* to write its header; set_stream_output() sets none
SetOutputs ==
    /\ capStage = "outputs" /\ capStage' = "open"
    /\ traceDir' = (req.file # "none")
    /\ sinks' = {f \in {"file", "stream"} : req[f] = "good"}
    /\ UNCHANGED <<req, skel, ringSize, loads, links, rb, stormOn, fallback, failed, hostVars, userVars>>

\* run() returns; the outputs stay open until stop()
GiveUpCapture == /\ capStage' = "failed" /\ failed' = TRUE /\ skel' = "none"
          /\ links' = {} /\ loads' = {}

OpenSkeleton ==
    /\ capStage = "open"
    /\ \/ /\ skel' = "open" /\ capStage' = "resize" /\ UNCHANGED <<failed, links, loads>>
       \/ GiveUpCapture
    /\ UNCHANGED <<req, ringSize, rb, stormOn, fallback, traceDir, sinks, hostVars, userVars>>

\* the next power of two from a page up, as an integer of max_entries' width
RoundUp(want) ==
    CHOOSE n \in {Page * 2^k : k \in 0 .. RingBits} :
        n >= want /\ (n = Page \/ n \div 2 < want)
SetRing(want) == RoundUp(want) % 2^RingBits

\* bpf_map__set_max_entries() may refuse: the compiled size stands
ResizeRing ==
    /\ capStage = "resize" /\ capStage' = "load"
    /\ ringSize' \in {ringSize} \cup (IF req.ring = 0 THEN {} ELSE {SetRing(req.ring)})
    /\ UNCHANGED <<req, skel, loads, links, rb, stormOn, fallback, failed, traceDir, sinks,
                   hostVars, userVars>>

\* the programs on sched_ext's own functions are loaded only where they exist
Autoload == {"universal", "resched_curr", "iterator"} \cup {Roles[i] : i \in DOMAIN Roles}
            \cup Heap \cup Keyed \cup (IF req.scx THEN {"scx_kick", "scx_reenq"} ELSE {})

\* refused by the kernel, for want of a right or because of the ring's size
LoadSkeleton ==
    /\ capStage = "load"
    /\ \/ /\ ringSize # 0 /\ (req.scx \/ Autoload \cap {"scx_kick", "scx_reenq"} = {})
          /\ skel' = "loaded" /\ loads' = Autoload /\ capStage' = "attach"
          /\ UNCHANGED <<failed, links>>
       \/ GiveUpCapture
    /\ UNCHANGED <<req, ringSize, rb, stormOn, fallback, traceDir, sinks, hostVars, userVars>>

\* only the universal handlers attach by themselves
Autoattach == {"universal"}

AttachSkeleton ==
    /\ capStage = "attach"
    /\ \/ /\ skel' = "attached" /\ links' = Autoattach /\ capStage' = "storm"
          /\ UNCHANGED <<failed, loads>>
       \/ GiveUpCapture
    /\ UNCHANGED <<req, ringSize, rb, stormOn, fallback, traceDir, sinks, hostVars, userVars>>

\* Mutant: the storm probes are attached whether or not they were asked for.
AttachStormAlways ==
    /\ capStage = "storm" /\ capStage' = "roles"
    /\ \E got \in SUBSET (Storm \cap loads) :
         links' = links \cup got /\ stormOn' = (got = Storm)
    /\ UNCHANGED <<req, skel, ringSize, loads, rb, fallback, failed, traceDir, sinks, hostVars, userVars>>

\* each may fail on its own, and one that is not loaded does
AttachStorm ==
    /\ capStage = "storm" /\ capStage' = "roles"
    /\ \E got \in SUBSET (IF req.storm THEN Storm \cap loads ELSE {}) :
         links' = links \cup got /\ stormOn' = (got = Storm)
    /\ UNCHANGED <<req, skel, ringSize, loads, rb, fallback, failed, traceDir, sinks, hostVars, userVars>>

\* strtok_r() sees no empty entry: those after it move up a role.  An entry that
\* is garbled or names no tracepoint is skipped, and keeps its role
Entries == SelectSeq(req.points, LAMBDA e : e # "empty")

BindRoles ==
    /\ capStage = "roles" /\ capStage' = "fallback"
    /\ links' = links \cup {Roles[i] : i \in {j \in DOMAIN Roles \cap DOMAIN Entries :
                                                 Entries[j] = "good"}}
    /\ UNCHANGED <<req, skel, ringSize, loads, rb, stormOn, fallback, failed, traceDir, sinks,
                   hostVars, userVars>>

SetFallback ==
    /\ capStage = "fallback" /\ capStage' = "ring"
    /\ fallback' = ("pick" \notin links)
    /\ \E got \in SUBSET {"iterator"} : links' = links \cup got
    /\ UNCHANGED <<req, skel, ringSize, loads, rb, stormOn, failed, traceDir, sinks, hostVars, userVars>>

NewRing ==
    /\ capStage = "ring"
    /\ \/ rb' = TRUE /\ capStage' = "uprobes" /\ UNCHANGED <<failed, skel, links, loads>>
       \/ GiveUpCapture /\ UNCHANGED rb
    /\ UNCHANGED <<req, ringSize, stormOn, fallback, traceDir, sinks, hostVars, userVars>>

\* best effort
AttachUprobes ==
    /\ capStage = "uprobes" /\ capStage' = "loop"
    /\ \E got \in SUBSET ((IF "libc" \in req.libs THEN Heap ELSE {})
                          \cup (IF "ntdll" \in req.libs THEN Keyed ELSE {})) :
         links' = links \cup got
    /\ UNCHANGED <<req, skel, ringSize, loads, rb, stormOn, fallback, failed, traceDir, sinks,
                   hostVars, userVars>>

\* stop(), which joins run(), and the destructor
Destroy ==
    /\ capStage \in {"loop", "failed"} /\ capStage' = "over"
    /\ rb' = FALSE /\ links' = {} /\ loads' = {} /\ skel' = "none" /\ sinks' = {}
    /\ UNCHANGED <<req, ringSize, stormOn, fallback, failed, traceDir, hostVars, userVars>>

----------------------------------------------------------------------------
(* The host, as far as the programs attached see it.                        *)

\* sched_stream, and what trace_append() asks
Streams == sinks # {}

\* a task is picked: the scheduler's own tracepoint, and the switch
TaskPicked ==
    /\ links # {} /\ Streams
    /\ picked' = picked \cup (IF "pick" \in links THEN {"PICK"} ELSE {})
                        \cup (IF fallback /\ req.detail THEN {"SWITCH_IN"} ELSE {})
    /\ UNCHANGED <<setupVars, acts, life, maps, rbq, userVars>>

EmitTap(type, p) ==
    rbq' = IF "universal" \in links /\ Len(rbq) < MaxRing
           THEN Append(rbq, [type |-> type, pid |-> p]) ELSE rbq

\* a process execs or renames itself to a name that matches, waits, allocates
\* (mapping another library), dies, is reaped, and its number is used again.
\* What happened before the loop is at most in the ring when it starts
ProcessActs(p) ==
    /\ capStage = "loop" /\ acts < MaxActs /\ acts' = acts + 1
    /\ \/ /\ life[p] = "alive" /\ \E t \in {"exec", "comm", "ntsync"} : EmitTap(t, p)
          /\ UNCHANGED <<life, maps>>
       \/ /\ life[p] = "alive" /\ maps' = [maps EXCEPT ![p] = @ + 1]
          /\ IF "malloc" \in links THEN EmitTap("heap", p) ELSE UNCHANGED rbq
          /\ UNCHANGED life
       \/ life[p] = "alive" /\ life' = [life EXCEPT ![p] = "zombie"] /\ EmitTap("signal", p)
          /\ UNCHANGED maps
       \/ life[p] = "zombie" /\ life' = [life EXCEPT ![p] = "reaped"] /\ UNCHANGED <<maps, rbq>>
       \/ /\ life[p] = "reaped" /\ life' = [life EXCEPT ![p] = "alive"]
          /\ maps' = [maps EXCEPT ![p] = @ + 1] /\ UNCHANGED rbq
    /\ UNCHANGED <<setupVars, picked, userVars>>

----------------------------------------------------------------------------
(* The loop.                                                                *)

\* snapshot_maps() of the processes P: a reaped process has no maps, those of a
\* zombie are empty, the temporary may fail to open; only what is not empty
\* replaces the sidecar
snapshot_maps(P) ==
    LET live == {p \in P \cap Pids : traceDir /\ life[p] = "alive"}
    IN  {[p \in Pids |-> IF p \in W THEN maps[p] ELSE sidecar[p]] : W \in SUBSET live}

\* the first heap event of a pid
StartsAllocating(e) == e.type = "heap" /\ e.pid \notin seen

\* an ntsync event is kept for the next snapshot, while there is room
Pending(e) == IF e.type = "ntsync" /\ ntq < MaxNtsync THEN ntq + 1 ELSE ntq

\* decisions, deaths, aborts and I/O are printed and change nothing: a death
\* reads the maps of the process, and leaves the sidecar alone
PrintsDecision(e) == e.type = "sched"
PrintsDeath(e) == e.type = "signal"
PrintsAbort(e) == e.type = "abort"
PrintsIo(e) == e.type = "io"

\* the patterns match in these models: a new image is always tracked again, a
\* new name only of a process that is not
Tracks(e) ==
    /\ ~(PrintsDecision(e) \/ PrintsDeath(e) \/ PrintsAbort(e) \/ PrintsIo(e))
    /\ e.pid \notin Excluded
    /\ e.type = "exec" \/ (e.type = "comm" /\ e.pid \notin table)

HandleEvent ==
    /\ capStage = "loop" /\ rbq # <<>> /\ rbq' = Tail(rbq)
    /\ LET e == Head(rbq)
       IN  /\ table' = IF Tracks(e) THEN table \cup {e.pid} ELSE table
           /\ seen' = IF StartsAllocating(e) THEN seen \cup {e.pid} ELSE seen
           /\ sidecar' \in IF Tracks(e) \/ StartsAllocating(e) THEN snapshot_maps({e.pid})
                          ELSE {sidecar}
           /\ ntq' = Pending(e)
    /\ UNCHANGED <<setupVars, picked, acts, life, maps>>

\* the rest of a cycle: rescan_comms() tracks the processes that discovery_map has
\* (an entry stays when its process ends) and proc_map has not, and refreshes the
\* sidecars of those seen allocating; snapshot_from_maps() empties the queue of
\* ntsync events
LoopCycle ==
    /\ capStage = "loop"
    /\ \E found \in SUBSET (Pids \ (Excluded \cup table)) :
         /\ table' = table \cup found
         /\ sidecar' \in snapshot_maps(seen \cup found)
    /\ ntq' = 0
    /\ UNCHANGED <<setupVars, hostVars, seen>>

CaptureOver == capStage = "over" /\ UNCHANGED captureVars

CaptureNext ==
    \/ SetOutputs \/ OpenSkeleton \/ ResizeRing \/ LoadSkeleton \/ AttachSkeleton
    \/ AttachStorm \/ BindRoles \/ SetFallback \/ NewRing \/ AttachUprobes \/ Destroy
    \/ TaskPicked \/ (\E p \in Pids : ProcessActs(p))
    \/ HandleEvent \/ LoopCycle \/ CaptureOver
CaptureSpec == CaptureInit /\ [][CaptureNext]_captureVars
-----------------------------------------------------------------------------
(***************************************************************************)
(* A capture that ends, at whatever step it failed, leaves no program         *)
(* attached in the kernel and no ring; one that runs has the probes it was    *)
(* asked for and no other: those on sched_ext's hot path only on request, and *)
(* never two streams of picks for one scheduler.                             *)
(***************************************************************************)
Ended == capStage \in {"failed", "over"}

ProbesAsAsked ==
    /\ Ended => links = {} /\ skel = "none" /\ ~rb
    /\ failed => Ended
    /\ links \cap Storm # {} => req.storm
    /\ stormOn => Ended \/ Storm \subseteq links
    /\ Cardinality(picked) <= 1

(***************************************************************************)
(* snapshot_maps(): "a reap-time empty read can never destroy the last good    *)
(* snapshot".  The sidecar of a process only ever moves forward, through its   *)
(* death and past it.                                                        *)
(***************************************************************************)
SidecarMovesForward ==
    \A p \in Pids : sidecar'[p] >= sidecar[p] /\ (sidecar[p] # 0 => sidecar'[p] # 0)

\* The capture's two promises to the system it observes and to the analysis.
CaptureIsSafe == [][ProbesAsAsked /\ ProbesAsAsked' /\ SidecarMovesForward]_captureVars

(***************************************************************************)
(* run(): "Round UP rather than reject: [...] rounding down would silently     *)
(* give them less ring than they asked for."                                 *)
(***************************************************************************)
RingIsEnough == capStage = "load" => ringSize >= req.ring
=============================================================================
