----------------------------- MODULE PmuCounters -----------------------------
(***************************************************************************)
(* PmuCollector (src/src/collectors/PmuCollector.cpp) and what the sampling *)
(* thread has it do: hardware counters opened per CPU, per L3 domain and per *)
(* selected process, read by difference and summed.  A counter is a         *)
(* descriptor of the kernel's; opening one, or reading it, may fail.        *)
(*                                                                          *)
(* A slot is a place the collector has for a counter: <<kind, id, event>>.  *)
(* Processes come and go, and their numbers are used again; opening the     *)
(* counters of one process is not interrupted by that.                      *)
(***************************************************************************)
EXTENDS Integers, FiniteSets, Functions

CONSTANTS PmuCpus,              \* online CPUs
          Required, Optional,   \* events of a CPU; without one of the first there is no PMU
          Domains,              \* CPUs that stand for an L3 domain, {} without amd_l3
          FirstEvent, MoreEvents,  \* events of a process; the first decides
          PmuPids, NamedPids,   \* pids, and those named by --pmu-pid
          MaxUses,              \* processes a pid names one after the other
          MaxEvents, MaxReads, MaxFailures  \* events, samples, steps in which calls fail

CpuEvents == Required \cup Optional
ProcEvents == {FirstEvent} \cup MoreEvents
CpuSlots == {<<"cpu", c, e>> : c \in PmuCpus, e \in CpuEvents}
L3Slots == {<<"l3", d, e>> : d \in Domains, e \in {"access", "miss"}}
ProcSlots == {<<"proc", p, e>> : p \in PmuPids, e \in ProcEvents}
Slots == CpuSlots \cup L3Slots \cup ProcSlots

ASSUME PmuAssumption ==
    /\ PmuCpus \subseteq Nat /\ IsFiniteSet(PmuCpus) /\ PmuCpus # {} /\ Required # {} /\ NamedPids \subseteq PmuPids
    /\ {MaxUses, MaxEvents, MaxReads, MaxFailures} \subseteq Nat

VARIABLES
    asked,         \* what was enabled: subset of {"cpu", "proc"}
    holder,        \* pid -> number of the process that has it, 0 for none
    uses,          \* pid -> processes it has named
    files,         \* open counters: descriptor, <<round, slot>> -> [holder, on, count]
    opens,         \* rounds of opening, to name the descriptors
    happened,      \* events so far
    listed,        \* pids of s.procs whose command matches --pmu-comm
    pmuAt,         \* where the sampling thread is
    remaining,     \* CPUs to open or pids to attach
    initialized, available, procAvailable,
    counter,       \* slot -> [fd, last, first]; first, a ghost: the first value read
    total,         \* slot -> what it has come to
    totals,        \* event -> total_instructions_ and the like
    dropped,       \* ghost: descriptors the set-up let go of
    reads,         \* samples taken
    failures       \* steps in which an open or a read failed
pmuVars == <<asked, holder, uses, files, opens, happened, listed, pmuAt, remaining, initialized, available,
             procAvailable, counter, total, totals, dropped, reads, failures>>
machineVars == <<holder, uses, happened, listed>>

\* no descriptor, and no value read yet (has_last)
NoFd == <<0, <<"", 0, "">>>>
Never == -1
NoCounter == [fd |-> NoFd, last |-> Never, first |-> Never]

HeldFds == {counter[s].fd : s \in Slots} \ {NoFd}
Attached == {p \in PmuPids : counter[<<"proc", p, FirstEvent>>].fd # NoFd}
PmuTargets == NamedPids \cup listed

PmuInit ==
    /\ asked \in {{"cpu"}, {"proc"}, {"cpu", "proc"}}
    /\ holder = [p \in PmuPids |-> 0] /\ uses = [p \in PmuPids |-> 0]
    /\ files = [f \in {} |-> 0] /\ opens = 0 /\ happened = 0 /\ listed = {}
    /\ pmuAt = "idle" /\ remaining = {}
    /\ initialized = FALSE /\ available = FALSE /\ procAvailable = FALSE
    /\ counter = [s \in Slots |-> NoCounter] /\ total = [s \in Slots |-> 0]
    /\ totals = [e \in CpuEvents |-> 0] /\ dropped = {}
    /\ reads = 0 /\ failures = 0
-----------------------------------------------------------------------------
(* The machine.  It is not looked at while the CPUs' counters are opened:   *)
(* what happens then happens before or after.                               *)
MachineRuns == pmuAt \in {"idle", "attach", "processes"}

ProcessStarts(p) ==
    /\ MachineRuns /\ holder[p] = 0 /\ uses[p] < MaxUses
    /\ uses' = [uses EXCEPT ![p] = @ + 1] /\ holder' = [holder EXCEPT ![p] = uses[p] + 1]
    /\ UNCHANGED <<asked, files, opens, happened, listed, pmuAt, remaining, initialized, available, procAvailable,
                   counter, total, totals, dropped, reads, failures>>

\* its counters stay as they are
ProcessEnds(p) ==
    /\ MachineRuns /\ holder[p] # 0 /\ holder' = [holder EXCEPT ![p] = 0]
    /\ UNCHANGED <<asked, uses, files, opens, happened, listed, pmuAt, remaining, initialized, available,
                   procAvailable, counter, total, totals, dropped, reads, failures>>

\* an event of process p on CPU c: whatever counts it goes up
IsCounted(f, p, c, e) ==
    /\ files[f].on
    /\ \/ f[2] = <<"cpu", c, e>>
       \/ f[2] = <<"proc", p, e>> /\ files[f].holder = holder[p]
AfterEvent(p, c, e) ==
    [f \in DOMAIN files |->
        [holder |-> files[f].holder, on |-> files[f].on,
         count |-> IF IsCounted(f, p, c, e) THEN files[f].count + 1 ELSE files[f].count]]
PmuEvent(p, c, e) ==
    /\ MachineRuns /\ holder[p] # 0 /\ happened < MaxEvents /\ happened' = happened + 1
    /\ files' = AfterEvent(p, c, e)
    /\ UNCHANGED <<asked, holder, uses, opens, listed, pmuAt, remaining, initialized, available, procAvailable,
                   counter, total, totals, dropped, reads, failures>>

\* proc_->sample(s.procs), on its own schedule
ListProcesses ==
    /\ pmuAt = "idle" /\ \E ps \in SUBSET {p \in PmuPids : holder[p] # 0} : listed' = ps
    /\ UNCHANGED <<asked, holder, uses, files, opens, happened, pmuAt, remaining, initialized, available,
                   procAvailable, counter, total, totals, dropped, reads, failures>>
-----------------------------------------------------------------------------
\* Some call of this step failed, or none did.
PmuCallsFail(some) == IF some THEN failures < MaxFailures /\ failures' = failures + 1 ELSE failures' = failures

\* The descriptor of a slot opened in the round under way, and its file.
Fd(s) == <<opens + 1, s>>
FilesOpened(ss, on) ==
    [f \in DOMAIN files \cup {Fd(s) : s \in ss} |->
        IF f \in DOMAIN files THEN files[f]
        ELSE [holder |-> IF f[2][1] = "proc" THEN holder[f[2][2]] ELSE 0, on |-> on, count |-> 0]]
SlotsOpened(ss) == [s \in Slots |-> IF s \in ss THEN [fd |-> Fd(s), last |-> Never, first |-> Never] ELSE counter[s]]

\* files and slots after the counters of the slots ss are closed
FilesClosed(ss) == [f \in DOMAIN files \ {counter[s].fd : s \in ss} |-> files[f]]
SlotsClosed(ss) == [s \in Slots |-> IF s \in ss THEN NoCounter ELSE counter[s]]
TotalsCleared(ss) == [s \in Slots |-> IF s \in ss THEN 0 ELSE total[s]]

(***************************************************************************)
(* A turn of the sampling thread.  The selection is resolved before every   *)
(* read, but for the first read of the warm-up with --trace;                *)
(* set_process_targets() lets go of who is not selected any more, total and *)
(* all.                                                                     *)
(***************************************************************************)
BeginTurn ==
    /\ pmuAt = "idle" /\ reads < MaxReads /\ pmuAt' = "attach"
    /\ LET resolves == "proc" \in asked /\ ~("cpu" \in asked /\ reads = 0)
           gone == {s \in ProcSlots : resolves /\ s[2] \notin PmuTargets} IN
         /\ files' = FilesClosed(gone) /\ counter' = SlotsClosed(gone) /\ total' = TotalsCleared(gone)
         /\ remaining' = IF resolves THEN PmuTargets \ Attached ELSE {}
    /\ UNCHANGED <<asked, machineVars, opens, initialized, available, procAvailable, totals, dropped,
                   reads, failures>>

\* one target: without its first counter it gets none
Attach(p) ==
    /\ pmuAt = "attach" /\ p \in remaining /\ remaining' = remaining \ {p}
    /\ \E es \in SUBSET ProcEvents :
         /\ es # {} => FirstEvent \in es /\ holder[p] # 0
         /\ LET ss == {<<"proc", p, e>> : e \in es} IN files' = FilesOpened(ss, TRUE) /\ counter' = SlotsOpened(ss)
         /\ procAvailable' = (procAvailable \/ es # {})
         /\ PmuCallsFail(holder[p] # 0 /\ es # ProcEvents)
    /\ opens' = opens + 1
    /\ UNCHANGED <<asked, machineVars, pmuAt, initialized, available, total, totals, dropped, reads>>

-----------------------------------------------------------------------------
\* sample(): the first one opens the counters of the CPUs, if there is a PMU
BeginSample ==
    /\ pmuAt = "attach" /\ remaining = {}
    /\ procAvailable' = (procAvailable /\ Attached # {})
    /\ initialized' = TRUE
    /\ \/ ~initialized /\ pmuAt' = "open" /\ remaining' = PmuCpus /\ failures' = failures
       \/ pmuAt' = "processes" /\ remaining' = remaining /\ PmuCallsFail(~initialized)
    /\ UNCHANGED <<asked, machineVars, files, opens, available, counter, total, totals, dropped, reads>>

\* Mutant: what the CPU got before a required counter failed stays open.
OpenCpuLeaving(c) ==
    /\ pmuAt = "open" /\ c \in remaining /\ \A d \in remaining : c <= d
    /\ \E es \in SUBSET CpuEvents : PmuCallsFail(es # CpuEvents) /\
         LET ss == {<<"cpu", c, e>> : e \in es} IN
         IF Required \subseteq es
         THEN /\ files' = FilesOpened(ss, FALSE) /\ counter' = SlotsOpened(ss)
              /\ remaining' = remaining \ {c} /\ UNCHANGED <<pmuAt, total>>
         ELSE /\ files' = [f \in {Fd(s) : s \in ss} |-> FilesOpened(ss, FALSE)[f]]
              /\ counter' = SlotsClosed(Slots) /\ total' = TotalsCleared(ProcSlots)
              /\ remaining' = {} /\ pmuAt' = "processes"
    /\ opens' = opens + 1
    /\ UNCHANGED <<asked, machineVars, initialized, available, procAvailable, totals, dropped, reads>>

\* init() for one CPU: when a required counter fails, what this CPU got is
\* closed, and by close_all() everything else, the attached processes included
OpenCpu(c) ==
    /\ pmuAt = "open" /\ c \in remaining /\ \A d \in remaining : c <= d
    /\ \E es \in SUBSET CpuEvents : PmuCallsFail(es # CpuEvents) /\
         LET ss == {<<"cpu", c, e>> : e \in es} IN
         IF Required \subseteq es
         THEN /\ files' = FilesOpened(ss, FALSE) /\ counter' = SlotsOpened(ss)
              /\ remaining' = remaining \ {c} /\ UNCHANGED <<pmuAt, total>>
         ELSE /\ files' = FilesClosed(Slots) /\ counter' = SlotsClosed(Slots) /\ total' = TotalsCleared(ProcSlots)
              /\ remaining' = {} /\ pmuAt' = "processes"
    /\ opens' = opens + 1
    /\ UNCHANGED <<asked, machineVars, initialized, available, procAvailable, totals, dropped, reads>>

\* the L3 domains, each of which may get either counter; one without an access
\* counter is not kept, and its miss counter stays open.  Then all are enabled.
OpenL3 ==
    /\ pmuAt = "open" /\ remaining = {}
    /\ \E ss \in SUBSET L3Slots :
         LET kept == {s \in ss : <<"l3", s[2], "access">> \in ss}
             fs == FilesOpened(ss, FALSE) IN
         /\ PmuCallsFail(ss # L3Slots)
         /\ counter' = SlotsOpened(kept)
         /\ dropped' = dropped \cup {Fd(s) : s \in ss \ kept}
         /\ files' = [f \in DOMAIN fs |->
                         [holder |-> fs[f].holder, on |-> fs[f].on \/ f \notin dropped', count |-> fs[f].count]]
    /\ opens' = opens + 1 /\ available' = TRUE /\ pmuAt' = "processes"
    /\ UNCHANGED <<asked, machineVars, remaining, initialized, procAvailable, total, totals, reads>>
-----------------------------------------------------------------------------
\* read_delta() of each slot of ss, where the reads of bad fail
ReadsWell(s, bad) == counter[s].fd \notin {NoFd} \cup bad
ValueOf(s) == files[counter[s].fd].count
DeltaOf(s, bad) ==
    IF ReadsWell(s, bad) /\ counter[s].last # Never /\ ValueOf(s) >= counter[s].last
    THEN ValueOf(s) - counter[s].last ELSE 0
AfterReads(ss, bad) ==
    [s \in Slots |-> IF s \in ss /\ ReadsWell(s, bad)
                     THEN [fd |-> counter[s].fd, last |-> ValueOf(s),
                           first |-> IF counter[s].last = Never THEN ValueOf(s) ELSE counter[s].first]
                     ELSE counter[s]]

\* at most one read of a sample fails
FailingReads(ss) == {{}} \cup {{counter[s].fd} : s \in {t \in ss : counter[t].fd # NoFd}}

\* fill_per_process()
ReadProcesses ==
    /\ pmuAt = "processes" /\ reads' = reads + 1
    /\ \E bad \in FailingReads(ProcSlots) :
         /\ PmuCallsFail(bad # {})
         /\ IF procAvailable
            THEN /\ counter' = AfterReads(ProcSlots, bad)
                 /\ total' = [s \in Slots |-> IF s \in ProcSlots THEN total[s] + DeltaOf(s, bad) ELSE total[s]]
            ELSE bad = {} /\ UNCHANGED <<counter, total>>
    /\ pmuAt' = IF available THEN "cpus" ELSE "idle"
    /\ UNCHANGED <<asked, machineVars, files, opens, remaining, initialized, available, procAvailable, totals, dropped>>

\* the rest of sample()
ReadCpus ==
    /\ pmuAt = "cpus" /\ pmuAt' = "idle"
    /\ \E bad \in FailingReads(CpuSlots \cup L3Slots) :
         /\ PmuCallsFail(bad # {})
         /\ counter' = AfterReads(CpuSlots \cup L3Slots, bad)
         /\ totals' = [e \in CpuEvents |->
                         totals[e] + SumFunction([c \in PmuCpus |-> DeltaOf(<<"cpu", c, e>>, bad)])]
    /\ UNCHANGED <<asked, machineVars, files, opens, remaining, initialized, available, procAvailable, total, dropped,
                   reads>>

PmuOver == pmuAt = "idle" /\ reads = MaxReads /\ UNCHANGED pmuVars

PmuNext ==
    \/ \E p \in PmuPids : ProcessStarts(p) \/ ProcessEnds(p) \/ Attach(p)
    \/ \E p \in PmuPids, c \in PmuCpus, e \in CpuEvents \cup ProcEvents : PmuEvent(p, c, e)
    \/ \E c \in PmuCpus : OpenCpu(c)
    \/ ListProcesses \/ BeginTurn \/ BeginSample \/ OpenL3
    \/ ReadProcesses \/ ReadCpus \/ PmuOver

PmuSpec == PmuInit /\ [][PmuNext]_pmuVars
-----------------------------------------------------------------------------
(* Properties.                                                              *)

\* Every open counter is held by one slot, and by the slot it was opened for,
\* whichever opens failed and whatever was dropped; only the miss counter of a
\* domain without an access counter is let go of.
FdsAreHeld ==
    /\ DOMAIN files = HeldFds \cup dropped /\ HeldFds \cap dropped = {}
    /\ \A s \in Slots : counter[s].fd # NoFd => counter[s].fd[2] = s
    /\ \A f \in dropped : f[2] \in L3Slots /\ f[2][3] = "miss"

\* What a slot has come to since it was first read.
Since(s) == IF counter[s].last = Never THEN 0 ELSE counter[s].last - counter[s].first

\* A total of a process counts what its counter counted from the first reading
\* on, once, and nothing of who had the slot or the number before; the totals of
\* the CPUs come to what each of them counted.
TotalsAreOwn ==
    /\ \A s \in ProcSlots :
         /\ total[s] = Since(s)
         /\ counter[s].fd # NoFd => total[s] <= files[counter[s].fd].count
    /\ \A e \in CpuEvents : totals[e] = SumFunction([c \in PmuCpus |-> Since(<<"cpu", c, e>>)])

\* PmuCollector: nothing leaks, and nothing is counted twice or for another.
PmuIsOwn == FdsAreHeld /\ TotalsAreOwn
=============================================================================
