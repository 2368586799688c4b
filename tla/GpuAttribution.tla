--------------------------- MODULE GpuAttribution ---------------------------
(***************************************************************************)
(* GpuAttributor::enrich(): which process uses the GPU, and how much of its   *)
(* memory is whose (src/src/app/GpuAttributor.cpp), with the DRM fdinfo       *)
(* collector it falls back on.  A machine offers some of the sources; each    *)
(* pass asks them in a fixed order and infers what none of them tells from    *)
(* the device's totals.  What a pass finds is smoothed over passes.           *)
(*                                                                         *)
(* A process holds 0, 1 or more units of device memory and works at a level   *)
(* of 0 .. Full.  Levels are kept in units of 1/Scale, so that halving is     *)
(* exact.  Engines, descriptors and devices of one kind are one; a source     *)
(* that a pass cannot ask (a failing call or command) is not there for it.    *)
(***************************************************************************)
EXTENDS Integers, FiniteSets, Functions, Maps

CONSTANTS GpuPids,     \* pids, positive
          Machines,    \* sets of sources a machine may offer
          RowLimits,   \* sets of pids a process sample may keep
          XServers, Chromes,  \* pids whose command names a GPU process
          Full,        \* 100 percent
          Hold, Decay, ExitDecay, PruneAfter,  \* in ticks
          Uses,        \* what a process may do: [level, mem]
          MaxChanges, MaxClock, MaxPasses,
          MaxMisses    \* sources that fail in a pass

Sources == {"nvml", "procUtil", "procMem", "drm", "pmon", "smi", "mig"}

ASSUME GpuBounds ==
    /\ GpuPids \subseteq Nat \ {0} /\ IsFiniteSet(GpuPids) /\ XServers \cup Chromes \subseteq GpuPids
    /\ Machines \subseteq SUBSET Sources /\ RowLimits \subseteq SUBSET GpuPids
    /\ {Full, Decay, ExitDecay} \subseteq Nat \ {0} /\ ExitDecay <= Decay
    /\ {Hold, PruneAfter, MaxChanges, MaxClock, MaxPasses, MaxMisses} \subseteq Nat
    /\ Uses \subseteq [level : 0 .. Full, mem : Nat]

VARIABLES machine,     \* the sources there are
          level,       \* pid -> how hard it works the GPU
          memOf,       \* pid -> the device memory it holds
          opened,      \* pids with the device open
          changes,     \* changes of what they do with it
          gclock,      \* time
          work,        \* pid -> engine time it has used since it opened the device
          driver,      \* pid -> its samples in the driver not read yet: the highest
                       \* level and the last time; time 0: none
          device,      \* s.vram as last sampled: [util, used]
          rowPids,     \* pids of s.procs.processes
          shown,       \* pid -> gpu_util_pct of its row
          shownMem,    \* pid -> gpu_mem_kb of its row, -1 without has_gpu_mem
          smooth,      \* gpu_smooth_
          seenTs,      \* nvml_last_proc_ts_per_dev_
          baseline,    \* last_ of the fdinfo collector: pid -> [work, at]
          passes,
          misses,      \* sources that failed
          pass,        \* what the last pass found
          sampledAt    \* pid -> when a pass last attributed something to it
gpuVars == <<machine, level, memOf, opened, changes, gclock, work, driver, device, rowPids, shown, shownMem,
             smooth, seenTs, baseline, passes, misses, pass, sampledAt>>
hostVars == <<level, memOf, opened, changes, gclock, work, driver, device>>

Scale == 2 ^ MaxPasses
NoMap == [p \in {} |-> 0]
Total(m) == SumFunction(m)
\* m with the keys of n that it lacks
Filled(m, n) == [k \in DOMAIN m \cup DOMAIN n |-> IF k \in DOMAIN m THEN m[k] ELSE n[k]]
Offers(source) == source \in machine

GpuInit ==
    /\ machine \in Machines
    /\ level = [p \in GpuPids |-> 0] /\ memOf = [p \in GpuPids |-> 0] /\ opened = {} /\ changes = 0
    /\ gclock = 1 /\ work = [p \in GpuPids |-> 0]
    /\ driver = [p \in GpuPids |-> [util |-> 0, ts |-> 0]]
    /\ device = [util |-> 0, used |-> 0]
    /\ rowPids \in RowLimits
    /\ shown = [p \in GpuPids |-> 0] /\ shownMem = [p \in GpuPids |-> -1]
    /\ smooth = NoMap /\ seenTs = 0 /\ baseline = NoMap
    /\ passes = 0 /\ misses = 0 /\ sampledAt = [p \in GpuPids |-> 0]
    /\ pass = [at |-> 0, gap |-> 0, running |-> {}, util |-> NoMap, told |-> TRUE, mem |-> NoMap, given |-> 0,
                mig |-> FALSE, device |-> device]
-----------------------------------------------------------------------------
(* The machine.                                                            *)

\* a process takes up, changes or leaves its work on the GPU
Work(p) ==
    /\ changes < MaxChanges /\ changes' = changes + 1
    /\ \/ \E u \in Uses :
            /\ level' = [level EXCEPT ![p] = u.level] /\ memOf' = [memOf EXCEPT ![p] = u.mem]
            /\ opened' = opened \cup {p} /\ work' = work
       \/ /\ p \in opened /\ opened' = opened \ {p}
          /\ level' = [level EXCEPT ![p] = 0] /\ memOf' = [memOf EXCEPT ![p] = 0]
         /\ work' = [work EXCEPT ![p] = 0]
    /\ UNCHANGED <<machine, gclock, driver, device, rowPids, shown, shownMem, smooth, seenTs, baseline,
                   passes, misses, pass, sampledAt>>

\* time passes: engine counters grow, the driver takes samples
Elapse ==
    /\ gclock < MaxClock
    /\ gclock' = gclock + 1
    /\ work' = IF Offers("drm") THEN [p \in GpuPids |-> work[p] + level[p]] ELSE work
    /\ driver' = [p \in GpuPids |->
                    IF ~Offers("procUtil") \/ p \notin opened THEN driver[p]
                    ELSE [util |-> IF driver[p].ts > seenTs THEN Larger(driver[p].util, level[p]) ELSE level[p],
                          ts |-> gclock]]
    /\ UNCHANGED <<machine, level, memOf, opened, changes, device, rowPids, shown, shownMem, smooth, seenTs,
                   baseline, passes, misses, pass, sampledAt>>

\* gpu_.sample(s.vram), on its own schedule
SampleDevice ==
    /\ device' = [util |-> Smaller(Full, Total(level)), used |-> Total(memOf)]
    /\ UNCHANGED <<machine, level, memOf, opened, changes, gclock, work, driver, rowPids, shown, shownMem, smooth, seenTs,
                   baseline, passes, misses, pass, sampledAt>>

\* proc_->sample(s.procs): new rows, which show nothing yet
SampleRows ==
    /\ rowPids' \in RowLimits
    /\ shown' = [p \in GpuPids |-> 0] /\ shownMem' = [p \in GpuPids |-> -1]
    /\ UNCHANGED <<machine, hostVars, smooth, seenTs, baseline, passes, misses, pass, sampledAt>>
-----------------------------------------------------------------------------
(* The sources of a pass, in the order they are asked; on has those that       *)
(* answer.  A finding is [util, running, mem]: pid -> level, pids, pid ->      *)
(* memory.                                                                  *)

Holding == [p \in {q \in opened : memOf[q] > 0} |-> memOf[p]]

\* NVML: the pids with a context, their memory, and samples not seen before
Nvml(on) ==
    [util |-> IF {"nvml", "procUtil"} \subseteq on /\ "mig" \notin on
              THEN [p \in {q \in GpuPids : driver[q].ts > seenTs} |-> driver[p].util] ELSE NoMap,
     running |-> IF "nvml" \in on THEN opened ELSE {},
     mem |-> IF {"nvml", "procMem"} \subseteq on THEN Holding ELSE NoMap]

\* FdinfoProcessCollector::sample(): growth of the engine time since the baseline,
\* rounded to the nearest level; a pid's first reading is its baseline
DrmLevel(p) ==
    LET spent == work[p] - baseline[p].work
        dt == gclock - baseline[p].at
    IN  IF dt > 0 /\ spent >= 0 THEN Smaller(Full, (2 * spent + dt) \div (2 * dt)) ELSE 0

Fdinfo == [p \in {q \in opened \cap DOMAIN baseline : DrmLevel(q) > 0} |-> DrmLevel(p)]

\* it is asked only when NVML had no samples; NVML's memory figures stay
AskFdinfo(on, f) ==
    IF f.util = NoMap /\ "drm" \in on
    THEN [util |-> Fdinfo, running |-> f.running \cup opened, mem |-> Filled(f.mem, Holding)] ELSE f

\* `nvidia-smi pmon` names the pids that work
AskPmon(on, f) ==
    IF f.util = NoMap /\ "pmon" \in on /\ "mig" \notin on
    THEN LET named == {p \in opened : level[p] > 0}
         IN  [util |-> [p \in named |-> level[p]], running |-> f.running \cup named, mem |-> f.mem] ELSE f

\* nobody named, but the device works: rows that have it open
ScanDescriptors(f) ==
    IF f.running = {} /\ device.util > 0
    THEN [util |-> f.util, running |-> rowPids \cap opened, mem |-> f.mem] ELSE f

AskSmiMem(on, f) ==
    IF f.mem = NoMap /\ "smi" \in on /\ "mig" \notin on
    THEN [util |-> f.util, running |-> f.running, mem |-> Holding] ELSE f

Told(on) == AskSmiMem(on, ScanDescriptors(AskPmon(on, AskFdinfo(on, Nvml(on)))))
-----------------------------------------------------------------------------
(* What is inferred, unless the device is partitioned (MIG).                 *)

\* scan_gpu_owner(): the one row that looks like a GPU process, or a browser's
Owners ==
    LET matches == rowPids \cap (XServers \cup Chromes)
    IN  IF Cardinality(matches) = 1 THEN matches ELSE matches \cap Chromes

\* the device's memory by shares of the work, at least one unit each; else to the
\* only pid that runs, else to the owner
SpreadMem(on, f, owner) ==
    LET sum == Total(f.util)
    IN  IF "mig" \in on \/ f.mem # NoMap \/ device.used = 0 THEN f.mem
        ELSE IF sum > 0 THEN [p \in DOMAIN f.util |-> Larger(1, (device.used * f.util[p]) \div sum)]
        ELSE IF Cardinality(f.running) = 1 THEN [p \in f.running |-> device.used]
        ELSE [p \in owner |-> device.used]

\* what the pids known do not account for
Residual(mem) == device.used - Total(mem)

\* pids the remainder may go to
Heirs(f, owner) ==
    IF owner # {} THEN owner
    ELSE IF Cardinality(f.running) = 1 THEN f.running
    ELSE {p \in DOMAIN f.util : \A q \in DOMAIN f.util : f.util[q] <= f.util[p]}

AddResidual(on, mem, heir) ==
    IF "mig" \in on \/ device.used = 0 \/ Total(mem) >= device.used THEN mem
    ELSE Filled([p \in heir |-> At(mem, p, 0) + Residual(mem)], mem)

\* the device's level: to the only pid that runs, else to the owner, else by shares
\* of memory, else evenly
SpreadUtil(on, f, mem, owner) ==
    LET holding == {p \in f.running \cap DOMAIN mem : mem[p] > 0}
        held == SumFunctionOnSet(mem, holding)
    IN  IF f.util # NoMap \/ "mig" \in on \/ device.util = 0 THEN f.util
        ELSE IF Cardinality(f.running) = 1 THEN [p \in f.running |-> device.util]
        ELSE IF owner # {} THEN [p \in owner |-> device.util]
        ELSE IF held > 0 THEN [p \in holding |-> Larger(1, (device.util * mem[p]) \div held)]
        ELSE [p \in f.running |-> Larger(1, device.util \div Cardinality(f.running))]
-----------------------------------------------------------------------------
(* Smoothing over passes.                                                  *)

Smoothed(util, running) ==
    [p \in DOMAIN smooth \cup DOMAIN util \cup running |->
        LET known == p \in DOMAIN smooth
            old == IF known THEN smooth[p] ELSE [ema |-> 0, sampled |-> 0, ran |-> 0]
        IN  [ema |-> IF p \notin DOMAIN util THEN old.ema
                     ELSE IF old.sampled = 0 THEN util[p] * Scale
                     ELSE (old.ema + util[p] * Scale) \div 2,
             sampled |-> IF p \in DOMAIN util THEN gclock ELSE old.sampled,
             ran |-> IF p \in running THEN gclock ELSE old.ran]]

\* a row's level: the mean while it runs or was sampled within Hold, then fading
Display(st, running) ==
    LET over == gclock - st.sampled - Hold
        window == IF st.ran > 0 THEN Decay ELSE ExitDecay
    IN  IF st.sampled = 0 THEN 0
        ELSE IF running \/ over <= 0 THEN st.ema
        ELSE IF over < window THEN (st.ema * (window - over)) \div window
        ELSE 0

\* Mutant: what is too old is kept.
PrunedNot(sm) == sm
\* what was not sampled for long goes; a pid that never was, at once
Pruned(sm) ==
    Restrict(sm, {p \in DOMAIN sm : sm[p].sampled # 0 /\ gclock - sm[p].sampled <= PruneAfter})

\* enrich() with the sources on answering; who is chosen among equals, and which
\* browser's row comes last, is left open
Outcome(on, owner, heir) ==
    LET told == Told(on)
        mem == AddResidual(on, SpreadMem(on, told, owner), heir)
        util == SpreadUtil(on, told, mem, owner)
        inferred == told.util = NoMap /\ util # NoMap
    IN  [util |-> util, mem |-> mem, told |-> ~inferred,
         running |-> IF inferred /\ Cardinality(told.running) # 1 THEN told.running \cup owner ELSE told.running]

Show(on, found) ==
    LET sm == Smoothed(found.util, found.running)
    IN  /\ shown' = [p \in GpuPids |->
                       IF p \in rowPids /\ p \in DOMAIN sm
                       THEN Smaller(Full * Scale, Display(sm[p], p \in found.running)) ELSE 0]
        /\ shownMem' = [p \in GpuPids |-> IF p \in rowPids \cap DOMAIN found.mem THEN found.mem[p] ELSE shownMem[p]]
        /\ smooth' = Pruned(sm)
        /\ sampledAt' = [p \in GpuPids |-> IF p \in DOMAIN found.util THEN gclock ELSE sampledAt[p]]
        /\ pass' = [at |-> gclock, gap |-> gclock - pass.at, running |-> found.running, util |-> found.util,
                    told |-> found.told, mem |-> found.mem, given |-> Total(Told(on).mem),
                    mig |-> "mig" \in on, device |-> device]

OneOf(S) == IF S = {} THEN {{}} ELSE {{p} : p \in S}

Attribute(on) ==
    \E owner \in OneOf(Owners) : \E heir \in OneOf(Heirs(Told(on), owner)) : Show(on, Outcome(on, owner, heir))

\* the newest sample read, and the baselines of the fdinfo collector if it was asked
Remember(on) ==
    LET fresh == {driver[p].ts : p \in DOMAIN Nvml(on).util}
    IN  /\ seenTs' \in IF fresh = {} THEN {seenTs} ELSE {t \in fresh : \A u \in fresh : u <= t}
        /\ baseline' = IF Nvml(on).util # NoMap THEN baseline
                       ELSE IF "drm" \in on THEN [p \in opened |-> [work |-> work[p], at |-> gclock]] ELSE NoMap

Enrich ==
    /\ passes < MaxPasses /\ passes' = passes + 1
    /\ \/ Attribute(machine) /\ Remember(machine) /\ misses' = misses
       \/ /\ misses < MaxMisses /\ misses' = misses + 1
          /\ \E lost \in machine : Attribute(machine \ {lost}) /\ Remember(machine \ {lost})
    /\ UNCHANGED <<machine, hostVars, rowPids>>

GpuNext == SampleDevice \/ SampleRows \/ Elapse \/ Enrich \/ \E p \in GpuPids : Work(p)

GpuSpec == GpuInit /\ [][GpuNext]_gpuVars
-----------------------------------------------------------------------------
(***************************************************************************)
(* A level a pass shows has a sample behind it that is recent: less than      *)
(* Hold + Decay old, or, for a pid that still has the device open, no older   *)
(* than the pruning lets it become.                                         *)
(***************************************************************************)
ShownIsRecent ==
    pass.at = gclock => \A p \in rowPids : shown[p] > 0 =>
        /\ sampledAt[p] > 0
        /\ \/ gclock - sampledAt[p] < Hold + Decay
           \/ p \in pass.running /\ gclock - sampledAt[p] <= PruneAfter + pass.gap

(***************************************************************************)
(* The memory a pass gives out is the device's, or what the sources told if   *)
(* that is more: at most one unit too much for each pid that had a share of   *)
(* the work.  On a partitioned device nothing is inferred.                    *)
(***************************************************************************)
MemoryAddsUp ==
    /\ Total(pass.mem) <= Larger(pass.device.used, pass.given) + Cardinality(DOMAIN pass.util)
    /\ pass.mig => Total(pass.mem) = pass.given

(***************************************************************************)
(* A level that is inferred splits the device's, to one unit per pid.         *)
(***************************************************************************)
LevelAddsUp ==
    ~pass.told => Total(pass.util) <= pass.device.util + Cardinality(DOMAIN pass.util)

\* What rows show of the GPU is current and is no more than there is.
GpuIsEarned == ShownIsRecent /\ MemoryAddsUp /\ LevelAddsUp
=============================================================================
