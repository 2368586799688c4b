----------------------------- MODULE MCSampling -----------------------------
(***************************************************************************)
(* One instance for the sampling thread with the one-shot readers, the        *)
(* process collectors, the PMU and the GPU attribution it calls, the hourly   *)
(* log of what it publishes, and the conclusions drawn from a sample.  As     *)
(* modelled they share no state; a behavior is of one of them, chosen at the  *)
(* start, and the others stay as they began.                                 *)
(***************************************************************************)
EXTENDS Producer, HourLog, Conclusions, ProcessRows, GpuAttribution, PmuCounters

VARIABLE subject

\* One tick is about 50ms; the intervals keep the order of the code's, scaled
\* down.  The PMU stands for the collectors whose deadline run() sleeps for,
\* fs for the others.
MCInterval == [t \in Tasks |-> CASE t = "pmu" -> 3 [] t = "proc" -> 4 [] t = "fs" -> 5]

\* another order than the distance's
MCResistance == [a \in Vectors |-> [b \in Vectors |-> (3 * Distance(a, b)) % 7]]

\* idle with much memory, busy with little
MCUses == {[level |-> 0, mem |-> 2], [level |-> 2, mem |-> 1]}

partVars == <<subject, samplingVars, hourVars, conclusionVars, rowVars, gpuVars, pmuVars>>

PartInit ==
  /\ subject \in {"producer", "log", "conclusions", "rows", "gpu", "pmu"}
  /\ wall \in IF subject = "log" THEN Hours ELSE {1}
  /\ mode \in IF subject = "conclusions" THEN {"anomalies", "similar", "regime"} ELSE {"similar"}
  /\ subject # "conclusions" => population = <<>> /\ query = 1
  /\ backend \in IF subject = "rows" THEN {"kernel", "procfs"} ELSE {"kernel"}
  /\ machine \in IF subject = "gpu" THEN Machines ELSE {{"nvml"}}
  /\ rowPids = {}
  /\ asked \in IF subject = "pmu" THEN {{"cpu"}, {"proc"}, {"cpu", "proc"}} ELSE {{"cpu"}}
  /\ ProducerInit /\ HourInit /\ ConclusionInit /\ RowInit /\ GpuInit /\ PmuInit

\* the sampling thread stops at the horizon, rows and GPU at the end of their time
AtRest == subject \in {"producer", "rows", "gpu"} /\ UNCHANGED partVars

PartNext ==
  \/ subject = "producer" /\ ProducerNext
     /\ UNCHANGED <<subject, hourVars, conclusionVars, rowVars, gpuVars, pmuVars>>
  \/ subject = "log" /\ HourNext
     /\ UNCHANGED <<subject, samplingVars, conclusionVars, rowVars, gpuVars, pmuVars>>
  \/ subject = "conclusions" /\ ConclusionNext
     /\ UNCHANGED <<subject, samplingVars, hourVars, rowVars, gpuVars, pmuVars>>
  \/ subject = "rows" /\ RowNext
     /\ UNCHANGED <<subject, samplingVars, hourVars, conclusionVars, gpuVars, pmuVars>>
  \/ subject = "gpu" /\ GpuNext
     /\ UNCHANGED <<subject, samplingVars, hourVars, conclusionVars, rowVars, pmuVars>>
  \/ subject = "pmu" /\ PmuNext
     /\ UNCHANGED <<subject, samplingVars, hourVars, conclusionVars, rowVars, gpuVars>>
  \/ AtRest

PartSpec == PartInit /\ [][PartNext]_partVars
=============================================================================
