----------------------------- MODULE MCNetlink -----------------------------
(***************************************************************************)
(* One instance for the two halves of NetlinkProcessCollector: the set of    *)
(* pids its event thread keeps, and sample(), which reads them.  The sampler  *)
(* takes the set as given, so a behavior is of one of them.                   *)
(***************************************************************************)
EXTENDS NetlinkTracker, NetlinkSampler

VARIABLE subject
netlinkVars == <<subject, trackerVars, samplerVars>>

NetlinkInit ==
  /\ subject \in {"tracker", "sampler"}
  /\ subject = "tracker" => inProc = {}
  /\ TrackerInit /\ SamplerInit

NetlinkNext ==
  \/ subject = "tracker" /\ TrackerNext /\ UNCHANGED <<subject, samplerVars>>
  \/ subject = "sampler" /\ SamplerNext /\ UNCHANGED <<subject, trackerVars>>

\* the event thread, join() and the sampling thread go on; processes owe nothing
NetlinkSpec ==
  /\ NetlinkInit /\ [][NetlinkNext]_netlinkVars
  /\ WF_trackerVars(subject = "tracker" /\ EventThread)
  /\ WF_trackerVars(subject = "tracker" /\ Join)
  /\ WF_samplerVars(subject = "sampler" /\ Sampler)
=============================================================================
