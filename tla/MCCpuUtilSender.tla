--------------------------- MODULE MCCpuUtilSender ---------------------------
(***************************************************************************)
(* Instances of CpuUtilSender for TLC.  A second of the node is worth ten  *)
(* jiffies; the usages that matter are those on either side of 90% and two *)
(* above it, which are annotated as different values.                      *)
(***************************************************************************)
EXTENDS CpuUtilSender

\* 50% and 100%.
TwoSamples == {[idle |-> 5, total |-> 10], [idle |-> 0, total |-> 10]}

\* 40%, exactly 90%, 95% and 100%, and a second in which iowait went back.
AllSamples ==
  {[idle |-> 6, total |-> 10], [idle |-> 1, total |-> 10],
   [idle |-> 1, total |-> 20], [idle |-> 0, total |-> 10],
   [idle |-> -1, total |-> 10]}

\* Exactly 90%, 95%, 100%, and a second in which iowait went back.
EdgeSamples ==
  {[idle |-> 1, total |-> 10], [idle |-> 1, total |-> 20],
   [idle |-> 0, total |-> 10], [idle |-> -1, total |-> 10]}

\* Another client of the API marks the Node as busy, or as idle.
MarkBusyOrIdle ==
  {[usage |-> 100, dur |-> 1, busy |-> "true"],
   [usage |-> 0, dur |-> 0, busy |-> "false"]}
=============================================================================
