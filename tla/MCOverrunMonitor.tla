-------------------------- MODULE MCOverrunMonitor --------------------------
(***************************************************************************)
(* The instance of OverrunMonitor for TLC: a server of a pod and one of    *)
(* the system, whose dl_runtime is 50 ms.                                  *)
(***************************************************************************)
EXTENDS OverrunMonitor

CONSTANTS s1, s2, c1

AllServers   == {s1, s2}
SystemServer == {s2}
AllCgroups   == {c1}
=============================================================================
