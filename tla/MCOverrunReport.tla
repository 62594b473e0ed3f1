-------------------------- MODULE MCOverrunReport --------------------------
(***************************************************************************)
(* Instances of OverrunReport for TLC, which checks that they meet the     *)
(* hypothesis of OverrunReport_proofs!ClassifiesPods.                      *)
(***************************************************************************)
EXTENDS OverrunReport, MCOverrunAgent

Status(c, k) == [id |-> c, class |-> k]

\* Both pods are there, in either order; one waits between them; one is gone.
SomeListings ==
  {<<Status(c1, "HIGH"), Status(c2, "LOW")>>,
   <<Status(c2, "MEDIUM"), Status(c1, "UNKNOWN")>>,
   <<Status(c1, "HIGH"), Status(Waiting, "LOW"), Status(c2, "LOW")>>,
   <<Status(c2, "LOW")>>}

ASSUME InstanceListedOnce == ListedOnce
=============================================================================
