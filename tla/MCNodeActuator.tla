--------------------------- MODULE MCNodeActuator ---------------------------
(***************************************************************************)
(* Instances of NodeActuator for TLC.  Periods and runtimes are small      *)
(* numbers: only their order and their signs matter to the code.           *)
(***************************************************************************)
EXTENDS NodeActuator, TLC

CONSTANTS p1, p2, c1, c2

\* One container in a pod of its own; one in each of two; two in one pod.
PodOfOne    == c1 :> p1
PodOfEach   == c1 :> p1 @@ c2 :> p2
PodOfShared == c1 :> p1 @@ c2 :> p1

Normal(c, p, r, k) ==
  [container_id |-> c, period |-> p, runtime |-> r, core |-> k,
   only_runtime |-> FALSE]

Escalation(c, r, k) ==
  [container_id |-> c, period |-> 4, runtime |-> r, core |-> k,
   only_runtime |-> TRUE]

\* Bodies handleCgroup refuses: no container, no period, runtime > period.
Refused ==
  {Normal(NoContainer, 4, 1, {}), Normal(c1, 0, 0, {}), Normal(c1, 4, 5, {})}

\* Requests whose write order is right as long as the period moves at rest:
\* escalations of one limit, normal requests with two periods, and those that take
\* the runtime away.  c2 is given per-core limits only, so that its normal requests
\* compare with one limit.
OrderedRequests ==
  {Escalation(c1, r, {}) : r \in {-1, 1}}
  \cup {Escalation(c1, 2, {0}), Normal(c1, 5, 6, {})}
  \cup {Normal(c1, 6, 3, {}), Normal(c1, 6, 0, {}), Normal(c1, 4, 0, {})}
  \cup {Escalation(c2, -1, {0}), Normal(c2, 4, 1, {0})}

\* Normal requests that move both limits of c1 in every direction.
NormalRequests(k) ==
  {q \in {Normal(c1, p, r, k) : p \in {2, 4, 6}, r \in {-1, 0, 2, 4, 5}} :
     q.runtime <= q.period}

\* c1 uses cpu.rt_runtime_us throughout and c2 one CPU, in a pod of its own.
OneLimitRequests ==
  NormalRequests({}) \cup Refused
  \cup {Normal(c2, p, p \div 2, {0}) : p \in {2, 6}}

\* Two requests that disagree on everything.
RetriedRequests == {Normal(c1, 2, 1, {}), Normal(c1, 6, 3, {0})}

-----------------------------------------------------------------------------
(***************************************************************************)
(* Requests of the runs that TLC finds violated.                           *)
(***************************************************************************)

\* A raise, then a shorter period with a larger runtime.
MixedDirectionRequests == {Normal(c1, 4, 1, {}), Normal(c1, 3, 2, {})}

\* A limit, then "disable".
DisableRequests == {Normal(c1, 4, 2, {}), Normal(c1, 4, -1, {})}

\* A limit on two CPUs, then a tighter one.
CoreRangeRequests == {Escalation(c1, r, {0, 1}) : r \in {1, 2}}

\* A raise and a tightening of the same limit.
TwoRequests == {Escalation(c1, r, {}) : r \in {1, 2}}

\* Each container of a pod asks for its own limit.
SharedPodRequests == {Escalation(c1, 2, {}), Escalation(c2, 1, {})}

\* A raise of both limits.
RaiseRequests == {Normal(c1, 4, 2, {}), Normal(c1, 8, 4, {})}

\* A short period, then an escalation checked against a longer one.
EscalationRequests == {Normal(c1, 2, 1, {}), Escalation(c1, 3, {})}
=============================================================================
