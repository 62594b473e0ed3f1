---------------------------- MODULE NestedLimits ----------------------------
(***************************************************************************)
(* What the /cgroup endpoint of the node-actuator promises its controller: *)
(* the limits of a container and of its pod are moved one cgroup at a      *)
(* time, never apart from one another, and a request is answered 200 only  *)
(* in a state where both cgroups have what it wants.  There are no files,  *)
(* periods, reads or write plans here; NodeActuator implements this        *)
(* specification under the mapping at its end.                             *)
(***************************************************************************)
EXTENDS Integers

CONSTANTS
  Parents,     \* pod cgroups
  Children,    \* container cgroups
  ParentOf,    \* the parent of each child
  Slots,       \* the limits a cgroup has
  Clients,     \* requests that can be in flight at the same time
  Wants,       \* [child, slots, value]: these limits of the child, to this value
  Nothing      \* a client with no request in flight

VARIABLES
  limit,       \* the limits of every cgroup
  want,        \* what each client is waiting for
  answer       \* the last status each client got

abstract == <<limit, want, answer>>

\* a is at most b, where a negative limit is unlimited.
Below(a, b) == b < 0 \/ (a >= 0 /\ a <= b)

Nested ==
  \A c \in Children, s \in Slots : Below(limit[c][s], limit[ParentOf[c]][s])

InForce(w) ==
  \A g \in {w.child, ParentOf[w.child]}, s \in w.slots : limit[g][s] = w.value

Init ==
  /\ limit  = [g \in Parents \cup Children |-> [s \in Slots |-> 0]]
  /\ want   = [k \in Clients |-> Nothing]
  /\ answer = [k \in Clients |-> "none"]

Reply(k, status) ==
  /\ want'   = [want EXCEPT ![k] = Nothing]
  /\ answer' = [answer EXCEPT ![k] = status]

\* A request whose pod has none in flight.
Ask(k) ==
  /\ want[k] = Nothing
  /\ \E w \in Wants :
       /\ \A j \in Clients :
            want[j] # Nothing => ParentOf[want[j].child] # ParentOf[w.child]
       /\ want' = [want EXCEPT ![k] = w]
  /\ answer' = [answer EXCEPT ![k] = "none"]
  /\ UNCHANGED limit

\* A request that asks for something else than limits is turned down.
Refuse(k) ==
  /\ want[k] = Nothing
  /\ Reply(k, "400")
  /\ UNCHANGED limit

\* One of the two cgroups takes the value.
Apply(w, g) ==
  /\ limit' = [limit EXCEPT ![g] =
       [s \in Slots |-> IF s \in w.slots THEN w.value ELSE @[s]]]
  /\ Nested'

Touch(w) == Apply(w, w.child) \/ Apply(w, ParentOf[w.child])

\* A request under way has moved one cgroup.
Move(k) ==
  /\ \E w \in Wants : want[k] = w /\ Touch(w)
  /\ UNCHANGED <<want, answer>>

\* The answer 200: what was wanted is in force in both cgroups.
Succeed(k) ==
  /\ \E w \in Wants :
       /\ want[k] = w
       /\ Touch(w) \/ UNCHANGED limit
       /\ InForce(w)'
  /\ Reply(k, "200")

\* The answer 500: the cgroups stay as they are, nested.
GiveUp(k) ==
  /\ want[k] \in Wants
  /\ Reply(k, "500")
  /\ UNCHANGED limit

\* The process is restarted: nobody gets an answer, the limits stay.
Restart ==
  /\ want'   = [k \in Clients |-> Nothing]
  /\ answer' = [k \in Clients |-> "none"]
  /\ UNCHANGED limit

Next ==
  \/ \E k \in Clients : Ask(k) \/ Refuse(k) \/ Move(k) \/ Succeed(k) \/ GiveUp(k)
  \/ Restart

Spec == Init /\ [][Next]_abstract
=============================================================================
