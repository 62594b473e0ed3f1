------------------------------- MODULE Renice -------------------------------
(***************************************************************************)
(* The /renice endpoint of the node-actuator (node-actuator/main.go):      *)
(* crictl inspect and jq find the process id of a container, and renice    *)
(* sets the nice value of whatever process has that id by then.            *)
(*                                                                         *)
(* Containers start and exit while a handler runs.  A process id is free   *)
(* again once its process has exited, and the kernel may give it to        *)
(* another process.                                                        *)
(***************************************************************************)
EXTENDS Integers

CONSTANTS
  Handlers,    \* goroutines that can serve /renice at the same time
  Containers,  \* containers of the node
  Pids,        \* process ids
  Self,        \* the id 0, which renice takes for its own
  Free,        \* a process id without a process
  Other,       \* a process that is no container's
  Nices,       \* nice values the controller may ask for
  NoRequest,   \* the request of an idle handler
  Reuse,       \* does the kernel give ids away again?
  Faults       \* may crictl, jq and renice fail?

ASSUME ReniceAssumption ==
  /\ Self \notin Pids
  /\ ({Free, Other} \cup Pids) \cap Containers = {}
  /\ Free # Other /\ Other \notin Pids
  /\ Nices \subseteq Int
  /\ {Reuse, Faults} \subseteq BOOLEAN

\* handleRenice does not check the range of the number.
Requests == [container : Containers, nice : Nices]

\* The nice values there are.
NiceRange == -20 .. 19

\* What becomes of a number in setpriority: one out of the range is no error.
Clamped(n) ==
  IF n < -20 THEN -20 ELSE IF n > 19 THEN 19 ELSE n

VARIABLES
  proc,   \* the process of every id
  used,   \* the ids and the containers there have been
  nice,   \* the nice value of the process of every id
  pc,     \* every handler: "idle", "inspect" or "renice"
  req,    \* its request
  pid,    \* the id that jq printed
  reply   \* its last answer

system   == <<proc, used, nice>>
handlers == <<pc, req, pid, reply>>
vars     == <<proc, used, nice, pc, req, pid, reply>>

Init ==
  /\ proc  = [p \in Pids |-> Free]
  /\ used  = {}
  /\ nice  = [p \in Pids |-> 0]
  /\ pc    = [h \in Handlers |-> "idle"]
  /\ req   = [h \in Handlers |-> NoRequest]
  /\ pid   = [h \in Handlers |-> Self]
  /\ reply = [h \in Handlers |-> "none"]

-----------------------------------------------------------------------------
(***************************************************************************)
(* The processes of the node.                                              *)
(***************************************************************************)

\* A process, the first of a container x or another, gets an id that is free.  A
\* container that is restarted is a new container.
Start(p, x) ==
  /\ proc[p] = Free
  /\ p \in used => Reuse
  /\ x \notin used \cap Containers
  /\ proc' = [proc EXCEPT ![p] = x]
  /\ used' = used \cup {p, x}
  /\ nice' = [nice EXCEPT ![p] = 0]
  /\ UNCHANGED handlers

Stop(p) ==
  /\ proc[p] # Free
  /\ proc' = [proc EXCEPT ![p] = Free]
  /\ nice' = [nice EXCEPT ![p] = 0]
  /\ UNCHANGED <<used, handlers>>

-----------------------------------------------------------------------------
(***************************************************************************)
(* handleRenice.                                                           *)
(***************************************************************************)

Answer(h, status) ==
  /\ pc'    = [pc EXCEPT ![h] = "idle"]
  /\ req'   = [req EXCEPT ![h] = NoRequest]
  /\ pid'   = [pid EXCEPT ![h] = Self]
  /\ reply' = [reply EXCEPT ![h] = status]

\* No POST (405), or a body that cannot be read or is no JSON (400).
Refuse(h) ==
  /\ pc[h] = "idle"
  /\ \E status \in {"400", "405"} : Answer(h, status)
  /\ UNCHANGED system

\* Mutant of Accept: a body that is no JSON is logged only.
AcceptUnparsed(h) ==
  /\ pc[h] = "idle"
  /\ \E r \in Requests \cup {NoRequest} : req' = [req EXCEPT ![h] = r]
  /\ pc'    = [pc EXCEPT ![h] = "inspect"]
  /\ reply' = [reply EXCEPT ![h] = "none"]
  /\ UNCHANGED <<pid, system>>

Accept(h) ==
  /\ pc[h] = "idle"
  /\ \E r \in Requests : req' = [req EXCEPT ![h] = r]
  /\ pc'    = [pc EXCEPT ![h] = "inspect"]
  /\ reply' = [reply EXCEPT ![h] = "none"]
  /\ UNCHANGED <<pid, system>>

Found(h, p) ==
  /\ pid' = [pid EXCEPT ![h] = p]
  /\ pc'  = [pc EXCEPT ![h] = "renice"]
  /\ UNCHANGED <<req, reply, system>>

\* Mutant of Inspect: jq finds the id of another process in the answer.
InspectAny(h) ==
  /\ pc[h] = "inspect"
  /\ \E p \in Pids : proc[p] # Free /\ Found(h, p)

\* crictl inspect and jq: the id of a container that runs.
Inspect(h) ==
  /\ pc[h] = "inspect"
  /\ \E p \in Pids : proc[p] = req[h].container /\ Found(h, p)

\* For a container that has exited, crictl reports the id 0.
InspectExited(h) ==
  /\ pc[h] = "inspect"
  /\ req[h].container \in used
  /\ \A p \in Pids : proc[p] # req[h].container
  /\ Found(h, Self)

\* crictl does not know the container, or one of the two fails.
FailInspect(h) ==
  /\ pc[h] = "inspect"
  /\ Faults \/ \A p \in Pids : proc[p] # req[h].container
  /\ Answer(h, "500")
  /\ UNCHANGED system

\* renice sets the nice value of the process that has the id now, as far as
\* there is such a value.
RunRenice(h) ==
  /\ pc[h] = "renice"
  /\ pid[h] \in Pids /\ proc[pid[h]] # Free
  /\ nice' = [nice EXCEPT ![pid[h]] = Clamped(req[h].nice)]
  /\ Answer(h, "200")
  /\ UNCHANGED <<proc, used>>

\* The id 0 is renice itself, which ends with it.
ReniceSelf(h) ==
  /\ pc[h] = "renice"
  /\ pid[h] = Self
  /\ Answer(h, "200")
  /\ UNCHANGED system

\* Mutant of FailRenice: the error is logged only.
IgnoreFailedRenice(h) ==
  /\ pc[h] = "renice"
  /\ Faults \/ (pid[h] \in Pids /\ proc[pid[h]] = Free)
  /\ Answer(h, "200")
  /\ UNCHANGED system

\* There is no process with that id, or renice may not change it.
FailRenice(h) ==
  /\ pc[h] = "renice"
  /\ Faults \/ (pid[h] \in Pids /\ proc[pid[h]] = Free)
  /\ Answer(h, "500")
  /\ UNCHANGED system

handleRenice(h) ==
  \/ Refuse(h) \/ Accept(h)
  \/ Inspect(h) \/ InspectExited(h) \/ FailInspect(h)
  \/ RunRenice(h) \/ ReniceSelf(h) \/ FailRenice(h)

Next ==
  \/ \E h \in Handlers : handleRenice(h)
  \/ \E p \in Pids : Stop(p) \/ \E x \in Containers \cup {Other} : Start(p, x)

Spec == Init /\ [][Next]_vars

-----------------------------------------------------------------------------
(***************************************************************************)
(* Properties.                                                             *)
(***************************************************************************)

\* Every variable has its type, and an id without a process has no nice value.
TypeOK ==
  /\ proc \in [Pids -> Containers \cup {Other, Free}]
  /\ used \subseteq Pids \cup Containers \cup {Other}
  /\ nice \in [Pids -> NiceRange]
  /\ pc \in [Handlers -> {"idle", "inspect", "renice"}]
  /\ req \in [Handlers -> Requests \cup {NoRequest}]
  /\ pid \in [Handlers -> Pids \cup {Self}]
  /\ reply \in [Handlers -> {"none", "200", "400", "405", "500"}]
  /\ \A h \in Handlers : pc[h] # "idle" => req[h] \in Requests
  /\ \A p \in Pids : proc[p] = Free => nice[p] = 0

\* An answer 200 ("Renice applied successfully", main.go:101) means that the
\* container, if it still runs, has the nice value that was asked for, or the
\* extreme one if there is no such value.
SuccessMeansReniced ==
  [][\A h \in Handlers, p \in Pids :
       pc[h] = "renice" /\ reply'[h] = "200" /\ proc[p] = req[h].container
         => nice'[p] = Clamped(req[h].nice)]_vars

\* No process but that of the container in a request gets its nice value, although
\* the container may exit between crictl and renice (main.go:93).
NoBystander ==
  [][\A h \in Handlers : RunRenice(h) => proc[pid[h]] = req[h].container]_vars
=============================================================================
