---------------------------- MODULE NodeActuator ----------------------------
(***************************************************************************)
(* The /cgroup endpoint of the node-actuator (node-actuator/main.go): an   *)
(* HTTP handler that writes the real-time limits of a container and of its *)
(* pod into cgroup v2 files.                                               *)
(*                                                                         *)
(* net/http serves every request in a goroutine of its own and the code    *)
(* takes no lock, so the handlers interleave between any two system calls: *)
(* each file that is read or written is one step here.  The cgroup files   *)
(* are the only state that outlives a request or the process.              *)
(*                                                                         *)
(* A request's "core" string is the set of CPUs it names; {} stands for    *)
(* the nil pointer.  cpu.rt_runtime_us and the fields of                   *)
(* cpu.rt_multi_runtime_us are the slots of one function per cgroup.       *)
(***************************************************************************)
EXTENDS Integers, Sequences

CONSTANTS
  Pods,             \* pod cgroups
  Containers,       \* container cgroups
  PodOf,            \* the parent pod of a container, as crictl inspect reports it
  CPUs,             \* CPU numbers: one field of cpu.rt_multi_runtime_us each
  AllCPUs,          \* the slot of cpu.rt_runtime_us
  Handlers,         \* goroutines that can serve /cgroup at the same time
  Requests,         \* bodies the controller may POST
  NoContainer,      \* an empty container_id
  NoRequest,        \* the request of an idle handler
  DefaultPeriod,    \* cpu.rt_period_us of a fresh cgroup
  GlobalRTPeriod,   \* sched_rt_period_us of the node
  GlobalRTRuntime,  \* sched_rt_runtime_us of the node
  RootPeriod,       \* cpu.rt_period_us of kubepods.slice
  Faults,           \* may crictl and the reads and writes of cgroup files fail?
  MultiReadFaults,  \* may the read of cpu.rt_multi_runtime_us fail?
  Crashes,          \* may the process die and be restarted?
  Serialized,       \* does the controller keep one request per pod in flight?
  PeriodAtRest      \* does it move a period only where it takes the runtime away?

Cgroups == Pods \cup Containers

Slots == CPUs \cup {AllCPUs}

Files == {"runtime", "period", "cpuset"}

\* The decoded JSON body.
CgroupRequest ==
  [container_id : Containers \cup {NoContainer},
   period       : Int,
   runtime      : Int,
   core         : SUBSET CPUs,
   only_runtime : BOOLEAN]

ASSUME ActuatorAssumption ==
  /\ Pods \cap Containers = {}
  /\ PodOf \in [Containers -> Pods]
  /\ AllCPUs \notin CPUs
  /\ NoContainer \notin Containers
  /\ Requests \subseteq CgroupRequest
  /\ NoRequest \notin Requests
  /\ DefaultPeriod \in Nat \ {0}
  /\ {GlobalRTPeriod, GlobalRTRuntime, RootPeriod} \subseteq Int
  /\ {Faults, MultiReadFaults, Crashes, Serialized, PeriodAtRest} \subseteq BOOLEAN

VARIABLES
  period,   \* cpu.rt_period_us of every cgroup
  runtime,  \* cpu.rt_runtime_us and cpu.rt_multi_runtime_us of every cgroup
  cpuset,   \* cpuset.cpus of every cgroup
  pc,       \* where each handler is
  req,      \* the request each handler serves
  seen,     \* what each handler has read of the pod's limits
  todo,     \* the writes each handler has still to do, in order
  reply     \* the status each handler answered last

files    == <<period, runtime, cpuset>>
handlers == <<pc, req, seen, todo, reply>>
vars     == <<period, runtime, cpuset, pc, req, seen, todo, reply>>

-----------------------------------------------------------------------------
(***************************************************************************)
(* The decisions of applyCgroup.                                           *)
(***************************************************************************)

isDecrease(old, new) == new < old

\* Mutant of isRuntimeDecrease: compares the numbers, forgetting "unlimited".
isNumericDecrease(old, new) == new < old

\* Mutant of isRuntimeDecrease: the arguments swapped.
isRuntimeIncrease(old, new) ==
  /\ old >= 0
  /\ new < 0 \/ old < new

\* A negative runtime is unlimited, the loosest limit.
isRuntimeDecrease(old, new) ==
  /\ new >= 0
  /\ old < 0 \/ new < old

\* The slots a request's runtime is written to: one file or the other.
RuntimeSlots(r) == IF r.core = {} THEN {AllCPUs} ELSE r.core

\* writeRtValues clamps a negative runtime to 0, writeRuntimeOnly does not.
RuntimeValue(r) ==
  IF ~r.only_runtime /\ r.runtime < 0 THEN 0 ELSE r.runtime

\* The current per-core runtime.  strconv.Atoi accepts one CPU number; for a
\* range of CPUs the function answers 0.
getCurrentMultiRuntime(field, core) ==
  IF \E k \in CPUs : core = {k}
    THEN field[CHOOSE k \in CPUs : core = {k}]
    ELSE 0

Write(file, g) == [file |-> file, cgroup |-> g]

\* Mutant of writeRtValues: the period always first.
writePeriodFirst(r, g, decreasing) ==
  <<Write("period", g), Write("runtime", g)>>
  \o (IF r.core = {} THEN <<>> ELSE <<Write("cpuset", g)>>)

\* The files of one cgroup in the order writeRtValues writes them.
writeRtValues(r, g, decreasing) ==
  (IF decreasing
     THEN <<Write("runtime", g), Write("period", g)>>
     ELSE <<Write("period", g), Write("runtime", g)>>)
  \o (IF r.core = {} THEN <<>> ELSE <<Write("cpuset", g)>>)

\* Escalation mode: container first when decreasing, else pod first.
applyRuntimeWithOrder(r, decreasing) ==
  IF decreasing
    THEN <<Write("runtime", r.container_id),
           Write("runtime", PodOf[r.container_id])>>
    ELSE <<Write("runtime", PodOf[r.container_id]),
           Write("runtime", r.container_id)>>

\* Normal mode: container first as soon as one of the limits decreases.
applyBoth(r, decreasing) ==
  LET child  == writeRtValues(r, r.container_id, decreasing)
      parent == writeRtValues(r, PodOf[r.container_id], decreasing)
  IN  IF decreasing THEN child \o parent ELSE parent \o child

\* Mutant of applyCgroup: a pod that already has the limits is left alone, and
\* with it the container.
applyUnlessInForce(r, s) ==
  IF s.period = r.period /\ s.runtime = RuntimeValue(r)
    THEN <<Write("period", PodOf[r.container_id])>>
    ELSE applyBoth(r, \/ isRuntimeDecrease(s.runtime, r.runtime)
                      \/ isDecrease(s.period, r.period))

\* Every write a handler will do, from what it has read of the pod.
applyCgroup(r, s) ==
  LET runtimeDecreasing == isRuntimeDecrease(s.runtime, r.runtime)
      periodDecreasing  == isDecrease(s.period, r.period)
      multiRuntimeDecreasing ==
        r.core # {} /\ isRuntimeDecrease(s.multi, r.runtime)
  IN  IF r.only_runtime
        THEN applyRuntimeWithOrder(r, IF r.core = {}
                                        THEN runtimeDecreasing
                                        ELSE multiRuntimeDecreasing)
        ELSE applyBoth(r, \/ runtimeDecreasing
                          \/ periodDecreasing
                          \/ multiRuntimeDecreasing)

-----------------------------------------------------------------------------
(***************************************************************************)
(* The handler.                                                            *)
(***************************************************************************)

\* Go's zero values of podPeriod, podRuntime and podMultiRuntime.
Unread == [period |-> 0, runtime |-> 0, multi |-> 0]

Init ==
  /\ period  = [g \in Cgroups |-> DefaultPeriod]
  /\ runtime = [g \in Cgroups |-> [s \in Slots |-> 0]]
  /\ cpuset  = [g \in Cgroups |-> {}]
  /\ pc      = [h \in Handlers |-> "idle"]
  /\ req     = [h \in Handlers |-> NoRequest]
  /\ seen    = [h \in Handlers |-> Unread]
  /\ todo    = [h \in Handlers |-> <<>>]
  /\ reply   = [h \in Handlers |-> "none"]

Busy(h) == pc[h] # "idle"

Pod(h) == PodOf[req[h].container_id]

\* The checks of handleCgroup before it calls applyCgroup.
ValidRequest(r) ==
  /\ r.container_id # NoContainer
  /\ r.period > 0
  /\ r.runtime <= r.period

\* The preflight checks of applyCgroup.
Preflight(r) ==
  /\ GlobalRTRuntime >= 0
  /\ GlobalRTPeriod > 0
  /\ RootPeriod = 0 \/ r.period <= RootPeriod

\* The handler answers and its goroutine ends.
Answer(h, status) ==
  /\ pc'    = [pc EXCEPT ![h] = "idle"]
  /\ req'   = [req EXCEPT ![h] = NoRequest]
  /\ seen'  = [seen EXCEPT ![h] = Unread]
  /\ todo'  = [todo EXCEPT ![h] = <<>>]
  /\ reply' = [reply EXCEPT ![h] = status]

\* handleCgroup refuses a request: nothing is touched.
RefuseRequest(h) ==
  /\ pc[h] = "idle"
  /\ \E r \in Requests : ~ValidRequest(r)
  /\ Answer(h, "400")
  /\ UNCHANGED files

\* r leaves the periods of its container and pod as they are: one and the same.
KeepsPeriod(r) ==
  /\ period[r.container_id] = period[PodOf[r.container_id]]
  /\ ~r.only_runtime => period[r.container_id] = r.period

\* r leaves its container without any runtime.
TakesAway(r) ==
  /\ ~r.only_runtime /\ r.runtime = 0
  /\ \A s \in Slots \ RuntimeSlots(r) : runtime[r.container_id][s] = 0

\* May the controller send r now?  This is what is assumed about it, if anything.
Sent(r) ==
  /\ Serialized => \A h \in Handlers : Busy(h) => Pod(h) # PodOf[r.container_id]
  /\ PeriodAtRest => KeepsPeriod(r) \/ TakesAway(r)

\* Mutant of HandleCgroup: a runtime above the period is answered 400, and the
\* handler goes on.
HandleCgroupAnyRuntime(h) ==
  /\ pc[h] = "idle"
  /\ \E r \in Requests :
       /\ r.container_id # NoContainer /\ r.period > 0
       /\ Sent(r)
       /\ req' = [req EXCEPT ![h] = r]
  /\ pc'    = [pc EXCEPT ![h] = "preflight"]
  /\ reply' = [reply EXCEPT ![h] = "none"]
  /\ UNCHANGED <<seen, todo, files>>

\* handleCgroup accepts a request and calls applyCgroup.
HandleCgroup(h) ==
  /\ pc[h] = "idle"
  /\ \E r \in Requests :
       /\ ValidRequest(r)
       /\ Sent(r)
       /\ req' = [req EXCEPT ![h] = r]
  /\ pc'    = [pc EXCEPT ![h] = "preflight"]
  /\ reply' = [reply EXCEPT ![h] = "none"]
  /\ UNCHANGED <<seen, todo, files>>

\* crictl inspect finds the cgroups and the preflight checks hold.
PassPreflight(h) ==
  /\ pc[h] = "preflight"
  /\ Preflight(req[h])
  /\ pc' = [pc EXCEPT ![h] = "readPeriod"]
  /\ UNCHANGED <<req, seen, todo, reply, files>>

\* A check fails, or crictl, jq or a read before the pod's limits does.
FailPreflight(h) ==
  /\ pc[h] = "preflight"
  /\ ~Preflight(req[h]) \/ Faults
  /\ Answer(h, "500")
  /\ UNCHANGED files

\* readRtValues: the pod's cpu.rt_period_us.
ReadPodPeriod(h) ==
  /\ pc[h] = "readPeriod"
  /\ seen' = [seen EXCEPT ![h].period = period[Pod(h)]]
  /\ pc'   = [pc EXCEPT ![h] = "readRuntime"]
  /\ UNCHANGED <<req, todo, reply, files>>

\* The write plan follows from the last value that was read.
Plan(h, s) ==
  /\ seen' = [seen EXCEPT ![h] = s]
  /\ todo' = [todo EXCEPT ![h] = applyCgroup(req[h], s)]
  /\ pc'   = [pc EXCEPT ![h] = "write"]

\* readRtValues: the pod's cpu.rt_runtime_us.
ReadPodRuntime(h) ==
  LET s == [seen[h] EXCEPT !.runtime = runtime[Pod(h)][AllCPUs]]
  IN  /\ pc[h] = "readRuntime"
      /\ \/ /\ req[h].core = {}
            /\ Plan(h, s)
         \/ /\ req[h].core # {}
            /\ seen' = [seen EXCEPT ![h] = s]
            /\ pc'   = [pc EXCEPT ![h] = "readMulti"]
            /\ UNCHANGED todo
      /\ UNCHANGED <<req, reply, files>>

\* getCurrentMultiRuntime of the pod.
ReadPodMulti(h) ==
  /\ pc[h] = "readMulti"
  /\ Plan(h, [seen[h] EXCEPT !.multi =
                getCurrentMultiRuntime(runtime[Pod(h)], req[h].core)])
  /\ UNCHANGED <<req, reply, files>>

\* A read error of getCurrentMultiRuntime is swallowed: it answers 0.
MisreadPodMulti(h) ==
  /\ MultiReadFaults
  /\ pc[h] = "readMulti"
  /\ Plan(h, [seen[h] EXCEPT !.multi = 0])
  /\ UNCHANGED <<req, reply, files>>

\* A read error of readRtValues ends the request.
FailRead(h) ==
  /\ Faults
  /\ pc[h] \in {"readPeriod", "readRuntime"}
  /\ Answer(h, "500")
  /\ UNCHANGED files

\* After a successful write: the next one, or the answer 200.
Advance(h) ==
  IF Len(todo[h]) > 1
    THEN /\ todo' = [todo EXCEPT ![h] = Tail(@)]
         /\ UNCHANGED <<pc, req, seen, reply>>
    ELSE Answer(h, "200")

\* The next write of h is to this file.
Writing(h, file) == pc[h] = "write" /\ Head(todo[h]).file = file

\* writeRuntimeFile: cpu.rt_runtime_us, or one entry of cpu.rt_multi_runtime_us.
WriteRuntimeFile(h) ==
  /\ Writing(h, "runtime")
  /\ runtime' = [runtime EXCEPT ![Head(todo[h]).cgroup] =
       [s \in Slots |-> IF s \in RuntimeSlots(req[h])
                          THEN RuntimeValue(req[h]) ELSE @[s]]]
  /\ Advance(h)
  /\ UNCHANGED <<period, cpuset>>

\* The period is read and written only when it differs; reading an equal value
\* and skipping the write leaves the file as writing it would.
WritePeriod(h) ==
  /\ Writing(h, "period")
  /\ period' = [period EXCEPT ![Head(todo[h]).cgroup] = req[h].period]
  /\ Advance(h)
  /\ UNCHANGED <<runtime, cpuset>>

\* The CPU set, again only when it differs.
WriteCpuset(h) ==
  /\ Writing(h, "cpuset")
  /\ cpuset' = [cpuset EXCEPT ![Head(todo[h]).cgroup] = req[h].core]
  /\ Advance(h)
  /\ UNCHANGED <<period, runtime>>

\* Mutant of FailWrite: the error of a write is logged and the next one done.
IgnoreFailedWrite(h) ==
  /\ Faults
  /\ pc[h] = "write"
  /\ Advance(h)
  /\ UNCHANGED files

\* Mutant of FailWrite: the handler starts over until the write succeeds.
RetryWrite(h) ==
  /\ Faults
  /\ pc[h] = "write"
  /\ pc'   = [pc EXCEPT ![h] = "readPeriod"]
  /\ todo' = [todo EXCEPT ![h] = <<>>]
  /\ UNCHANGED <<req, seen, reply, files>>

\* The kernel refuses a write, or the cgroup is gone: the writes done so far
\* stay and the others are not done.
FailWrite(h) ==
  /\ Faults
  /\ pc[h] = "write"
  /\ Answer(h, "500")
  /\ UNCHANGED files

\* The process dies and is restarted: the requests in flight are lost.
Crash ==
  /\ Crashes
  /\ \E h \in Handlers : Busy(h)
  /\ pc'    = [h \in Handlers |-> "idle"]
  /\ req'   = [h \in Handlers |-> NoRequest]
  /\ seen'  = [h \in Handlers |-> Unread]
  /\ todo'  = [h \in Handlers |-> <<>>]
  /\ reply' = [h \in Handlers |-> "none"]
  /\ UNCHANGED files

\* What the goroutine of a request does when nothing fails.
Progress(h) ==
  \/ PassPreflight(h)
  \/ ReadPodPeriod(h)
  \/ ReadPodRuntime(h)
  \/ ReadPodMulti(h)
  \/ WriteRuntimeFile(h)
  \/ WritePeriod(h)
  \/ WriteCpuset(h)

\* What ends it early, or misleads it.
Fail(h) ==
  \/ FailPreflight(h)
  \/ FailRead(h)
  \/ MisreadPodMulti(h)
  \/ FailWrite(h)

Next ==
  \/ \E h \in Handlers :
       \/ RefuseRequest(h)
       \/ HandleCgroup(h)
       \/ Progress(h)
       \/ Fail(h)
  \/ Crash

Spec == Init /\ [][Next]_vars

\* The Go scheduler runs every goroutine that is ready.  One in "preflight" waits
\* for crictl and jq, which exec.Command gives no timeout: it may wait for ever.
Ready(h) == pc[h] \notin {"idle", "preflight"}

Fairness == \A h \in Handlers : WF_vars(Ready(h) /\ (Progress(h) \/ Fail(h)))

FairSpec == Spec /\ Fairness

-----------------------------------------------------------------------------
(***************************************************************************)
(* Properties.                                                             *)
(***************************************************************************)

\* Every variable has its type, an idle handler holds nothing of its last
\* request, and a handler has writes left exactly while it is writing.
TypeOK ==
  /\ period  \in [Cgroups -> Int]
  /\ runtime \in [Cgroups -> [Slots -> Int]]
  /\ cpuset  \in [Cgroups -> SUBSET CPUs]
  /\ pc \in [Handlers -> {"idle", "preflight", "readPeriod", "readRuntime",
                          "readMulti", "write"}]
  /\ req \in [Handlers -> Requests \cup {NoRequest}]
  /\ seen \in [Handlers -> [period : Int, runtime : Int, multi : Int]]
  /\ todo \in [Handlers -> Seq([file : Files, cgroup : Cgroups])]
  /\ reply \in [Handlers -> {"none", "200", "400", "500"}]
  /\ \A h \in Handlers :
       /\ Busy(h) <=> req[h] # NoRequest
       /\ Busy(h) => ValidRequest(req[h])
       /\ pc[h] = "write" <=> todo[h] # <<>>

\* a is at most b, where a negative runtime is unlimited.
NoLooser(a, b) == b < 0 \/ (a >= 0 /\ a <= b)

\* At no moment, and wherever an error or a restart stops a request, is the
\* runtime of a container above that of its pod.  This is what the order of
\* the writes in applyCgroup and applyRuntimeWithOrder is for ("to avoid
\* temporarily exceeding parent limits", README.md).
LimitsNested ==
  \A c \in Containers, s \in Slots : NoLooser(runtime[c][s], runtime[PodOf[c]][s])

\* What LimitsNested needs of the controller: one request per pod at a time, one
\* container per pod, one limit per request, and no runtime while a period moves.
\* The per-core normal requests also read cpu.rt_runtime_us, so nobody may use it.
OrderSafe ==
  /\ Serialized /\ PeriodAtRest /\ ~MultiReadFaults
  /\ \A c, d \in Containers : PodOf[c] = PodOf[d] => c = d
  /\ \A r \in Requests : ValidRequest(r) =>
       /\ r.core = {} \/ \E k \in CPUs : r.core = {k}
       /\ ~r.only_runtime => r.runtime >= 0
       /\ ~r.only_runtime /\ r.core # {} =>
            \A q \in Requests : q.container_id = r.container_id => q.core # {}

\* The same for the bandwidth runtime/period, which is what a scheduler that
\* checks the children of a cgroup against it compares.  Periods change one cgroup
\* at a time, so that for a while a container has another period than its pod.
BandwidthNested ==
  \A c \in Containers, s \in Slots :
    \/ runtime[PodOf[c]][s] < 0
    \/ /\ runtime[c][s] >= 0
       /\ runtime[c][s] * period[PodOf[c]] <= runtime[PodOf[c]][s] * period[c]

\* No cgroup ever holds a runtime longer than its period: writeRtValues writes
\* the runtime first when a limit decreases and the period first otherwise.
RuntimeWithinPeriod ==
  \A g \in Cgroups, s \in Slots : runtime[g][s] <= period[g]

\* What RuntimeWithinPeriod needs: requests that run to their end, one at a time for
\* a pod and one container in it, in normal mode and on the same CPUs every time.
PeriodSafe ==
  /\ Serialized /\ ~Faults /\ ~Crashes
  /\ \A c, d \in Containers : PodOf[c] = PodOf[d] => c = d
  /\ \A r \in Requests : ValidRequest(r) =>
       /\ ~r.only_runtime
       /\ \A q \in Requests :
            ValidRequest(q) /\ q.container_id = r.container_id => q.core = r.core

\* The container and its pod both hold what the request asked for.
Applied(r) ==
  \A g \in {r.container_id, PodOf[r.container_id]} :
    /\ \A s \in RuntimeSlots(r) : runtime[g][s] = RuntimeValue(r)
    /\ ~r.only_runtime => period[g] = r.period
    /\ ~r.only_runtime /\ r.core # {} => cpuset[g] = r.core

\* A handler that answers 200 leaves every limit of the request in force in
\* both cgroups, whatever failed requests left behind before it.
SuccessMeansApplied ==
  [][\A h \in Handlers, r \in Requests :
       pc[h] = "write" /\ req[h] = r /\ reply'[h] = "200" => Applied(r)']_vars

\* Whatever becomes of the other requests, one that crictl has answered for is
\* answered: no handler waits for another, not even for one that crictl keeps.
Answered == \A h \in Handlers : Ready(h) ~> ~Busy(h)

\* The controller asks for r, again and again, and for nothing else.
Retried(r) ==
  /\ <>[](\A h \in Handlers : Ready(h) => req[h] = r)
  /\ []<>(\E h \in Handlers : Ready(h))

\* Once requests stop failing, retrying one request brings the container and
\* its pod to it for good, out of whatever half-applied state earlier failures
\* left, and even while crictl keeps another request for ever.
RetryConverges ==
  \A r \in {q \in Requests : ValidRequest(q) /\ Preflight(q)} :
    Retried(r) /\ <>[][~Crash /\ \A h \in Handlers : ~Fail(h)]_vars
      => <>[]Applied(r)
-----------------------------------------------------------------------------
(***************************************************************************)
(* The handler implements NestedLimits: the limits are the runtimes, and a *)
(* request in flight wants its runtime in its slots.                       *)
(***************************************************************************)

Want(r) ==
  [child |-> r.container_id, slots |-> RuntimeSlots(r), value |-> RuntimeValue(r)]

Limits == INSTANCE NestedLimits WITH
  Parents  <- Pods,
  Children <- Containers,
  ParentOf <- PodOf,
  Clients  <- Handlers,
  Wants    <- {Want(r) : r \in {q \in Requests : ValidRequest(q)}},
  Nothing  <- NoRequest,
  limit    <- runtime,
  want     <- [h \in Handlers |-> IF Busy(h) THEN Want(req[h]) ELSE NoRequest],
  answer   <- reply

\* Whatever the interleaving, the failures and the restarts, the handler does
\* nothing to the runtimes and answers nothing that NestedLimits does not allow.
ImplementsNestedLimits == Limits!Spec
=============================================================================
