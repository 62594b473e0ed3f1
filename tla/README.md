# TLA+ models of the MC-Kube node agents

The repository holds the three agents that MC-Kube runs on every node of a
mixed-criticality Kubernetes cluster. This directory holds TLA+ models of them,
the TLC configurations that check the models on small instances, and proofs of
some of their properties, checked by TLAPS for all instances.

- [The system](#the-system)
- [Modules](#modules)
- [node-actuator](#node-actuator), [cpu_util_sender](#cpu_util_sender), [ebpf](#ebpf): for
  each its model, its runs and its counterexamples
- [Bounds](#bounds), [Fairness](#fairness), [Proofs](#proofs)
- [Not modelled](#not-modelled), [What is left](#what-is-left)

Paths are relative to the repository's root.

## The system

A controller, which is not in this repository, decides which container may use
how much real-time CPU. On each node

1. **cpu_util_sender** measures the CPU and annotates the Node object when the
   CPU is above 90%; the controller reads the annotations,
2. the **ebpf** agent sees a container exhaust its real-time budget, in the
   kernel, and POSTs that to the controller,
3. the controller POSTs new limits to **node-actuator**, which writes them into
   the cgroup files of the container and of its pod.

The agents share no memory and do not call each other; each is one process, and
what they have in common is the controller. They are therefore modelled apart.

| Component | State | Operations | Hard behaviours |
|---|---|---|---|
| node-actuator `/cgroup` (`node-actuator/main.go`) | None of its own: the cgroup files `cpu.rt_period_us`, `cpu.rt_runtime_us`, `cpu.rt_multi_runtime_us`, `cpuset.cpus` of containers and pods | check a request, inspect the container, preflight, read the pod's limits, write four files of two cgroups in an order derived from what was read | handlers run concurrently and without a lock; a plan made from values that others change; half of the writes done when one fails or the process dies; "unlimited", ranges of cores |
| node-actuator `/renice` | None: the nice values are the kernel's | find the process of a container with crictl and jq, run renice on it | the container exits between the two; its process id is another's |
| node-actuator authentication, health | None | compare a header; answer a constant | none |
| cpu_util_sender loop (`cpu_util_sender/main.go`) | seconds above 90%, last usage annotated, two time stamps, a flag; the ticker; the Node's annotations | sample, decide, POST to its own HTTP API, which runs kubectl | a POST that fails after it took effect; a kubectl that outlives the POST; lost ticks; restarts that forget while the Node does not |
| cpu_util_sender HTTP API | None | annotate the Node with what the body says | the same; other clients than the loop |
| ebpf probe (`ebpf/hcbs_overrun.bpf.c`) | a map from server to "had a budget", a ring buffer | called whenever the kernel updates a deadline server | a bounded map and a bounded buffer; entries that outlive their server |
| ebpf agent (`ebpf/main.go`) | path cache, counts, the event handled | read an event, find the container, count, POST; on a signal write the counts to a file | a cgroup newer than the cache; counts copied while they change; a slow or failing controller |
| ebpf monitor (`ebpf/ebpf-co-re.c` on `ebpf/hcbs_overrun.skel.h`) | "stop", the attached probe, the ring buffer | open, load, attach, poll and print, destroy | attached to servers that are older; every call may fail; a signal that interrupts nothing |
| report (`ebpf/analyze_overrun.sh`) | counts and overruns by class | list the pods, look up each container of the statistics file, add up | pods that are gone or not ready by then |

What makes each of them correct:

- **node-actuator**: a container's limit is never above its pod's, whatever stops a
  request half way; a runtime is never longer than its period; 200 means that
  the limits are in force; repeating a request repairs what it half did; `/renice`
  touches the process of the container and no other.
- **cpu_util_sender**: a busy node is announced; a node that is not busy any more is
  cleared, and no sooner than 5 seconds after; failures and restarts change none
  of this; the duration does not overstate.
- **ebpf**: every overrun is reported, once; what is in the buffer reaches the
  controller, or the screen, in order; the statistics are consistent, and so is the
  report on them; no probe is left behind in the kernel.

## Modules

| Module | Content |
|---|---|
| `NestedLimits` | abstract: limits of children and parents that a request moves one cgroup at a time, never apart |
| `NodeActuator` | `/cgroup` of node-actuator: `Spec`, `FairSpec`, properties, the conditions `OrderSafe` and `PeriodSafe`, the mapping to `NestedLimits` |
| `MCNodeActuator` | instances for TLC: sets of requests |
| `MCNodeActuatorOrdered`, `MCNodeActuatorPeriod` | the instances that meet `OrderSafe` and `PeriodSafe`, which TLC evaluates as assumptions |
| `NodeActuator_proofs` | theorems `TypeCorrect`, `Nested`, `BandwidthIsNested`, `WithinPeriod` |
| `NestedLimits_proofs` | theorems `SuccessIsTrue`, `Refinement` |
| `Renice` | `/renice` of node-actuator over processes that start and exit |
| `MCRenice`, `Renice_proofs` | its instance; theorems `ReniceTypeCorrect`, `HitsNoBystander`, `SuccessIsReniced` |
| `CpuUtilSender` | loop, annotations and HTTP API of cpu_util_sender |
| `MCCpuUtilSender` | instances for TLC: samples of /proc/stat |
| `CpuUtilSender_proofs` | theorems `SenderTypeCorrect`, `NotReleasedEarly`, `NotForgotten`, `MarksInTime`, `NotOvercounted` |
| `OverrunLog` | abstract: what a reader of the probe's ring buffer passes on, in order, once, and without loss until it is full |
| `OverrunProbe` | the BPF program over a model of the kernel's deadline servers: `ProbeSpec` |
| `OverrunProbe_proofs` | lemmas about the probe, for both of its readers |
| `OverrunAgent` | extends `OverrunProbe` with the Go agent behind the ring buffer: `Spec`, `FairSpec`, the mapping to `OverrunLog` |
| `MCOverrunAgent`, `OverrunAgent_proofs` | its instances; theorems `AgentImplementsProbe`, `ReportsOnce`, `MissesNone`, `AgentTypeCorrect`, `TotalCovered`, `AgentImplementsLog` |
| `OverrunReport` | extends `OverrunAgent` with the script that reads its statistics file: `ReportSpec` |
| `MCOverrunReport`, `OverrunReport_proofs` | its instance; theorems `ClassifiesPods`, `AddsUp` |
| `OverrunMonitor` | extends `OverrunProbe` with the monitor in C, the other reader of the ring buffer: `Spec`, `FairSpec`, the mapping to `OverrunLog` |
| `MCOverrunMonitor`, `OverrunMonitor_proofs` | its instance; theorems `MonitorTypeCorrect`, `MissesNoneSinceAttach`, `PrintsInOrder`, `MonitorImplementsLog` |

An operator introduced by "Mutant of X" is not part of the model: it is X with a
plausible bug, and shows that a property notices it. `PROJECT.json` pairs every
property of every passing run with such a mutant. It also gives the lines every
definition models ("map").

To check a run or the proofs of a module:

    tlc -config NodeActuator_nested.cfg MCNodeActuatorOrdered.tla
    tlapm NodeActuator_proofs.tla

## node-actuator

### Model

State: `period`, `runtime` and `cpuset` are the files of every cgroup; the only
state that survives a restart. `runtime` is a function of slots: one slot for
`cpu.rt_runtime_us`, one per CPU for the fields of `cpu.rt_multi_runtime_us`. Per
handler (a goroutine that serves `/cgroup`): `pc`, `req`, what it has `seen` of the
pod's limits, the writes it has still `todo`, and its last `reply`.

| Action | Code |
|---|---|
| `RefuseRequest`, `HandleCgroup` | `handleCgroup`: 400, or the call of `applyCgroup` |
| `PassPreflight`, `FailPreflight` | crictl inspect and the checks at the start of `applyCgroup`; 500 if one fails |
| `ReadPodPeriod`, `ReadPodRuntime`, `FailRead` | `readRtValues` of the pod: two reads of two files |
| `ReadPodMulti`, `MisreadPodMulti` | `getCurrentMultiRuntime` of the pod; its read error is swallowed and counts as 0 |
| (`Plan`) | the three comparisons and the order of the writes: `applyCgroup`, `applyRuntimeWithOrder`, `writeRtValues` |
| `WriteRuntimeFile`, `WritePeriod`, `WriteCpuset` | one write each; after the last one 200 |
| `FailWrite` | the write fails, or the cgroup is gone: 500, nothing is rolled back |
| `Crash` | the process dies and the DaemonSet restarts it |

The decision and the last read are one step, since the decision is local. The
period and the CPU set are compared with the file before they are written; the
comparison and the write are one step because skipping a write of the value that
is already there leaves the file as writing it does. (With two unserialized
handlers another write might come in between. It is then as if the skipped write
had been done before it, which is an order the model has.) A "core" is the set
of CPUs it names, `{}` for the nil pointer; the empty, non-nil string, which
names no CPU, is left out. `PodOf`, the cgroup parent that
`crictl inspect` reports, does not change. Values are integers, without overflow:
the code parses 64-bit numbers of microseconds and only compares them.

`Serialized` and `PeriodAtRest` are assumptions about the controller (`Sent`): whether it
keeps to one request in flight per pod, and whether it moves a period only with a
request that takes the container's runtime away (`TakesAway`) and gives it a new one by
a later request. The code enforces neither, so runs exist with
and without them.

### Passing runs

- **actuator_nested** (`LimitsNested`, `BandwidthNested`, `SuccessMeansApplied`,
  `ImplementsNestedLimits`; 952,018 states). Two containers in two pods, two handlers,
  failures of every read and write, and restarts. For requests that meet `OrderSafe`
  (below) no container is ever above its pod; an answer 200 means that both cgroups
  hold what was asked for; and every behaviour is one of `NestedLimits`. Periods move
  between 4 and 6, and since they do so one cgroup at a time, container and pod
  have different ones meanwhile, or until the next request if one fails. At no
  moment is the bandwidth of the container, its runtime by its own period, above that of
  its pod, and no unlimited container is below a limited pod: the runtime is out of
  the container before a period moves. A `writeRtValues` that writes the period first
  (the mutant) breaks this.
- **actuator_within_period** (`TypeOK`, `RuntimeWithinPeriod`; 145,369 states). Normal
  requests move period and runtime of a container in every direction, including
  "disable", and a runtime is never above its period, also between two writes and
  when the pod's per-core limits are misread. Writes do not fail in this run: with
  `Faults` the property is lost. A raise that stops after the pod leaves the
  container with a shorter period, and a request between the two is then a
  decrease by the pod's limits, so that its runtime is written over the
  container's shorter period.
- **actuator_retry** (`RetryConverges`, `Answered`; 66,257 states). Two requests that
  disagree on everything, two handlers that are not serialized, failures,
  restarts, and a crictl that may hang. A handler that crictl has answered is
  done with its request some time, whatever becomes of the others. From whatever
  they leave, repeating one request ends with that request in force for good, once
  failures stop, and even if crictl keeps the other request for ever. The
  hypothesis is about the controller only, and the run's mutant (a handler that
  trusts the pod's limits and skips the container) shows that it can be met.
  Refusals by the kernel are failures here, and the hypothesis says that they
  stop: that a kernel would refuse the same write for ever is not in this model.
- **renice_exit** (`TypeOK`, `SuccessMeansReniced`, `NoBystander`; 8,673 states, up to the
  symmetry of handlers and ids). Two containers and other processes start and
  exit while two handlers run. As long as no id is given away again, renice
  reaches the container of the request or nobody; and an answer 200 means that the
  container, if it still runs, has the nice value that was asked for, or the end of the
  kernel's range if that was beyond it (`Clamped`): handleRenice takes any number,
  and the instance has one of each. If it has exited meanwhile, 200 is
  possible all the same: crictl reports the id 0 for it, and `renice -p 0` renices
  itself.

### The promise of /cgroup

`NestedLimits` is the endpoint as the controller sees it: a client asks for a limit
of a child, gets `400`, `500` or `200`, and the limits of a child and its parent move one
cgroup at a time, each time to a state in which every child is below its parent.
`200` is given only where what was wanted is in force in both. There are no files,
periods, reads or plans in it. `NodeActuator` maps its runtimes to the limits and
its busy handlers to the clients (`Limits`, at the end of the module). A
write of a period or a CPU set is a stutter, except the last write of a plan, which
is also the answer.

### Model of /renice

`Renice` has the processes of the node: the process of each id, its nice value, and
the ids and containers there have been. crictl with jq is one step (`Inspect`,
`InspectExited`, `FailInspect`) and renice another (`RunRenice`, `ReniceSelf`, `FailRenice`);
between them processes may start and stop. Requests in flight do not know of each
other. That containerd reports the id 0 for a container that has exited, and that
renice takes 0 to mean itself, is not in the repository: it is taken from
those programs. The renice is that of util-linux, as on the host on which
`node-actuator/install-daemon.sh` installs the agent; it sets the number it is given, and
the kernel takes one below -20 or above 19 for the nearest of the two without
an error. (The renice of busybox, in the image of `node-actuator.yaml`, adds the number
to the nice value instead; its pod has no hostPID, so that the process ids
crictl reports are not those it sees.) Numbers of more than 32 bits are taken to
be clamped like the others.

### Counterexamples

README.md of node-actuator says (lines 37-42) that the agent applies the values in
an order that avoids "temporarily exceeding parent limits". `OrderSafe` names what
this needs. TLC finds what happens without most of its conjuncts:

- **actuator_mixed_direction**: from period 4 and runtime 1 to period 3 and runtime 2.
  One flag orders all writes; the period decreases, so that the container goes
  first, and its runtime is above the pod's.

Further configurations find more, and can be run by hand:

- `NodeActuator_disable.cfg`: runtime -1 in normal mode. It counts as unlimited in the
  comparison, hence as an increase, pod first; but `writeRtValues` writes it as 0. The
  container's runtime is above the pod's.
- `NodeActuator_two_requests.cfg`: a raise and a tightening of one limit in flight
  together. Each orders its writes by what it read before the other wrote.
- `NodeActuator_core_range.cfg`: the current runtime of a range of cores reads as 0
  (`strconv.Atoi` fails), so that tightening it goes pod first.
- `NodeActuator_shared_pod.cfg`: the pod is given the limit of the container a request
  names, below that of another container of the same pod.
- `NodeActuator_raise_bandwidth.cfg` (`BandwidthNested`): when period and runtime rise
  together, the pod has the longer period before the larger runtime; its
  bandwidth is below the container's in between. A kernel that compares
  bandwidths, as the README's "parent/child budget inconsistency" suggests, may
  refuse the next write.
- `NodeActuator_escalation_period.cfg` (`RuntimeWithinPeriod`): in escalation mode the
  runtime is validated against the period in the request, which is not written;
  the period in force may be shorter.

- `Renice_reuse.cfg` (`NoBystander`): the kernel gives the id of a container that exited
  to another process before renice runs.

With a single container per pod and one request at a time the mixed directions and
"disable" remain: they are ordinary requests.

## cpu_util_sender

### Model

Time passes in steps of one second (`Second`). The loop is in its first sleep
(`"boot"`), waiting for the ticker (`"wait"`), or in `annotateViaHTTP` (`"post"`). The
variables of the loop have the names they have in the code; its two time stamps
are ages, counted up to 6 seconds, since the code compares them with 5 only. At
an age of exactly 5 seconds the comparison may go either way: the clock is read a
little after the tick. `sinceBusy` and `hotFor` are history variables.

| Action | Code |
|---|---|
| `StartLoop` | the start of `main`, up to the ticker |
| `AnnounceBusy`, `StayBusy` | a sample above 90% (lines 338-349) |
| `AnnounceDrop` | the first sample not above 90% after one that was annotated (line 352) |
| `AnnounceIdle`, `StayIdle` | not above 90% for 5 seconds since then (line 361), or not yet |
| `ReadError` | `/proc/stat` cannot be read: the iteration is skipped |
| `Annotate` | the handler's kubectl annotates the Node |
| `PostOK`, `PostError` | the POST succeeds; it fails, before or after kubectl did its work |
| `PostTimeout`, `LateKubectl` | the client gives up after 3 seconds, and the kubectl that goes on annotates the Node later, or not |
| `OtherPatch` | another client PATCHes the Node's annotations through the API; the loop, which compares with what it sent last, does not notice |
| `Crash` | a restart; the annotations stay |

The ticker keeps one tick while the loop is in `"post"`; the tick taken late is
followed by another within the same second, whose sample may be empty (`short`).
`computeUsage` works on differences modulo `Word`, so that the wrap-around of an idle
counter that goes back is modelled. Its rounding is exact to the nearest integer;
the code computes in floating point.

### Passing runs

- **sender_release** (`TypeOK`, `NoEarlyRelease`, `DurationNotOvercounted`, `BusyAnnounced`; 392,199
  states). All failures, restarts, a kubectl that arrives late, other clients that
  mark the Node busy or idle, and samples of exactly 90%, of 95%, of 100% and with
  an idle counter that goes back. isCpuBusy = "false" is not sent within 5 seconds of a
  sample above 90%; the duration never counts more seconds than have passed; and
  a CPU that stays above 90% ends up marked busy for good.
- **sender_reliable** (`BusyRemembered`, `MarkCurrent`, `BusyCleared`; 2,426 states). While
  nothing fails and nobody else annotates, a Node that is marked busy is one that a
  branch of the loop will take back, and a CPU that stays cool ends up cleared.
  `MarkCurrent` says when: the iteration that measures more than 90% leaves the Node
  marked, although annotations are limited to one in 5 seconds while the usage
  stays the same, and no sample more than 5 seconds after an annotated drop leaves
  the mark.

`DurationNotOvercounted` and `BusyAnnounced` are there because the ticker can deliver a
late tick, and because a late kubectl may overwrite newer annotations: it takes
the re-announcement every 5 seconds to repair that, and the mutant of
`BusyAnnounced` is a loop without it.

### Counterexamples

- **sender_failed_post**: `BusyCleared` with failures. A POST that failed after kubectl
  had done its work is not remembered in `lastAnnUsage`; once the spike is over
  neither line 352 nor line 361 applies, and the Node stays busy on a cool CPU.
- `CpuUtilSender_restart.cfg`: a restart forgets the same way.
- `CpuUtilSender_slow_post.cfg` (`DurationIsSeconds`): every tick counts one second, but
  ticks that pass during a slow POST are lost. The README (line 16) calls the
  annotation "Seconds the node has continuously exceeded 90 %".
- `CpuUtilSender_steady.cfg` (`UsageAnnounced`): a CPU that is never above 90% is never
  annotated at all. The README (lines 5 and 90) describes a measured value on
  every node.

## ebpf

### Model

`OverrunProbe` has the kernel's deadline servers, external to the repository, as far as
the program looks at them: a `budget` ("positive", "spent", or "overrun", which is
-100 microseconds or less), `throttled`, and whether real-time tasks run. The kernel
calls the program at the entry of `update_curr_dl_se`, with the run queue locked, and
charges the server afterwards; call and charge are one step (`Charge`). A server
stands for its address: a new one at the same address finds the entry of its
predecessor, since nothing is ever removed from `se_state`. A server without
real-time tasks is not charged (`running` in `Charge`): an assumption on the kernel, on
which `NoneMissed` and its theorems rest. The program returns at line 74 when no
task runs; were a budget spent there, the program would neither report it nor
see the positive one before it.

The order of events is that of their places in the ring buffer, which is what a
reader gets (`Submit`). The time stamp is read after the place was reserved, with only
the run queue of that CPU locked: the stamps of two CPUs may be the other way
round, and no property is about them.

| Action | Code |
|---|---|
| `Ignore` | the returns of lines 50-75, and line 89 when the map is full |
| `Report` (`Submit`) | lines 95-106: an event, or none if the ring buffer is full; `was_pos = 0` either way |
| `Restore` | lines 107-110: the budget is positive again |
| `Watch` | neither; the server is entered into `se_state` |
| `Replenish`, `CreateServer`, `DestroyServer`, `SwitchTasks` | the kernel |

`OverrunAgent` adds `ebpf/main.go`. A cgroup stands for its inode, its path and, if it has
one, its container id.

| Action | Code |
|---|---|
| `Read`, `Lookup`, `Count`, `CountTotal` | the event loop (lines 350-389), with `Refresh` as part of `Lookup` |
| `PostOK`, `PostFail` | `postToController`: within 1.5 seconds, or not; no second attempt |
| `Signal`, `SaveCount`, `Exit`, `FailToSave` | the goroutine of the signal: total, counts one by one, file, `os.Exit` |
| `ExitTruncated` | the same with writes that fail: `Fprintf`'s errors are ignored, and rows are missing from the file |
| (`Detected`) | the map is written while it is iterated over: the Go runtime may end the process, with the total in the file and no rows |
| `CreateCgroup`, `RemoveCgroup` | the container runtime |

The counts are shared without a lock. A read may then return any value that was
written before it, in principle; the build is for x86, where stores and loads keep
their order, and the calls between the statements keep the compiler from moving
them, so that reading the current value at each step covers the outcomes. The one
outcome that is not a value, the runtime's "concurrent map iteration and map
write", is a transition of `Count`. `Removals`, `Faults` and `Signals` turn the respective
actions on. Once the process has ended, `saver` says what it left: a file that is
`"saved"` or `"truncated"`, or none (`"failed"`), and `savedCount` its rows. A row is there or
not: one that was cut within has no end of line, and the script's `read` drops it.
The error path of `binary.Read` (line 362) is left out: the structures have the
same size, so that it is never taken.

`OverrunReport` adds `ebpf/analyze_overrun.sh`, which somebody runs on what the agent
left when it ended: the script does not see whether the file is whole. `FetchPods` is the list of all pods, in the order in which jq goes
through their container statuses; `ReadLine` a line of the file with the lookup
(`pod_info`) and the tally; `Summarise` the totals. A container that waits to be started
has no `containerID`; `contains()` fails on it, and jq ends there: what it printed
before counts. Listings come from a set of four in the run.

`OverrunMonitor` is `ebpf/ebpf-co-re.c` over the same probe. It goes through `main` call by
call (`Open`, `Load`, `Attach`, `NewRingBuffer`, `CheckStop`, then `ring_buffer__poll` as
`HandleEvent`, `PollDone`, `PollTimeout` or `PollError`, and `Free` and `Destroy` at `out`), each
call with its failure. The servers exist before the probe is attached, in any
state, and go on after it is gone (`Unwatched`). `Signal` sets `stop` at any moment and
interrupts a poll that waits, or comes too early or too late for that.
Opening, attaching and destroying are the functions of `hcbs_overrun.skel.h`.

`OverrunLog` is what both readers have in common: overruns `waiting`, the oldest of which
goes on (`Tell`) or is given up (`Drop`), none lost before as many wait as the ring buffer
holds, and an end at which all that wait are lost (`Close`). In the agent the event in
the hand of the loop waits too; one of a cgroup that is gone or no container's, or
whose POST fails, is given up. In the monitor all that is printed goes on.

### Passing runs

- **overrun_safety** (`TypeOK`, `ReportedOnce`, `NoneMissed`, `SavedTotalCovered`, `ReportAddsUp`,
  `PodClassified`; 9,958,281 states). Probe, agent and report together. Two servers, one
  of them the system's, a map with one entry, a ring buffer of one event, two
  containers, everything may fail. An exhausted budget is reported once however
  often the kernel calls; it is reported by the next call unless it has been
  already, whatever the entry says of earlier times or of an earlier server; the
  counts in a statistics file add up to at least the total in it, although the
  event loop goes on while it is written; the report accounts for every row of
  the file, whatever became of the pods, and when its total is below the one at the
  top of the file, then the file was cut short or its creation failed, and TLC finds
  that this happens;
  and it finds the class of every container that is listed, while no listed
  container waits.
- **overrun_delivered** (`Delivered`, `ImplementsLog`; 273,504 states). Every behaviour is one
  of `OverrunLog`: the controller is told of overruns in their order and of none twice,
  and until the ring buffer is full each one waits for its turn. The event loop posts every
  event of a container that is in the ring buffer, although earlier posts time out
  and fail, and also when the container's cgroup is newer than the path cache;
  unless the container goes before it is looked up, or the agent ends.
- **monitor_stop** (`TypeOK`, `PrintedInOrder`, `NoneMissedSinceAttach`, `EventsPrinted`,
  `StopsOnSignal`, `ImplementsLog`; 22,344 states). Two servers in any state, failures of every call,
  signals at any moment. The monitor prints every event, once and in order, also
  of servers that had overrun before the probe came; a signal ends it wherever it
  falls; and by whichever way it ends, the kernel runs no probe and holds no map of
  it any more.

`NoneMissed` excepts a full map: the code gives up there (line 89), and so would any
promise. "Reported" includes an event lost to a full ring buffer: the program
marks the server even then.

### Counterexamples

- **report_waiting** (`PodAlwaysClassified`): a container that waits is listed before the
  one that is looked up. jq ends at it, its error goes to /dev/null, and the
  overruns of a pod that is there are added to UNKNOWN.

To be run by hand:

- `OverrunAgent_fifty_ms.cfg` (`NoneMissed`): line 95 takes every server with a
  `dl_runtime` of 50 ms to be one of the system; a container's with that very budget
  is never reported.
- `OverrunAgent_save_race.cfg` (`StatisticsSaved`): an event counted during `saveStats` may
  end the process when the file has its total and no rows yet.

## Bounds

| Bound | Where | Why it is enough |
|---|---|---|
| 1-2 pods and containers, 2 handlers | all of NodeActuator | a request concerns one container and its pod; `Nested` is proved for any number |
| periods 2, 4, 6; runtimes -1 to 6 | requests | the code compares only: below, equal, above, negative and 0 all occur |
| 1-2 CPUs | `CPUs` | one CPU and a range |
| 2 containers, 3 process ids, 2 handlers | Renice | a container, its successor and a bystander; the theorems take any number |
| `MaxDur` 1 or 2 | CpuUtilSender | the duration decides nothing; 2 lets an overcount show |
| `MaxAge` 6 | CpuUtilSender | ages are compared with 5 |
| `Word` 256 | CpuUtilSender | above every sample, as 2^64 is; the proofs take any |
| one late kubectl | `Kubectls` | it may come at any time; the proofs take any number |
| `MaxEvents` 2 or 3 | OverrunProbe | one more than the ring buffer holds; the proofs take any number. It also bounds how often a poll finds one more event, on which `StopsOnSignal` depends: the code returns from a poll only when the ring buffer is empty |
| four listings of two or three statuses | OverrunReport | each pod first or last, gone, or behind one that waits; the theorem takes any listing |
| `MapSize` 1, `RingSize` 1 or 2 | OverrunProbe | so that both are full; the proofs take any size |

Deadlock is checked except in the runs of `OverrunAgent` and `OverrunReport`: there the process
may have ended.

## Fairness

- NodeActuator: weak fairness of each handler's next step, whether it succeeds or
  fails, except while it waits for crictl and jq (`Ready`): they are run without a
  timeout, so that nothing is assumed of them. The Go scheduler runs every
  goroutine that is ready, and file operations end. No request and no crash is
  forced.
- CpuUtilSender: time passes; the loop takes its ticks; a POST ends, by its own
  timeout if need be; a kubectl ends, since the API server answers or refuses. No
  failure is forced to happen or to stop, other than by the hypotheses of a property
  (`Settles`).
- OverrunAgent: the event loop and the signal's goroutine run. The POST has a timeout
  of 1.5 seconds. Nothing is assumed of the kernel, the probe and the cgroups.
- OverrunMonitor: the calls of `main` return (`Call`), a poll after 200 ms at the latest.
  A poll that fails is not relied upon, and no signal is forced.
- Renice and OverrunReport have safety properties only.

## Proofs

6,101 obligations, all proved. Each theorem holds for every value of the constants
that satisfies the assumptions of its module (`ActuatorAssumption`, `SenderAssumption`,
`ProbeAssumption`, `AgentAssumption`, `ReportAssumption`, `MonitorAssumption`, `ReniceAssumption`) and
the hypotheses stated here.

- `TypeCorrect` (NodeActuator), `SenderTypeCorrect` (CpuUtilSender), `AgentTypeCorrect` (OverrunAgent),
  `MonitorTypeCorrect` (OverrunMonitor), `ReniceTypeCorrect` (Renice): `Spec => []TypeOK`. For the
  sender this includes that the usage is a percentage for any samples, with
  counters that wrap around. For the agent it includes that no count exceeds the
  number of overruns: `AgentInv` adds that received events, those in the ring buffer and
  the one in hand are no more than were emitted. For the monitor it includes that no
  probe and no map is left behind: `MonitorInv` follows what `main` has set up to which
  point.
- `Nested`: `OrderSafe` implies `Spec => []LimitsNested`. `LimitsNested` is not inductive: between
  the writes of the pod and of the container it depends on what comes next. The
  invariant `OrderInv` adds that requests in flight are for different pods
  (`Exclusive`), that per-core pods have no
  `cpu.rt_runtime_us` (`OneLimit`), and of every handler (`HandlerInv`) that what it has read is
  still so and that of the two writes of the runtime in its `todo` the first leaves
  the limits nested (`NestedWrites`). That plans are so when they are made is a lemma
  about `applyCgroup`; that a step of another handler leaves them so follows from
  `Exclusive`. Failures and restarts only drop writes.
- `BandwidthIsNested`: `OrderSafe` implies `Spec => []BandwidthNested`, for any periods. `RestInv`
  says that wherever the period of a container is not that of its pod the container
  has no runtime in any slot, and of every request under way that it leaves the
  period alone, or takes the runtime away and writes no period before the container's
  runtime is 0 (`RestFirst`). That plans are so is again a lemma about `applyCgroup`
  (`PlanRestsFirst`): a runtime of 0 is a decrease unless the container has none, by
  `OrderInv`. Where the periods are the same the bandwidths compare as the runtimes do,
  and elsewhere the container's is 0. `NestedInv` is `OrderInv` with `RestInv`. That a period
  moves at rest is needed: `NodeActuator_raise_bandwidth.cfg`.
- `WithinPeriod`: `PeriodSafe` implies `Spec => []RuntimeWithinPeriod`. `PeriodSafe` asks for one
  request per pod at a time that runs to its end, in normal mode, one container in
  a pod, and the same "core" for a container every time; the period may change,
  limits may be disabled and ranges of cores misread, which `OrderSafe` excludes.
  Between two writes the runtime and the period of a cgroup belong to different
  requests. `PeriodInv` says of every handler that writes, and of both of its
  cgroups (`Fits`): if the runtime is written before the period it is within the period
  in force, if the period is written first it is no shorter than the one in
  force, and a file not to be written any more has what was asked for. Hence the
  two cgroups are alike whenever nobody writes them (`Alike`), which makes a
  decision by the pod's limits right for the container's: that fails with
  `Faults`, as described above. `Decision` proves that the flag of `applyCgroup`
  gives an order that fits in each of its cases.
- `SuccessIsTrue`: if requests of a pod are serialized, `Spec => SuccessMeansApplied`, whatever
  fails. `AppliedInv` says that a handler owes every file of its request, or it is as
  asked for (`DoneOrDue`).
- `Refinement`: `OrderSafe` implies that `NodeActuator` implements `NestedLimits`, from `NestedInv` and
  `AppliedInv`: every action is a step of `NestedLimits`, or a stutter.
- `HitsNoBystander`: without reuse of ids, `Spec => NoBystander`: an id in hand is that of the
  container or of nobody. `SuccessIsReniced`: `Spec => SuccessMeansReniced`, also with reuse, and
  whatever integers are asked for: `ReniceAssumption` sets no range.
- `NotReleasedEarly`: `Spec => []NoEarlyRelease`, with all failures. `ReleaseInv` adds
  `waitingForBusyFalse => dropAge <= sinceBusy`: while the loop waits, the drop is no
  longer ago than the last sample above 90%.
- `NotForgotten`: without failures, crashes and other clients, `Spec => []BusyRemembered`. `RememberInv` adds that
  no kubectl outlives its POST and that an applied patch is the annotation.
- `MarksInTime`: under the same conditions, `Spec => []MarkCurrent`. `MarkInv` adds what the patch
  under way says of the sample, and that a usage above 90% that was annotated last is
  still marked; so a sample that is not due for annotation finds its mark there.
- `NotOvercounted`: `Spec => []DurationNotOvercounted`. `DurationInv` adds that with a tick
  waiting the duration is at most the seconds passed: a sample takes a tick.
- `AgentImplementsProbe`: `Spec => ProbeSpec`. What the event loop, the signal and the cgroups
  do is a step of the probe's environment, or none.
- `ReportsOnce`, and `MissesNone` under `FiftyMs \subseteq SystemServers`. The invariant `ReportInv` relates what
  was told to the entry of the map: a server that was reported is still overrun and
  marked, and a marked server that is without budget was reported.
- `MissesNoneSinceAttach`, under the same condition: an empty map satisfies `ReportInv` in any
  state of the servers. `PrintsInOrder`: what was printed is older than what is in the
  ring buffer, which is in order (`OrderInv`).
- `AgentImplementsLog`, `MonitorImplementsLog`: `Spec => ImplementsLog`, for both readers. The lemmas on the
  ring buffer (`SubmitTimes`, `TakeTimes`, `RingTimesCount`) are the probe's: it is in the order
  of the overruns, the reader takes the oldest, and it holds as many events as it
  holds times. `AgentOrder` adds that the event in the hand of the loop is older than all
  in the ring buffer, `OrderInv` that what was printed is.
- `TotalCovered`: `Spec => []SavedTotalCovered`. The file is written while the event loop counts.
  `SaveInv` compares the total with the sum that the file would have if the counts
  that are not copied yet stayed as they are (`Merged`): it only grows, and with the
  count that the total does not know yet (`Ahead`) it is never below the total.
- `AddsUp`: `ReportSpec => []ReportAddsUp`, for files that are whole, cut short or missing.
  `TallyInv` says that what the classes hold and what the lines not read yet hold are
  together what the rows of the file hold, in containers and in overruns. For a file
  that is whole `SaveInv` relates that to the total at its top.
- The sums of both are folds over finite sets, which need an induction. It is done
  without an induction theorem: were the sum of some finite set not what it should
  be, then there would be a smallest such set (`SmallestSubset`, from the well-foundedness
  of strict inclusion), and the fold of that one takes out a single element (`SumRecursion`).
- `ClassifiesPods`: if no container is listed twice, `ReportSpec => []PodClassified`. `ClassInv`
  says that a class that was given is what `pod_info` finds.

`AgentAssumption` says that there are finitely many containers, as on any node: the
sums are defined for finite sets only.

Every invariant and every action property that a run checks is the subject of one of
these theorems, and so are the refinements. Checked by TLC only: everything that is
liveness (`RetryConverges`, `Answered`, `BusyCleared`, `BusyAnnounced`, `Delivered`, `EventsPrinted`,
`StopsOnSignal`), which is out of the prover's reach. `MarksInTime` is the part of `BusyAnnounced`
and of `BusyCleared` that is not: what must have happened by the next tick.

## Not modelled

- `ebpf/vmlinux.h` (159,027 lines) declares the kernel's types, generated from its BTF;
  there is nothing in it that runs. Of `ebpf/hcbs_overrun.skel.h` (40,033 lines) all
  but the first 180 is the compiled probe as a string of bytes. The functions that
  the monitor calls are modelled with it, and the probe's source as `OverrunProbe`. These
  two files are most of the repository's lines, and the other components are
  small beside them.
- Authentication, health, routing: no state.
- The fields of an event that nobody uses, the averages and the layout of reports and
  logs, and how the agent finds the cgroup2 mount and loads the probe.
- The empty "core" string; requests whose container has gone are `FailPreflight` or
  `FailWrite`.
- `cpu_util_sender/legacy` does not compile (`annotateViaHTTP` is declared twice).
  `node-actuator/main_test.go` does not either: its mocks have an earlier signature.
- Manifests, images, scripts that install them: configuration.
- The kernel's own check of the limits a cgroup is given: a refused write is
  `FailWrite`, at any time. What the kernel accepts is not in this repository.
- Which task runs when the probe is called: the event's cgroup is any that exists. The
  code takes that of the running task for that of the server; whether this is the
  same is up to the kernel.
- That the map of servers is never emptied: the model reaches a full map, and the code
  keeps no promise then (`NoneMissed` excepts it).

## What is left

Every component that changes state has a module. What could still be added:

1. What an answer 200 is worth when requests of a pod are not serialized:
   `SuccessMeansApplied` is then too strong, and the strongest guarantee that holds has
   no statement yet.
2. `RuntimeWithinPeriod` for requests that change the kind of limit of a container. The
   slots of the earlier kind keep their runtime while the period shrinks; what the
   kernel makes of that would have to be modelled first.
