---------------------------- MODULE OverrunProbe ----------------------------
(***************************************************************************)
(* The overrun probe (ebpf/hcbs_overrun.bpf.c): a BPF program that runs at *)
(* the entry of the kernel's update_curr_dl_se, for every deadline server, *)
(* and puts an event into a ring buffer when it meets a server that has    *)
(* overrun its budget.                                                     *)
(*                                                                         *)
(* The kernel holds the run queue's lock during the call, so the program   *)
(* and the call are one step.  At its entry the program sees the budget    *)
(* that the previous call left.  The map of servers is keyed by address    *)
(* and never emptied: a server created where another was inherits its      *)
(* entry.  A server stands for its address here.                           *)
(***************************************************************************)
EXTENDS Integers, Sequences, FiniteSets

CONSTANTS
  Servers,        \* addresses of deadline servers
  SystemServers,  \* those of the system itself
  FiftyMs,        \* those whose dl_runtime is 50 ms
  Cgroups,        \* cgroups of the tasks that may be running
  MapSize,        \* entries of se_state, 8192 in the code
  RingSize,       \* events the ring buffer holds, 16 MB in the code
  MaxEvents       \* bound: overruns the probe reports

ASSUME ProbeAssumption ==
  /\ SystemServers \subseteq Servers
  /\ FiftyMs \subseteq Servers
  /\ {MapSize, RingSize, MaxEvents} \subseteq Nat

VARIABLES
  budget,     \* of every server: "gone", "positive", "spent" or "overrun"
  throttled,  \* dl_throttled of every server
  running,    \* has the server RT tasks to run (rt_nr_running > 0)?
  was_pos,    \* se_state: "none", "yes" or "no"
  ring,       \* events: the server, the cgroup recorded and the time
  emitted,    \* history: overruns reported so far, which serves as the time
  told        \* history: what became of the report of the server's overrun

servers   == <<budget, throttled, running>>
probeVars == <<budget, throttled, running, was_pos, ring, emitted, told>>

Event == [server : Servers, cgid : Cgroups, ts : 1 .. MaxEvents]

ProbeInit ==
  /\ budget    = [s \in Servers |-> "gone"]
  /\ throttled = [s \in Servers |-> FALSE]
  /\ running   = [s \in Servers |-> FALSE]
  /\ was_pos   = [s \in Servers |-> "none"]
  /\ ring      = <<>>
  /\ emitted   = 0
  /\ told      = [s \in Servers |-> "no"]

-----------------------------------------------------------------------------
(***************************************************************************)
(* The kernel, as far as the program depends on it.                        *)
(***************************************************************************)

\* update_curr_dl_se charges a server whose tasks run; without budget left it
\* is throttled.  "overrun" is a budget of -100 microseconds or less.  That a
\* server without tasks is not charged is assumed of the kernel: the program
\* returns early then, and would miss what became of the budget meanwhile.
Charge(s) ==
  \E b \in {"positive", "spent", "overrun"} :
    /\ ~running[s] => b = budget[s]
    /\ budget[s] = "spent" => b # "positive"
    /\ budget[s] = "overrun" => b = "overrun"
    /\ budget'    = [budget EXCEPT ![s] = b]
    /\ throttled' = [throttled EXCEPT ![s] = @ \/ b # "positive"]
    /\ UNCHANGED running

\* The next period: a throttled server has a positive budget again.
Replenish(s) ==
  /\ throttled[s]
  /\ budget'    = [budget EXCEPT ![s] = "positive"]
  /\ throttled' = [throttled EXCEPT ![s] = FALSE]
  /\ told'      = [told EXCEPT ![s] = "no"]
  /\ UNCHANGED <<running, was_pos, ring, emitted>>

CreateServer(s) ==
  /\ budget[s] = "gone"
  /\ budget' = [budget EXCEPT ![s] = "positive"]
  /\ UNCHANGED <<throttled, running, was_pos, ring, emitted, told>>

DestroyServer(s) ==
  /\ budget[s] # "gone"
  /\ budget'    = [budget EXCEPT ![s] = "gone"]
  /\ throttled' = [throttled EXCEPT ![s] = FALSE]
  /\ running'   = [running EXCEPT ![s] = FALSE]
  /\ told'      = [told EXCEPT ![s] = "no"]
  /\ UNCHANGED <<was_pos, ring, emitted>>

\* An RT task of the server wakes up, or the last one goes to sleep.
SwitchTasks(s) ==
  /\ budget[s] # "gone"
  /\ running' = [running EXCEPT ![s] = ~@]
  /\ UNCHANGED <<budget, throttled, was_pos, ring, emitted, told>>

-----------------------------------------------------------------------------
(***************************************************************************)
(* The program: one action per way through it.                             *)
(***************************************************************************)

\* It goes on past the checks of the server.
Watched(s) == budget[s] # "gone" /\ running[s]

\* Mutant of Entry: a new entry says what the budget is at that moment.
EntryByBudget(s) ==
  IF was_pos[s] # "none" THEN was_pos[s]
  ELSE IF budget[s] = "positive" THEN "yes" ELSE "no"

\* The entry of s in se_state, once the program has looked it up.
Entry(s) == IF was_pos[s] = "none" THEN "yes" ELSE was_pos[s]

\* se_state has room for a server it does not know.
Room(s) ==
  was_pos[s] # "none" \/ Cardinality({t \in Servers : was_pos[t] # "none"}) < MapSize

\* The condition of a report.
Overrun(s) ==
  /\ Entry(s) = "yes"
  /\ budget[s] = "overrun" /\ throttled[s]
  /\ s \notin FiftyMs

Restored(s) == Entry(s) = "no" /\ budget[s] = "positive"

\* Nothing is done for a server without RT tasks, or without an entry.
Ignore(s) ==
  /\ budget[s] # "gone"
  /\ ~Watched(s) \/ ~Room(s)
  /\ Charge(s)
  /\ UNCHANGED <<was_pos, ring, emitted, told>>

\* Mutant of Submit: the event is filled in without a look at what
\* bpf_ringbuf_reserve returned.
SubmitUnchecked(s) ==
  /\ emitted < MaxEvents
  /\ emitted' = emitted + 1
  /\ told' = [told EXCEPT ![s] = "yes"]
  /\ \E g \in Cgroups :
       ring' = Append(ring, [server |-> s, cgid |-> g, ts |-> emitted'])

\* An event carries the cgroup of the task that is running, whichever it is.  A
\* full ring buffer takes none: the overrun is lost.  ts stands for the place that
\* bpf_ringbuf_reserve gave the event, not for the clock, which is read after it.
Submit(s) ==
  /\ emitted < MaxEvents
  /\ emitted' = emitted + 1
  /\ \/ /\ Len(ring) < RingSize
        /\ told' = [told EXCEPT ![s] = "yes"]
        /\ \E g \in Cgroups :
             ring' = Append(ring, [server |-> s, cgid |-> g, ts |-> emitted'])
     \/ /\ Len(ring) >= RingSize
        /\ told' = [told EXCEPT ![s] = "lost"]
        /\ UNCHANGED ring

\* Mutant of Report: the server is not marked as reported.
ReportAgain(s) ==
  /\ Watched(s) /\ Room(s) /\ Overrun(s)
  /\ Charge(s)
  /\ Submit(s)
  /\ was_pos' = [was_pos EXCEPT ![s] = "yes"]

\* The first call that finds the budget overrun submits an event, and marks the
\* server as reported, also when the event is lost.
Report(s) ==
  /\ Watched(s) /\ Room(s) /\ Overrun(s)
  /\ Charge(s)
  /\ Submit(s)
  /\ was_pos' = [was_pos EXCEPT ![s] = "no"]

\* Mutant of Restore: a throttled server is left as it is.
RestoreNever(s) ==
  /\ Watched(s) /\ Room(s) /\ Restored(s)
  /\ Charge(s)
  /\ UNCHANGED <<was_pos, ring, emitted, told>>

\* The budget was replenished: the next overrun is to be reported again.
Restore(s) ==
  /\ Watched(s) /\ Room(s) /\ Restored(s)
  /\ Charge(s)
  /\ was_pos' = [was_pos EXCEPT ![s] = "yes"]
  /\ UNCHANGED <<ring, emitted, told>>

\* Otherwise the server is entered into se_state, if it was not there.
Watch(s) ==
  /\ Watched(s) /\ Room(s) /\ ~Overrun(s) /\ ~Restored(s)
  /\ Charge(s)
  /\ was_pos' = [was_pos EXCEPT ![s] = Entry(s)]
  /\ UNCHANGED <<ring, emitted, told>>

on_update_curr_dl_se(s) == Ignore(s) \/ Report(s) \/ Restore(s) \/ Watch(s)

Kernel(s) ==
  Replenish(s) \/ CreateServer(s) \/ DestroyServer(s) \/ SwitchTasks(s)

\* The reader of the ring buffer.
TakeEvent ==
  /\ ring # <<>>
  /\ ring' = Tail(ring)
  /\ UNCHANGED <<servers, was_pos, emitted, told>>

ProbeNext ==
  \/ \E s \in Servers : on_update_curr_dl_se(s) \/ Kernel(s)
  \/ TakeEvent

\* The times of the overruns in the ring buffer.
RingTimes == {ring[i].ts : i \in DOMAIN ring}

ProbeSpec == ProbeInit /\ [][ProbeNext]_probeVars

-----------------------------------------------------------------------------
(***************************************************************************)
(* Properties.                                                             *)
(***************************************************************************)

\* Every variable has its type.
ProbeTypeOK ==
  /\ budget    \in [Servers -> {"gone", "positive", "spent", "overrun"}]
  /\ throttled \in [Servers -> BOOLEAN]
  /\ running   \in [Servers -> BOOLEAN]
  /\ was_pos   \in [Servers -> {"none", "yes", "no"}]
  /\ ring      \in Seq(Event) /\ Len(ring) <= RingSize
  /\ emitted   \in 0 .. MaxEvents
  /\ told      \in [Servers -> {"no", "yes", "lost"}]

\* A server is reported at most once for each time it exhausts its budget
\* ("first-hit per period", ebpf-co-re.c), however often the kernel updates it.
ReportedOnce ==
  [][\A s \in Servers : Report(s) => told[s] = "no"]_probeVars

\* No overrun goes unnoticed: as long as that of a server that is not of the
\* system has not been reported, the next update that finds RT tasks reports it,
\* whatever its se_state says of earlier overruns or of an earlier server at the
\* same address, unless se_state is full.
NoneMissed ==
  \A s \in Servers \ SystemServers :
    budget[s] = "overrun" /\ throttled[s] /\ told[s] = "no" /\ Room(s) => Overrun(s)
=============================================================================
