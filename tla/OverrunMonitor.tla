--------------------------- MODULE OverrunMonitor ---------------------------
(***************************************************************************)
(* The monitor (ebpf/ebpf-co-re.c): it opens, loads and attaches the probe *)
(* through the skeleton that bpftool generated (hcbs_overrun.skel.h),      *)
(* prints every event of the ring buffer, and takes the probe down again   *)
(* when SIGINT or SIGTERM has set "stop" or a call has failed.             *)
(*                                                                         *)
(* The deadline servers are older than the monitor: they are charged and   *)
(* throttled before the probe is attached, and after it is gone.           *)
(***************************************************************************)
EXTENDS OverrunProbe

CONSTANTS
  Faults,      \* may the calls of libbpf fail?
  Signals      \* may the process be told to end?

ASSUME MonitorAssumption == {Faults, Signals} \subseteq BOOLEAN

VARIABLES
  pc,        \* main: the call it is about to make; "check" is while (!stop),
             \* "wait" and "drain" are inside ring_buffer__poll
  stop,      \* set by on_sigint
  attached,  \* does the kernel run the probe?
  rb,        \* is there a ring_buffer?
  printed,   \* the times of the printed events
  exit       \* the exit status of main, -1 before

main == <<pc, rb, exit>>
vars == <<budget, throttled, running, was_pos, ring, emitted, told,
          pc, stop, attached, rb, printed, exit>>

\* main has installed on_sigint; the servers are in any state they can be in.
Init ==
  /\ budget  \in [Servers -> {"gone", "positive", "spent", "overrun"}]
  /\ throttled = [s \in Servers |-> budget[s] \in {"spent", "overrun"}]
  /\ running = [s \in Servers |-> FALSE]
  /\ was_pos = [s \in Servers |-> "none"]
  /\ ring    = <<>>
  /\ emitted = 0
  /\ told    = [s \in Servers |-> "no"]
  /\ pc = "open" /\ stop = FALSE
  /\ attached = FALSE /\ rb = FALSE
  /\ printed = <<>> /\ exit = -1

-----------------------------------------------------------------------------
(***************************************************************************)
(* The kernel, with the probe or without.                                  *)
(***************************************************************************)

\* update_curr_dl_se without the probe.
Unwatched(s) ==
  /\ budget[s] # "gone"
  /\ Charge(s)
  /\ UNCHANGED <<was_pos, ring, emitted, told>>

Servicing ==
  /\ \E s \in Servers :
       \/ Kernel(s)
       \/ attached /\ on_update_curr_dl_se(s)
       \/ ~attached /\ Unwatched(s)
  /\ UNCHANGED <<main, stop, attached, printed>>

-----------------------------------------------------------------------------
(***************************************************************************)
(* main.                                                                   *)
(***************************************************************************)

\* The next call of main; the kernel's state and what was printed stay.
Goto(next) ==
  /\ pc' = next
  /\ UNCHANGED <<probeVars, stop, printed>>

\* hcbs_overrun_bpf__open; nothing is to be released if it fails.
Open ==
  /\ pc = "open"
  /\ \/ Goto("load") /\ UNCHANGED exit
     \/ Faults /\ Goto("ended") /\ exit' = 1
  /\ UNCHANGED <<attached, rb>>

\* hcbs_overrun_bpf__load
Load ==
  /\ pc = "load"
  /\ Goto("attach") \/ (Faults /\ Goto("free"))
  /\ UNCHANGED <<attached, rb, exit>>

\* hcbs_overrun_bpf__attach: the kernel calls the probe from now on.
Attach ==
  /\ pc = "attach"
  /\ \/ Goto("new") /\ attached' = TRUE
     \/ Faults /\ Goto("free") /\ UNCHANGED attached
  /\ UNCHANGED <<rb, exit>>

\* ring_buffer__new
NewRingBuffer ==
  /\ pc = "new"
  /\ \/ Goto("check") /\ rb' = TRUE
     \/ Faults /\ Goto("free") /\ UNCHANGED rb
  /\ UNCHANGED <<attached, exit>>

\* while (!stop), and the call of ring_buffer__poll.
CheckStop ==
  /\ pc = "check"
  /\ Goto(IF stop THEN "free" ELSE "wait")
  /\ UNCHANGED <<attached, rb, exit>>

\* Mutant of HandleEvent: the event is not taken out of the ring buffer.
HandleEventAgain ==
  /\ pc \in {"wait", "drain"} /\ ring # <<>>
  /\ emitted < MaxEvents
  /\ printed' = Append(printed, Head(ring).ts)
  /\ pc' = "drain"
  /\ UNCHANGED <<probeVars, stop, attached, rb, exit>>

\* Mutant of HandleEvent: only the latest event is printed.
HandleLatest ==
  /\ pc \in {"wait", "drain"} /\ ring # <<>>
  /\ printed' = Append(printed, ring[Len(ring)].ts)
  /\ ring' = <<>>
  /\ pc' = "drain"
  /\ UNCHANGED <<servers, was_pos, emitted, told, stop, attached, rb, exit>>

\* handle_event, for one event after the other as long as there is one.
HandleEvent ==
  /\ pc \in {"wait", "drain"}
  /\ TakeEvent
  /\ printed' = Append(printed, Head(ring).ts)
  /\ pc' = "drain"
  /\ UNCHANGED <<stop, attached, rb, exit>>

\* ring_buffer__poll returns the number of events it has handled.
PollDone ==
  /\ pc = "drain" /\ ring = <<>>
  /\ Goto("check")
  /\ UNCHANGED <<attached, rb, exit>>

\* Mutant of PollTimeout: ring_buffer__poll(rb, -1).
PollForEver ==
  /\ pc = "wait" /\ ring = <<>>
  /\ UNCHANGED vars

\* 200 ms without an event: it returns 0.
PollTimeout ==
  /\ pc = "wait" /\ ring = <<>>
  /\ Goto("check")
  /\ UNCHANGED <<attached, rb, exit>>

\* ring_buffer__poll fails.
PollError ==
  /\ Faults
  /\ pc = "wait"
  /\ Goto("free")
  /\ UNCHANGED <<attached, rb, exit>>

\* on_sigint.  A poll that is waiting returns -EINTR, unless it was about to
\* return; a signal between the check of "stop" and the poll interrupts nothing.
Signal ==
  /\ Signals
  /\ pc # "ended"
  /\ stop' = TRUE
  /\ \/ UNCHANGED pc
     \/ pc = "wait" /\ pc' = "free"
  /\ UNCHANGED <<probeVars, attached, rb, printed, exit>>

\* out: ring_buffer__free, of what ring_buffer__new returned or of NULL.
Free ==
  /\ pc = "free"
  /\ Goto("destroy")
  /\ rb' = FALSE
  /\ UNCHANGED <<attached, exit>>

\* Mutant of Destroy: only the object is freed.
DestroyObject ==
  /\ pc = "destroy"
  /\ pc' = "ended" /\ exit' = 0
  /\ UNCHANGED <<probeVars, stop, attached, rb, printed>>

\* hcbs_overrun_bpf__destroy detaches the probe; its maps go with it.
Destroy ==
  /\ pc = "destroy"
  /\ pc' = "ended" /\ exit' = 0
  /\ attached' = FALSE
  /\ was_pos' = [s \in Servers |-> "none"]
  /\ ring' = <<>>
  /\ UNCHANGED <<servers, emitted, told, stop, rb, printed>>

-----------------------------------------------------------------------------

\* Every call of main, with its outcomes, but for a poll that fails.
Call ==
  \/ Open
  \/ Load
  \/ Attach
  \/ NewRingBuffer
  \/ CheckStop
  \/ HandleEvent
  \/ PollDone
  \/ PollTimeout
  \/ Free
  \/ Destroy

Main == Call \/ PollError

Next == Servicing \/ Main \/ Signal

Spec == Init /\ [][Next]_vars

\* The process is scheduled, and a poll ends: with events, or after 200 ms.  It
\* is not relied upon to fail.
FairSpec == Spec /\ WF_vars(Call)

-----------------------------------------------------------------------------
(***************************************************************************)
(* Properties.                                                             *)
(***************************************************************************)

\* Every variable has its type, the ring buffer is only read while the probe is
\* attached, and when main has returned, by whichever of its ways, the kernel
\* does not run the probe any more and holds none of its maps.
TypeOK ==
  /\ ProbeTypeOK
  /\ pc \in {"open", "load", "attach", "new", "check", "wait", "drain", "free",
            "destroy", "ended"}
  /\ {stop, attached, rb} \subseteq BOOLEAN
  /\ printed \in Seq(1 .. MaxEvents)
  /\ exit \in {-1, 0, 1}
  /\ rb => attached
  /\ pc \in {"check", "wait", "drain"} => rb
  /\ pc = "ended" => ~attached /\ ring = <<>>

\* Events are printed in the order of the overruns, and none twice, wherever the
\* polls and the signal fall (handle_event, and the reader's position in the ring).
PrintedInOrder ==
  \A i, j \in DOMAIN printed : i < j => printed[i] < printed[j]

\* The probe also notices an overrun that is older than itself: what it does not
\* know of a server when it is attached does not keep it from reporting.
NoneMissedSinceAttach == attached => NoneMissed

\* Every event in the ring buffer is printed, unless the monitor ends: a poll takes
\* all there are, also those that come while it prints.
EventsPrinted ==
  \A t \in 1 .. MaxEvents :
    (\E i \in DOMAIN ring : ring[i].ts = t)
      ~> (pc = "ended" \/ \E i \in DOMAIN printed : printed[i] = t)

\* A signal ends the monitor wherever it comes ("Ctrl+C to stop", line 74): a poll
\* it was too early to interrupt returns after 200 ms.
StopsOnSignal == stop ~> pc = "ended"

-----------------------------------------------------------------------------
(***************************************************************************)
(* The monitor implements OverrunLog too: an overrun waits in the ring     *)
(* buffer, and goes on to the terminal.                                    *)
(***************************************************************************)

Log == INSTANCE OverrunLog WITH
  Capacity <- RingSize,
  open     <- pc # "ended",
  now      <- emitted,
  waiting  <- RingTimes,
  logged   <- {printed[i] : i \in DOMAIN printed}

\* Between the calls of libbpf that set it up and take it down, and through all
\* polls, the monitor prints the overruns in their order and none twice, and loses
\* none before its ring buffer is full.
ImplementsLog == Log!Spec
=============================================================================
