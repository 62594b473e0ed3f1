---------------------------- MODULE OverrunAgent ----------------------------
(***************************************************************************)
(* The overrun agent (ebpf/main.go) behind the probe: a loop takes the     *)
(* events from the ring buffer, looks up the container of the recorded     *)
(* cgroup, counts the overrun and POSTs it to the controller.  A goroutine *)
(* waits for SIGTERM, writes the counts to a file while the loop goes on,  *)
(* and exits the process.                                                  *)
(*                                                                         *)
(* A cgroup stands for its inode, its path and, if it is a container's,    *)
(* the container id in the path.                                           *)
(***************************************************************************)
EXTENDS OverrunProbe, FiniteSetsExt

CONSTANTS
  Containers,  \* the cgroups whose path names a container
  NoEvent,     \* no event is being handled
  Removals,    \* may cgroups be removed?
  Faults,      \* may a POST or the writing of the file fail?
  Signals      \* may the process be told to end?

ASSUME AgentAssumption ==
  /\ Containers \subseteq Cgroups /\ IsFiniteSet(Containers)
  /\ NoEvent \notin Event
  /\ {Removals, Faults, Signals} \subseteq BOOLEAN

VARIABLES
  exists,        \* the cgroups there are
  byIno,         \* the cgroups of the PathCache
  pc,            \* the event loop: "read", "lookup", "count", "total", "post", "ended"
  ev,            \* the event it handles
  overrunCount,  \* overruns of every container
  totalCnt,      \* overruns
  received,      \* the overruns the controller was told: container and time
  saver,         \* the signal's goroutine: "waiting", "saving"; and then its file:
                 \* "saved", "truncated" or, if it could not be created, "failed"
  savedTotal,    \* saveStats: the total it was called with
  savedCount     \* saveStats: the counts it has iterated over, -1 for none yet;
                 \* and then the rows of the file, -1 for none

loop      == <<pc, ev>>
counts    == <<overrunCount, totalCnt>>
stats     == <<saver, savedTotal, savedCount>>
agentVars == <<exists, byIno, pc, ev, overrunCount, totalCnt, received,
               saver, savedTotal, savedCount>>
vars      == <<budget, throttled, running, was_pos, ring, emitted, told,
               exists, byIno, pc, ev, overrunCount, totalCnt, received,
               saver, savedTotal, savedCount>>

\* main has walked the cgroups there were and attached the probe.
Init ==
  /\ ProbeInit
  /\ exists \in SUBSET Cgroups \ {{}}
  /\ byIno = exists
  /\ pc = "read" /\ ev = NoEvent
  /\ overrunCount = [c \in Containers |-> 0] /\ totalCnt = 0
  /\ received = {}
  /\ saver = "waiting" /\ savedTotal = 0
  /\ savedCount = [c \in Containers |-> -1]

-----------------------------------------------------------------------------
(***************************************************************************)
(* The kernel and the probe.                                               *)
(***************************************************************************)

CreateCgroup(g) ==
  /\ g \notin exists
  /\ exists' = exists \cup {g}
  /\ UNCHANGED <<probeVars, byIno, loop, counts, received, stats>>

\* A cgroup goes.  That its inode may come back is more than the kernel does.
RemoveCgroup(g) ==
  /\ Removals
  /\ g \in exists /\ Cardinality(exists) > 1
  /\ exists' = exists \ {g}
  /\ UNCHANGED <<probeVars, byIno, loop, counts, received, stats>>

\* The probe records the cgroup of a task that runs, which exists.
Probe ==
  /\ pc # "ended"
  /\ \E s \in Servers : on_update_curr_dl_se(s) \/ Kernel(s)
  /\ Len(ring') > Len(ring) => ring'[Len(ring')].cgid \in exists
  /\ UNCHANGED agentVars

-----------------------------------------------------------------------------
(***************************************************************************)
(* The event loop.                                                         *)
(***************************************************************************)

\* Mutant of Read: only the latest event is looked at.
ReadLatest ==
  /\ pc = "read" /\ ring # <<>>
  /\ ev' = ring[Len(ring)] /\ ring' = <<>>
  /\ pc' = "lookup"
  /\ UNCHANGED <<servers, was_pos, emitted, told>>
  /\ UNCHANGED <<exists, byIno, counts, received, stats>>

\* Mutant of Read: the latest event comes first.
ReadNewest ==
  /\ pc = "read" /\ ring # <<>>
  /\ ev' = ring[Len(ring)] /\ ring' = SubSeq(ring, 1, Len(ring) - 1)
  /\ pc' = "lookup"
  /\ UNCHANGED <<servers, was_pos, emitted, told>>
  /\ UNCHANGED <<exists, byIno, counts, received, stats>>

\* rb.Read returns the oldest event.  It can be decoded: its size is that of the Go
\* structure.
Read ==
  /\ pc = "read"
  /\ TakeEvent
  /\ ev' = Head(ring)
  /\ pc' = "lookup"
  /\ UNCHANGED <<exists, byIno, counts, received, stats>>

\* Lookup, after a Refresh if need be.  The cache only grows.  An event of a
\* cgroup that is gone, or that is no container's, is dropped.
Lookup ==
  LET cached == IF ev.cgid \in byIno THEN byIno ELSE byIno \cup exists
  IN  /\ pc = "lookup"
      /\ byIno' = cached
      /\ IF ev.cgid \in cached \cap Containers
           THEN pc' = "count" /\ UNCHANGED ev
           ELSE pc' = "read" /\ ev' = NoEvent
      /\ UNCHANGED <<probeVars, exists, counts, received, stats>>

\* A write to the map while saveStats iterates over it may be detected by the
\* Go runtime, which ends the process.  The total is in the file by then, no row is.
Detected ==
  /\ saver = "saving"
  /\ saver' = "truncated" /\ pc' = "ended"
  /\ savedCount' = [c \in Containers |-> -1]
  /\ UNCHANGED <<ev, savedTotal>>

\* overrunCount[cid]++
Count ==
  /\ pc = "count"
  /\ overrunCount' = [overrunCount EXCEPT ![ev.cgid] = @ + 1]
  /\ \/ pc' = "total" /\ UNCHANGED <<ev, stats>>
     \/ Detected
  /\ UNCHANGED <<probeVars, exists, byIno, totalCnt, received>>

\* totalCnt++
CountTotal ==
  /\ pc = "total"
  /\ totalCnt' = totalCnt + 1
  /\ pc' = "post"
  /\ UNCHANGED <<probeVars, exists, byIno, ev, overrunCount, received, stats>>

\* postToController: the controller has answered.
PostOK ==
  /\ pc = "post"
  /\ received' = received \cup {<<ev.cgid, ev.ts>>}
  /\ pc' = "read" /\ ev' = NoEvent
  /\ UNCHANGED <<probeVars, exists, byIno, counts, stats>>

\* It has not within 1.5 seconds, or the connection failed; the controller may
\* have been told all the same.  There is no second attempt.
PostFail ==
  /\ Faults
  /\ pc = "post"
  /\ received' \in {received, received \cup {<<ev.cgid, ev.ts>>}}
  /\ pc' = "read" /\ ev' = NoEvent
  /\ UNCHANGED <<probeVars, exists, byIno, counts, stats>>

-----------------------------------------------------------------------------
(***************************************************************************)
(* The goroutine of the signal.                                            *)
(***************************************************************************)

\* SIGINT or SIGTERM: saveStats is called with the total.  Nothing guards the
\* counts, but an x86 processor keeps the order of the stores and of the loads.
Signal ==
  /\ Signals
  /\ saver = "waiting"
  /\ saver' = "saving"
  /\ savedTotal' = totalCnt
  /\ UNCHANGED <<probeVars, exists, byIno, loop, counts, received, savedCount>>

\* It iterates over the map, in any order.
SaveCount(c) ==
  /\ saver = "saving"
  /\ savedCount[c] = -1
  /\ savedCount' = [savedCount EXCEPT ![c] = overrunCount[c]]
  /\ UNCHANGED <<probeVars, exists, byIno, loop, counts, received, saver, savedTotal>>

\* Mutant of Exit: the total is taken after the counts.
ExitTotalLast ==
  /\ saver = "saving"
  /\ \A c \in Containers : savedCount[c] >= 0
  /\ saver' = "saved" /\ savedTotal' = totalCnt
  /\ pc' = "ended"
  /\ UNCHANGED <<probeVars, exists, byIno, ev, counts, received, savedCount>>

\* The file is written and the process ends.
Exit ==
  /\ saver = "saving"
  /\ \A c \in Containers : savedCount[c] >= 0
  /\ saver' = "saved"
  /\ pc' = "ended"
  /\ UNCHANGED <<probeVars, exists, byIno, ev, counts, received, savedTotal, savedCount>>

\* The disk is full, say.  Nobody looks at the errors of the writes: of the rows
\* that saveStats has, any may be missing from the file.
ExitTruncated ==
  /\ Faults
  /\ saver = "saving"
  /\ \A c \in Containers : savedCount[c] >= 0
  /\ saver' = "truncated"
  /\ \E rows \in SUBSET Containers :
       savedCount' = [c \in Containers |-> IF c \in rows THEN savedCount[c] ELSE -1]
  /\ pc' = "ended"
  /\ UNCHANGED <<probeVars, exists, byIno, ev, counts, received, savedTotal>>

\* The file cannot be created: the process ends without it.
FailToSave ==
  /\ Faults
  /\ saver = "saving"
  /\ \A c \in Containers : savedCount[c] = -1
  /\ saver' = "failed"
  /\ pc' = "ended"
  /\ UNCHANGED <<probeVars, exists, byIno, ev, counts, received, savedTotal, savedCount>>

-----------------------------------------------------------------------------

EventLoop == Read \/ Lookup \/ Count \/ CountTotal \/ PostOK \/ PostFail

SaveStats == Exit \/ ExitTruncated \/ FailToSave \/ \E c \in Containers : SaveCount(c)

Next ==
  \/ Probe
  \/ \E g \in Cgroups : CreateCgroup(g) \/ RemoveCgroup(g)
  \/ EventLoop
  \/ Signal
  \/ SaveStats

Spec == Init /\ [][Next]_vars

\* The Go scheduler runs both goroutines, and a POST ends.
Fairness == WF_vars(EventLoop) /\ WF_vars(SaveStats)

FairSpec == Spec /\ Fairness

-----------------------------------------------------------------------------
(***************************************************************************)
(* Properties.                                                             *)
(***************************************************************************)

\* Every variable has its type: the ring buffer holds no more than it can, and
\* only an event that was read is looked up.
TypeOK ==
  /\ ProbeTypeOK
  /\ exists \subseteq Cgroups /\ byIno \subseteq Cgroups
  /\ pc \in {"read", "lookup", "count", "total", "post", "ended"}
  /\ ev \in Event \cup {NoEvent}
  /\ pc \in {"lookup", "count", "total", "post"} => ev # NoEvent
  /\ overrunCount \in [Containers -> 0 .. MaxEvents]
  /\ totalCnt \in 0 .. MaxEvents
  /\ received \subseteq Containers \X (1 .. MaxEvents)
  /\ saver \in {"waiting", "saving", "saved", "truncated", "failed"}
  /\ savedTotal \in 0 .. MaxEvents
  /\ savedCount \in [Containers -> -1 .. MaxEvents]

\* The overruns of all containers.
Total(count) == MapThenSumSet(LAMBDA c : count[c], Containers)

\* A statistics file that was written whole accounts for its total: the counts it
\* lists, which the event loop may have raised while they were copied, add up to at
\* least that.
SavedTotalCovered == saver = "saved" => Total(savedCount) >= savedTotal

InRing(c, t) == \E i \in DOMAIN ring : ring[i].cgid = c /\ ring[i].ts = t

Posting(c, t) == pc = "post" /\ ev.cgid = c /\ ev.ts = t

\* Every overrun that made it into the ring buffer with the cgroup of a container
\* is posted to the controller, although earlier posts time out and fail, and also
\* if the container came after the agent; unless the container goes before it is
\* looked up, or the agent ends.
Delivered ==
  \A c \in Containers, t \in 1 .. MaxEvents :
    InRing(c, t) ~> Posting(c, t) \/ c \notin exists \/ pc = "ended"

\* A signal ends in a statistics file ("Saving statistics...", main.go:344).
StatisticsSaved == saver = "saving" ~> saver = "saved"

-----------------------------------------------------------------------------
(***************************************************************************)
(* The agent implements OverrunLog: an overrun waits in the ring buffer    *)
(* and in the hand of the event loop, and goes on to the controller.       *)
(***************************************************************************)

InHand == IF pc \in {"lookup", "count", "total", "post"} THEN {ev.ts} ELSE {}

Log == INSTANCE OverrunLog WITH
  Capacity <- RingSize,
  open     <- pc # "ended",
  now      <- emitted,
  waiting  <- IF pc = "ended" THEN {} ELSE RingTimes \cup InHand,
  logged   <- {r[2] : r \in received}

\* The controller is told of the overruns in their order and of none twice, and
\* the agent loses none before its ring buffer is full, although cgroups come and
\* go, posts fail and the process is told to end.
ImplementsLog == Log!Spec
=============================================================================
