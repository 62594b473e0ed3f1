------------------------ MODULE OverrunMonitor_proofs ------------------------
(***************************************************************************)
(* What the monitor does, for every number of servers, cgroups and events. *)
(***************************************************************************)
EXTENDS OverrunMonitor, OverrunProbe_proofs

-----------------------------------------------------------------------------
(***************************************************************************)
(* The types, and what is left when main has returned.  The probe is       *)
(* attached from Attach to Destroy, and until it is its maps are empty.    *)
(***************************************************************************)

Empty == ring = <<>> /\ emitted = 0 /\ \A s \in Servers : was_pos[s] = "none" /\ told[s] = "no"

MonitorInv ==
  /\ TypeOK
  /\ pc \in {"open", "load", "attach"} => ~attached /\ Empty
  /\ pc = "new" => attached
  /\ attached => ReportInv
  /\ ~attached => ring = <<>> /\ ~rb
  /\ pc = "destroy" => ~rb

LEMMA MonitorInit == Init => MonitorInv
<1> SUFFICES ASSUME Init PROVE MonitorInv
  OBVIOUS
<1>1. ProbeTypeOK /\ printed \in Seq(1 .. MaxEvents)
  BY ProbeAssumption DEF Init, ProbeTypeOK
<1> QED
  BY <1>1 DEF Init, MonitorInv, TypeOK, Empty

\* The kernel, with the probe or without.
LEMMA ServicingKeepsInv == MonitorInv /\ Servicing => MonitorInv'
<1> SUFFICES ASSUME MonitorInv, Servicing PROVE MonitorInv'
  OBVIOUS
<1>1. PICK s \in Servers :
        \/ Kernel(s)
        \/ attached /\ on_update_curr_dl_se(s)
        \/ ~attached /\ Unwatched(s)
  BY DEF Servicing
<1>2. ProbeTypeOK /\ UNCHANGED <<pc, rb, exit, stop, attached, printed>>
  BY DEF MonitorInv, TypeOK, Servicing, main
<1>3. CASE Kernel(s)
  <2>1. ProbeTypeOK' /\ UNCHANGED <<was_pos, ring, emitted>>
    BY <1>2, <1>3, KernelTypes
       DEF Kernel, Replenish, CreateServer, DestroyServer, SwitchTasks
  <2>2. \A t \in Servers : told[t] = "no" => told'[t] = "no"
    BY <1>2, <1>3
       DEF Kernel, Replenish, CreateServer, DestroyServer, SwitchTasks, ProbeTypeOK
  <2>3. attached => ReportInv'
    BY <1>3, KernelKeepsInv DEF MonitorInv
  <2> QED
    BY <1>2, <2>1, <2>2, <2>3 DEF MonitorInv, TypeOK, Empty
<1>4. CASE attached /\ on_update_curr_dl_se(s)
  <2>1. ProbeTypeOK'
    BY <1>2, <1>4, CallTypes
  <2>2. ReportInv'
    BY <1>4, CallKeepsInv DEF MonitorInv
  <2> QED
    BY <1>2, <1>4, <2>1, <2>2 DEF MonitorInv, TypeOK
<1>5. CASE ~attached /\ Unwatched(s)
  <2>1. UNCHANGED <<was_pos, ring, emitted, told>>
    BY <1>5 DEF Unwatched
  <2>2. ProbeTypeOK'
    BY <1>2, <1>5, <2>1, ProbeTypesOf, ChargeFact DEF Unwatched, ProbeTypeOK
  <2> QED
    BY <1>2, <1>5, <2>1, <2>2 DEF MonitorInv, TypeOK, Empty
<1> QED
  BY <1>1, <1>3, <1>4, <1>5

LEMMA EmptyReports == ProbeTypeOK /\ Empty => ReportInv
  BY DEF ProbeTypeOK, Empty, ReportInv, ProbeTypes, Marked, Told

\* A step that leaves the probe and what was printed alone.
LEMMA ProbeUnchanged ==
  ASSUME UNCHANGED <<probeVars, printed>>
  PROVE  /\ ProbeTypeOK => ProbeTypeOK'
         /\ ReportInv => ReportInv'
         /\ Empty => Empty'
  BY DEF probeVars, ProbeTypeOK, ReportInv, ProbeTypes, Marked, Told, Empty

LEMMA MainKeepsInv == MonitorInv /\ Main => MonitorInv'
<1> SUFFICES ASSUME MonitorInv, Main PROVE MonitorInv'
  OBVIOUS
<1>1. CASE Open \/ Load
  BY <1>1, ProbeUnchanged DEF Open, Load, Goto, probeVars, MonitorInv, TypeOK
<1>2. CASE Attach
  BY <1>2, ProbeUnchanged, EmptyReports DEF Attach, Goto, probeVars, MonitorInv, TypeOK
<1>3. CASE NewRingBuffer
  BY <1>3, ProbeUnchanged DEF NewRingBuffer, Goto, probeVars, MonitorInv, TypeOK
<1>4. CASE CheckStop \/ PollDone \/ PollTimeout \/ PollError
  BY <1>4, ProbeUnchanged
     DEF CheckStop, PollDone, PollTimeout, PollError, Goto, probeVars, MonitorInv, TypeOK
<1>5. CASE HandleEvent
  <2>1. Head(ring) \in Event /\ ProbeTypeOK' /\ printed \in Seq(1 .. MaxEvents)
    BY <1>5, TakeTypes DEF HandleEvent, MonitorInv, TypeOK
  <2>2. printed' \in Seq(1 .. MaxEvents)
    BY <1>5, <2>1 DEF HandleEvent, Event
  <2>3. ReportInv => ReportInv'
    BY <1>5, TakeKeepsInv DEF HandleEvent
  <2> QED
    BY <1>5, <2>1, <2>2, <2>3 DEF HandleEvent, MonitorInv, TypeOK
<1>6. CASE Free
  BY <1>6, ProbeUnchanged DEF Free, Goto, probeVars, MonitorInv, TypeOK
<1>7. CASE Destroy
  <2>1. ProbeTypeOK'
    BY <1>7, ProbeAssumption DEF Destroy, servers, MonitorInv, TypeOK, ProbeTypeOK
  <2> QED
    BY <1>7, <2>1 DEF Destroy, MonitorInv, TypeOK
<1> QED
  BY <1>1, <1>2, <1>3, <1>4, <1>5, <1>6, <1>7 DEF Main, Call

LEMMA MonitorStep == MonitorInv /\ [Next]_vars => MonitorInv'
<1> SUFFICES ASSUME MonitorInv, [Next]_vars PROVE MonitorInv'
  OBVIOUS
<1>1. CASE Signal
  BY <1>1, ProbeUnchanged DEF Signal, probeVars, MonitorInv, TypeOK
<1>2. CASE UNCHANGED vars
  BY <1>2, ProbeUnchanged DEF vars, probeVars, MonitorInv, TypeOK
<1> QED
  BY <1>1, <1>2, ServicingKeepsInv, MainKeepsInv DEF Next

LEMMA MonitorInvariant == Spec => []MonitorInv
  BY MonitorInit, MonitorStep, PTL DEF Spec

\* The types of the monitor's state, and that main leaves no probe behind in the
\* kernel, whichever call fails and whenever the signal comes.
THEOREM MonitorTypeCorrect == Spec => []TypeOK
<1>1. MonitorInv => TypeOK
  BY DEF MonitorInv
<1> QED
  BY <1>1, MonitorInvariant, PTL

\* The probe notices the overruns that are older than itself, if only servers of
\* the system have a dl_runtime of 50 ms (it starts with empty maps).
THEOREM MissesNoneSinceAttach ==
  ASSUME FiftyMs \subseteq SystemServers PROVE Spec => []NoneMissedSinceAttach
<1>1. MonitorInv => NoneMissedSinceAttach
  BY ReportInvMissed DEF MonitorInv, NoneMissedSinceAttach
<1> QED
  BY <1>1, MonitorInvariant, PTL

-----------------------------------------------------------------------------
(***************************************************************************)
(* The order of what is printed: the ring buffer continues it.  With that  *)
(* the monitor implements OverrunLog.                                      *)
(***************************************************************************)

OrderInv ==
  /\ PrintedInOrder
  /\ RingOrder
  /\ \A i \in DOMAIN printed :
       printed[i] <= emitted /\ \A t \in RingTimes : printed[i] < t

\* What OverrunLog sees of the monitor.
Shown == {printed[i] : i \in DOMAIN printed}

LogStep == [Log!Next]_<<pc # "ended", emitted, RingTimes, Shown>>

LEMMA LogStepIs == LogStep => [Log!Next]_(Log!log)
  BY DEF LogStep, Log!log, Shown

LEMMA PrintedTypes ==
  ASSUME MonitorInv
  PROVE  /\ printed \in Seq(1 .. MaxEvents) /\ Len(printed) \in Nat
         /\ DOMAIN printed = 1 .. Len(printed)
         /\ \A i \in DOMAIN printed : printed[i] \in Nat
<1> DEFINE Times == 1 .. MaxEvents
<1>1. printed \in Seq(Times)
  BY DEF MonitorInv, TypeOK
<1>2. \A n \in Times : n \in Nat
  BY ProbeAssumption
<1> HIDE DEF Times
<1>3. /\ Len(printed) \in Nat /\ DOMAIN printed = 1 .. Len(printed)
      /\ \A i \in DOMAIN printed : printed[i] \in Times
  BY <1>1
<1> QED
  BY <1>1, <1>2, <1>3 DEF Times

\* A step that OverrunLog does not see.
LEMMA LogStutters ==
  ASSUME OrderInv, UNCHANGED <<ring, emitted, printed>>, (pc = "ended") = (pc' = "ended")
  PROVE  OrderInv' /\ LogStep
<1>1. RingTimes' = RingTimes /\ Shown' = Shown
  BY DEF RingTimes, Shown
<1>2. OrderInv'
  BY <1>1 DEF OrderInv, PrintedInOrder, RingOrder
<1> QED
  BY <1>1, <1>2 DEF LogStep

\* The return of main, with which the ring buffer goes.
LEMMA LogCloses ==
  ASSUME OrderInv, UNCHANGED <<emitted, printed>>,
         pc # "ended", pc' = "ended", ring' = <<>>
  PROVE  OrderInv' /\ LogStep
<1>1. RingTimes' = {} /\ Shown' = Shown
  BY DEF RingTimes, Shown
<1>2. OrderInv'
  BY <1>1 DEF OrderInv, PrintedInOrder, RingOrder
<1>3. Log!Close
  BY <1>1 DEF Log!Close, Shown
<1> QED
  BY <1>2, <1>3 DEF LogStep, Log!Next

LEMMA ServicingLogged == MonitorInv /\ OrderInv /\ Servicing => OrderInv' /\ LogStep
<1> SUFFICES ASSUME MonitorInv, OrderInv, Servicing PROVE OrderInv' /\ LogStep
  OBVIOUS
<1>1. PICK s \in Servers :
        \/ Kernel(s)
        \/ attached /\ on_update_curr_dl_se(s)
        \/ ~attached /\ Unwatched(s)
  BY DEF Servicing
<1>2. ProbeTypeOK /\ RingOrder /\ emitted \in Nat /\ UNCHANGED <<pc, printed>>
  BY RingTypes DEF MonitorInv, TypeOK, OrderInv, Servicing, main
<1>3. CASE UNCHANGED <<ring, emitted>>
  BY <1>2, <1>3, LogStutters
<1>4. CASE attached /\ Submit(s)
  <2>1. /\ RingOrder'
        /\ emitted' = emitted + 1
        /\ \A t \in RingTimes : t <= emitted
        /\ \/ RingTimes' = RingTimes \cup {emitted'}
           \/ RingTimes' = RingTimes /\ Cardinality(RingTimes) >= RingSize
    BY <1>2, <1>4, SubmitTimes
  <2>2. \A i \in DOMAIN printed :
          printed'[i] <= emitted' /\ \A t \in RingTimes' : printed'[i] < t
    BY <1>2, <2>1, PrintedTypes DEF OrderInv
  <2>3. OrderInv'
    BY <1>2, <2>1, <2>2 DEF OrderInv, PrintedInOrder
  <2>4. pc # "ended" /\ pc' = pc /\ Shown' = Shown
    BY <1>2, <1>4 DEF MonitorInv, TypeOK, Shown
  <2>5. Log!Cardinality(RingTimes) = Cardinality(RingTimes)
    BY DEF Log!Cardinality, Cardinality
  <2>6. Log!Overrun
    BY <2>1, <2>4, <2>5 DEF Log!Overrun, Shown
  <2> QED
    BY <2>3, <2>6 DEF LogStep, Log!Next
<1>5. CASE ~attached /\ Unwatched(s)
  BY <1>3, <1>5 DEF Unwatched
<1>6. CASE Kernel(s)
  BY <1>3, <1>6 DEF Kernel, Replenish, CreateServer, DestroyServer, SwitchTasks
<1> QED
  BY <1>1, <1>2, <1>3, <1>4, <1>5, <1>6, ProbeTimes

\* The event that is printed is the oldest, and later than all that were.
LEMMA EventLogged == MonitorInv /\ OrderInv /\ HandleEvent => OrderInv' /\ LogStep
<1> SUFFICES ASSUME MonitorInv, OrderInv, HandleEvent PROVE OrderInv' /\ LogStep
  OBVIOUS
<1>1. PICK t : t = Head(ring).ts
  OBVIOUS
<1>2. /\ TakeEvent /\ ProbeTypeOK /\ RingOrder /\ emitted' = emitted
      /\ pc # "ended" /\ pc' # "ended" /\ printed' = Append(printed, t)
  BY <1>1 DEF HandleEvent, TakeEvent, MonitorInv, TypeOK, OrderInv
<1>3. /\ RingOrder' /\ t \in RingTimes /\ RingTimes' = RingTimes \ {t}
      /\ \A u \in RingTimes' : t < u
  BY <1>1, <1>2, TakeTimes
<1>4. t \in Nat /\ t <= emitted
  BY <1>2, <1>3, RingTypes DEF RingOrder, RingTimes
<1>5. /\ DOMAIN printed' = DOMAIN printed \cup {Len(printed) + 1}
      /\ DOMAIN printed = 1 .. Len(printed) /\ Len(printed) \in Nat
      /\ \A i \in DOMAIN printed : printed'[i] = printed[i] /\ printed[i] \in Nat
      /\ printed'[Len(printed) + 1] = t
  BY <1>2, PrintedTypes
<1>6. PrintedInOrder'
  BY <1>3, <1>5 DEF OrderInv, PrintedInOrder
<1>7. \A i \in DOMAIN printed' : printed'[i] <= emitted'
  BY <1>2, <1>4, <1>5 DEF OrderInv
<1>8. \A i \in DOMAIN printed', u \in RingTimes' : printed'[i] < u
  BY <1>3, <1>5 DEF OrderInv
<1>9. OrderInv'
  BY <1>3, <1>6, <1>7, <1>8 DEF OrderInv
<1>10. Shown' = Shown \cup {t}
  BY <1>5 DEF Shown
<1>11. \A u \in RingTimes : t <= u
  BY <1>3, <1>4
<1>12. Log!Done(t)
  BY <1>2, <1>3, <1>11 DEF Log!Done
<1>13. Log!Tell(t)
  BY <1>10, <1>12 DEF Log!Tell, Shown
<1>14. Log!Next
  BY <1>3, <1>13 DEF Log!Next
<1> QED
  BY <1>9, <1>14 DEF LogStep

LEMMA OthersLogged ==
  ASSUME MonitorInv, OrderInv, (Main /\ ~HandleEvent) \/ Signal \/ UNCHANGED vars
  PROVE  OrderInv' /\ LogStep
<1>1. CASE Destroy
  BY <1>1, LogCloses DEF Destroy
<1>2. CASE Open
  <2>1. ring' = <<>> /\ UNCHANGED <<ring, emitted, printed>> /\ pc = "open"
    BY <1>2 DEF Open, Goto, probeVars, MonitorInv, Empty
  <2> QED
    BY <2>1, LogCloses, LogStutters
<1>3. CASE ~Destroy /\ ~Open
  <2>1. UNCHANGED <<ring, emitted, printed>> /\ ((pc = "ended") = (pc' = "ended"))
    BY <1>3
       DEF Main, Call, Load, Attach, NewRingBuffer, CheckStop, PollDone, PollTimeout,
           PollError, Free, Signal, Goto, vars, probeVars
  <2> QED
    BY <2>1, LogStutters
<1> QED
  BY <1>1, <1>2, <1>3

LEMMA OrderStep == MonitorInv /\ OrderInv /\ [Next]_vars => OrderInv' /\ LogStep
  BY ServicingLogged, EventLogged, OthersLogged DEF Next, Main, Call

LEMMA OrderInit == Init => OrderInv /\ Log!Init
<1> SUFFICES ASSUME Init PROVE OrderInv /\ Log!Init
  OBVIOUS
<1>1. ring = <<>> /\ printed = <<>> /\ emitted = 0 /\ pc = "open"
  BY DEF Init
<1>2. RingTimes = {}
  BY <1>1 DEF RingTimes
<1> QED
  BY <1>1, <1>2 DEF OrderInv, RingOrder, PrintedInOrder, Log!Init

\* The printed events are in the order of the overruns and none is there twice,
\* for every length of the ring buffer and however polls and signals fall.
THEOREM PrintsInOrder == Spec => []PrintedInOrder
<1>1. OrderInv => PrintedInOrder
  BY DEF OrderInv
<1> QED
  BY <1>1, OrderInit, OrderStep, MonitorInvariant, PTL DEF Spec

\* The monitor (ebpf-co-re.c) prints the overruns in their order and none twice, and
\* loses none before its ring buffer is full, through every failure of libbpf's calls
\* and wherever the signal comes.
THEOREM MonitorImplementsLog == Spec => ImplementsLog
<1>1. MonitorInv /\ OrderInv /\ [Next]_vars => OrderInv' /\ [Log!Next]_(Log!log)
  BY OrderStep, LogStepIs
<1> QED
  BY <1>1, OrderInit, MonitorInvariant, PTL DEF Spec, ImplementsLog, Log!Spec
=============================================================================
