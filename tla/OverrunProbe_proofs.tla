------------------------- MODULE OverrunProbe_proofs -------------------------
(***************************************************************************)
(* What the probe reports, for every number of servers, cgroups and        *)
(* events, and behind any reader of the ring buffer.                       *)
(*                                                                         *)
(* The argument is an invariant of the probe and the kernel together: a    *)
(* server whose overrun was reported is still overrun and marked, and a    *)
(* marked server is without budget only after a report.                    *)
(***************************************************************************)
EXTENDS OverrunProbe, FiniteSetTheorems, TLAPS

Marked(s) == told[s] # "no" => budget[s] = "overrun" /\ was_pos[s] = "no"

Told(s) == was_pos[s] = "no" /\ budget[s] \in {"spent", "overrun"} => told[s] # "no"

\* What the proofs need of the types.
ProbeTypes ==
  /\ budget    \in [Servers -> {"gone", "positive", "spent", "overrun"}]
  /\ throttled \in [Servers -> BOOLEAN]
  /\ running   \in [Servers -> BOOLEAN]
  /\ was_pos   \in [Servers -> {"none", "yes", "no"}]
  /\ told      \in [Servers -> {"no", "yes", "lost"}]

ReportInv == ProbeTypes /\ \A s \in Servers : Marked(s) /\ Told(s)

-----------------------------------------------------------------------------
(***************************************************************************)
(* The invariant.                                                          *)
(***************************************************************************)

LEMMA ReportInvInit == ProbeInit => ReportInv
  BY DEF ProbeInit, ReportInv, ProbeTypes, Marked, Told

\* What a call charges: a server without budget does not get any.
LEMMA ChargeFact ==
  ASSUME ProbeTypes, NEW s \in Servers, budget[s] # "gone", Charge(s)
  PROVE  /\ budget' \in [Servers -> {"gone", "positive", "spent", "overrun"}]
         /\ throttled' \in [Servers -> BOOLEAN]
         /\ running' \in [Servers -> BOOLEAN]
         /\ \A t \in Servers \ {s} : budget'[t] = budget[t]
         /\ budget[s] = "overrun" => budget'[s] = "overrun"
         /\ budget[s] = "spent" => budget'[s] \in {"spent", "overrun"}
         /\ ~running[s] => budget'[s] = budget[s]
<1>1. PICK b \in {"positive", "spent", "overrun"} :
        /\ ~running[s] => b = budget[s]
        /\ budget[s] = "spent" => b # "positive"
        /\ budget[s] = "overrun" => b = "overrun"
        /\ budget'    = [budget EXCEPT ![s] = b]
        /\ throttled' = [throttled EXCEPT ![s] = @ \/ b # "positive"]
        /\ UNCHANGED running
  BY DEF Charge
<1>2. throttled' \in [Servers -> BOOLEAN]
  BY <1>1 DEF ProbeTypes
<1> QED
  BY <1>1, <1>2 DEF ProbeTypes

\* A call of the probe, by the way it takes.
LEMMA CallKeepsInv ==
  ASSUME ReportInv, NEW s \in Servers, on_update_curr_dl_se(s)
  PROVE  ReportInv'
<1>1. budget[s] # "gone" /\ Charge(s)
  BY DEF on_update_curr_dl_se, Ignore, Report, Restore, Watch, Watched
<1>2. ProbeTypes
  BY DEF ReportInv
<1>3. CASE Ignore(s)
  <2>1. was_pos' = was_pos /\ told' = told
    BY <1>3 DEF Ignore
  <2>2. ~running[s] \/ was_pos[s] = "none"
    BY <1>1, <1>3 DEF Ignore, Watched, Room
  <2> QED
    BY <1>1, <1>2, <2>1, <2>2, ChargeFact DEF ReportInv, ProbeTypes, Marked, Told
<1>4. CASE Report(s)
  <2>1. /\ was_pos' = [was_pos EXCEPT ![s] = "no"]
        /\ \E r \in {"yes", "lost"} : told' = [told EXCEPT ![s] = r]
        /\ budget[s] = "overrun"
    BY <1>4 DEF Report, Submit, Overrun
  <2> QED
    BY <1>1, <1>2, <2>1, ChargeFact DEF ReportInv, ProbeTypes, Marked, Told
<1>5. CASE Restore(s)
  <2>1. /\ was_pos' = [was_pos EXCEPT ![s] = "yes"] /\ told' = told
        /\ budget[s] = "positive"
    BY <1>5 DEF Restore, Restored
  <2> QED
    BY <1>1, <1>2, <2>1, ChargeFact DEF ReportInv, ProbeTypes, Marked, Told
<1>6. CASE Watch(s)
  <2>1. /\ was_pos' = [was_pos EXCEPT ![s] = Entry(s)] /\ told' = told
        /\ ~(Entry(s) = "no" /\ budget[s] = "positive")
    BY <1>6 DEF Watch, Restored
  <2>2. /\ Entry(s) \in {"yes", "no"}
        /\ Entry(s) = "no" <=> was_pos[s] = "no"
    BY <1>2 DEF Entry, ProbeTypes
  <2> QED
    BY <1>1, <1>2, <2>1, <2>2, ChargeFact DEF ReportInv, ProbeTypes, Marked, Told
<1> QED
  BY <1>3, <1>4, <1>5, <1>6 DEF on_update_curr_dl_se

\* A step of the kernel.
LEMMA KernelKeepsInv ==
  ASSUME ReportInv, NEW s \in Servers, Kernel(s)
  PROVE  ReportInv'
<1>1. CASE Replenish(s)
  BY <1>1 DEF Replenish, ReportInv, ProbeTypes, Marked, Told
<1>2. CASE CreateServer(s)
  BY <1>2 DEF CreateServer, ReportInv, ProbeTypes, Marked, Told
<1>3. CASE DestroyServer(s)
  BY <1>3 DEF DestroyServer, ReportInv, ProbeTypes, Marked, Told
<1>4. CASE SwitchTasks(s)
  BY <1>4 DEF SwitchTasks, ReportInv, ProbeTypes, Marked, Told
<1> QED
  BY <1>1, <1>2, <1>3, <1>4 DEF Kernel

LEMMA TakeKeepsInv == ReportInv /\ TakeEvent => ReportInv'
  BY DEF TakeEvent, servers, ReportInv, ProbeTypes, Marked, Told

\* Every step of the kernel and the probe.
LEMMA ReportInvStep == ReportInv /\ [ProbeNext]_probeVars => ReportInv'
<1> SUFFICES ASSUME ReportInv, [ProbeNext]_probeVars PROVE ReportInv'
  OBVIOUS
<1>1. CASE UNCHANGED probeVars
  BY <1>1 DEF probeVars, ReportInv, ProbeTypes, Marked, Told
<1> QED
  BY <1>1, CallKeepsInv, KernelKeepsInv, TakeKeepsInv DEF ProbeNext

LEMMA ReportInvariant == ProbeSpec => []ReportInv
  BY ReportInvInit, ReportInvStep, PTL DEF ProbeSpec

\* What the invariant is for: an overrun is reported once, and the next call
\* notices one that was not, if only the system's servers have 50 ms.
LEMMA ReportInvOnce == ReportInv => \A s \in Servers : Report(s) => told[s] = "no"
  BY DEF ReportInv, Marked, Report, Overrun, Entry

LEMMA ReportInvMissed == ASSUME FiftyMs \subseteq SystemServers PROVE ReportInv => NoneMissed
  BY DEF ReportInv, ProbeTypes, Told, NoneMissed, Overrun, Entry

-----------------------------------------------------------------------------
(***************************************************************************)
(* The types.                                                              *)
(***************************************************************************)

\* An event goes into the ring buffer only if there is room, and carries the time
\* of its overrun.
LEMMA SubmitTypes ==
  ASSUME ProbeTypeOK, NEW s \in Servers, Submit(s)
  PROVE  /\ ring' \in Seq(Event) /\ Len(ring') <= RingSize
         /\ emitted' = emitted + 1 /\ emitted' \in 0 .. MaxEvents
         /\ told' \in [Servers -> {"no", "yes", "lost"}]
         /\ \/ ring' = ring
            \/ \E e \in Event : ring' = Append(ring, e) /\ e.ts = emitted'
<1>1. /\ emitted < MaxEvents /\ emitted' = emitted + 1
      /\ emitted \in 0 .. MaxEvents /\ MaxEvents \in Nat /\ RingSize \in Nat
  BY ProbeAssumption DEF Submit, ProbeTypeOK
<1>2. emitted' \in 1 .. MaxEvents
  BY <1>1
<1>3. CASE ring' = ring
  <2>1. told' \in [Servers -> {"no", "yes", "lost"}]
    BY DEF Submit, ProbeTypeOK
  <2> QED
    BY <1>1, <1>3, <2>1 DEF ProbeTypeOK
<1>4. CASE ring' # ring
  <2>1. PICK g \in Cgroups :
          /\ ring' = Append(ring, [server |-> s, cgid |-> g, ts |-> emitted'])
          /\ Len(ring) < RingSize
          /\ told' = [told EXCEPT ![s] = "yes"]
    BY <1>4 DEF Submit
  <2> DEFINE e == [server |-> s, cgid |-> g, ts |-> emitted']
  <2>2. e \in Event /\ e.ts = emitted'
    BY <1>2 DEF Event
  <2>3. ring \in Seq(Event)
    BY DEF ProbeTypeOK
  <2> HIDE DEF e
  <2>4. ring' = Append(ring, e)
    BY <2>1 DEF e
  <2>5. ring' \in Seq(Event) /\ Len(ring') = Len(ring) + 1 /\ Len(ring) \in Nat
    BY <2>2, <2>3, <2>4
  <2>6. told' \in [Servers -> {"no", "yes", "lost"}]
    BY <2>1 DEF ProbeTypeOK
  <2> QED
    BY <1>1, <2>1, <2>2, <2>4, <2>5, <2>6
<1> QED
  BY <1>3, <1>4

LEMMA ProbeTypesOf == ProbeTypeOK => ProbeTypes
  BY DEF ProbeTypeOK, ProbeTypes

LEMMA CallTypes ==
  ASSUME ProbeTypeOK, NEW s \in Servers, on_update_curr_dl_se(s)
  PROVE  ProbeTypeOK'
<1>1. /\ budget' \in [Servers -> {"gone", "positive", "spent", "overrun"}]
      /\ throttled' \in [Servers -> BOOLEAN]
      /\ running' \in [Servers -> BOOLEAN]
  BY ProbeTypesOf, ChargeFact
     DEF on_update_curr_dl_se, Ignore, Report, Restore, Watch, Watched
<1>2. CASE Ignore(s) \/ Restore(s) \/ Watch(s)
  <2>1. UNCHANGED <<ring, emitted, told>>
    BY <1>2 DEF Ignore, Restore, Watch
  <2>2. was_pos' \in [Servers -> {"none", "yes", "no"}]
    BY <1>2 DEF Ignore, Restore, Watch, Entry, ProbeTypeOK
  <2> QED
    BY <1>1, <2>1, <2>2 DEF ProbeTypeOK
<1>3. CASE Report(s)
  <2>1. was_pos' \in [Servers -> {"none", "yes", "no"}]
    BY <1>3 DEF Report, ProbeTypeOK
  <2> QED
    BY <1>1, <1>3, <2>1, SubmitTypes DEF Report, ProbeTypeOK
<1> QED
  BY <1>2, <1>3 DEF on_update_curr_dl_se

LEMMA KernelTypes ==
  ASSUME ProbeTypeOK, NEW s \in Servers, Kernel(s)
  PROVE  ProbeTypeOK'
  BY DEF Kernel, Replenish, CreateServer, DestroyServer, SwitchTasks, ProbeTypeOK

\* The reader takes the oldest event.
LEMMA TakeTypes ==
  ASSUME ProbeTypeOK, TakeEvent
  PROVE  /\ ProbeTypeOK'
         /\ Head(ring) \in Event
         /\ Len(ring') = Len(ring) - 1
         /\ \A i \in DOMAIN ring' : ring'[i] = ring[i + 1] /\ i + 1 \in DOMAIN ring
<1>1. ring \in Seq(Event) /\ ring # <<>> /\ ring' = Tail(ring)
  BY DEF ProbeTypeOK, TakeEvent
<1>2. /\ Head(ring) \in Event /\ ring' \in Seq(Event)
      /\ Len(ring) \in Nat \ {0} /\ Len(ring') = Len(ring) - 1
      /\ DOMAIN ring = 1 .. Len(ring) /\ DOMAIN ring' = 1 .. Len(ring')
  BY <1>1
<1>3. \A i \in DOMAIN ring' : ring'[i] = ring[i + 1]
  BY <1>1
<1>4. ProbeTypeOK'
  BY <1>2, ProbeAssumption DEF TakeEvent, servers, ProbeTypeOK
<1> QED
  BY <1>2, <1>3, <1>4

-----------------------------------------------------------------------------
(***************************************************************************)
(* The ring buffer holds the overruns in the order of their times.         *)
(***************************************************************************)

RingOrder ==
  /\ \A i, j \in DOMAIN ring : i < j => ring[i].ts < ring[j].ts
  /\ \A j \in DOMAIN ring : ring[j].ts <= emitted

LEMMA RingTypes ==
  ASSUME ProbeTypeOK
  PROVE  /\ emitted \in Nat /\ Len(ring) \in Nat /\ DOMAIN ring = 1 .. Len(ring)
         /\ \A i \in DOMAIN ring : ring[i].ts \in Nat
         /\ \A t \in RingTimes : t \in Nat
<1>1. ring \in Seq(Event) /\ emitted \in 0 .. MaxEvents
  BY DEF ProbeTypeOK
<1>2. Len(ring) \in Nat /\ DOMAIN ring = 1 .. Len(ring) /\ \A i \in DOMAIN ring : ring[i] \in Event
  BY <1>1
<1>3. \A e \in Event : e.ts \in Nat
  BY ProbeAssumption DEF Event
<1>4. \A i \in DOMAIN ring : ring[i].ts \in Nat
  BY <1>2, <1>3
<1>5. emitted \in Nat
  BY <1>1, ProbeAssumption
<1> QED
  BY <1>2, <1>4, <1>5 DEF RingTimes

\* Every event has a time of its own: as many overruns wait as there are events.
LEMMA RingTimesCount ==
  ASSUME ProbeTypeOK, RingOrder
  PROVE  IsFiniteSet(RingTimes) /\ Cardinality(RingTimes) = Len(ring)
<1> DEFINE n == Len(ring)
           f == [i \in 1 .. n |-> ring[i].ts]
<1>1. n \in Nat /\ DOMAIN ring = 1 .. n /\ \A i \in 1 .. n : ring[i].ts \in Nat
  BY RingTypes
<1>2. \A i, j \in 1 .. n : i < j => ring[i].ts < ring[j].ts
  BY <1>1 DEF RingOrder
<1>3. \A i, j \in 1 .. n : i # j => ring[i].ts # ring[j].ts
  <2> SUFFICES ASSUME NEW i \in 1 .. n, NEW j \in 1 .. n, i # j PROVE ring[i].ts # ring[j].ts
    OBVIOUS
  <2>1. i < j \/ j < i
    BY <1>1
  <2> QED
    BY <1>1, <1>2, <2>1
<1> HIDE DEF n
<1>4. f \in [1 .. n -> RingTimes] /\ \A t \in RingTimes : \E i \in 1 .. n : f[i] = t
  BY <1>1 DEF RingTimes
<1>5. \A i, j \in 1 .. n : f[i] = f[j] => i = j
  BY <1>3
<1> HIDE DEF f
<1>6. f \in Bijection(1 .. n, RingTimes)
  BY <1>4, <1>5 DEF Bijection, Injection, Surjection, IsInjective
<1>7. ExistsBijection(1 .. n, RingTimes)
  BY <1>6 DEF ExistsBijection
<1>8. IsFiniteSet(RingTimes)
  BY <1>1, <1>7, FS_NatBijection
<1> QED
  BY <1>1, <1>7, <1>8, FS_CountingElements DEF n

\* A new overrun is the latest, and waits unless the ring buffer is full.
LEMMA SubmitTimes ==
  ASSUME ProbeTypeOK, RingOrder, NEW s \in Servers, Submit(s)
  PROVE  /\ RingOrder'
         /\ emitted' = emitted + 1
         /\ \A t \in RingTimes : t <= emitted
         /\ \/ RingTimes' = RingTimes \cup {emitted'}
            \/ RingTimes' = RingTimes /\ Cardinality(RingTimes) >= RingSize
<1>1. /\ emitted' = emitted + 1 /\ emitted \in Nat /\ Len(ring) \in Nat
      /\ DOMAIN ring = 1 .. Len(ring) /\ \A i \in DOMAIN ring : ring[i].ts \in Nat
  BY RingTypes, SubmitTypes
<1>2. \A t \in RingTimes : t <= emitted
  BY DEF RingOrder, RingTimes
<1>3. CASE ring' = ring
  <2>1. RingTimes' = RingTimes
    BY <1>3 DEF RingTimes
  <2>2. RingOrder'
    BY <1>1, <1>3 DEF RingOrder
  <2>3. Len(ring) >= RingSize
    <3>1. ASSUME NEW e, ring' = Append(ring, e) PROVE FALSE
      <4>1. ring \in Seq(Event)
        BY DEF ProbeTypeOK
      <4>2. Len(Append(ring, e)) = Len(ring) + 1
        BY <4>1
      <4> QED
        BY <1>1, <1>3, <3>1, <4>2
    <3> QED
      BY <3>1 DEF Submit
  <2>4. Cardinality(RingTimes) >= RingSize
    BY <2>3, RingTimesCount
  <2> QED
    BY <1>1, <1>2, <2>1, <2>2, <2>4
<1>4. CASE \E e \in Event : ring' = Append(ring, e) /\ e.ts = emitted'
  <2>1. PICK e \in Event : ring' = Append(ring, e) /\ e.ts = emitted'
    BY <1>4
  <2>2. ring \in Seq(Event)
    BY DEF ProbeTypeOK
  <2>3. /\ DOMAIN ring' = 1 .. (Len(ring) + 1)
        /\ \A j \in DOMAIN ring : ring'[j] = ring[j]
        /\ ring'[Len(ring) + 1] = e
    BY <1>1, <2>1, <2>2
  <2>4. RingTimes' = RingTimes \cup {emitted'}
    <3>1. DOMAIN ring' = DOMAIN ring \cup {Len(ring) + 1}
      BY <1>1, <2>3
    <3>2. RingTimes' = {ring'[j].ts : j \in DOMAIN ring'}
      BY DEF RingTimes
    <3>3. {ring'[j].ts : j \in DOMAIN ring} = RingTimes
      BY <2>3 DEF RingTimes
    <3> QED
      BY <2>1, <2>3, <3>1, <3>2, <3>3
  <2>5. \A i, j \in DOMAIN ring' : i < j => ring'[i].ts < ring'[j].ts
    BY <1>1, <2>1, <2>3 DEF RingOrder
  <2>6. \A j \in DOMAIN ring' : ring'[j].ts <= emitted'
    BY <1>1, <2>1, <2>3 DEF RingOrder
  <2> QED
    BY <1>1, <1>2, <2>4, <2>5, <2>6 DEF RingOrder
<1> QED
  BY <1>3, <1>4, SubmitTypes

\* The reader takes the overrun that has waited longest.
LEMMA TakeTimes ==
  ASSUME ProbeTypeOK, RingOrder, TakeEvent
  PROVE  /\ RingOrder'
         /\ Head(ring).ts \in RingTimes
         /\ RingTimes' = RingTimes \ {Head(ring).ts}
         /\ \A t \in RingTimes' : Head(ring).ts < t
<1>1. /\ ring # <<>> /\ ring \in Seq(Event) /\ emitted' = emitted
      /\ emitted \in Nat /\ Len(ring) \in Nat /\ DOMAIN ring = 1 .. Len(ring)
      /\ \A i \in DOMAIN ring : ring[i].ts \in Nat
  BY RingTypes DEF TakeEvent, ProbeTypeOK
<1>2. Head(ring) = ring[1] /\ 1 \in DOMAIN ring /\ Len(ring) \in Nat \ {0}
  BY <1>1
<1>3. /\ DOMAIN ring' = 1 .. (Len(ring) - 1)
      /\ \A j \in DOMAIN ring' : ring'[j] = ring[j + 1] /\ j + 1 \in DOMAIN ring /\ j \in Nat \ {0}
  <2>1. Len(ring') = Len(ring) - 1 /\ ring' \in Seq(Event)
    BY TakeTypes DEF ProbeTypeOK
  <2>2. DOMAIN ring' = 1 .. (Len(ring) - 1)
    BY <2>1
  <2> QED
    BY <1>1, <2>2, TakeTypes
<1>4. \A j \in DOMAIN ring : j # 1 => ring[1].ts < ring[j].ts
  BY <1>1, <1>2 DEF RingOrder
<1>5. RingTimes' = RingTimes \ {ring[1].ts}
  <2>1. ASSUME NEW t \in RingTimes' PROVE t \in RingTimes \ {ring[1].ts}
    <3>1. PICK j \in DOMAIN ring' : t = ring'[j].ts
      BY DEF RingTimes
    <3>2. t = ring[j + 1].ts /\ j + 1 \in DOMAIN ring /\ j + 1 # 1
      BY <1>3, <3>1
    <3>3. ring[1].ts < t /\ ring[1].ts \in Nat /\ t \in Nat
      BY <1>1, <1>2, <1>4, <3>2
    <3> QED
      BY <3>2, <3>3 DEF RingTimes
  <2>2. ASSUME NEW t \in RingTimes, t # ring[1].ts PROVE t \in RingTimes'
    <3>1. PICK i \in DOMAIN ring : t = ring[i].ts
      BY DEF RingTimes
    <3>2. i - 1 \in DOMAIN ring' /\ (i - 1) + 1 = i
      BY <1>1, <1>3, <2>2, <3>1
    <3>3. ring'[i - 1].ts = t
      BY <1>3, <3>1, <3>2
    <3> QED
      BY <3>2, <3>3 DEF RingTimes
  <2> QED
    BY <2>1, <2>2
<1>6. \A t \in RingTimes : t # ring[1].ts => ring[1].ts < t
  BY <1>4 DEF RingTimes
<1>7. \A i, j \in DOMAIN ring' : i < j => ring'[i].ts < ring'[j].ts
  BY <1>3 DEF RingOrder
<1>8. \A j \in DOMAIN ring' : ring'[j].ts <= emitted'
  BY <1>1, <1>3 DEF RingOrder
<1> QED
  BY <1>2, <1>5, <1>6, <1>7, <1>8 DEF RingOrder, RingTimes

\* What the probe and the kernel do to the ring buffer.
LEMMA ProbeTimes ==
  ASSUME ProbeTypeOK, RingOrder, NEW s \in Servers, on_update_curr_dl_se(s) \/ Kernel(s)
  PROVE  \/ UNCHANGED <<ring, emitted>> /\ RingOrder' /\ RingTimes' = RingTimes
         \/ Submit(s)
<1>1. UNCHANGED <<ring, emitted>> \/ Submit(s)
  BY DEF Kernel, Replenish, CreateServer, DestroyServer, SwitchTasks,
         on_update_curr_dl_se, Ignore, Report, Restore, Watch
<1>2. UNCHANGED <<ring, emitted>> => RingOrder' /\ RingTimes' = RingTimes
  BY DEF RingOrder, RingTimes
<1> QED
  BY <1>1, <1>2
=============================================================================
