------------------------- MODULE OverrunAgent_proofs -------------------------
(***************************************************************************)
(* What holds of the probe holds behind the agent: nothing that the event  *)
(* loop, the signal's goroutine or the cgroups do disturbs it.             *)
(***************************************************************************)
EXTENDS OverrunAgent, OverrunProbe_proofs, FiniteSetTheorems

-----------------------------------------------------------------------------
(***************************************************************************)
(* The agent implements the probe: nothing that the event loop, the        *)
(* signal's goroutine or the cgroups do disturbs it.                       *)
(***************************************************************************)

\* Every step of the agent is a step of the probe or leaves it alone.
LEMMA AgentStep == ASSUME [Next]_vars PROVE [ProbeNext]_probeVars
<1>1. CASE Probe
  BY <1>1 DEF Probe, ProbeNext
<1>2. ASSUME NEW g \in Cgroups, CreateCgroup(g) \/ RemoveCgroup(g)
      PROVE  UNCHANGED probeVars
  BY <1>2 DEF CreateCgroup, RemoveCgroup
<1>3. CASE Read
  BY <1>3 DEF Read, ProbeNext
<1>4. CASE Lookup \/ Count \/ CountTotal \/ PostOK \/ PostFail
  BY <1>4 DEF Lookup, Count, CountTotal, PostOK, PostFail
<1>5. CASE Signal \/ SaveStats
  BY <1>5 DEF Signal, SaveStats, SaveCount, Exit, ExitTruncated, FailToSave
<1>6. CASE UNCHANGED vars
  BY <1>6 DEF vars, probeVars
<1> QED
  BY <1>1, <1>2, <1>3, <1>4, <1>5, <1>6 DEF Next, EventLoop

\* The agent (main.go) behind the probe (hcbs_overrun.bpf.c) leaves the probe's
\* behaviour as it is.
THEOREM AgentImplementsProbe == Spec => ProbeSpec
<1>1. Init => ProbeInit
  BY DEF Init
<1> QED
  BY <1>1, AgentStep, PTL DEF Spec, ProbeSpec

-----------------------------------------------------------------------------
(***************************************************************************)
(* The theorems.                                                           *)
(***************************************************************************)

\* A server is reported at most once for each time it exhausts its budget, however
\* often the kernel calls the probe (the was_pos transitions of the probe).
THEOREM ReportsOnce == Spec => ReportedOnce
<1>1. ReportInv /\ [ProbeNext]_probeVars =>
        [\A s \in Servers : Report(s) => told[s] = "no"]_probeVars
  BY ReportInvOnce
<1> QED
  BY <1>1, ReportInvariant, AgentImplementsProbe, PTL DEF ProbeSpec, ReportedOnce

\* When only servers of the system have a dl_runtime of 50 ms, no overrun goes
\* unnoticed by the probe, although it never removes a server from se_state.
THEOREM MissesNone == ASSUME FiftyMs \subseteq SystemServers PROVE Spec => []NoneMissed
  BY ReportInvMissed, ReportInvariant, AgentImplementsProbe, PTL

-----------------------------------------------------------------------------
(***************************************************************************)
(* The types.  No count passes the number of overruns, since each event    *)
(* that is still in the ring buffer or on its way to be counted stands for *)
(* an overrun that has not been.                                           *)
(***************************************************************************)

\* Events taken out of the ring buffer that a count does not know yet.
Uncounted == IF pc \in {"lookup", "count"} THEN 1 ELSE 0
Untotalled == IF pc \in {"lookup", "count", "total"} THEN 1 ELSE 0

CountInv ==
  /\ \A c \in Containers : overrunCount[c] + Uncounted + Len(ring) <= emitted
  /\ totalCnt + Untotalled + Len(ring) <= emitted

AgentTypes ==
  /\ exists \subseteq Cgroups /\ byIno \subseteq Cgroups
  /\ pc \in {"read", "lookup", "count", "total", "post", "ended"}
  /\ ev \in Event \cup {NoEvent}
  /\ pc \in {"lookup", "count", "total", "post"} => ev # NoEvent
  /\ pc \in {"count", "total", "post"} => ev.cgid \in Containers
  /\ overrunCount \in [Containers -> Nat]
  /\ totalCnt \in Nat
  /\ received \subseteq Containers \X (1 .. MaxEvents)
  /\ saver \in {"waiting", "saving", "saved", "truncated", "failed"}
  /\ savedTotal \in 0 .. MaxEvents
  /\ savedCount \in [Containers -> -1 .. MaxEvents]

AgentInv == ProbeTypeOK /\ AgentTypes /\ CountInv

LEMMA AgentInit == Init => AgentInv
<1> SUFFICES ASSUME Init PROVE AgentInv
  OBVIOUS
<1>1. ProbeTypeOK
  BY ProbeAssumption DEF Init, ProbeInit, ProbeTypeOK
<1>2. AgentTypes
  BY ProbeAssumption DEF Init, AgentTypes
<1>3. CountInv
  BY DEF Init, ProbeInit, CountInv, Uncounted, Untotalled
<1> QED
  BY <1>1, <1>2, <1>3 DEF AgentInv

\* What the invariant says of the counts.
LEMMA CountsBounded ==
  ASSUME AgentInv
  PROVE  /\ Len(ring) \in Nat /\ emitted \in 0 .. MaxEvents /\ MaxEvents \in Nat
         /\ \A c \in Containers : overrunCount[c] \in 0 .. MaxEvents
         /\ totalCnt \in 0 .. MaxEvents
<1>1. Len(ring) \in Nat /\ emitted \in 0 .. MaxEvents /\ MaxEvents \in Nat
  BY ProbeAssumption DEF AgentInv, ProbeTypeOK
<1>2. Uncounted \in Nat /\ Untotalled \in Nat
  BY DEF Uncounted, Untotalled
<1>3. totalCnt \in Nat /\ \A c \in Containers : overrunCount[c] \in Nat
  BY DEF AgentInv, AgentTypes
<1> QED
  BY <1>1, <1>2, <1>3 DEF AgentInv, CountInv

LEMMA ProbeKeepsAgent == AgentInv /\ Probe => AgentInv'
<1> SUFFICES ASSUME AgentInv, Probe PROVE AgentInv'
  OBVIOUS
<1>1. PICK s \in Servers : on_update_curr_dl_se(s) \/ Kernel(s)
  BY DEF Probe
<1>2. ProbeTypeOK /\ ProbeTypeOK'
  BY <1>1, CallTypes, KernelTypes DEF AgentInv
<1>3. AgentTypes' /\ Uncounted' = Uncounted /\ Untotalled' = Untotalled
      /\ UNCHANGED <<overrunCount, totalCnt>>
  BY DEF Probe, agentVars, AgentInv, AgentTypes, Uncounted, Untotalled
<1>4. \/ UNCHANGED <<ring, emitted>>
      \/ Submit(s)
  BY <1>1 DEF Kernel, Replenish, CreateServer, DestroyServer, SwitchTasks,
              on_update_curr_dl_se, Ignore, Report, Restore, Watch
<1>5. Len(ring) \in Nat /\ Len(ring') \in Nat /\ emitted \in Nat /\ emitted' \in Nat
      /\ Len(ring') - Len(ring) <= emitted' - emitted
  <2>1. Len(ring) \in Nat /\ emitted \in Nat /\ ring \in Seq(Event)
    BY <1>2, ProbeAssumption DEF ProbeTypeOK
  <2>2. CASE Submit(s)
    BY <1>2, <2>1, <2>2, SubmitTypes
  <2> QED
    BY <1>4, <2>1, <2>2
<1>6. CountInv'
  <2>1. Uncounted \in Nat /\ Untotalled \in Nat
    BY DEF Uncounted, Untotalled
  <2>2. totalCnt \in Nat /\ \A c \in Containers : overrunCount[c] \in Nat
    BY DEF AgentInv, AgentTypes
  <2> QED
    BY <1>3, <1>5, <2>1, <2>2 DEF AgentInv, CountInv
<1> QED
  BY <1>2, <1>3, <1>6 DEF AgentInv

\* A step that leaves the probe alone and takes no count back.
LEMMA AgentKeepsProbe ==
  ASSUME AgentInv, UNCHANGED probeVars, AgentTypes', UNCHANGED counts,
         Uncounted' <= Uncounted, Untotalled' <= Untotalled
  PROVE  AgentInv'
<1>1. ProbeTypeOK'
  BY DEF AgentInv, ProbeTypeOK, probeVars
<1>2. /\ Len(ring) \in Nat /\ emitted \in Nat
      /\ totalCnt \in Nat /\ \A c \in Containers : overrunCount[c] \in Nat
  BY CountsBounded DEF AgentInv, AgentTypes
<1>3. {Uncounted, Untotalled, Uncounted', Untotalled'} \subseteq Nat
  BY DEF Uncounted, Untotalled
<1>4. /\ Len(ring') = Len(ring) /\ emitted' = emitted
      /\ totalCnt' = totalCnt /\ overrunCount' = overrunCount
  BY DEF probeVars, counts
<1>5. /\ totalCnt + Untotalled + Len(ring) <= emitted
      /\ \A c \in Containers : overrunCount[c] + Uncounted + Len(ring) <= emitted
  BY DEF AgentInv, CountInv
<1>6. totalCnt + Untotalled' + Len(ring) <= emitted
  BY <1>2, <1>3, <1>5
<1>7. ASSUME NEW c \in Containers
      PROVE  overrunCount[c] + Uncounted' + Len(ring) <= emitted
  BY <1>2, <1>3, <1>5
<1>8. CountInv'
  BY <1>4, <1>6, <1>7 DEF CountInv
<1> QED
  BY <1>1, <1>8 DEF AgentInv

LEMMA LoopKeepsAgent == AgentInv /\ EventLoop => AgentInv'
<1> SUFFICES ASSUME AgentInv, EventLoop PROVE AgentInv'
  OBVIOUS
<1>1. /\ Len(ring) \in Nat /\ emitted \in Nat
      /\ totalCnt \in Nat /\ \A c \in Containers : overrunCount[c] \in Nat
  BY CountsBounded DEF AgentInv, AgentTypes
<1>2. CASE Read
  <2>1. ProbeTypeOK' /\ Head(ring) \in Event /\ Len(ring') = Len(ring) - 1
    BY <1>2, TakeTypes DEF Read, AgentInv
  <2>2. AgentTypes'
    BY <1>2, <2>1, AgentAssumption DEF Read, AgentInv, AgentTypes, counts, stats
  <2>3. CountInv'
    BY <1>1, <1>2, <2>1
       DEF Read, TakeEvent, AgentInv, CountInv, Uncounted, Untotalled, counts
  <2> QED
    BY <2>1, <2>2, <2>3 DEF AgentInv
<1>3. CASE Lookup
  <2>1. AgentTypes' /\ UNCHANGED probeVars /\ UNCHANGED counts
    BY <1>3 DEF Lookup, AgentInv, AgentTypes, counts, stats
  <2>2. Uncounted' <= Uncounted /\ Untotalled' <= Untotalled
    BY <1>3 DEF Lookup, Uncounted, Untotalled
  <2> QED
    BY <2>1, <2>2, AgentKeepsProbe
<1>4. CASE Count
  <2>1. /\ pc = "count" /\ UNCHANGED <<probeVars, totalCnt>>
        /\ overrunCount' = [overrunCount EXCEPT ![ev.cgid] = @ + 1]
        /\ pc' \in {"total", "ended"}
    BY <1>4 DEF Count, Detected
  <2>2. AgentTypes'
    <3>1. CASE pc' = "total" /\ UNCHANGED <<ev, stats>>
      BY <1>1, <1>4, <2>1, <3>1 DEF Count, AgentInv, AgentTypes, stats
    <3>2. CASE Detected
      <4>1. savedCount' \in [Containers -> -1 .. MaxEvents]
        BY <3>2, CountsBounded DEF Detected
      <4> QED
        BY <1>1, <1>4, <2>1, <3>2, <4>1 DEF Count, Detected, AgentInv, AgentTypes
    <3> QED
      BY <1>4, <3>1, <3>2 DEF Count
  <2>3. ProbeTypeOK'
    BY <2>1 DEF AgentInv, ProbeTypeOK, probeVars
  <2>4. \A c \in Containers : overrunCount'[c] <= overrunCount[c] + 1
    BY <1>1, <2>1 DEF AgentInv, AgentTypes
  <2>5. CountInv'
    <3>1. \A c \in Containers : overrunCount'[c] \in Nat
      BY <2>2 DEF AgentTypes
    <3> QED
      BY <1>1, <2>1, <2>4, <3>1 DEF AgentInv, CountInv, Uncounted, Untotalled, probeVars
  <2> QED
    BY <2>2, <2>3, <2>5 DEF AgentInv
<1>5. CASE CountTotal
  <2>1. AgentTypes'
    BY <1>1, <1>5 DEF CountTotal, AgentInv, AgentTypes, stats
  <2>2. ProbeTypeOK'
    BY <1>5 DEF CountTotal, AgentInv, ProbeTypeOK, probeVars
  <2>3. CountInv'
    BY <1>1, <1>5 DEF CountTotal, AgentInv, CountInv, Uncounted, Untotalled, probeVars
  <2> QED
    BY <2>1, <2>2, <2>3 DEF AgentInv
<1>6. CASE PostOK \/ PostFail
  <2>1. ev.cgid \in Containers /\ ev.ts \in 1 .. MaxEvents
    BY <1>6, AgentAssumption DEF PostOK, PostFail, AgentInv, AgentTypes, Event
  <2>2. AgentTypes' /\ UNCHANGED probeVars /\ UNCHANGED counts
    BY <1>6, <2>1 DEF PostOK, PostFail, AgentInv, AgentTypes, counts, stats
  <2>3. Uncounted' <= Uncounted /\ Untotalled' <= Untotalled
    BY <1>6 DEF PostOK, PostFail, Uncounted, Untotalled
  <2> QED
    BY <2>2, <2>3, AgentKeepsProbe
<1> QED
  BY <1>2, <1>3, <1>4, <1>5, <1>6 DEF EventLoop

\* The signal's goroutine and the cgroups.
LEMMA SaverKeepsAgent ==
  ASSUME AgentInv,
         \/ Signal \/ SaveStats
         \/ \E g \in Cgroups : CreateCgroup(g) \/ RemoveCgroup(g)
  PROVE  AgentInv'
<1>1. CASE Signal
  <2>1. AgentTypes' /\ UNCHANGED probeVars /\ UNCHANGED counts /\ pc' = pc
    BY <1>1, CountsBounded DEF Signal, loop, counts, AgentInv, AgentTypes
  <2> QED
    BY <2>1, AgentKeepsProbe DEF Uncounted, Untotalled
<1>2. ASSUME NEW c \in Containers, SaveCount(c) PROVE AgentInv'
  <2>1. overrunCount[c] \in -1 .. MaxEvents
    BY CountsBounded
  <2>2. AgentTypes' /\ UNCHANGED probeVars /\ UNCHANGED counts /\ pc' = pc
    BY <1>2, <2>1 DEF SaveCount, loop, counts, AgentInv, AgentTypes
  <2> QED
    BY <2>2, AgentKeepsProbe DEF Uncounted, Untotalled
<1>3. CASE Exit \/ ExitTruncated \/ FailToSave
  <2>1. savedCount' \in [Containers -> -1 .. MaxEvents]
    <3>1. savedCount \in [Containers -> -1 .. MaxEvents]
      BY DEF AgentInv, AgentTypes
    <3>2. CASE ExitTruncated
      <4>1. PICK rows \in SUBSET Containers :
              savedCount' = [c \in Containers |-> IF c \in rows THEN savedCount[c] ELSE -1]
        BY <3>2 DEF ExitTruncated
      <4>2. -1 \in -1 .. MaxEvents
        BY CountsBounded
      <4>3. \A c \in Containers : savedCount'[c] \in -1 .. MaxEvents
        BY <3>1, <4>1, <4>2
      <4> QED
        BY <4>1, <4>3
    <3> QED
      BY <1>3, <3>1, <3>2 DEF Exit, FailToSave
  <2>2. AgentTypes' /\ UNCHANGED probeVars /\ UNCHANGED counts /\ pc' = "ended"
    BY <1>3, <2>1 DEF Exit, ExitTruncated, FailToSave, counts, AgentInv, AgentTypes
  <2> QED
    BY <2>2, AgentKeepsProbe DEF Uncounted, Untotalled
<1>4. ASSUME NEW g \in Cgroups, CreateCgroup(g) \/ RemoveCgroup(g) PROVE AgentInv'
  <2>1. AgentTypes' /\ UNCHANGED probeVars /\ UNCHANGED counts /\ pc' = pc
    BY <1>4 DEF CreateCgroup, RemoveCgroup, loop, counts, stats, AgentInv, AgentTypes
  <2> QED
    BY <2>1, AgentKeepsProbe DEF Uncounted, Untotalled
<1> QED
  BY <1>1, <1>2, <1>3, <1>4 DEF SaveStats

LEMMA AgentInvStep == AgentInv /\ [Next]_vars => AgentInv'
<1> SUFFICES ASSUME AgentInv, [Next]_vars PROVE AgentInv'
  OBVIOUS
<1>1. CASE UNCHANGED vars
  <2>1. AgentTypes' /\ UNCHANGED probeVars /\ UNCHANGED counts /\ pc' = pc
    BY <1>1 DEF vars, probeVars, counts, AgentInv, AgentTypes
  <2> QED
    BY <2>1, AgentKeepsProbe DEF Uncounted, Untotalled
<1> QED
  BY <1>1, ProbeKeepsAgent, LoopKeepsAgent, SaverKeepsAgent DEF Next

\* The types of the agent's state: no count passes the number of overruns, and
\* the ring buffer never holds more than fit.
THEOREM AgentTypeCorrect == Spec => []TypeOK
<1>1. AgentInv => TypeOK
  BY CountsBounded DEF AgentInv, AgentTypes, TypeOK
<1> QED
  BY <1>1, AgentInit, AgentInvStep, PTL DEF Spec

-----------------------------------------------------------------------------
(***************************************************************************)
(* Sums.  MapThenSumSet is a fold over the subsets of a set; what a proof  *)
(* needs of it follows by induction, in the form of a smallest subset for  *)
(* which a fact fails.                                                     *)
(***************************************************************************)

\* The sum of f[x] over the elements x of S.
Sum(f, S) == MapThenSumSet(LAMBDA x : f[x], S)

\* The element the fold takes out of T.
AnyOf(T) == CHOOSE x \in T : TRUE

\* g is the function the fold defines recursively: the sums over the subsets of S.
Sums(g, f, S) ==
  g = [T \in SUBSET S |-> IF T = {} THEN 0 ELSE f[AnyOf(T)] + g[T \ {AnyOf(T)}]]

\* Of the subsets of a finite set that fail to have a property, one is smallest: the
\* induction of all the lemmas that follow.
LEMMA SmallestSubset ==
  ASSUME NEW S, IsFiniteSet(S), NEW D \in SUBSET (SUBSET S), D # {}
  PROVE  \E T \in D : \A U \in SUBSET T : U # T => U \notin D
<1>1. IsWellFoundedOn(StrictSubsetOrdering(S), SUBSET S)
  BY FS_StrictSubsetOrderingWellFounded, FS_FiniteSubsetsOfFinite
<1>2. PICK T \in D : \A U \in D : <<U, T>> \notin StrictSubsetOrdering(S)
  BY <1>1, WFMin
<1>3. \A U \in D : ~ (U \subseteq T /\ U # T)
  BY <1>2 DEF StrictSubsetOrdering
<1> QED
  BY <1>3

LEMMA SumIsChosen ==
  ASSUME NEW f, NEW S
  PROVE  Sum(f, S) = (CHOOSE g : Sums(g, f, S))[S]
BY DEF Sum, MapThenSumSet, MapThenFoldSet, Sums, AnyOf

\* There is one such function on a finite set, ...
LEMMA SumsUnique ==
  ASSUME NEW f, NEW S, IsFiniteSet(S), NEW g, NEW h, Sums(g, f, S), Sums(h, f, S)
  PROVE  \A T \in SUBSET S : g[T] = h[T]
<1> DEFINE D == {T \in SUBSET S : g[T] # h[T]}
<1>1. SUFFICES ASSUME D # {} PROVE FALSE
  OBVIOUS
<1>2. PICK T \in D : \A U \in SUBSET T : U # T => U \notin D
  <2>1. D \in SUBSET (SUBSET S)
    OBVIOUS
  <2> HIDE DEF D
  <2> QED
    BY <1>1, <2>1, SmallestSubset
<1>3. CASE T = {}
  BY <1>2, <1>3 DEF Sums
<1>4. CASE T # {}
  <2>1. AnyOf(T) \in T
    BY <1>4 DEF AnyOf
  <2>2. g[T \ {AnyOf(T)}] = h[T \ {AnyOf(T)}]
    BY <1>2, <2>1
  <2>3. g[T] = f[AnyOf(T)] + g[T \ {AnyOf(T)}] /\ h[T] = f[AnyOf(T)] + h[T \ {AnyOf(T)}]
    BY <1>2, <1>4 DEF Sums
  <2> QED
    BY <1>2, <2>2, <2>3
<1> QED
  BY <1>3, <1>4

LEMMA SumsRestrict ==
  ASSUME NEW f, NEW S, NEW g, Sums(g, f, S), NEW T \in SUBSET S
  PROVE  Sums([U \in SUBSET T |-> g[U]], f, T)
<1> DEFINE h == [U \in SUBSET T |-> g[U]]
<1>1. ASSUME NEW U \in SUBSET T
      PROVE  h[U] = IF U = {} THEN 0 ELSE f[AnyOf(U)] + h[U \ {AnyOf(U)}]
  <2>1. U \in SUBSET S /\ U \ {AnyOf(U)} \in SUBSET T
    OBVIOUS
  <2>2. g[U] = IF U = {} THEN 0 ELSE f[AnyOf(U)] + g[U \ {AnyOf(U)}]
    BY <2>1 DEF Sums
  <2> QED
    BY <2>1, <2>2
<1> HIDE DEF h
<1>2. h = [U \in SUBSET T |-> h[U]]
  BY DEF h
<1>3. h = [U \in SUBSET T |-> IF U = {} THEN 0 ELSE f[AnyOf(U)] + h[U \ {AnyOf(U)}]]
  BY <1>1, <1>2
<1> QED
  BY <1>3 DEF Sums, h

\* ... the same on every larger set ...
LEMMA SumOfSums ==
  ASSUME NEW f, NEW S, IsFiniteSet(S), NEW g, Sums(g, f, S), NEW T \in SUBSET S
  PROVE  Sum(f, T) = g[T]
<1> DEFINE h == [U \in SUBSET T |-> g[U]]
           k == CHOOSE k : Sums(k, f, T)
<1>1. Sums(h, f, T)
  BY SumsRestrict
<1>2. h[T] = g[T]
  OBVIOUS
<1> HIDE DEF h
<1>3. Sums(k, f, T)
  BY <1>1
<1>4. IsFiniteSet(T)
  BY FS_Subset
<1>5. k[T] = h[T]
  BY <1>1, <1>3, <1>4, SumsUnique
<1> QED
  BY <1>2, <1>5, SumIsChosen

\* ... and there is always one.
LEMMA SumsExists ==
  ASSUME NEW f, NEW S, IsFiniteSet(S)
  PROVE  \E g : Sums(g, f, S)
<1> DEFINE D == {T \in SUBSET S : ~ \E g : Sums(g, f, T)}
<1>1. SUFFICES ASSUME D # {} PROVE FALSE
  OBVIOUS
<1>2. PICK T \in D : \A U \in SUBSET T : U # T => U \notin D
  <2>1. D \in SUBSET (SUBSET S)
    OBVIOUS
  <2> HIDE DEF D
  <2> QED
    BY <1>1, <2>1, SmallestSubset
<1>3. T \in SUBSET S /\ ~ \E g : Sums(g, f, T)
  BY <1>2
<1>4. \A U \in SUBSET T : U # T => U \in SUBSET S /\ \E g : Sums(g, f, U)
  BY <1>2, <1>3
<1> HIDE DEF D
<1>5. IsFiniteSet(T)
  BY <1>3, FS_Subset
<1> DEFINE Value(U) == IF U = {} THEN 0 ELSE f[AnyOf(U)] + Sum(f, U \ {AnyOf(U)})
           h == [U \in SUBSET T |-> Value(U)]
<1>6. ASSUME NEW U \in SUBSET T, U # T PROVE Sum(f, U) = Value(U)
  <2>1. PICK g : Sums(g, f, U)
    BY <1>4, <1>6
  <2>2. IsFiniteSet(U)
    BY <1>5, FS_Subset
  <2>3. U \ {AnyOf(U)} \in SUBSET U /\ U \in SUBSET U
    OBVIOUS
  <2>4. Sum(f, U) = g[U] /\ Sum(f, U \ {AnyOf(U)}) = g[U \ {AnyOf(U)}]
    BY <2>1, <2>2, <2>3, SumOfSums
  <2> QED
    BY <2>1, <2>3, <2>4 DEF Sums
<1>7. ASSUME NEW U \in SUBSET T
      PROVE  Value(U) = IF U = {} THEN 0 ELSE f[AnyOf(U)] + Value(U \ {AnyOf(U)})
  <2>1. CASE U = {}
    BY <2>1
  <2>2. CASE U # {}
    <3>1. AnyOf(U) \in U
      BY <2>2 DEF AnyOf
    <3>2. Sum(f, U \ {AnyOf(U)}) = Value(U \ {AnyOf(U)})
      <4>1. U \ {AnyOf(U)} \in SUBSET T /\ U \ {AnyOf(U)} # T
        BY <3>1
      <4> HIDE DEF Value
      <4> QED
        BY <4>1, <1>6
    <3> QED
      BY <2>2, <3>2
  <2> QED
    BY <2>1, <2>2
<1> HIDE DEF Value
<1>8. h = [U \in SUBSET T |-> IF U = {} THEN 0 ELSE f[AnyOf(U)] + h[U \ {AnyOf(U)}]]
  <2>1. \A U \in SUBSET T : h[U \ {AnyOf(U)}] = Value(U \ {AnyOf(U)})
    OBVIOUS
  <2> QED
    BY <1>7, <2>1
<1>9. Sums(h, f, T)
  BY <1>8 DEF Sums
<1> QED
  BY <1>3, <1>9

\* The fold does what its definition says.
LEMMA SumRecursion ==
  ASSUME NEW f, NEW S, IsFiniteSet(S)
  PROVE  /\ Sum(f, {}) = 0
         /\ S # {} => Sum(f, S) = f[AnyOf(S)] + Sum(f, S \ {AnyOf(S)})
<1>1. PICK g : Sums(g, f, S)
  BY SumsExists
<1>2. /\ Sum(f, S) = g[S] /\ Sum(f, {}) = g[{}]
      /\ Sum(f, S \ {AnyOf(S)}) = g[S \ {AnyOf(S)}]
  <2>1. \A T \in SUBSET S : Sum(f, T) = g[T]
    BY <1>1, SumOfSums
  <2> QED
    BY <2>1
<1> QED
  BY <1>1, <1>2 DEF Sums

LEMMA SumType ==
  ASSUME NEW f, NEW S, IsFiniteSet(S), \A x \in S : f[x] \in Int
  PROVE  Sum(f, S) \in Int
<1> DEFINE D == {T \in SUBSET S : Sum(f, T) \notin Int}
<1>1. SUFFICES ASSUME D # {} PROVE FALSE
  OBVIOUS
<1>2. PICK T \in D : \A U \in SUBSET T : U # T => U \notin D
  <2>1. D \in SUBSET (SUBSET S)
    OBVIOUS
  <2> HIDE DEF D
  <2> QED
    BY <1>1, <2>1, SmallestSubset
<1>3. /\ Sum(f, {}) = 0
      /\ T # {} => Sum(f, T) = f[AnyOf(T)] + Sum(f, T \ {AnyOf(T)})
  <2>1. IsFiniteSet(T)
    BY <1>2, FS_Subset
  <2> QED
    BY <2>1, SumRecursion
<1>4. T # {}
  <2>1. Sum(f, T) \notin Int
    BY <1>2
  <2> HIDE DEF D
  <2> QED
    BY <1>3, <2>1
<1>5. AnyOf(T) \in T
  BY <1>4 DEF AnyOf
<1>6. Sum(f, T \ {AnyOf(T)}) \in Int /\ f[AnyOf(T)] \in Int
  BY <1>2, <1>5
<1> QED
  BY <1>2, <1>3, <1>4, <1>6

\* Whichever element is taken out first, the sum is the same.
LEMMA SumRemove ==
  ASSUME NEW f, NEW S, IsFiniteSet(S), \A x \in S : f[x] \in Int,
         NEW c \in S
  PROVE  Sum(f, S) = f[c] + Sum(f, S \ {c})
<1> DEFINE D == {T \in SUBSET S : \E x \in T : Sum(f, T) # f[x] + Sum(f, T \ {x})}
<1>1. SUFFICES ASSUME D # {} PROVE FALSE
  OBVIOUS
<1>2. PICK T \in D : \A U \in SUBSET T : U # T => U \notin D
  <2>1. D \in SUBSET (SUBSET S)
    OBVIOUS
  <2> HIDE DEF D
  <2> QED
    BY <1>1, <2>1, SmallestSubset
<1>3. PICK x \in T : Sum(f, T) # f[x] + Sum(f, T \ {x})
  BY <1>2
<1> DEFINE p == AnyOf(T)
<1>4. p \in T
  BY <1>3 DEF AnyOf
<1>5. \A U \in SUBSET T : IsFiniteSet(U) /\ Sum(f, U) \in Int
  <2> SUFFICES ASSUME NEW U \in SUBSET T PROVE IsFiniteSet(U) /\ Sum(f, U) \in Int
    OBVIOUS
  <2>1. U \in SUBSET S
    BY <1>2
  <2>2. IsFiniteSet(U)
    BY <2>1, FS_Subset
  <2>3. \A y \in U : f[y] \in Int
    BY <2>1
  <2> QED
    BY <2>2, <2>3, SumType
<1>6. Sum(f, T) = f[p] + Sum(f, T \ {p})
  BY <1>3, <1>5, SumRecursion
<1>7. p # x
  BY <1>3, <1>6
<1>8. \A U \in SUBSET T : U # T => \A y \in U : Sum(f, U) = f[y] + Sum(f, U \ {y})
  BY <1>2
<1>9. T \in SUBSET S
  BY <1>2
<1> HIDE DEF D, p
<1>10. Sum(f, T \ {p}) = f[x] + Sum(f, (T \ {p}) \ {x})
  <2>1. T \ {p} \in SUBSET T /\ T \ {p} # T /\ x \in T \ {p}
    BY <1>4, <1>7
  <2> QED
    BY <1>8, <2>1
<1>11. Sum(f, T \ {x}) = f[p] + Sum(f, (T \ {x}) \ {p})
  <2>1. T \ {x} \in SUBSET T /\ T \ {x} # T /\ p \in T \ {x}
    BY <1>4, <1>7
  <2> QED
    BY <1>8, <2>1
<1> DEFINE R == (T \ {p}) \ {x}
<1>12. R = (T \ {x}) \ {p} /\ R \in SUBSET T
  OBVIOUS
<1>13. f[x] \in Int /\ f[p] \in Int /\ Sum(f, R) \in Int
  <2>1. p \in S /\ x \in S
    BY <1>4, <1>9
  <2> HIDE DEF R
  <2> QED
    BY <1>5, <1>12, <2>1
<1>14. Sum(f, T \ {p}) = f[x] + Sum(f, R) /\ Sum(f, T \ {x}) = f[p] + Sum(f, R)
  BY <1>10, <1>11, <1>12
<1> HIDE DEF R
<1> QED
  BY <1>3, <1>6, <1>13, <1>14

\* Larger values have a larger sum.
LEMMA SumMonotone ==
  ASSUME NEW f, NEW g, NEW S, IsFiniteSet(S),
         \A x \in S : f[x] \in Int /\ g[x] \in Int /\ f[x] <= g[x]
  PROVE  Sum(f, S) <= Sum(g, S)
<1> DEFINE D == {T \in SUBSET S : ~ (Sum(f, T) <= Sum(g, T))}
<1>1. SUFFICES ASSUME D # {} PROVE FALSE
  OBVIOUS
<1>2. PICK T \in D : \A U \in SUBSET T : U # T => U \notin D
  <2>1. D \in SUBSET (SUBSET S)
    OBVIOUS
  <2> HIDE DEF D
  <2> QED
    BY <1>1, <2>1, SmallestSubset
<1> DEFINE p == AnyOf(T)
           R == T \ {p}
<1>3. IsFiniteSet(T) /\ T \in SUBSET S
  BY <1>2, FS_Subset
<1>4. /\ Sum(f, {}) = 0 /\ Sum(g, {}) = 0
      /\ T # {} => /\ Sum(f, T) = f[p] + Sum(f, R)
                   /\ Sum(g, T) = g[p] + Sum(g, R)
  BY <1>3, SumRecursion
<1>5. T # {}
  <2>1. ~ (Sum(f, T) <= Sum(g, T))
    BY <1>2
  <2> HIDE DEF D, p, R
  <2>2. T = {} => Sum(f, T) = 0 /\ Sum(g, T) = 0
    BY <1>4
  <2>3. 0 <= 0
    OBVIOUS
  <2> QED
    BY <2>1, <2>2, <2>3
<1>6. p \in T
  BY <1>5 DEF AnyOf
<1>7. Sum(f, R) <= Sum(g, R)
  BY <1>2, <1>3, <1>6
<1>8. Sum(f, R) \in Int /\ Sum(g, R) \in Int
  <2>1. IsFiniteSet(R) /\ \A x \in R : f[x] \in Int /\ g[x] \in Int
    BY <1>3, FS_Subset
  <2> HIDE DEF R
  <2> QED
    BY <2>1, SumType
<1>9. f[p] \in Int /\ g[p] \in Int /\ f[p] <= g[p]
  BY <1>3, <1>6
<1>10. ~ (Sum(f, T) <= Sum(g, T))
  BY <1>2
<1> QED
  BY <1>4, <1>5, <1>7, <1>8, <1>9, <1>10

\* Only the values on the set matter.
LEMMA SumSame ==
  ASSUME NEW f, NEW g, NEW S, IsFiniteSet(S),
         \A x \in S : f[x] \in Int /\ g[x] = f[x]
  PROVE  Sum(g, S) = Sum(f, S)
<1>1. Sum(f, S) \in Int /\ Sum(g, S) \in Int
  BY SumType
<1>2. Sum(f, S) <= Sum(g, S) /\ Sum(g, S) <= Sum(f, S)
  BY SumMonotone
<1> QED
  BY <1>1, <1>2

\* Raising one value raises the sum.
LEMMA SumRaise ==
  ASSUME NEW f, NEW g, NEW S, IsFiniteSet(S), NEW c \in S, NEW n \in Int,
         \A x \in S : f[x] \in Int,
         \A x \in S : g[x] = IF x = c THEN f[x] + n ELSE f[x]
  PROVE  Sum(g, S) = Sum(f, S) + n
<1> DEFINE R == S \ {c}
<1>1. IsFiniteSet(R) /\ \A x \in R : f[x] \in Int /\ g[x] = f[x]
  BY FS_Subset
<1>2. \A x \in S : g[x] \in Int
  OBVIOUS
<1>3. Sum(f, S) = f[c] + Sum(f, R) /\ Sum(g, S) = g[c] + Sum(g, R)
  BY <1>2, SumRemove
<1> HIDE DEF R
<1>4. Sum(g, R) = Sum(f, R) /\ Sum(f, R) \in Int
  BY <1>1, SumSame, SumType
<1>5. f[c] \in Int /\ g[c] = f[c] + n
  OBVIOUS
<1> QED
  BY <1>3, <1>4, <1>5

\* Elements with the value zero do not count.
LEMMA SumNonzero ==
  ASSUME NEW f, NEW S, IsFiniteSet(S), NEW T \in SUBSET S,
         \A x \in S : f[x] \in Int,
         \A x \in S \ T : f[x] = 0
  PROVE  Sum(f, T) = Sum(f, S)
<1> DEFINE D == {U \in SUBSET S : T \subseteq U /\ Sum(f, U) # Sum(f, T)}
<1>1. SUFFICES ASSUME D # {} PROVE FALSE
  OBVIOUS
<1>2. PICK U \in D : \A V \in SUBSET U : V # U => V \notin D
  <2>1. D \in SUBSET (SUBSET S)
    OBVIOUS
  <2> HIDE DEF D
  <2> QED
    BY <1>1, <2>1, SmallestSubset
<1>3. U \in SUBSET S /\ T \subseteq U /\ Sum(f, U) # Sum(f, T)
  BY <1>2
<1>4. PICK x \in U : x \notin T
  BY <1>3
<1>5. Sum(f, U \ {x}) = Sum(f, T)
  BY <1>2, <1>3, <1>4
<1>6. IsFiniteSet(U) /\ \A y \in U : f[y] \in Int
  BY <1>3, FS_Subset
<1>7. Sum(f, U) = f[x] + Sum(f, U \ {x})
  BY <1>6, SumRemove
<1>8. f[x] = 0
  BY <1>3, <1>4
<1>9. Sum(f, T) \in Int
  <2>1. IsFiniteSet(T) /\ \A y \in T : f[y] \in Int
    BY FS_Subset
  <2> QED
    BY <2>1, SumType
<1> QED
  BY <1>3, <1>5, <1>7, <1>8, <1>9
-----------------------------------------------------------------------------
(***************************************************************************)
(* The statistics file.  The counts that saveStats has not copied yet can  *)
(* only be raised, so that whenever it gets to them they make up, with     *)
(* those it has, for the total it took before.                             *)
(***************************************************************************)

\* The file if saveStats copied the counts it has not all at once.
Merged == [c \in Containers |-> IF savedCount[c] >= 0 THEN savedCount[c] ELSE overrunCount[c]]

\* An overrun that a container was counted and the total was not yet.
Ahead == IF pc = "total" THEN 1 ELSE 0

SaveInv ==
  /\ totalCnt + Ahead <= Total(overrunCount)
  /\ saver = "waiting" => \A c \in Containers : savedCount[c] = -1
  /\ saver = "saving" => savedTotal <= Total(Merged)
  /\ saver = "saved" => /\ savedTotal <= Total(savedCount)
                        /\ \A c \in Containers : savedCount[c] >= 0

LEMMA TotalIsSum == \A f : Total(f) = Sum(f, Containers)
BY DEF Total, Sum

LEMMA MergedTypes ==
  ASSUME AgentInv
  PROVE  /\ IsFiniteSet(Containers)
         /\ \A c \in Containers :
              overrunCount[c] \in Nat /\ savedCount[c] \in Int /\ Merged[c] \in Nat
         /\ Total(overrunCount) \in Int /\ Total(savedCount) \in Int /\ Total(Merged) \in Int
         /\ totalCnt \in Nat /\ savedTotal \in Nat
<1>1. \A c \in Containers : overrunCount[c] \in Nat /\ savedCount[c] \in -1 .. MaxEvents
  BY DEF AgentInv, AgentTypes
<1>2. MaxEvents \in Nat /\ totalCnt \in Nat /\ savedTotal \in Nat
  BY CountsBounded DEF AgentInv, AgentTypes
<1>3. \A c \in Containers : savedCount[c] \in Int /\ Merged[c] \in Nat
  BY <1>1, <1>2 DEF Merged
<1>4. IsFiniteSet(Containers)
  BY AgentAssumption
<1> QED
  BY <1>1, <1>2, <1>3, <1>4, TotalIsSum, SumType

LEMMA SaveInvInit == Init => SaveInv
<1> SUFFICES ASSUME Init PROVE SaveInv
  OBVIOUS
<1>1. overrunCount = [c \in Containers |-> 0] /\ IsFiniteSet(Containers)
  BY AgentAssumption DEF Init
<1>2. {} \in SUBSET Containers /\ \A c \in Containers : overrunCount[c] \in Int /\ overrunCount[c] = 0
  BY <1>1
<1>3. Sum(overrunCount, {}) = Sum(overrunCount, Containers)
  BY <1>1, <1>2, SumNonzero
<1>4. Sum(overrunCount, {}) = 0
  BY <1>1, SumRecursion
<1> QED
  BY <1>3, <1>4, TotalIsSum DEF Init, SaveInv, Ahead

\* A step that leaves the counts and the file alone.
LEMMA StatsAlone ==
  ASSUME AgentInv, SaveInv, UNCHANGED counts, UNCHANGED stats, Ahead' <= Ahead
  PROVE  SaveInv'
<1>1. /\ overrunCount' = overrunCount /\ totalCnt' = totalCnt
      /\ saver' = saver /\ savedTotal' = savedTotal /\ savedCount' = savedCount
  BY DEF counts, stats
<1>2. Merged' = Merged
  BY <1>1 DEF Merged
<1>3. totalCnt + Ahead' <= Total(overrunCount)
  <2>1. Ahead \in Nat /\ Ahead' \in Nat /\ totalCnt + Ahead <= Total(overrunCount)
    BY DEF Ahead, SaveInv
  <2> QED
    BY <2>1, MergedTypes
<1> QED
  BY <1>1, <1>2, <1>3 DEF SaveInv

\* A count is raised before the total; the file that would result only grows.
LEMMA CountKeepsSave ==
  ASSUME AgentInv, AgentInv', SaveInv, Count
  PROVE  SaveInv'
<1> DEFINE c == ev.cgid
<1>1. /\ pc = "count" /\ c \in Containers /\ overrunCount \in [Containers -> Nat]
      /\ overrunCount' = [overrunCount EXCEPT ![c] = @ + 1]
      /\ totalCnt' = totalCnt /\ savedTotal' = savedTotal
      /\ \/ saver' = saver /\ savedCount' = savedCount
         \/ saver = "saving" /\ saver' = "truncated"
  BY DEF Count, Detected, stats, AgentInv, AgentTypes
<1> HIDE DEF c
<1>2. \A d \in Containers :
        overrunCount'[d] = IF d = c THEN overrunCount[d] + 1 ELSE overrunCount[d]
  BY <1>1
<1>3. Total(overrunCount') = Total(overrunCount) + 1
  <2>1. IsFiniteSet(Containers) /\ c \in Containers /\ 1 \in Int
    BY <1>1, AgentAssumption
  <2>2. \A d \in Containers : overrunCount[d] \in Int
    BY <1>1
  <2>3. Sum(overrunCount', Containers) = Sum(overrunCount, Containers) + 1
    BY <1>2, <2>1, <2>2, SumRaise
  <2> QED
    BY <2>3, TotalIsSum
<1>4. ASSUME savedCount' = savedCount PROVE Total(Merged) <= Total(Merged')
  <2>1. \A d \in Containers :
          Merged[d] \in Int /\ Merged'[d] \in Int /\ Merged[d] <= Merged'[d]
    <3> SUFFICES ASSUME NEW d \in Containers
                 PROVE  Merged[d] \in Int /\ Merged'[d] \in Int /\ Merged[d] <= Merged'[d]
      OBVIOUS
    <3>1. overrunCount[d] \in Nat /\ savedCount[d] \in Int
      BY MergedTypes
    <3>2. overrunCount'[d] = overrunCount[d] \/ overrunCount'[d] = overrunCount[d] + 1
      BY <1>2
    <3>3. savedCount'[d] = savedCount[d]
      BY <1>4
    <3> QED
      BY <3>1, <3>2, <3>3 DEF Merged
  <2> QED
    BY <2>1, MergedTypes, TotalIsSum, SumMonotone
<1>5. totalCnt' + Ahead' <= Total(overrunCount')
  <2>1. Ahead = 0 /\ Ahead' \in 0 .. 1 /\ totalCnt + Ahead <= Total(overrunCount)
    BY <1>1 DEF Ahead, SaveInv
  <2> QED
    BY <1>1, <1>3, <2>1, MergedTypes
<1>6. ASSUME saver = "saving", savedCount' = savedCount
      PROVE  savedTotal' <= Total(Merged')
  <2>1. Total(Merged') \in Int
    <3>1. \A d \in Containers : Merged'[d] \in Int
      BY <1>1, <1>2, <1>6, MergedTypes DEF Merged
    <3> QED
      BY <3>1, MergedTypes, TotalIsSum, SumType
  <2> QED
    BY <1>1, <1>4, <1>6, <2>1, MergedTypes DEF SaveInv
<1> QED
  BY <1>1, <1>5, <1>6 DEF SaveInv

\* The signal finds no count copied, and the counts at least at the total.
LEMMA SignalKeepsSave ==
  ASSUME AgentInv, SaveInv, Signal
  PROVE  SaveInv'
<1>1. /\ saver = "waiting" /\ saver' = "saving" /\ savedTotal' = totalCnt
      /\ savedCount' = savedCount /\ overrunCount' = overrunCount /\ totalCnt' = totalCnt
      /\ pc' = pc
  BY DEF Signal, counts, loop
<1>2. Merged' = Merged /\ Ahead' = Ahead
  BY <1>1 DEF Merged, Ahead
<1>3. \A c \in Containers : overrunCount[c] \in Int /\ Merged[c] = overrunCount[c]
  BY <1>1, MergedTypes DEF SaveInv, Merged
<1>4. Total(Merged) = Total(overrunCount)
  BY <1>3, MergedTypes, TotalIsSum, SumSame
<1>5. totalCnt <= Total(overrunCount)
  <2>1. Ahead \in Nat /\ totalCnt + Ahead <= Total(overrunCount)
    BY DEF Ahead, SaveInv
  <2> QED
    BY <2>1, MergedTypes
<1> QED
  BY <1>1, <1>2, <1>4, <1>5 DEF SaveInv

\* Copying a count changes nothing in the file that results.
LEMMA CopyKeepsSave ==
  ASSUME AgentInv, SaveInv, NEW c \in Containers, SaveCount(c)
  PROVE  SaveInv'
<1>1. /\ saver = "saving" /\ saver' = saver /\ savedTotal' = savedTotal
      /\ overrunCount' = overrunCount /\ totalCnt' = totalCnt /\ pc' = pc
      /\ savedCount[c] = -1 /\ savedCount' = [savedCount EXCEPT ![c] = overrunCount[c]]
  BY DEF SaveCount, counts, loop
<1>2. savedCount \in [Containers -> -1 .. MaxEvents]
  BY DEF AgentInv, AgentTypes
<1>3. \A d \in Containers : savedCount'[d] = IF d = c THEN overrunCount[d] ELSE savedCount[d]
  BY <1>1, <1>2
<1>4. \A d \in Containers : Merged[d] \in Int /\ Merged'[d] = Merged[d]
  BY <1>1, <1>3, MergedTypes DEF Merged
<1>5. Total(Merged') = Total(Merged)
  BY <1>4, MergedTypes, TotalIsSum, SumSame
<1>6. Ahead' = Ahead
  BY <1>1 DEF Ahead
<1> QED
  BY <1>1, <1>5, <1>6 DEF SaveInv

\* When every count has been copied, that file is the one that is written, if it is
\* written whole.
LEMMA ExitKeepsSave ==
  ASSUME AgentInv, SaveInv, Exit \/ ExitTruncated \/ FailToSave
  PROVE  SaveInv'
<1>1. /\ saver = "saving" /\ savedTotal' = savedTotal
      /\ overrunCount' = overrunCount /\ totalCnt' = totalCnt /\ pc' = "ended"
  BY DEF Exit, ExitTruncated, FailToSave, counts
<1>2. totalCnt + Ahead' <= Total(overrunCount)
  <2>1. Ahead \in Nat /\ Ahead' = 0 /\ totalCnt + Ahead <= Total(overrunCount)
    BY <1>1 DEF Ahead, SaveInv
  <2> QED
    BY <2>1, MergedTypes
<1>3. CASE Exit
  <2>1. /\ saver' = "saved" /\ savedCount' = savedCount
        /\ \A c \in Containers : savedCount[c] >= 0
    BY <1>3 DEF Exit
  <2>2. \A c \in Containers : savedCount[c] \in Int /\ Merged[c] = savedCount[c]
    BY <2>1, MergedTypes DEF Merged
  <2>3. Total(Merged) = Total(savedCount)
    BY <2>2, MergedTypes, TotalIsSum, SumSame
  <2> QED
    BY <1>1, <1>2, <2>1, <2>3 DEF SaveInv
<1>4. CASE ExitTruncated \/ FailToSave
  <2>1. saver' \in {"truncated", "failed"}
    BY <1>4 DEF ExitTruncated, FailToSave
  <2> QED
    BY <1>1, <1>2, <2>1 DEF SaveInv
<1> QED
  BY <1>3, <1>4

LEMMA SaveInvStep == AgentInv /\ AgentInv' /\ SaveInv /\ [Next]_vars => SaveInv'
<1> SUFFICES ASSUME AgentInv, AgentInv', SaveInv, [Next]_vars PROVE SaveInv'
  OBVIOUS
<1>1. CASE UNCHANGED vars
  BY <1>1, StatsAlone DEF vars, counts, stats, Ahead
<1>2. CASE Probe
  BY <1>2, StatsAlone DEF Probe, agentVars, counts, stats, Ahead
<1>3. ASSUME NEW g \in Cgroups, CreateCgroup(g) \/ RemoveCgroup(g) PROVE SaveInv'
  BY <1>3, StatsAlone DEF CreateCgroup, RemoveCgroup, loop, Ahead
<1>4. CASE Read \/ Lookup \/ PostOK \/ PostFail
  <2>1. UNCHANGED counts /\ UNCHANGED stats /\ pc' # "total"
    BY <1>4 DEF Read, Lookup, PostOK, PostFail
  <2> QED
    BY <2>1, StatsAlone DEF Ahead
<1>5. CASE CountTotal
  <2>1. /\ pc = "total" /\ pc' = "post" /\ totalCnt' = totalCnt + 1
        /\ overrunCount' = overrunCount /\ UNCHANGED stats
    BY <1>5 DEF CountTotal
  <2>2. Merged' = Merged
    BY <2>1 DEF Merged, stats
  <2>3. totalCnt' + Ahead' <= Total(overrunCount')
    BY <2>1, MergedTypes DEF Ahead, SaveInv
  <2> QED
    BY <2>1, <2>2, <2>3 DEF SaveInv, stats
<1> QED
  BY <1>1, <1>2, <1>3, <1>4, <1>5, CountKeepsSave, SignalKeepsSave, CopyKeepsSave,
     ExitKeepsSave DEF Next, EventLoop, SaveStats

\* What saveStats (main.go) writes adds up to at least the total it writes, for all
\* numbers of containers and events, although the event loop runs on while it copies
\* the counts and takes no lock.
THEOREM TotalCovered == Spec => []SavedTotalCovered
<1>1. AgentInv /\ SaveInv /\ [Next]_vars => AgentInv' /\ SaveInv'
  BY AgentInvStep, SaveInvStep
<1>2. AgentInv /\ SaveInv => SavedTotalCovered
  BY MergedTypes DEF SaveInv, SavedTotalCovered
<1>3. Init => AgentInv /\ SaveInv
  BY AgentInit, SaveInvInit
<1> QED
  BY <1>1, <1>2, <1>3, PTL DEF Spec

-----------------------------------------------------------------------------
(***************************************************************************)
(* The agent implements OverrunLog.  The event in the hand of the event    *)
(* loop is older than all in the ring buffer, which are in the order of    *)
(* their overruns.                                                         *)
(***************************************************************************)

AgentOrder ==
  /\ RingOrder
  /\ \A h \in InHand : h <= emitted /\ \A t \in RingTimes : h < t

\* What OverrunLog sees of the agent.
Held == IF pc = "ended" THEN {} ELSE RingTimes \cup InHand
Heard == {r[2] : r \in received}

LogStep == [Log!Next]_<<pc # "ended", emitted, Held, Heard>>

LEMMA LogStepIs == LogStep => [Log!Next]_(Log!log)
  BY DEF LogStep, Log!log, Held, Heard

LEMMA HeldTypes ==
  ASSUME AgentInv
  PROVE  /\ \A h \in InHand : h \in Nat
         /\ pc \in {"lookup", "count", "total", "post"} => ev.ts \in Nat /\ InHand = {ev.ts}
         /\ pc \in {"read", "ended"} => InHand = {}
<1>1. \A e \in Event : e.ts \in Nat
  BY ProbeAssumption DEF Event
<1>2. pc \in {"lookup", "count", "total", "post"} => ev \in Event
  BY DEF AgentInv, AgentTypes
<1> QED
  BY <1>1, <1>2 DEF InHand

\* A step that OverrunLog does not see.
LEMMA LogStutters ==
  ASSUME AgentOrder, UNCHANGED <<ring, emitted, received>>,
         (pc = "ended") = (pc' = "ended"), InHand' = InHand
  PROVE  AgentOrder' /\ LogStep
<1>1. RingTimes' = RingTimes
  BY DEF RingTimes
<1>2. Held' = Held /\ Heard' = Heard
  BY <1>1 DEF Held, Heard
<1>3. AgentOrder'
  BY <1>1 DEF AgentOrder, RingOrder
<1> QED
  BY <1>2, <1>3 DEF LogStep

\* A step at which the agent ends.
LEMMA LogCloses ==
  ASSUME AgentOrder, UNCHANGED <<ring, emitted, received>>, pc # "ended", pc' = "ended"
  PROVE  AgentOrder' /\ LogStep
<1>1. RingTimes' = RingTimes /\ InHand' = {}
  BY DEF RingTimes, InHand
<1>2. AgentOrder'
  BY <1>1 DEF AgentOrder, RingOrder
<1>3. Log!Close
  BY DEF Log!Close
<1> QED
  BY <1>2, <1>3 DEF LogStep, Log!Next

\* A step at which the event loop is done with the event in its hand, which it told
\* the controller or not.
LEMMA LogDone ==
  ASSUME AgentInv, AgentOrder, UNCHANGED <<ring, emitted>>,
         pc \in {"lookup", "post"}, pc' = "read",
         Heard' \in {Heard, Heard \cup {ev.ts}}
  PROVE  AgentOrder' /\ LogStep
<1>1. RingTimes' = RingTimes /\ InHand' = {} /\ InHand = {ev.ts} /\ ev.ts \in Nat
  BY HeldTypes DEF RingTimes, InHand
<1>2. AgentOrder'
  BY <1>1 DEF AgentOrder, RingOrder
<1>3. Held = RingTimes \cup {ev.ts} /\ Held' = RingTimes
  BY <1>1 DEF Held
<1>4. /\ \A t \in RingTimes : t \in Nat /\ ev.ts < t
  BY <1>1, RingTypes DEF AgentOrder, AgentInv
<1>5. Held' = Held \ {ev.ts} /\ \A u \in Held : ev.ts <= u
  BY <1>1, <1>3, <1>4
<1>6. PICK t \in Nat : t = ev.ts
  BY <1>1
<1>7. Log!Done(t)
  BY <1>3, <1>5, <1>6 DEF Log!Done, Held
<1>8. Log!Tell(t) \/ Log!Drop(t)
  BY <1>6, <1>7 DEF Log!Tell, Log!Drop, Heard
<1>9. t \in Held
  BY <1>3, <1>6
<1>10. Log!Next
  BY <1>8, <1>9 DEF Log!Next, Held
<1> QED
  BY <1>2, <1>10 DEF LogStep

LEMMA ProbeLogged == AgentInv /\ AgentOrder /\ Probe => AgentOrder' /\ LogStep
<1> SUFFICES ASSUME AgentInv, AgentOrder, Probe PROVE AgentOrder' /\ LogStep
  OBVIOUS
<1>1. PICK s \in Servers : on_update_curr_dl_se(s) \/ Kernel(s)
  BY DEF Probe
<1>2. ProbeTypeOK /\ RingOrder /\ emitted \in Nat
  BY RingTypes DEF AgentInv, AgentOrder
<1>3. /\ pc # "ended" /\ pc' = pc /\ InHand' = InHand /\ Heard' = Heard
      /\ UNCHANGED received
  BY DEF Probe, agentVars, InHand, Heard
<1>4. CASE UNCHANGED <<ring, emitted>>
  BY <1>3, <1>4, LogStutters
<1>5. CASE Submit(s)
  <2>1. /\ RingOrder'
        /\ emitted' = emitted + 1
        /\ \A t \in RingTimes : t <= emitted
        /\ \/ RingTimes' = RingTimes \cup {emitted'}
           \/ RingTimes' = RingTimes /\ Cardinality(RingTimes) >= RingSize
    BY <1>2, <1>5, SubmitTimes
  <2>2. \A h \in InHand : h \in Nat /\ h <= emitted /\ \A t \in RingTimes : h < t
    BY HeldTypes DEF AgentOrder
  <2>3. AgentOrder'
    <3>1. \A h \in InHand : h <= emitted' /\ h < emitted'
      BY <1>2, <2>1, <2>2
    <3> QED
      BY <1>3, <2>1, <2>2, <3>1 DEF AgentOrder
  <2>4. Held = RingTimes \cup InHand /\ Held' = RingTimes' \cup InHand
    BY <1>3 DEF Held
  <2>5. Held' = Held \cup {emitted'} \/ (Held' = Held /\ Cardinality(Held) >= RingSize)
    <3>1. CASE RingTimes' = RingTimes \cup {emitted'}
      BY <2>4, <3>1
    <3>2. CASE RingTimes' = RingTimes /\ Cardinality(RingTimes) >= RingSize
      <4>1. IsFiniteSet(RingTimes)
        BY <1>2, RingTimesCount
      <4>2. IsFiniteSet(InHand)
        BY FS_EmptySet, FS_Singleton DEF InHand
      <4>3. IsFiniteSet(Held) /\ RingTimes \subseteq Held
        BY <2>4, <4>1, <4>2, FS_Union
      <4>4. /\ Cardinality(RingTimes) <= Cardinality(Held)
            /\ Cardinality(RingTimes) \in Nat /\ Cardinality(Held) \in Nat
        BY <4>1, <4>3, FS_Subset, FS_CardinalityType
      <4> QED
        BY <2>4, <3>2, <4>4, ProbeAssumption
    <3> QED
      BY <2>1, <3>1, <3>2
  <2>6. Log!Cardinality(Held) = Cardinality(Held)
    BY DEF Log!Cardinality, Cardinality
  <2>7. Log!Overrun
    BY <1>3, <2>1, <2>5, <2>6 DEF Log!Overrun, Held, Heard
  <2> QED
    BY <2>3, <2>7 DEF LogStep, Log!Next
<1> QED
  BY <1>1, <1>2, <1>4, <1>5, ProbeTimes

LEMMA LoopLogged == AgentInv /\ AgentOrder /\ EventLoop => AgentOrder' /\ LogStep
<1> SUFFICES ASSUME AgentInv, AgentOrder, EventLoop PROVE AgentOrder' /\ LogStep
  OBVIOUS
<1>1. CASE Read
  <2>1. /\ TakeEvent /\ pc = "read" /\ pc' = "lookup" /\ ev' = Head(ring)
        /\ UNCHANGED <<emitted, received>> /\ ProbeTypeOK /\ RingOrder
    BY <1>1 DEF Read, TakeEvent, AgentInv, AgentOrder
  <2>2. /\ RingOrder'
        /\ Head(ring).ts \in RingTimes
        /\ RingTimes' = RingTimes \ {Head(ring).ts}
        /\ \A t \in RingTimes' : Head(ring).ts < t
    BY <2>1, TakeTimes
  <2>3. InHand = {} /\ InHand' = {Head(ring).ts}
    BY <2>1 DEF InHand
  <2>4. Head(ring).ts <= emitted
    BY <2>1, <2>2 DEF RingOrder, RingTimes
  <2>5. AgentOrder'
    BY <2>1, <2>2, <2>3, <2>4 DEF AgentOrder
  <2>6. Held' = Held /\ Heard' = Heard
    BY <2>1, <2>2, <2>3 DEF Held, Heard
  <2> QED
    BY <2>1, <2>5, <2>6 DEF LogStep
<1>2. CASE Lookup
  <2>1. /\ pc = "lookup" /\ UNCHANGED <<ring, emitted, received>>
        /\ pc' = "read" \/ (pc' = "count" /\ UNCHANGED ev)
    BY <1>2 DEF Lookup, probeVars
  <2>2. CASE pc' = "read"
    BY <2>1, <2>2, LogDone DEF Heard
  <2>3. CASE pc' = "count" /\ UNCHANGED ev
    BY <2>1, <2>3, LogStutters DEF InHand
  <2> QED
    BY <2>1, <2>2, <2>3
<1>3. CASE Count
  <2>1. /\ pc = "count" /\ UNCHANGED <<ring, emitted, received, ev>>
        /\ pc' \in {"total", "ended"}
    BY <1>3 DEF Count, Detected, probeVars, stats
  <2>2. CASE pc' = "total"
    BY <2>1, <2>2, LogStutters DEF InHand
  <2> QED
    BY <2>1, <2>2, LogCloses
<1>4. CASE CountTotal
  <2>1. /\ pc = "total" /\ pc' = "post" /\ UNCHANGED <<ring, emitted, received, ev>>
    BY <1>4 DEF CountTotal, probeVars
  <2> QED
    BY <2>1, LogStutters DEF InHand
<1>5. CASE PostOK \/ PostFail
  <2>1. /\ pc = "post" /\ pc' = "read" /\ UNCHANGED <<ring, emitted>>
        /\ received' \in {received, received \cup {<<ev.cgid, ev.ts>>}}
    BY <1>5 DEF PostOK, PostFail, probeVars
  <2>2. Heard' \in {Heard, Heard \cup {ev.ts}}
    BY <2>1 DEF Heard
  <2> QED
    BY <2>1, <2>2, LogDone
<1> QED
  BY <1>1, <1>2, <1>3, <1>4, <1>5 DEF EventLoop

LEMMA OthersLogged ==
  ASSUME AgentInv, AgentOrder,
         \/ Signal \/ SaveStats \/ UNCHANGED vars
         \/ \E g \in Cgroups : CreateCgroup(g) \/ RemoveCgroup(g)
  PROVE  AgentOrder' /\ LogStep
<1>1. CASE Exit \/ ExitTruncated \/ FailToSave
  <2>1. pc' = "ended" /\ UNCHANGED <<ring, emitted, received, ev>>
    BY <1>1 DEF Exit, ExitTruncated, FailToSave, probeVars
  <2>2. CASE pc = "ended"
    BY <2>1, <2>2, LogStutters DEF InHand
  <2> QED
    BY <2>1, <2>2, LogCloses
<1>2. CASE ~(Exit \/ ExitTruncated \/ FailToSave)
  <2>1. UNCHANGED <<ring, emitted, received, pc, ev>>
    BY <1>2 DEF Signal, SaveStats, SaveCount, CreateCgroup, RemoveCgroup, vars, probeVars, loop
  <2> QED
    BY <2>1, LogStutters DEF InHand
<1> QED
  BY <1>1, <1>2

\* The agent (main.go) tells the controller of the overruns in their order and of
\* none twice, and loses none before its ring buffer is full, for all sizes of the
\* ring buffer and all numbers of servers, cgroups and events.
THEOREM AgentImplementsLog == Spec => ImplementsLog
<1>1. Init => AgentInv /\ AgentOrder /\ Log!Init
  <2> SUFFICES ASSUME Init PROVE AgentOrder /\ Log!Init
    BY AgentInit
  <2>1. pc = "read" /\ ring = <<>> /\ emitted = 0 /\ received = {}
    BY DEF Init, ProbeInit
  <2>2. RingTimes = {} /\ InHand = {}
    BY <2>1 DEF RingTimes, InHand
  <2> QED
    BY <2>1, <2>2 DEF AgentOrder, RingOrder, Log!Init
<1>2. AgentInv /\ AgentOrder /\ [Next]_vars => AgentInv' /\ AgentOrder' /\ [Log!Next]_(Log!log)
  <2>1. AgentInv /\ AgentOrder /\ [Next]_vars => AgentOrder' /\ LogStep
    BY ProbeLogged, LoopLogged, OthersLogged DEF Next
  <2> QED
    BY <2>1, AgentInvStep, LogStepIs
<1> QED
  BY <1>1, <1>2, PTL DEF Spec, ImplementsLog, Log!Spec
=============================================================================
