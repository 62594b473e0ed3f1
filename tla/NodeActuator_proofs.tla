------------------------ MODULE NodeActuator_proofs ------------------------
(***************************************************************************)
(* What holds of the /cgroup handler for every number of containers, CPUs, *)
(* handlers and requests: the types of its state, and, for the requests    *)
(* its write order is right for, the nesting of the limits and that no     *)
(* runtime is longer than its period.                                      *)
(***************************************************************************)
EXTENDS NodeActuator, SequenceTheorems, TLAPS

WriteType == [file : Files, cgroup : Cgroups]

-----------------------------------------------------------------------------
(***************************************************************************)
(* The write plans.                                                        *)
(***************************************************************************)

\* handleCgroup lets through only requests that name a container.
LEMMA RequestType ==
  ASSUME NEW r \in Requests, ValidRequest(r)
  PROVE  /\ r.container_id \in Containers
         /\ PodOf[r.container_id] \in Pods
         /\ r.period \in Int /\ r.runtime \in Int
         /\ r.core \subseteq CPUs
         /\ r.only_runtime \in BOOLEAN
         /\ RuntimeValue(r) \in Int
         /\ RuntimeSlots(r) \subseteq Slots
BY ActuatorAssumption DEF CgroupRequest, ValidRequest, RuntimeValue, RuntimeSlots, Slots

\* writeRtValues writes two or three files of one cgroup.
LEMMA WritesType ==
  ASSUME NEW r, NEW g \in Cgroups, NEW d \in BOOLEAN
  PROVE  /\ writeRtValues(r, g, d) \in Seq(WriteType)
         /\ Len(writeRtValues(r, g, d)) >= 2
<1>1. Write("runtime", g) \in WriteType /\ Write("period", g) \in WriteType
        /\ Write("cpuset", g) \in WriteType
  BY DEF Write, WriteType, Files
<1> QED
  BY <1>1 DEF writeRtValues

\* A plan is a non-empty sequence of writes.
LEMMA PlanType ==
  ASSUME NEW r \in Requests, ValidRequest(r), NEW s
  PROVE  applyCgroup(r, s) \in Seq(WriteType) \ {<<>>}
<1> DEFINE c == r.container_id
           p == PodOf[r.container_id]
<1>1. c \in Cgroups /\ p \in Cgroups
  BY RequestType DEF Cgroups
<1>2. ASSUME NEW d \in BOOLEAN
      PROVE  applyRuntimeWithOrder(r, d) \in Seq(WriteType) \ {<<>>}
  <2>1. Write("runtime", c) \in WriteType /\ Write("runtime", p) \in WriteType
    BY <1>1 DEF Write, WriteType, Files
  <2> QED
    BY <2>1 DEF applyRuntimeWithOrder
<1>3. ASSUME NEW d \in BOOLEAN
      PROVE  applyBoth(r, d) \in Seq(WriteType) \ {<<>>}
  <2>1. /\ writeRtValues(r, c, d) \in Seq(WriteType)
        /\ Len(writeRtValues(r, c, d)) >= 2
    BY <1>1, WritesType
  <2>2. /\ writeRtValues(r, p, d) \in Seq(WriteType)
        /\ Len(writeRtValues(r, p, d)) >= 2
    BY <1>1, WritesType
  <2> QED
    BY <2>1, <2>2 DEF applyBoth
<1> QED
  BY <1>2, <1>3 DEF applyCgroup, isRuntimeDecrease, isDecrease

-----------------------------------------------------------------------------
(***************************************************************************)
(* Types.                                                                  *)
(***************************************************************************)

\* A busy handler serves a request that handleCgroup accepted.
LEMMA BusyRequest ==
  ASSUME TypeOK, NEW h \in Handlers, pc[h] # "idle"
  PROVE  /\ req[h] \in Requests /\ ValidRequest(req[h])
         /\ req[h].container_id \in Containers
         /\ Pod(h) \in Pods
         /\ Pod(h) \in Cgroups /\ req[h].container_id \in Cgroups
<1>1. req[h] \in Requests /\ ValidRequest(req[h])
  BY DEF TypeOK, Busy
<1> QED
  BY <1>1, RequestType DEF Pod, Cgroups

\* A plan with more than one write left is not over after the next.
LEMMA RestOfPlan ==
  ASSUME NEW S, NEW s \in Seq(S), Len(s) > 1
  PROVE  /\ Head(s) = s[1] /\ Head(s) \in S
         /\ Tail(s) \in Seq(S) /\ Tail(s) # <<>>
         /\ Len(Tail(s)) = Len(s) - 1
         /\ \A i \in 1 .. Len(Tail(s)) : Tail(s)[i] = s[i + 1]
<1>1. s # <<>>
  OBVIOUS
<1>2. /\ Head(s) \in S /\ Tail(s) \in Seq(S)
      /\ Len(Tail(s)) = Len(s) - 1
      /\ \A i \in 1 .. Len(Tail(s)) : Tail(s)[i] = s[i + 1]
  BY <1>1, HeadTailProperties
<1>3. Len(Tail(s)) > 0
  <2>1. Len(s) \in Nat
    OBVIOUS
  <2> QED
    BY <1>2, <2>1
<1>4. Tail(s) # <<>>
  <2>1. Len(<<>>) = 0
    OBVIOUS
  <2>2. ASSUME NEW t, Len(t) > 0, t = <<>> PROVE FALSE
    BY <2>1, <2>2
  <2> QED
    BY <1>3, <2>2
<1> QED
  BY <1>2, <1>4

\* The two ways a handler moves on keep the types.
LEMMA AnswerType ==
  ASSUME TypeOK, NEW h \in Handlers, NEW status \in {"200", "400", "500"},
         Answer(h, status),
         period' \in [Cgroups -> Int],
         runtime' \in [Cgroups -> [Slots -> Int]],
         cpuset' \in [Cgroups -> SUBSET CPUs]
  PROVE  TypeOK'
<1>1. /\ pc'    = [pc EXCEPT ![h] = "idle"]
      /\ req'   = [req EXCEPT ![h] = NoRequest]
      /\ seen'  = [seen EXCEPT ![h] = Unread]
      /\ todo'  = [todo EXCEPT ![h] = <<>>]
      /\ reply' = [reply EXCEPT ![h] = status]
  BY DEF Answer
<1>2. Unread \in [period : Int, runtime : Int, multi : Int]
  BY DEF Unread
<1>3. <<>> \in Seq([file : Files, cgroup : Cgroups])
  OBVIOUS
<1>4. /\ pc' \in [Handlers -> {"idle", "preflight", "readPeriod", "readRuntime",
                               "readMulti", "write"}]
      /\ req' \in [Handlers -> Requests \cup {NoRequest}]
      /\ seen' \in [Handlers -> [period : Int, runtime : Int, multi : Int]]
      /\ todo' \in [Handlers -> Seq([file : Files, cgroup : Cgroups])]
      /\ reply' \in [Handlers -> {"none", "200", "400", "500"}]
  BY <1>1, <1>2, <1>3 DEF TypeOK
<1>5. ASSUME NEW i \in Handlers
      PROVE  /\ Busy(i)' <=> req'[i] # NoRequest
             /\ Busy(i)' => ValidRequest(req'[i])
             /\ pc'[i] = "write" <=> todo'[i] # <<>>
  BY <1>1 DEF TypeOK, Busy
<1> QED
  BY <1>4, <1>5 DEF TypeOK, Busy

LEMMA AdvanceType ==
  ASSUME TypeOK, NEW h \in Handlers, Advance(h), pc[h] = "write",
         period' \in [Cgroups -> Int],
         runtime' \in [Cgroups -> [Slots -> Int]],
         cpuset' \in [Cgroups -> SUBSET CPUs]
  PROVE  TypeOK'
<1>1. CASE Len(todo[h]) > 1
  <2>1. /\ todo' = [todo EXCEPT ![h] = Tail(todo[h])]
        /\ UNCHANGED <<pc, req, seen, reply>>
    BY <1>1 DEF Advance
  <2>2. todo[h] \in Seq(WriteType)
    BY DEF TypeOK, WriteType
  <2>3. Tail(todo[h]) \in Seq(WriteType) /\ Tail(todo[h]) # <<>>
    BY <1>1, <2>2, RestOfPlan
  <2> QED
    BY <2>1, <2>3 DEF TypeOK, Busy, WriteType
<1>2. CASE ~(Len(todo[h]) > 1)
  BY <1>2, AnswerType DEF Advance
<1> QED
  BY <1>1, <1>2

\* A plan of an accepted request.
LEMMA PlanStepType ==
  ASSUME TypeOK, NEW h \in Handlers, pc[h] # "idle",
         NEW s \in [period : Int, runtime : Int, multi : Int], Plan(h, s),
         UNCHANGED <<req, reply, files>>
  PROVE  TypeOK'
<1>1. req[h] \in Requests /\ ValidRequest(req[h])
  BY BusyRequest
<1>2. applyCgroup(req[h], s) \in Seq(WriteType) \ {<<>>}
  BY <1>1, PlanType
<1> QED
  BY <1>2 DEF Plan, TypeOK, Busy, files, WriteType

LEMMA TypeInit == Init => TypeOK
BY ActuatorAssumption DEF Init, TypeOK, Busy, Unread

\* Every step keeps the types.
LEMMA TypeStep == TypeOK /\ [Next]_vars => TypeOK'
<1> SUFFICES ASSUME TypeOK, [Next]_vars PROVE TypeOK'
  OBVIOUS
<1>1. ASSUME NEW h \in Handlers, RefuseRequest(h) PROVE TypeOK'
  BY <1>1, AnswerType DEF RefuseRequest, files, TypeOK
<1>2. ASSUME NEW h \in Handlers, HandleCgroup(h) PROVE TypeOK'
  <2>1. /\ pc[h] = "idle" /\ pc' = [pc EXCEPT ![h] = "preflight"]
        /\ reply' = [reply EXCEPT ![h] = "none"]
        /\ UNCHANGED <<seen, todo, files>>
    BY <1>2 DEF HandleCgroup
  <2>2. PICK r \in Requests : ValidRequest(r) /\ req' = [req EXCEPT ![h] = r]
    BY <1>2 DEF HandleCgroup
  <2>3. r # NoRequest
    BY ActuatorAssumption
  <2>4. todo[h] = <<>>
    BY <2>1 DEF TypeOK
  <2>5. /\ pc' \in [Handlers -> {"idle", "preflight", "readPeriod", "readRuntime",
                                 "readMulti", "write"}]
        /\ req' \in [Handlers -> Requests \cup {NoRequest}]
        /\ reply' \in [Handlers -> {"none", "200", "400", "500"}]
    BY <2>1, <2>2 DEF TypeOK
  <2>6. ASSUME NEW i \in Handlers
        PROVE  /\ Busy(i)' <=> req'[i] # NoRequest
               /\ Busy(i)' => ValidRequest(req'[i])
               /\ pc'[i] = "write" <=> todo'[i] # <<>>
    <3>1. CASE i = h
      <4>1. pc'[i] = "preflight" /\ req'[i] = r /\ todo'[i] = <<>>
        BY <2>1, <2>2, <2>4, <3>1 DEF TypeOK
      <4> QED
        BY <2>2, <2>3, <4>1 DEF Busy
    <3>2. CASE i # h
      <4>1. pc'[i] = pc[i] /\ req'[i] = req[i] /\ todo'[i] = todo[i]
        BY <2>1, <2>2, <3>2 DEF TypeOK
      <4> QED
        BY <4>1 DEF TypeOK, Busy
    <3> QED
      BY <3>1, <3>2
  <2> QED
    BY <2>1, <2>5, <2>6 DEF TypeOK, files
<1>3. ASSUME NEW h \in Handlers, PassPreflight(h) PROVE TypeOK'
  BY <1>3 DEF PassPreflight, files, TypeOK, Busy
<1>4. ASSUME NEW h \in Handlers, ReadPodPeriod(h) PROVE TypeOK'
  <2>1. Pod(h) \in Cgroups
    BY <1>4, BusyRequest DEF ReadPodPeriod
  <2> QED
    BY <1>4, <2>1 DEF ReadPodPeriod, files, TypeOK, Busy
<1>5. ASSUME NEW h \in Handlers, ReadPodRuntime(h) PROVE TypeOK'
  <2>1. /\ Pod(h) \in Cgroups /\ pc[h] = "readRuntime"
        /\ req[h] \in Requests /\ ValidRequest(req[h])
    BY <1>5, BusyRequest DEF ReadPodRuntime
  <2> DEFINE s == [seen[h] EXCEPT !.runtime = runtime[Pod(h)][AllCPUs]]
  <2>2. s \in [period : Int, runtime : Int, multi : Int]
    <3>1. seen[h] \in [period : Int, runtime : Int, multi : Int]
      BY DEF TypeOK
    <3>2. runtime[Pod(h)] \in [Slots -> Int]
      BY <2>1 DEF TypeOK
    <3>3. runtime[Pod(h)][AllCPUs] \in Int
      BY <3>2 DEF Slots
    <3> QED
      BY <3>1, <3>3
  <2>3. CASE Plan(h, s) /\ UNCHANGED <<req, reply, files>>
    BY <2>1, <2>2, <2>3, PlanStepType
  <2>4. CASE /\ seen' = [seen EXCEPT ![h] = s]
             /\ pc'   = [pc EXCEPT ![h] = "readMulti"]
             /\ UNCHANGED <<todo, req, reply, files>>
    BY <2>1, <2>2, <2>4 DEF TypeOK, Busy, files
  <2> QED
    BY <1>5, <2>3, <2>4 DEF ReadPodRuntime
<1>6. ASSUME NEW h \in Handlers, ReadPodMulti(h) PROVE TypeOK'
  <2>1. /\ Pod(h) \in Cgroups /\ pc[h] = "readMulti"
        /\ req[h] \in Requests /\ ValidRequest(req[h])
    BY <1>6, BusyRequest DEF ReadPodMulti
  <2> DEFINE m == getCurrentMultiRuntime(runtime[Pod(h)], req[h].core)
             s == [seen[h] EXCEPT !.multi = m]
  <2>2. m \in Int
    <3>1. runtime[Pod(h)] \in [Slots -> Int]
      BY <2>1 DEF TypeOK
    <3>2. CASE \E k \in CPUs : req[h].core = {k}
      <4>1. (CHOOSE k \in CPUs : req[h].core = {k}) \in CPUs
        BY <3>2
      <4> QED
        BY <3>1, <3>2, <4>1 DEF getCurrentMultiRuntime, Slots
    <3> QED
      BY <3>2 DEF getCurrentMultiRuntime
  <2>3. s \in [period : Int, runtime : Int, multi : Int]
    <3>1. seen[h] \in [period : Int, runtime : Int, multi : Int]
      BY DEF TypeOK
    <3> QED
      BY <2>2, <3>1
  <2> QED
    BY <1>6, <2>1, <2>3, PlanStepType DEF ReadPodMulti
<1>7. ASSUME NEW h \in Handlers, MisreadPodMulti(h) PROVE TypeOK'
  <2>1. /\ pc[h] = "readMulti"
        /\ req[h] \in Requests /\ ValidRequest(req[h])
    BY <1>7, BusyRequest DEF MisreadPodMulti
  <2>2. seen[h] \in [period : Int, runtime : Int, multi : Int]
    BY DEF TypeOK
  <2>3. [seen[h] EXCEPT !.multi = 0] \in [period : Int, runtime : Int, multi : Int]
    BY <2>2
  <2> QED
    BY <1>7, <2>1, <2>3, PlanStepType DEF MisreadPodMulti
<1>8. ASSUME NEW h \in Handlers, WriteRuntimeFile(h) PROVE TypeOK'
  <2>1. /\ pc[h] = "write" /\ Advance(h)
        /\ req[h] \in Requests /\ ValidRequest(req[h])
    BY <1>8, BusyRequest DEF WriteRuntimeFile, Writing
  <2>2. RuntimeValue(req[h]) \in Int
    BY <2>1, RequestType
  <2>3. runtime' \in [Cgroups -> [Slots -> Int]]
    BY <1>8, <2>2 DEF WriteRuntimeFile, TypeOK
  <2> QED
    BY <1>8, <2>1, <2>3, AdvanceType DEF WriteRuntimeFile, TypeOK
<1>9. ASSUME NEW h \in Handlers, WritePeriod(h) PROVE TypeOK'
  <2>1. /\ pc[h] = "write" /\ Advance(h)
        /\ req[h] \in Requests /\ ValidRequest(req[h])
    BY <1>9, BusyRequest DEF WritePeriod, Writing
  <2>2. period' \in [Cgroups -> Int]
    BY <1>9, <2>1, RequestType DEF WritePeriod, TypeOK
  <2> QED
    BY <1>9, <2>1, <2>2, AdvanceType DEF WritePeriod, TypeOK
<1>10. ASSUME NEW h \in Handlers, WriteCpuset(h) PROVE TypeOK'
  <2>1. /\ pc[h] = "write" /\ Advance(h)
        /\ req[h] \in Requests /\ ValidRequest(req[h])
    BY <1>10, BusyRequest DEF WriteCpuset, Writing
  <2>2. cpuset' \in [Cgroups -> SUBSET CPUs]
    BY <1>10, <2>1, RequestType DEF WriteCpuset, TypeOK
  <2> QED
    BY <1>10, <2>1, <2>2, AdvanceType DEF WriteCpuset, TypeOK
<1>11. ASSUME NEW h \in Handlers, FailPreflight(h) \/ FailRead(h) \/ FailWrite(h)
       PROVE TypeOK'
  BY <1>11, AnswerType DEF FailPreflight, FailRead, FailWrite, files, TypeOK
<1>12. CASE Crash
  BY <1>12, ActuatorAssumption DEF Crash, files, TypeOK, Busy, Unread
<1>13. CASE UNCHANGED vars
  BY <1>13 DEF vars, TypeOK, Busy
<1> QED
  BY <1>1, <1>2, <1>3, <1>4, <1>5, <1>6, <1>7, <1>8, <1>9, <1>10, <1>11, <1>12,
     <1>13 DEF Next, Progress, Fail

\* TypeOK holds of the handler for all values of the constants.
THEOREM TypeCorrect == Spec => []TypeOK
BY TypeInit, TypeStep, PTL DEF Spec

-----------------------------------------------------------------------------
(***************************************************************************)
(* Nesting.  Between its two writes of a runtime a handler has the limits  *)
(* of container and pod apart.  The invariant says that what is still to   *)
(* be written keeps them nested, and that nobody else touches them.        *)
(***************************************************************************)

\* No two requests in flight are for one pod.
Exclusive ==
  \A h, i \in Handlers : Busy(h) /\ Busy(i) /\ h # i => Pod(h) # Pod(i)

\* Where normal requests name a CPU nobody sets cpu.rt_runtime_us.
OneLimit ==
  \A r \in Requests : ValidRequest(r) /\ ~r.only_runtime /\ r.core # {} =>
    runtime[PodOf[r.container_id]][AllCPUs] = 0

\* Write i of a sequence is of the runtime of g, and none before it is of that of f.
RuntimeBefore(s, i, g, f) ==
  /\ s[i] = Write("runtime", g)
  /\ \A j \in 1 .. Len(s) : j < i => s[j] # Write("runtime", f)

\* The writes of s are to the container of r and to its pod, and those of an
\* escalation are of the runtime.
OwnWrites(r, s) ==
  \A i \in 1 .. Len(s) :
    /\ s[i].cgroup \in {r.container_id, PodOf[r.container_id]}
    /\ s[i].file # "runtime" => ~r.only_runtime

\* With these limits in the pod and in the container, the container's write fits
\* below the pod if it comes first, and the pod's write stays above the
\* container if that comes first.
NestedWrites(r, s, pod, container) ==
  \A i \in 1 .. Len(s), k \in RuntimeSlots(r) :
    /\ RuntimeBefore(s, i, r.container_id, PodOf[r.container_id]) =>
         NoLooser(RuntimeValue(r), pod[k])
    /\ RuntimeBefore(s, i, PodOf[r.container_id], r.container_id) =>
         NoLooser(container[k], RuntimeValue(r))

\* What a handler has read is still so, and what it will write is safe.
HandlerInv(h) ==
  /\ pc[h] \in {"readRuntime", "readMulti"} => seen[h].period = period[Pod(h)]
  /\ pc[h] = "readMulti" =>
       /\ req[h].core # {}
       /\ seen[h].runtime = runtime[Pod(h)][AllCPUs]
  /\ OwnWrites(req[h], todo[h])
  /\ NestedWrites(req[h], todo[h], runtime[Pod(h)], runtime[req[h].container_id])

OrderInv ==
  /\ TypeOK
  /\ LimitsNested
  /\ Exclusive
  /\ OneLimit
  /\ \A h \in Handlers : HandlerInv(h)

\* Every request in flight keeps the period, or takes the runtime away.
Allowed == \A h \in Handlers : Busy(h) => KeepsPeriod(req[h]) \/ TakesAway(req[h])

-----------------------------------------------------------------------------
(***************************************************************************)
(* The plans are nested.                                                   *)
(***************************************************************************)

\* writeRtValues writes files of its own cgroup, the runtime among them.
LEMMA WritesOfOneCgroup ==
  ASSUME NEW r, NEW g \in Cgroups, NEW d \in BOOLEAN
  PROVE  LET w == writeRtValues(r, g, d)
         IN  /\ \A i \in 1 .. Len(w) : w[i].cgroup = g
             /\ \E i \in 1 .. Len(w) : w[i] = Write("runtime", g)
<1> DEFINE w == writeRtValues(r, g, d)
           R == Write("runtime", g)
           P == Write("period", g)
           C == Write("cpuset", g)
<1>1. R.cgroup = g /\ P.cgroup = g /\ C.cgroup = g
  BY DEF Write
<1>2. w \in {<<R, P>> \o <<>>, <<P, R>> \o <<>>, <<R, P>> \o <<C>>, <<P, R>> \o <<C>>}
  BY DEF writeRtValues
<1>3. w \in {<<R, P>>, <<P, R>>, <<R, P, C>>, <<P, R, C>>}
  <2> HIDE DEF R, P, C
  <2> QED
    BY <1>2
<1>4. ASSUME NEW e \in {<<R, P>>, <<P, R>>, <<R, P, C>>, <<P, R, C>>}
      PROVE  /\ \A i \in 1 .. Len(e) : e[i].cgroup = g
             /\ \E i \in 1 .. Len(e) : e[i] = R
  <2> HIDE DEF R, P, C
  <2>1. CASE e = <<R, P>>
    BY <1>1, <2>1
  <2>2. CASE e = <<P, R>>
    BY <1>1, <2>2
  <2>3. CASE e = <<R, P, C>>
    BY <1>1, <2>3
  <2>4. CASE e = <<P, R, C>>
    BY <1>1, <2>4
  <2> QED
    BY <2>1, <2>2, <2>3, <2>4
<1> QED
  BY <1>3, <1>4

\* In a sequence of writes to f followed by writes to g, the runtime of f
\* among them, no write of the runtime of g precedes it.
LEMMA FirstThenSecond ==
  ASSUME NEW f, NEW g, f # g,
         NEW s \in Seq(WriteType), NEW t \in Seq(WriteType),
         \A i \in 1 .. Len(s) : s[i].cgroup = f,
         \E i \in 1 .. Len(s) : s[i] = Write("runtime", f),
         NEW i \in 1 .. Len(s \o t)
  PROVE  ~RuntimeBefore(s \o t, i, g, f)
<1> SUFFICES ASSUME RuntimeBefore(s \o t, i, g, f) PROVE FALSE
  OBVIOUS
<1>1. PICK j \in 1 .. Len(s) : s[j] = Write("runtime", f)
  OBVIOUS
<1>2. /\ Len(s) \in Nat /\ Len(t) \in Nat /\ Len(s \o t) = Len(s) + Len(t)
      /\ \A k \in 1 .. Len(s) : (s \o t)[k] = s[k]
  OBVIOUS
<1>3. CASE i \in 1 .. Len(s)
  <2>1. s[i] = Write("runtime", g)
    BY <1>2, <1>3 DEF RuntimeBefore
  <2> QED
    BY <1>3, <2>1 DEF Write
<1>4. CASE i \notin 1 .. Len(s)
  <2>1. j < i /\ j \in 1 .. Len(s \o t)
    BY <1>2, <1>4
  <2> QED
    BY <1>1, <1>2, <2>1 DEF RuntimeBefore
<1> QED
  BY <1>3, <1>4

\* Writes to f followed by writes to g are writes to f and g.
LEMMA CgroupsOfBoth ==
  ASSUME NEW f, NEW g,
         NEW s \in Seq(WriteType), NEW t \in Seq(WriteType),
         \A i \in 1 .. Len(s) : s[i].cgroup = f,
         \A i \in 1 .. Len(t) : t[i].cgroup = g,
         NEW i \in 1 .. Len(s \o t)
  PROVE  (s \o t)[i].cgroup \in {f, g}
<1>1. /\ Len(s) \in Nat /\ Len(t) \in Nat /\ Len(s \o t) = Len(s) + Len(t)
      /\ (s \o t)[i] = IF i <= Len(s) THEN s[i] ELSE t[i - Len(s)]
  BY ConcatProperties
<1>2. CASE i <= Len(s)
  <2>1. i \in 1 .. Len(s) /\ (s \o t)[i] = s[i]
    BY <1>1, <1>2
  <2> QED
    BY <2>1
<1>3. CASE ~(i <= Len(s))
  <2>1. i - Len(s) \in 1 .. Len(t) /\ (s \o t)[i] = t[i - Len(s)]
    BY <1>1, <1>3
  <2> QED
    BY <2>1
<1> QED
  BY <1>2, <1>3

\* A sequence of writes of an accepted request in one of the two orders.
Ordered(r, s, decreasing) ==
  /\ OwnWrites(r, s)
  /\ \A i \in 1 .. Len(s) :
       IF decreasing
         THEN ~RuntimeBefore(s, i, PodOf[r.container_id], r.container_id)
         ELSE ~RuntimeBefore(s, i, r.container_id, PodOf[r.container_id])

LEMMA EscalationOrdered ==
  ASSUME NEW r \in Requests, ValidRequest(r), NEW d \in BOOLEAN
  PROVE  Ordered(r, applyRuntimeWithOrder(r, d), d)
<1> DEFINE c == r.container_id
           p == PodOf[c]
           C == Write("runtime", c)
           P == Write("runtime", p)
<1>1. c # p
  BY RequestType, ActuatorAssumption
<1>2. /\ C.cgroup = c /\ P.cgroup = p
      /\ C.file = "runtime" /\ P.file = "runtime" /\ C # P
  BY <1>1 DEF Write
<1>3. applyRuntimeWithOrder(r, d) = IF d THEN <<C, P>> ELSE <<P, C>>
  BY DEF applyRuntimeWithOrder
<1>4. OwnWrites(r, <<C, P>>) /\ OwnWrites(r, <<P, C>>)
  <2> HIDE DEF C, P
  <2> QED
    BY <1>2 DEF OwnWrites
<1>5. \A i \in 1 .. 2 : ~RuntimeBefore(<<C, P>>, i, p, c)
  <2> SUFFICES ASSUME NEW i \in 1 .. 2, RuntimeBefore(<<C, P>>, i, p, c) PROVE FALSE
    OBVIOUS
  <2>1. <<C, P>>[i] = P /\ \A j \in 1 .. 2 : j < i => <<C, P>>[j] # C
    BY DEF RuntimeBefore
  <2> HIDE DEF C, P
  <2> QED
    BY <1>2, <2>1
<1>6. \A i \in 1 .. 2 : ~RuntimeBefore(<<P, C>>, i, c, p)
  <2> SUFFICES ASSUME NEW i \in 1 .. 2, RuntimeBefore(<<P, C>>, i, c, p) PROVE FALSE
    OBVIOUS
  <2>1. <<P, C>>[i] = C /\ \A j \in 1 .. 2 : j < i => <<P, C>>[j] # P
    BY DEF RuntimeBefore
  <2> HIDE DEF C, P
  <2> QED
    BY <1>2, <2>1
<1> QED
  <2>1. Len(<<C, P>>) = 2 /\ Len(<<P, C>>) = 2
    OBVIOUS
  <2> HIDE DEF C, P
  <2>2. CASE d
    <3>1. applyRuntimeWithOrder(r, d) = <<C, P>>
      BY <1>3, <2>2
    <3> QED
      BY <3>1, <1>4, <1>5, <2>1, <2>2 DEF Ordered
  <2>3. CASE ~d
    <3>1. applyRuntimeWithOrder(r, d) = <<P, C>>
      BY <1>3, <2>3
    <3> QED
      BY <3>1, <1>4, <1>6, <2>1, <2>3 DEF Ordered
  <2> QED
    BY <2>2, <2>3

LEMMA NormalOrdered ==
  ASSUME NEW r \in Requests, ValidRequest(r), ~r.only_runtime, NEW d \in BOOLEAN
  PROVE  Ordered(r, applyBoth(r, d), d)
<1> DEFINE c == r.container_id
           p == PodOf[c]
           C == writeRtValues(r, c, d)
           P == writeRtValues(r, p, d)
<1>1. c # p /\ c \in Cgroups /\ p \in Cgroups
  BY RequestType, ActuatorAssumption DEF Cgroups
<1>2. /\ C \in Seq(WriteType) /\ P \in Seq(WriteType)
      /\ \A i \in 1 .. Len(C) : C[i].cgroup = c
      /\ \A i \in 1 .. Len(P) : P[i].cgroup = p
      /\ \E i \in 1 .. Len(C) : C[i] = Write("runtime", c)
      /\ \E i \in 1 .. Len(P) : P[i] = Write("runtime", p)
  BY <1>1, WritesType, WritesOfOneCgroup
<1>3. applyBoth(r, d) = IF d THEN C \o P ELSE P \o C
  BY DEF applyBoth
<1> HIDE DEF C, P
<1>4. CASE d
  <2>1. \A i \in 1 .. Len(C \o P) : ~RuntimeBefore(C \o P, i, p, c)
    BY <1>1, <1>2, FirstThenSecond
  <2>2. \A i \in 1 .. Len(C \o P) : (C \o P)[i].cgroup \in {c, p}
    BY <1>2, CgroupsOfBoth
  <2> QED
    BY <1>3, <1>4, <2>1, <2>2 DEF Ordered, OwnWrites
<1>5. CASE ~d
  <2>1. \A i \in 1 .. Len(P \o C) : ~RuntimeBefore(P \o C, i, c, p)
    BY <1>1, <1>2, FirstThenSecond
  <2>2. \A i \in 1 .. Len(P \o C) : (P \o C)[i].cgroup \in {c, p}
    BY <1>2, CgroupsOfBoth
  <2> QED
    BY <1>3, <1>5, <2>1, <2>2 DEF Ordered, OwnWrites
<1> QED
  BY <1>4, <1>5

\* isRuntimeDecrease tells whether the new runtime fits below the old one, and
\* its negation whether it is above whatever fitted below the old one.
LEMMA DecreaseNested ==
  ASSUME NEW old \in Int, NEW new \in Int, NEW below \in Int, NoLooser(below, old)
  PROVE  /\ isRuntimeDecrease(old, new) => NoLooser(new, old)
         /\ ~isRuntimeDecrease(old, new) => NoLooser(below, new)
BY DEF isRuntimeDecrease, NoLooser

\* The plan of a handler that has read the pod's limits is nested.
LEMMA PlanNested ==
  ASSUME OrderSafe, NEW r \in Requests, ValidRequest(r), NEW s,
         NEW pod \in [Slots -> Int], NEW container \in [Slots -> Int],
         \A k \in Slots : NoLooser(container[k], pod[k]),
         ~r.only_runtime => s.period = r.period \/ r.runtime = 0,
         s.runtime = pod[AllCPUs],
         r.core # {} => s.multi = getCurrentMultiRuntime(pod, r.core),
         ~r.only_runtime /\ r.core # {} => pod[AllCPUs] = 0
  PROVE  /\ OwnWrites(r, applyCgroup(r, s))
         /\ NestedWrites(r, applyCgroup(r, s), pod, container)
<1> DEFINE v == RuntimeValue(r)
           plan == applyCgroup(r, s)
<1>1. PICK k \in Slots : /\ RuntimeSlots(r) = {k}
                         /\ k = AllCPUs <=> r.core = {}
                         /\ r.core # {} => s.multi = pod[k]
  <2>1. CASE r.core = {}
    BY <2>1 DEF RuntimeSlots, Slots
  <2>2. CASE r.core # {}
    <3>1. PICK k \in CPUs : r.core = {k}
      BY <2>2 DEF OrderSafe
    <3>2. (CHOOSE j \in CPUs : r.core = {j}) = k
      BY <3>1
    <3>3. s.multi = pod[k]
      BY <2>2, <3>1, <3>2 DEF getCurrentMultiRuntime
    <3> QED
      BY <2>2, <3>1, <3>3, ActuatorAssumption DEF RuntimeSlots, Slots
  <2> QED
    BY <2>1, <2>2
<1>2. /\ v = r.runtime /\ v \in Int
      /\ ~r.only_runtime => r.runtime >= 0
  BY RequestType DEF OrderSafe, RuntimeValue
<1>3. PICK d \in BOOLEAN : /\ isRuntimeDecrease(pod[k], v) => d
                           /\ d => isRuntimeDecrease(pod[k], v) \/ v = 0
                           /\ Ordered(r, plan, d)
  <2> DEFINE d == isRuntimeDecrease(pod[k], v)
  <2>1. d \in BOOLEAN
    BY DEF isRuntimeDecrease
  <2>2. ASSUME r.only_runtime PROVE Ordered(r, plan, d)
    <3> DEFINE R == isRuntimeDecrease(s.runtime, r.runtime)
               M == r.core # {} /\ isRuntimeDecrease(s.multi, r.runtime)
    <3>1. (IF r.core = {} THEN R ELSE M) = d
      <4>1. CASE r.core = {}
        BY <1>1, <1>2, <4>1
      <4>2. CASE r.core # {}
        <5>1. M \in BOOLEAN /\ (M <=> d)
          BY <1>1, <1>2, <4>2
        <5> HIDE DEF M, d
        <5> QED
          BY <2>1, <4>2, <5>1
      <4> QED
        BY <4>1, <4>2
    <3>2. plan = applyRuntimeWithOrder(r, IF r.core = {} THEN R ELSE M)
      BY <2>2, Zenon DEF applyCgroup
    <3> HIDE DEF R, M, d, plan
    <3>3. plan = applyRuntimeWithOrder(r, d)
      BY <3>1, <3>2
    <3> QED
      BY <2>1, <3>3, EscalationOrdered
  <2>3. ASSUME ~r.only_runtime
        PROVE  \E e \in BOOLEAN : /\ d => e
                                  /\ e => d \/ v = 0
                                  /\ Ordered(r, plan, e)
    <3>1. isDecrease(s.period, r.period) => v = 0
      BY <1>2, <2>3, RequestType DEF isDecrease
    <3>2. r.core # {} => ~isRuntimeDecrease(s.runtime, r.runtime)
      BY <1>2, <2>3, RequestType DEF isRuntimeDecrease
    <3> DEFINE any == \/ isRuntimeDecrease(s.runtime, r.runtime)
                      \/ isDecrease(s.period, r.period)
                      \/ r.core # {} /\ isRuntimeDecrease(s.multi, r.runtime)
    <3>3. any \in BOOLEAN /\ (d => any) /\ (any => d \/ v = 0)
      BY <1>1, <1>2, <3>1, <3>2
    <3>4. plan = applyBoth(r, any)
      BY <2>3, Zenon DEF applyCgroup
    <3> HIDE DEF any, d, plan
    <3>5. Ordered(r, plan, any)
      BY <2>3, <3>3, <3>4, NormalOrdered
    <3> QED
      BY <3>3, <3>5
  <2> HIDE DEF d, plan
  <2>4. CASE r.only_runtime
    BY <2>1, <2>2, <2>4 DEF d
  <2>5. CASE ~r.only_runtime
    BY <2>3, <2>5 DEF d
  <2> QED
    BY <2>4, <2>5
<1>4. NoLooser(container[k], pod[k]) /\ pod[k] \in Int /\ container[k] \in Int
  BY <1>1
<1>5. IF d THEN NoLooser(v, pod[k]) ELSE NoLooser(container[k], v)
  <2>1. v = 0 => NoLooser(v, pod[k])
    BY <1>4 DEF NoLooser
  <2> QED
    BY <1>2, <1>3, <1>4, <2>1, DecreaseNested
<1> HIDE DEF v, plan
<1> QED
  BY <1>1, <1>3, <1>5 DEF Ordered, NestedWrites, v, plan

-----------------------------------------------------------------------------
(***************************************************************************)
(* The steps.                                                              *)
(***************************************************************************)

\* Two requests in flight share no cgroup.
LEMMA Apart ==
  ASSUME TypeOK, Exclusive, NEW h \in Handlers, NEW i \in Handlers, h # i,
         Busy(h), Busy(i)
  PROVE  {req[h].container_id, Pod(h)} \cap {req[i].container_id, Pod(i)} = {}
<1>1. /\ req[h].container_id \in Containers /\ Pod(h) \in Pods
      /\ req[i].container_id \in Containers /\ Pod(i) \in Pods
  BY BusyRequest DEF Busy
<1>2. Pod(h) # Pod(i)
  BY DEF Exclusive
<1> QED
  BY <1>1, <1>2, ActuatorAssumption DEF Pod

\* A handler with nothing to write owes nothing.
LEMMA NoWrites ==
  ASSUME NEW h \in Handlers, todo[h] = <<>>,
         pc[h] \notin {"readRuntime", "readMulti"}
  PROVE  HandlerInv(h)
BY DEF HandlerInv, OwnWrites, NestedWrites

\* A handler that does not move keeps its invariant if its cgroups do not change.
LEMMA Bystander ==
  ASSUME TypeOK, NEW i \in Handlers, HandlerInv(i),
         pc'[i] = pc[i], req'[i] = req[i], seen'[i] = seen[i], todo'[i] = todo[i],
         Busy(i) => /\ runtime'[Pod(i)] = runtime[Pod(i)]
                    /\ runtime'[req[i].container_id] = runtime[req[i].container_id]
                    /\ period'[Pod(i)] = period[Pod(i)]
  PROVE  HandlerInv(i)'
<1>1. CASE Busy(i)
  <2>1. Pod(i)' = Pod(i)
    BY DEF Pod
  <2>2. /\ runtime'[Pod(i)'] = runtime[Pod(i)]
        /\ runtime'[req'[i].container_id] = runtime[req[i].container_id]
        /\ period'[Pod(i)'] = period[Pod(i)]
    BY <1>1, <2>1
  <2>3. OwnWrites(req[i], todo[i])'
    BY DEF HandlerInv, OwnWrites
  <2>4. NestedWrites(req[i], todo[i], runtime[Pod(i)], runtime[req[i].container_id])'
    <3> DEFINE r == req[i]
               s == todo[i]
               pod == runtime[Pod(i)]
               container == runtime[req[i].container_id]
    <3>1. NestedWrites(r, s, pod, container)
      BY DEF HandlerInv
    <3>2. r' = r /\ s' = s /\ pod' = pod /\ container' = container
      BY <2>1, <2>2
    <3> HIDE DEF r, s, pod, container
    <3>3. NestedWrites(r, s, pod, container)'
      BY <3>1, <3>2 DEF NestedWrites, RuntimeBefore, RuntimeSlots, RuntimeValue
    <3> QED
      BY <3>3 DEF r, s, pod, container
  <2> QED
    BY <2>1, <2>2, <2>3, <2>4 DEF HandlerInv
<1>2. CASE ~Busy(i)
  <2>1. todo[i] = <<>> /\ pc[i] = "idle"
    BY <1>2 DEF TypeOK, Busy
  <2> QED
    BY <2>1 DEF HandlerInv, OwnWrites, NestedWrites
<1> QED
  BY <1>1, <1>2

\* A step that writes no file keeps the invariant if it keeps that of the handler
\* that moves, and starts no request for a pod that has one.
LEMMA QuietStep ==
  ASSUME OrderInv, TypeOK', UNCHANGED files, Exclusive',
         \A i \in Handlers : \/ HandlerInv(i)'
                             \/ /\ pc'[i] = pc[i] /\ req'[i] = req[i]
                                /\ seen'[i] = seen[i] /\ todo'[i] = todo[i]
  PROVE  OrderInv'
<1>1. /\ TypeOK
      /\ \A i \in Handlers : HandlerInv(i)
      /\ runtime' = runtime /\ period' = period
  BY DEF OrderInv, files
<1>2. LimitsNested' /\ OneLimit'
  BY <1>1 DEF OrderInv, LimitsNested, OneLimit
<1>3. \A i \in Handlers : HandlerInv(i)'
  BY <1>1, Bystander
<1> QED
  BY <1>2, <1>3 DEF OrderInv

\* An answer leaves the handler with nothing to do.
LEMMA AnswerInv ==
  ASSUME TypeOK, NEW h \in Handlers, NEW status, Answer(h, status)
  PROVE  /\ HandlerInv(h)'
         /\ \A i \in Handlers : i # h =>
              /\ pc'[i] = pc[i] /\ req'[i] = req[i]
              /\ seen'[i] = seen[i] /\ todo'[i] = todo[i]
         /\ Exclusive => Exclusive'
<1>1. /\ pc'    = [pc EXCEPT ![h] = "idle"]
      /\ req'   = [req EXCEPT ![h] = NoRequest]
      /\ seen'  = [seen EXCEPT ![h] = Unread]
      /\ todo'  = [todo EXCEPT ![h] = <<>>]
  BY DEF Answer
<1>2. pc'[h] = "idle" /\ todo'[h] = <<>>
  BY <1>1 DEF TypeOK
<1>3. \A i \in Handlers : i # h =>
        /\ pc'[i] = pc[i] /\ req'[i] = req[i]
        /\ seen'[i] = seen[i] /\ todo'[i] = todo[i]
  BY <1>1 DEF TypeOK
<1>4. HandlerInv(h)'
  BY <1>2 DEF HandlerInv, OwnWrites, NestedWrites
<1>5. Exclusive => Exclusive'
  BY <1>2, <1>3 DEF Exclusive, Busy, Pod
<1> QED
  BY <1>3, <1>4, <1>5

\* A read or a check moves one handler and lets it keep its request.
LEMMA SameRequests ==
  ASSUME TypeOK, Exclusive, UNCHANGED req, NEW h \in Handlers, Busy(h),
         NEW l, pc' = [pc EXCEPT ![h] = l]
  PROVE  Exclusive'
BY DEF TypeOK, Exclusive, Busy, Pod

\* The last read makes the plan.
LEMMA PlanInv ==
  ASSUME OrderSafe, OrderInv, Allowed, TypeOK', NEW h \in Handlers, Busy(h),
         NEW s, Plan(h, s), UNCHANGED <<req, reply, files>>,
         s.period = period[Pod(h)],
         s.runtime = runtime[Pod(h)][AllCPUs],
         req[h].core # {} =>
           s.multi = getCurrentMultiRuntime(runtime[Pod(h)], req[h].core)
  PROVE  OrderInv'
<1> DEFINE c == req[h].container_id
           p == Pod(h)
<1>1. /\ TypeOK /\ LimitsNested /\ OneLimit /\ Exclusive
      /\ req[h] \in Requests /\ ValidRequest(req[h])
      /\ c \in Containers /\ c \in Cgroups /\ p \in Cgroups /\ p = PodOf[c]
  BY BusyRequest DEF OrderInv, Busy, Pod
<1>2. runtime[p] \in [Slots -> Int] /\ runtime[c] \in [Slots -> Int]
  BY <1>1 DEF TypeOK
<1>3. \A k \in Slots : NoLooser(runtime[c][k], runtime[p][k])
  BY <1>1 DEF LimitsNested
<1>4. ~req[h].only_runtime /\ req[h].core # {} => runtime[p][AllCPUs] = 0
  BY <1>1 DEF OneLimit
<1>5. /\ OwnWrites(req[h], applyCgroup(req[h], s))
      /\ NestedWrites(req[h], applyCgroup(req[h], s), runtime[p], runtime[c])
  <2>1. ~req[h].only_runtime => s.period = req[h].period \/ req[h].runtime = 0
    BY DEF Allowed, KeepsPeriod, TakesAway, Pod
  <2> HIDE DEF c, p
  <2> QED
    BY <1>1, <1>2, <1>3, <1>4, <2>1, PlanNested DEF p
<1>6. /\ pc'[h] = "write" /\ todo'[h] = applyCgroup(req[h], s) /\ req'[h] = req[h]
      /\ runtime' = runtime
      /\ \A i \in Handlers : i # h =>
           /\ pc'[i] = pc[i] /\ req'[i] = req[i]
           /\ seen'[i] = seen[i] /\ todo'[i] = todo[i]
  BY <1>1 DEF Plan, TypeOK, files
<1>7. HandlerInv(h)'
  <2>1. runtime'[Pod(h)'] = runtime[p] /\ runtime'[req'[h].container_id] = runtime[c]
    BY <1>6 DEF Pod
  <2> QED
    BY <1>5, <1>6, <2>1 DEF HandlerInv, OwnWrites, NestedWrites, RuntimeBefore
<1>8. Exclusive'
  BY <1>1, SameRequests DEF Plan
<1> QED
  BY <1>6, <1>7, <1>8, QuietStep

\* The steps that write no file.
LEMMA QuietSteps ==
  ASSUME OrderSafe, OrderInv, Allowed, TypeOK', NEW h \in Handlers,
         \/ RefuseRequest(h) \/ HandleCgroup(h) \/ PassPreflight(h)
         \/ ReadPodPeriod(h) \/ ReadPodRuntime(h) \/ ReadPodMulti(h) \/ Fail(h)
  PROVE  OrderInv'
<1>1. TypeOK /\ Exclusive /\ HandlerInv(h)
  BY DEF OrderInv
<1>2. CASE RefuseRequest(h) \/ FailPreflight(h) \/ FailRead(h) \/ FailWrite(h)
  <2>1. UNCHANGED files /\ \E status : Answer(h, status)
    BY <1>2 DEF RefuseRequest, FailPreflight, FailRead, FailWrite
  <2> QED
    BY <1>1, <2>1, AnswerInv, QuietStep
<1>3. CASE HandleCgroup(h)
  <2>1. /\ pc'[h] = "preflight" /\ todo'[h] = <<>>
        /\ \A i \in Handlers : i # h =>
             /\ pc'[i] = pc[i] /\ req'[i] = req[i]
             /\ seen'[i] = seen[i] /\ todo'[i] = todo[i]
             /\ Busy(i) => Pod(i) # Pod(h)'
    <3>1. todo[h] = <<>>
      BY <1>1, <1>3 DEF HandleCgroup, TypeOK
    <3>2. PICK r \in Requests : /\ req' = [req EXCEPT ![h] = r]
                                /\ \A i \in Handlers : Busy(i) =>
                                     Pod(i) # PodOf[r.container_id]
      BY <1>3 DEF HandleCgroup, Sent, OrderSafe
    <3>3. req'[h] = r /\ Pod(h)' = PodOf[r.container_id]
      BY <1>1, <3>2 DEF TypeOK, Pod
    <3> QED
      BY <1>1, <1>3, <3>1, <3>2, <3>3 DEF HandleCgroup, TypeOK
  <2>2. HandlerInv(h)'
    BY <2>1 DEF HandlerInv, OwnWrites, NestedWrites
  <2>3. Exclusive'
    BY <1>1, <2>1 DEF Exclusive, Busy, Pod
  <2> QED
    BY <1>3, <2>1, <2>2, <2>3, QuietStep DEF HandleCgroup
<1>4. CASE PassPreflight(h)
  <2>1. /\ Busy(h) /\ pc'[h] = "readPeriod" /\ todo'[h] = <<>>
        /\ \A i \in Handlers : i # h =>
             /\ pc'[i] = pc[i] /\ req'[i] = req[i]
             /\ seen'[i] = seen[i] /\ todo'[i] = todo[i]
    BY <1>1, <1>4 DEF PassPreflight, TypeOK, Busy
  <2>2. HandlerInv(h)'
    BY <2>1 DEF HandlerInv, OwnWrites, NestedWrites
  <2>3. Exclusive'
    BY <1>1, <1>4, <2>1, SameRequests DEF PassPreflight
  <2> QED
    BY <1>4, <2>1, <2>2, <2>3, QuietStep DEF PassPreflight
<1>5. CASE ReadPodPeriod(h)
  <2>1. /\ Busy(h) /\ pc'[h] = "readRuntime" /\ todo'[h] = <<>>
        /\ seen'[h].period = period[Pod(h)]
        /\ \A i \in Handlers : i # h =>
             /\ pc'[i] = pc[i] /\ req'[i] = req[i]
             /\ seen'[i] = seen[i] /\ todo'[i] = todo[i]
    BY <1>1, <1>5 DEF ReadPodPeriod, TypeOK, Busy
  <2>2. seen'[h].period = period'[Pod(h)'] /\ req'[h] = req[h]
    BY <1>5, <2>1 DEF ReadPodPeriod, files, Pod
  <2>3. HandlerInv(h)'
    BY <2>1, <2>2 DEF HandlerInv, OwnWrites, NestedWrites
  <2>4. Exclusive'
    BY <1>1, <1>5, <2>1, SameRequests DEF ReadPodPeriod
  <2> QED
    BY <1>5, <2>1, <2>3, <2>4, QuietStep DEF ReadPodPeriod
<1>6. CASE ReadPodRuntime(h)
  <2> DEFINE s == [seen[h] EXCEPT !.runtime = runtime[Pod(h)][AllCPUs]]
  <2>1. /\ Busy(h) /\ todo[h] = <<>> /\ seen[h].period = period[Pod(h)]
        /\ s.period = seen[h].period /\ s.runtime = runtime[Pod(h)][AllCPUs]
    <3>1. pc[h] = "readRuntime"
      BY <1>6 DEF ReadPodRuntime
    <3>2. seen[h] \in [period : Int, runtime : Int, multi : Int]
      BY <1>1 DEF TypeOK
    <3>3. s.period = seen[h].period /\ s.runtime = runtime[Pod(h)][AllCPUs]
      BY <3>2
    <3> QED
      BY <1>1, <3>1, <3>3 DEF TypeOK, Busy, HandlerInv
  <2>2. CASE Plan(h, s) /\ req[h].core = {}
    BY <1>6, <2>1, <2>2, PlanInv DEF ReadPodRuntime
  <2>3. CASE /\ req[h].core # {}
             /\ seen' = [seen EXCEPT ![h] = s]
             /\ pc'   = [pc EXCEPT ![h] = "readMulti"]
             /\ UNCHANGED todo
    <3>1. UNCHANGED <<req, files>>
      BY <1>6 DEF ReadPodRuntime
    <3>2. /\ pc'[h] = "readMulti" /\ todo'[h] = <<>> /\ req'[h] = req[h]
          /\ seen'[h] = s /\ runtime' = runtime /\ period' = period
          /\ \A i \in Handlers : i # h =>
               /\ pc'[i] = pc[i] /\ req'[i] = req[i]
               /\ seen'[i] = seen[i] /\ todo'[i] = todo[i]
      BY <1>1, <2>1, <2>3, <3>1 DEF TypeOK, files
    <3>3. HandlerInv(h)'
      <4> HIDE DEF s
      <4>1. /\ seen'[h].period = period'[Pod(h)']
            /\ seen'[h].runtime = runtime'[Pod(h)'][AllCPUs]
        BY <2>1, <3>2 DEF Pod
      <4>2. /\ OwnWrites(req'[h], todo'[h])
            /\ NestedWrites(req'[h], todo'[h], runtime'[Pod(h)'],
                            runtime'[req'[h].container_id])
        BY <3>2 DEF OwnWrites, NestedWrites
      <4> QED
        BY <2>3, <3>2, <4>1, <4>2 DEF HandlerInv
    <3>4. Exclusive'
      BY <1>1, <2>1, <2>3, <3>1, SameRequests
    <3> QED
      BY <3>1, <3>2, <3>3, <3>4, QuietStep
  <2> QED
    BY <1>6, <2>2, <2>3 DEF ReadPodRuntime
<1>7. CASE ReadPodMulti(h)
  <2> DEFINE m == getCurrentMultiRuntime(runtime[Pod(h)], req[h].core)
             s == [seen[h] EXCEPT !.multi = m]
  <2>1. /\ Busy(h) /\ Plan(h, s) /\ UNCHANGED <<req, reply, files>>
        /\ seen[h].period = period[Pod(h)]
        /\ seen[h].runtime = runtime[Pod(h)][AllCPUs]
    BY <1>1, <1>7 DEF ReadPodMulti, Busy, HandlerInv
  <2>2. /\ s.period = seen[h].period /\ s.runtime = seen[h].runtime /\ s.multi = m
    BY <1>1 DEF TypeOK
  <2> QED
    BY <2>1, <2>2, PlanInv
<1>8. ~MisreadPodMulti(h)
  BY DEF MisreadPodMulti, OrderSafe
<1> QED
  BY <1>2, <1>3, <1>4, <1>5, <1>6, <1>7, <1>8 DEF Fail

\* What precedes no write in the rest of a plan precedes none in the plan,
\* unless the write just done was it.
LEMMA RestBefore ==
  ASSUME NEW s \in Seq(WriteType), Len(s) > 1, NEW i \in 1 .. Len(Tail(s)),
         NEW g, NEW f, RuntimeBefore(Tail(s), i, g, f), s[1] # Write("runtime", f)
  PROVE  i + 1 \in 1 .. Len(s) /\ RuntimeBefore(s, i + 1, g, f)
<1>1. /\ Len(Tail(s)) = Len(s) - 1
      /\ \A j \in 1 .. Len(Tail(s)) : Tail(s)[j] = s[j + 1]
  BY RestOfPlan
<1>2. s[i + 1] = Write("runtime", g)
  BY <1>1 DEF RuntimeBefore
<1>3. ASSUME NEW j \in 1 .. Len(s), j < i + 1 PROVE s[j] # Write("runtime", f)
  <2>1. CASE j = 1
    BY <2>1
  <2>2. CASE j # 1
    <3>1. Len(s) \in Nat /\ j - 1 \in 1 .. Len(Tail(s)) /\ j - 1 < i
      BY <1>1, <1>3, <2>2
    <3>2. Tail(s)[j - 1] = s[j]
      BY <1>1, <3>1
    <3> QED
      BY <3>1, <3>2 DEF RuntimeBefore
  <2> QED
    BY <2>1, <2>2
<1>4. i + 1 \in 1 .. Len(s)
  BY <1>1
<1> QED
  BY <1>2, <1>3, <1>4 DEF RuntimeBefore

\* The head of a plan is a write to the container of the request or to its pod.
LEMMA HeadOfPlan ==
  ASSUME OrderInv, NEW h \in Handlers, pc[h] = "write"
  PROVE  /\ Len(todo[h]) >= 1 /\ 1 \in 1 .. Len(todo[h])
         /\ todo[h] \in Seq(WriteType)
         /\ Head(todo[h]) = todo[h][1] /\ todo[h][1] \in WriteType
         /\ todo[h][1].cgroup \in {req[h].container_id, Pod(h)}
         /\ todo[h][1].file # "runtime" => ~req[h].only_runtime
<1>1. todo[h] \in Seq(WriteType) /\ todo[h] # <<>>
  BY DEF OrderInv, TypeOK, WriteType
<1>2. Len(todo[h]) >= 1 /\ Head(todo[h]) = todo[h][1] /\ todo[h][1] \in WriteType
  BY <1>1
<1>3. 1 \in 1 .. Len(todo[h])
  BY <1>1, <1>2
<1>4. OwnWrites(req[h], todo[h])
  BY DEF OrderInv, HandlerInv
<1> QED
  BY <1>1, <1>2, <1>3, <1>4 DEF OwnWrites, Pod

\* After a write the handler goes on with the rest of its plan, or answers.
LEMMA AdvanceInv ==
  ASSUME OrderInv, NEW h \in Handlers, pc[h] = "write", Advance(h),
         \A k \in RuntimeSlots(req[h]) :
           /\ IF todo[h][1] = Write("runtime", Pod(h))
                THEN runtime'[Pod(h)][k] = RuntimeValue(req[h])
                ELSE runtime'[Pod(h)][k] = runtime[Pod(h)][k]
           /\ IF todo[h][1] = Write("runtime", req[h].container_id)
                THEN runtime'[req[h].container_id][k] = RuntimeValue(req[h])
                ELSE runtime'[req[h].container_id][k] = runtime[req[h].container_id][k]
  PROVE  /\ HandlerInv(h)'
         /\ Exclusive'
         /\ \A i \in Handlers : i # h =>
              /\ pc'[i] = pc[i] /\ req'[i] = req[i]
              /\ seen'[i] = seen[i] /\ todo'[i] = todo[i]
<1>1. TypeOK /\ Exclusive /\ HandlerInv(h)
  BY DEF OrderInv
<1>2. CASE ~(Len(todo[h]) > 1)
  BY <1>1, <1>2, AnswerInv DEF Advance
<1>3. CASE Len(todo[h]) > 1
  <2> DEFINE r == req[h]
             c == req[h].container_id
             p == Pod(h)
             s == todo[h]
             v == RuntimeValue(req[h])
  <2>1. /\ todo'[h] = Tail(s)
        /\ UNCHANGED <<pc, req, seen>>
        /\ \A i \in Handlers : i # h => todo'[i] = todo[i]
    BY <1>1, <1>3 DEF Advance, TypeOK
  <2>2. /\ s \in Seq(WriteType)
        /\ Len(Tail(s)) = Len(s) - 1
        /\ \A i \in 1 .. Len(Tail(s)) : Tail(s)[i] = s[i + 1]
    BY <1>3, HeadOfPlan, RestOfPlan
  <2>3. OwnWrites(r, Tail(s))
    BY <1>1, <2>2 DEF HandlerInv, OwnWrites
  <2>4. /\ v \in Int
        /\ \A k \in RuntimeSlots(r) : NoLooser(v, v)
    BY <1>1, BusyRequest, RequestType DEF NoLooser
  <2>5. NestedWrites(r, Tail(s), runtime'[p], runtime'[c])
    <3> SUFFICES ASSUME NEW i \in 1 .. Len(Tail(s)), NEW k \in RuntimeSlots(r)
                 PROVE  /\ RuntimeBefore(Tail(s), i, c, p) =>
                             NoLooser(v, runtime'[p][k])
                        /\ RuntimeBefore(Tail(s), i, p, c) =>
                             NoLooser(runtime'[c][k], v)
      BY DEF NestedWrites, Pod
    <3>1. NestedWrites(r, s, runtime[p], runtime[c])
      BY <1>1 DEF HandlerInv
    <3>2. ASSUME RuntimeBefore(Tail(s), i, c, p) PROVE NoLooser(v, runtime'[p][k])
      <4>1. CASE s[1] = Write("runtime", p)
        BY <2>4, <4>1
      <4>2. CASE s[1] # Write("runtime", p)
        <5>1. i + 1 \in 1 .. Len(s) /\ RuntimeBefore(s, i + 1, c, p)
          BY <1>3, <2>2, <3>2, <4>2, RestBefore
        <5> QED
          BY <3>1, <4>2, <5>1 DEF NestedWrites, Pod
      <4> QED
        BY <4>1, <4>2
    <3>3. ASSUME RuntimeBefore(Tail(s), i, p, c) PROVE NoLooser(runtime'[c][k], v)
      <4>1. CASE s[1] = Write("runtime", c)
        BY <2>4, <4>1
      <4>2. CASE s[1] # Write("runtime", c)
        <5>1. i + 1 \in 1 .. Len(s) /\ RuntimeBefore(s, i + 1, p, c)
          BY <1>3, <2>2, <3>3, <4>2, RestBefore
        <5> QED
          BY <3>1, <4>2, <5>1 DEF NestedWrites, Pod
      <4> QED
        BY <4>1, <4>2
    <3> QED
      BY <3>2, <3>3
  <2>6. HandlerInv(h)'
    <3>1. pc'[h] = "write" /\ req'[h] = r /\ todo'[h] = Tail(s)
      BY <1>1, <2>1 DEF TypeOK
    <3>2. Pod(h)' = p
      BY <3>1 DEF Pod
    <3>3. /\ OwnWrites(req'[h], todo'[h])
          /\ NestedWrites(req'[h], todo'[h], runtime'[Pod(h)'],
                          runtime'[req'[h].container_id])
      BY <2>3, <2>5, <3>1, <3>2
    <3> QED
      BY <3>1, <3>3 DEF HandlerInv, OwnWrites, NestedWrites, RuntimeBefore
  <2>7. Exclusive'
    BY <1>1, <2>1 DEF Exclusive, Busy, Pod
  <2> QED
    BY <2>1, <2>6, <2>7
<1> QED
  BY <1>2, <1>3

\* A write of the period or of the CPU set leaves the periods of other requests.
LEMMA OtherPeriods ==
  ASSUME OrderInv, NEW h \in Handlers, WritePeriod(h) \/ WriteCpuset(h),
         NEW i \in Handlers, i # h, Busy(i)
  PROVE  /\ period'[Pod(i)] = period[Pod(i)]
         /\ period'[req[i].container_id] = period[req[i].container_id]
<1>1. /\ TypeOK /\ Exclusive /\ pc[h] = "write" /\ Busy(h)
      /\ \/ period' = [period EXCEPT ![Head(todo[h]).cgroup] = req[h].period]
         \/ period' = period
  BY DEF OrderInv, WritePeriod, WriteCpuset, Writing, Busy
<1>2. Head(todo[h]).cgroup \notin {req[i].container_id, Pod(i)}
  BY <1>1, HeadOfPlan, Apart
<1>3. req[i].container_id \in Cgroups /\ Pod(i) \in Cgroups
  BY <1>1, BusyRequest DEF Busy
<1> QED
  BY <1>1, <1>2, <1>3 DEF TypeOK

\* A write of the period or of the CPU set moves no runtime.
LEMMA OtherWrite ==
  ASSUME OrderSafe, OrderInv, TypeOK', NEW h \in Handlers,
         WritePeriod(h) \/ WriteCpuset(h)
  PROVE  OrderInv'
<1>1. /\ TypeOK /\ pc[h] = "write" /\ Advance(h)
      /\ Head(todo[h]).file \in {"period", "cpuset"}
      /\ runtime' = runtime
  BY DEF OrderInv, WritePeriod, WriteCpuset, Writing
<1>2. /\ todo[h][1].file \in {"period", "cpuset"}
      /\ todo[h][1].cgroup \in Cgroups
      /\ ~req[h].only_runtime
  BY <1>1, HeadOfPlan DEF WriteType
<1>3. /\ HandlerInv(h)' /\ Exclusive'
      /\ \A i \in Handlers : i # h =>
           /\ pc'[i] = pc[i] /\ req'[i] = req[i]
           /\ seen'[i] = seen[i] /\ todo'[i] = todo[i]
  <2>1. \A g : todo[h][1] # Write("runtime", g)
    BY <1>2 DEF Write
  <2> QED
    BY <1>1, <2>1, AdvanceInv
<1>4. \A i \in Handlers : HandlerInv(i)'
  <2> SUFFICES ASSUME NEW i \in Handlers, i # h PROVE HandlerInv(i)'
    BY <1>3
  <2>1. Busy(i) => period'[Pod(i)] = period[Pod(i)]
    BY <1>1, OtherPeriods
  <2> QED
    BY <1>1, <1>3, <2>1, Bystander DEF OrderInv
<1>5. LimitsNested' /\ OneLimit'
  BY <1>1 DEF OrderInv, LimitsNested, OneLimit
<1> QED
  BY <1>3, <1>4, <1>5 DEF OrderInv

\* A write of the runtime keeps every container below its pod.
LEMMA RuntimeWrite ==
  ASSUME OrderSafe, OrderInv, TypeOK', NEW h \in Handlers, WriteRuntimeFile(h)
  PROVE  OrderInv'
<1> DEFINE r == req[h]
           c == req[h].container_id
           p == Pod(h)
           g == todo[h][1].cgroup
           v == RuntimeValue(req[h])
           S == RuntimeSlots(req[h])
<1>1. /\ TypeOK /\ Exclusive /\ LimitsNested /\ HandlerInv(h) /\ OneLimit
      /\ pc[h] = "write" /\ Busy(h) /\ Advance(h) /\ period' = period
      /\ Head(todo[h]) = todo[h][1]
  BY HeadOfPlan DEF OrderInv, WriteRuntimeFile, Writing, Busy
<1>2. /\ r \in Requests /\ ValidRequest(r)
      /\ c \in Containers /\ p = PodOf[c] /\ p \in Pods
      /\ c \in Cgroups /\ p \in Cgroups /\ c # p
      /\ S \subseteq Slots
  BY <1>1, BusyRequest, RequestType, ActuatorAssumption DEF Pod
<1>3. g \in {c, p} /\ todo[h][1] = Write("runtime", g)
  BY <1>1, HeadOfPlan DEF WriteRuntimeFile, Writing, Write, WriteType
<1>4. \A f \in Cgroups, k \in Slots :
        runtime'[f][k] = IF f = g /\ k \in S THEN v ELSE runtime[f][k]
  BY <1>1 DEF WriteRuntimeFile, TypeOK
<1>5. \A f \in Cgroups : f # g => runtime'[f] = runtime[f]
  BY <1>1 DEF WriteRuntimeFile, TypeOK
<1>6. /\ todo[h][1] = Write("runtime", p) <=> g = p
      /\ todo[h][1] = Write("runtime", c) <=> g = c
  BY <1>3 DEF Write
<1> HIDE DEF g, v, S, c, p, r
<1>7. /\ HandlerInv(h)' /\ Exclusive'
      /\ \A i \in Handlers : i # h =>
           /\ pc'[i] = pc[i] /\ req'[i] = req[i]
           /\ seen'[i] = seen[i] /\ todo'[i] = todo[i]
  <2>1. \A k \in S :
           /\ IF todo[h][1] = Write("runtime", p)
                THEN runtime'[p][k] = v ELSE runtime'[p][k] = runtime[p][k]
           /\ IF todo[h][1] = Write("runtime", c)
                THEN runtime'[c][k] = v ELSE runtime'[c][k] = runtime[c][k]
    BY <1>2, <1>4, <1>6
  <2> QED
    BY <1>1, <2>1, AdvanceInv DEF v, S, c, p
<1>8. \A i \in Handlers : HandlerInv(i)'
  <2> SUFFICES ASSUME NEW i \in Handlers, i # h PROVE HandlerInv(i)'
    BY <1>7
  <2>1. Busy(i) => /\ runtime'[Pod(i)] = runtime[Pod(i)]
                   /\ runtime'[req[i].container_id] = runtime[req[i].container_id]
    <3>1. Busy(i) => g \notin {req[i].container_id, Pod(i)}
      BY <1>1, <1>3, Apart DEF c, p
    <3> QED
      BY <1>1, <1>5, <3>1, BusyRequest DEF Busy
  <2> QED
    BY <1>1, <1>7, <2>1, Bystander DEF OrderInv
<1>9. LimitsNested'
  <2> SUFFICES ASSUME NEW d \in Containers, NEW k \in Slots
               PROVE  NoLooser(runtime'[d][k], runtime'[PodOf[d]][k])
    BY DEF LimitsNested
  <2>1. /\ d \in Cgroups /\ PodOf[d] \in Cgroups
        /\ d \notin Pods /\ PodOf[d] \in Pods
        /\ NoLooser(runtime[d][k], runtime[PodOf[d]][k])
    BY <1>1, ActuatorAssumption DEF LimitsNested, Cgroups
  <2>2. CASE d # c
    <3>1. PodOf[d] # p
      BY <1>2, <2>2 DEF OrderSafe
    <3>2. d # g /\ PodOf[d] # g
      BY <1>2, <1>3, <2>1, <2>2, <3>1, ActuatorAssumption
    <3> QED
      BY <1>5, <2>1, <3>2
  <2>3. CASE d = c /\ k \notin S
    BY <1>4, <2>1, <2>3
  <2>4. CASE d = c /\ k \in S /\ g = c
    <3>1. RuntimeBefore(todo[h], 1, c, p)
      BY <1>1, <1>3, <2>4 DEF RuntimeBefore
    <3>2. NoLooser(v, runtime[p][k])
      BY <1>1, <2>4, <3>1, HeadOfPlan DEF HandlerInv, NestedWrites, v, c, p, S, Pod
    <3> QED
      BY <1>2, <1>4, <2>1, <2>4, <3>2
  <2>5. CASE d = c /\ k \in S /\ g = p
    <3>1. RuntimeBefore(todo[h], 1, p, c)
      BY <1>1, <1>3, <2>5 DEF RuntimeBefore
    <3>2. NoLooser(runtime[c][k], v)
      BY <1>1, <2>5, <3>1, HeadOfPlan DEF HandlerInv, NestedWrites, v, c, p, S, Pod
    <3> QED
      BY <1>2, <1>4, <2>1, <2>5, <3>2
  <2> QED
    BY <1>3, <2>2, <2>3, <2>4, <2>5
<1>10. OneLimit'
  <2> SUFFICES ASSUME NEW q \in Requests, ValidRequest(q), ~q.only_runtime, q.core # {}
               PROVE  runtime'[PodOf[q.container_id]][AllCPUs] = 0
    BY DEF OneLimit
  <2>1. /\ runtime[PodOf[q.container_id]][AllCPUs] = 0
        /\ q.container_id \in Containers /\ PodOf[q.container_id] \in Cgroups
        /\ PodOf[q.container_id] \in Pods /\ AllCPUs \in Slots
    BY <1>1, RequestType DEF OneLimit, Cgroups, Slots
  <2>2. CASE PodOf[q.container_id] = g
    <3>1. q.container_id = c
      BY <1>2, <1>3, <2>1, <2>2, ActuatorAssumption DEF OrderSafe
    <3>2. r.core # {} /\ AllCPUs \notin r.core
      BY <1>2, <3>1, RequestType, ActuatorAssumption DEF OrderSafe, r, c
    <3>3. AllCPUs \notin S
      BY <3>2 DEF S, r, RuntimeSlots
    <3> QED
      BY <1>4, <2>1, <3>3
  <2>3. CASE PodOf[q.container_id] # g
    BY <1>5, <2>1, <2>3
  <2> QED
    BY <2>2, <2>3
<1> QED
  BY <1>7, <1>8, <1>9, <1>10 DEF OrderInv

\* A restart ends every request.
LEMMA CrashInv ==
  ASSUME OrderInv, TypeOK', Crash
  PROVE  OrderInv'
<1>1. /\ files' = files
      /\ \A h \in Handlers : pc'[h] = "idle" /\ todo'[h] = <<>>
  BY DEF Crash
<1>2. \A h \in Handlers : HandlerInv(h)'
  BY <1>1 DEF HandlerInv, OwnWrites, NestedWrites
<1>3. Exclusive'
  BY <1>1 DEF Exclusive, Busy
<1> QED
  BY <1>1, <1>2, <1>3, QuietStep

LEMMA OrderInit == Init => OrderInv
<1> SUFFICES ASSUME Init PROVE OrderInv
  OBVIOUS
<1>1. TypeOK
  BY TypeInit
<1>2. \A h \in Handlers : todo[h] = <<>> /\ pc[h] = "idle"
  BY DEF Init
<1>3. \A h \in Handlers : HandlerInv(h)
  BY <1>2, NoWrites
<1>4. Exclusive
  BY <1>2 DEF Exclusive, Busy
<1>6. \A g \in Cgroups, k \in Slots : runtime[g][k] = 0
  BY DEF Init
<1>7. LimitsNested
  BY <1>6, ActuatorAssumption DEF LimitsNested, NoLooser, Cgroups
<1>8. OneLimit
  BY <1>6, RequestType DEF OneLimit, Cgroups, Slots
<1> QED
  BY <1>1, <1>3, <1>4, <1>7, <1>8 DEF OrderInv

LEMMA OrderStep ==
  ASSUME OrderSafe, OrderInv, Allowed, [Next]_vars
  PROVE  OrderInv'
<1>1. TypeOK'
  BY TypeStep DEF OrderInv
<1>2. CASE \E h \in Handlers :
             \/ RefuseRequest(h) \/ HandleCgroup(h) \/ PassPreflight(h)
             \/ ReadPodPeriod(h) \/ ReadPodRuntime(h) \/ ReadPodMulti(h) \/ Fail(h)
  BY <1>1, <1>2, QuietSteps
<1>3. CASE \E h \in Handlers : WritePeriod(h) \/ WriteCpuset(h)
  BY <1>1, <1>3, OtherWrite
<1>4. CASE \E h \in Handlers : WriteRuntimeFile(h)
  BY <1>1, <1>4, RuntimeWrite
<1>5. CASE Crash
  BY <1>1, <1>5, CrashInv
<1>6. CASE UNCHANGED vars
  BY <1>1, <1>6, QuietStep DEF vars, files, OrderInv, Exclusive, Busy, Pod
<1> QED
  BY <1>2, <1>3, <1>4, <1>5, <1>6 DEF Next, Progress

-----------------------------------------------------------------------------
(***************************************************************************)
(* Periods.  A request that moves the period of its container takes the    *)
(* runtime away first, and whenever container and pod differ in the period *)
(* the container has no runtime.                                           *)
(***************************************************************************)

\* Until it has written the runtime of the container, s moves a period only if the
\* container has no runtime.
RestFirst(r, s, container) ==
  \A i \in 1 .. Len(s) :
    /\ s[i].file = "period"
    /\ \A j \in 1 .. Len(s) : j < i => s[j] # Write("runtime", r.container_id)
    => \A k \in Slots : container[k] = 0

MovesAtRest(h) ==
  Busy(h) =>
    \/ KeepsPeriod(req[h])
    \/ /\ TakesAway(req[h])
       /\ RestFirst(req[h], todo[h], runtime[req[h].container_id])

RestInv ==
  /\ \A g \in Cgroups : period[g] > 0
  /\ \A c \in Containers : period[c] # period[PodOf[c]] =>
       \A k \in Slots : runtime[c][k] = 0
  /\ \A h \in Handlers : MovesAtRest(h)

NestedInv == OrderInv /\ RestInv

\* The plan of a request that takes the runtime away: it starts with the container's
\* runtime, or finds that there is none.
LEMMA PlanRestsFirst ==
  ASSUME OrderSafe, NEW r \in Requests, ValidRequest(r), ~r.only_runtime, r.runtime = 0,
         NEW s, NEW pod \in [Slots -> Int], NEW container \in [Slots -> Int],
         \A k \in Slots : NoLooser(container[k], pod[k]),
         \A k \in Slots \ RuntimeSlots(r) : container[k] = 0,
         s.runtime = pod[AllCPUs],
         r.core # {} => s.multi = getCurrentMultiRuntime(pod, r.core)
  PROVE  RestFirst(r, applyCgroup(r, s), container)
<1> DEFINE c == r.container_id
           p == PodOf[c]
           any == \/ isRuntimeDecrease(s.runtime, r.runtime)
                  \/ isDecrease(s.period, r.period)
                  \/ r.core # {} /\ isRuntimeDecrease(s.multi, r.runtime)
           C == writeRtValues(r, c, TRUE)
           P == writeRtValues(r, p, TRUE)
<1>1. any \in BOOLEAN /\ applyCgroup(r, s) = applyBoth(r, any)
  BY Zenon DEF applyCgroup, isRuntimeDecrease, isDecrease
<1> HIDE DEF any
<1>2. CASE any
  <2>1. c \in Cgroups /\ p \in Cgroups
    BY RequestType, ActuatorAssumption DEF Cgroups
  <2>2. applyCgroup(r, s) = C \o P
    BY <1>1, <1>2 DEF applyBoth
  <2>3. C \in Seq(WriteType) /\ P \in Seq(WriteType) /\ Len(C) >= 2
    BY <2>1, WritesType
  <2>4. C[1] = Write("runtime", c)
    BY DEF writeRtValues, Write
  <2> HIDE DEF C, P
  <2>5. (C \o P)[1] = Write("runtime", c) /\ 1 \in 1 .. Len(C \o P)
    BY <2>3, <2>4
  <2>6. Write("runtime", c).file # "period"
    BY DEF Write
  <2>7. ASSUME NEW i \in 1 .. Len(C \o P), (C \o P)[i].file = "period"
        PROVE  1 < i
    BY <2>5, <2>6, <2>7
  <2> QED
    BY <2>2, <2>5, <2>7 DEF RestFirst
<1>3. CASE ~any
  <2> SUFFICES ASSUME NEW k \in RuntimeSlots(r) PROVE container[k] = 0
    BY DEF RestFirst
  <2>1. k \in Slots /\ ~isRuntimeDecrease(pod[k], 0)
    <3>1. CASE r.core = {}
      BY <1>3, <3>1 DEF RuntimeSlots, Slots, any
    <3>2. CASE r.core # {}
      <4>1. PICK j \in CPUs : r.core = {j}
        BY <3>2 DEF OrderSafe
      <4>2. k = j /\ (CHOOSE l \in CPUs : r.core = {l}) = j
        BY <3>2, <4>1 DEF RuntimeSlots
      <4>3. s.multi = pod[k]
        BY <3>2, <4>1, <4>2 DEF getCurrentMultiRuntime
      <4> QED
        BY <1>3, <3>2, <4>2, <4>3 DEF any, Slots
    <3> QED
      BY <3>1, <3>2
  <2>2. pod[k] \in Int /\ container[k] \in Int /\ NoLooser(container[k], pod[k])
    BY <2>1
  <2> QED
    BY <2>1, <2>2 DEF isRuntimeDecrease, NoLooser
<1> QED
  BY <1>2, <1>3

\* A handler that does not move, or has nothing to write, keeps its part if its cgroups
\* do not change.
LEMMA RestBystander ==
  ASSUME NEW i \in Handlers, MovesAtRest(i), Busy(i), req'[i] = req[i],
         todo'[i] \in {todo[i], <<>>},
         \A g \in {req[i].container_id, Pod(i)} :
           runtime'[g] = runtime[g] /\ period'[g] = period[g]
  PROVE  MovesAtRest(i)'
<1>1. /\ period'[req[i].container_id] = period[req[i].container_id]
      /\ period'[PodOf[req[i].container_id]] = period[PodOf[req[i].container_id]]
      /\ runtime'[req[i].container_id] = runtime[req[i].container_id]
  BY DEF Pod
<1>2. CASE KeepsPeriod(req[i])
  BY <1>1, <1>2 DEF KeepsPeriod, MovesAtRest
<1>3. CASE /\ TakesAway(req[i])
           /\ RestFirst(req[i], todo[i], runtime[req[i].container_id])
  <2>1. TakesAway(req[i])'
    BY <1>1, <1>3 DEF TakesAway, RuntimeSlots, Slots
  <2>2. CASE todo'[i] = todo[i]
    BY <1>1, <1>3, <2>1, <2>2 DEF RestFirst, MovesAtRest, Write
  <2>3. CASE todo'[i] = <<>>
    BY <2>1, <2>3 DEF RestFirst, MovesAtRest
  <2> QED
    BY <2>2, <2>3
<1> QED
  BY <1>2, <1>3 DEF MovesAtRest

\* A step that writes no file.
LEMMA RestQuiet ==
  ASSUME OrderSafe, NestedInv, UNCHANGED files, NEW h \in Handlers,
         \A i \in Handlers : i # h => pc'[i] = pc[i] /\ req'[i] = req[i] /\ todo'[i] = todo[i],
         MovesAtRest(h)'
  PROVE  RestInv'
<1>1. period' = period /\ runtime' = runtime
  BY DEF files
<1>2. ASSUME NEW i \in Handlers PROVE MovesAtRest(i)'
  <2>1. CASE i # h /\ Busy(i)
    BY <1>1, <2>1, RestBystander DEF NestedInv, RestInv
  <2>2. CASE i # h /\ ~Busy(i)
    BY <2>2 DEF MovesAtRest, Busy
  <2> QED
    BY <2>1, <2>2
<1> QED
  BY <1>1, <1>2 DEF NestedInv, RestInv

LEMMA RestQuietSteps ==
  ASSUME OrderSafe, NestedInv, NEW h \in Handlers,
         \/ RefuseRequest(h) \/ HandleCgroup(h) \/ PassPreflight(h)
         \/ ReadPodPeriod(h) \/ ReadPodRuntime(h) \/ ReadPodMulti(h) \/ Fail(h)
  PROVE  RestInv'
<1>1. TypeOK /\ MovesAtRest(h) /\ HandlerInv(h) /\ LimitsNested
  BY DEF NestedInv, OrderInv, RestInv
<1>2. CASE RefuseRequest(h) \/ FailPreflight(h) \/ FailRead(h) \/ FailWrite(h)
  <2>1. UNCHANGED files /\ \E status : Answer(h, status)
    BY <1>2 DEF RefuseRequest, FailPreflight, FailRead, FailWrite
  <2>2. /\ ~Busy(h)'
        /\ \A i \in Handlers : i # h => pc'[i] = pc[i] /\ req'[i] = req[i] /\ todo'[i] = todo[i]
    BY <1>1, <2>1 DEF Answer, TypeOK, Busy
  <2> QED
    BY <2>1, <2>2, RestQuiet DEF MovesAtRest
<1>3. CASE HandleCgroup(h)
  <2>1. /\ UNCHANGED files /\ todo'[h] = <<>>
        /\ \A i \in Handlers : i # h => pc'[i] = pc[i] /\ req'[i] = req[i] /\ todo'[i] = todo[i]
    BY <1>1, <1>3 DEF HandleCgroup, TypeOK
  <2>2. PICK r \in Requests : /\ req' = [req EXCEPT ![h] = r]
                              /\ KeepsPeriod(r) \/ TakesAway(r)
    BY <1>3 DEF HandleCgroup, Sent, OrderSafe
  <2>3. req'[h] = r /\ period' = period /\ runtime' = runtime
    BY <1>1, <2>1, <2>2 DEF TypeOK, files
  <2>4. KeepsPeriod(req[h])' \/ TakesAway(req[h])'
    BY <2>2, <2>3 DEF KeepsPeriod, TakesAway, RuntimeSlots, Slots
  <2>5. MovesAtRest(h)'
    BY <2>1, <2>4 DEF MovesAtRest, RestFirst
  <2> QED
    BY <2>1, <2>5, RestQuiet
<1>4. ASSUME PassPreflight(h) \/ ReadPodPeriod(h)
             \/ (ReadPodRuntime(h) /\ pc'[h] = "readMulti")
      PROVE  RestInv'
  <2>1. /\ UNCHANGED files /\ Busy(h) /\ req'[h] = req[h] /\ todo'[h] = todo[h]
        /\ \A i \in Handlers : i # h => pc'[i] = pc[i] /\ req'[i] = req[i] /\ todo'[i] = todo[i]
    BY <1>1, <1>4 DEF PassPreflight, ReadPodPeriod, ReadPodRuntime, Plan, TypeOK, Busy
  <2>2. MovesAtRest(h)'
    BY <1>1, <2>1, RestBystander DEF files
  <2> QED
    BY <2>1, <2>2, RestQuiet
<1>5. ASSUME Busy(h), NEW s, Plan(h, s), UNCHANGED <<req, reply, files>>,
             s.runtime = runtime[Pod(h)][AllCPUs],
             req[h].core # {} =>
               s.multi = getCurrentMultiRuntime(runtime[Pod(h)], req[h].core)
      PROVE  RestInv'
  <2> DEFINE r == req[h]
             c == r.container_id
             p == PodOf[c]
  <2>1. /\ r \in Requests /\ ValidRequest(r) /\ p = Pod(h)
        /\ c \in Containers /\ c \in Cgroups /\ p \in Cgroups
    BY <1>1, <1>5, BusyRequest DEF Busy, Pod
  <2>2. /\ period' = period /\ runtime' = runtime /\ req' = req
        /\ todo'[h] = applyCgroup(r, s)
        /\ \A i \in Handlers : i # h => pc'[i] = pc[i] /\ req'[i] = req[i] /\ todo'[i] = todo[i]
    BY <1>1, <1>5 DEF Plan, TypeOK, files
  <2>3. ASSUME KeepsPeriod(r) PROVE MovesAtRest(h)'
    BY <2>2, <2>3 DEF MovesAtRest, KeepsPeriod
  <2>4. ASSUME TakesAway(r) PROVE MovesAtRest(h)'
    <3>1. /\ runtime[p] \in [Slots -> Int] /\ runtime[c] \in [Slots -> Int]
          /\ \A k \in Slots : NoLooser(runtime[c][k], runtime[p][k])
      BY <1>1, <2>1 DEF TypeOK, LimitsNested
    <3>2. /\ ~r.only_runtime /\ r.runtime = 0
          /\ \A k \in Slots \ RuntimeSlots(r) : runtime[c][k] = 0
      BY <2>4 DEF TakesAway
    <3>3. RestFirst(r, applyCgroup(r, s), runtime[c])
      BY <1>5, <2>1, <3>1, <3>2, PlanRestsFirst
    <3>4. TakesAway(req[h])'
      BY <2>2, <2>4 DEF TakesAway, RuntimeSlots, Slots
    <3>5. RestFirst(req[h], todo[h], runtime[req[h].container_id])'
      BY <2>2, <3>3 DEF RestFirst, Write
    <3> QED
      BY <3>4, <3>5 DEF MovesAtRest
  <2>5. MovesAtRest(h)'
    <3>1. KeepsPeriod(r) \/ TakesAway(r)
      BY <1>1, <1>5 DEF MovesAtRest
    <3> QED
      BY <2>3, <2>4, <3>1
  <2> QED
    BY <1>5, <2>2, <2>5, RestQuiet
<1>6. CASE ReadPodRuntime(h) /\ pc'[h] # "readMulti"
  <2> DEFINE s == [seen[h] EXCEPT !.runtime = runtime[Pod(h)][AllCPUs]]
  <2>1. /\ Busy(h) /\ Plan(h, s) /\ UNCHANGED <<req, reply, files>> /\ req[h].core = {}
    BY <1>1, <1>6 DEF ReadPodRuntime, TypeOK, Busy
  <2>2. s.runtime = runtime[Pod(h)][AllCPUs]
    BY <1>1 DEF TypeOK
  <2> QED
    BY <1>5, <2>1, <2>2
<1>7. CASE ReadPodMulti(h)
  <2> DEFINE m == getCurrentMultiRuntime(runtime[Pod(h)], req[h].core)
             s == [seen[h] EXCEPT !.multi = m]
  <2>1. /\ Busy(h) /\ Plan(h, s) /\ UNCHANGED <<req, reply, files>>
        /\ seen[h].runtime = runtime[Pod(h)][AllCPUs]
    BY <1>1, <1>7 DEF ReadPodMulti, Busy, HandlerInv
  <2>2. s.runtime = seen[h].runtime /\ s.multi = m
    BY <1>1 DEF TypeOK
  <2> HIDE DEF s, m
  <2>3. s.runtime = runtime[Pod(h)][AllCPUs]
        /\ s.multi = getCurrentMultiRuntime(runtime[Pod(h)], req[h].core)
    BY <2>1, <2>2 DEF m
  <2> QED
    BY <1>5, <2>1, <2>3
<1>8. ~MisreadPodMulti(h)
  BY DEF MisreadPodMulti, OrderSafe
<1> QED
  BY <1>2, <1>3, <1>4, <1>6, <1>7, <1>8 DEF Fail

\* After a write the rest of the plan still rests first.
LEMMA RestOfRest ==
  ASSUME NEW r, NEW s \in Seq(WriteType), Len(s) > 1, NEW before, NEW after,
         RestFirst(r, s, before),
         IF s[1] = Write("runtime", r.container_id)
           THEN \A k \in Slots : after[k] = 0
           ELSE after = before
  PROVE  RestFirst(r, Tail(s), after)
<1>1. CASE s[1] = Write("runtime", r.container_id)
  BY <1>1 DEF RestFirst
<1>2. CASE s[1] # Write("runtime", r.container_id)
  <2> SUFFICES ASSUME NEW i \in 1 .. Len(Tail(s)), Tail(s)[i].file = "period",
                      \A j \in 1 .. Len(Tail(s)) :
                        j < i => Tail(s)[j] # Write("runtime", r.container_id)
               PROVE  \A k \in Slots : before[k] = 0
    BY <1>2 DEF RestFirst
  <2>1. /\ Len(Tail(s)) = Len(s) - 1
        /\ \A j \in 1 .. Len(Tail(s)) : Tail(s)[j] = s[j + 1]
    BY RestOfPlan
  <2>2. i + 1 \in 1 .. Len(s) /\ s[i + 1].file = "period"
    BY <2>1
  <2>3. ASSUME NEW j \in 1 .. Len(s), j < i + 1
        PROVE  s[j] # Write("runtime", r.container_id)
    <3>1. CASE j = 1
      BY <1>2, <3>1
    <3>2. CASE j # 1
      <4>1. j - 1 \in 1 .. Len(Tail(s)) /\ j - 1 < i
        BY <2>1, <2>3, <3>2
      <4>2. Tail(s)[j - 1] = s[j]
        BY <2>1, <4>1
      <4> QED
        BY <4>1, <4>2
    <3> QED
      BY <3>1, <3>2
  <2> QED
    BY <2>2, <2>3 DEF RestFirst
<1> QED
  BY <1>1, <1>2

\* A write moves a period only in a container without a runtime.
LEMMA RestWrite ==
  ASSUME OrderSafe, NestedInv, NEW h \in Handlers,
         WriteRuntimeFile(h) \/ WritePeriod(h) \/ WriteCpuset(h)
  PROVE  RestInv'
<1> DEFINE r == req[h]
           c == r.container_id
           p == PodOf[c]
           g == todo[h][1].cgroup
<1>1. /\ TypeOK /\ Exclusive /\ pc[h] = "write" /\ Busy(h) /\ Advance(h)
      /\ Head(todo[h]) = todo[h][1] /\ MovesAtRest(h)
  BY HeadOfPlan DEF NestedInv, OrderInv, RestInv, WriteRuntimeFile, WritePeriod, WriteCpuset,
                    Writing, Busy
<1>2. /\ r \in Requests /\ ValidRequest(r) /\ p = Pod(h)
      /\ c \in Containers /\ p \in Pods /\ c \in Cgroups /\ p \in Cgroups /\ c # p
  BY <1>1, BusyRequest, RequestType, ActuatorAssumption DEF Pod
<1>3. /\ g \in {c, p} /\ todo[h] \in Seq(WriteType)
      /\ todo[h][1] = Write(todo[h][1].file, g)
      /\ todo[h][1].file # "runtime" => ~r.only_runtime
      /\ 1 \in 1 .. Len(todo[h])
  BY <1>1, <1>2, HeadOfPlan DEF NestedInv, Write, WriteType
<1>4. /\ \A f \in Cgroups :
           period'[f] = IF todo[h][1] = Write("period", g) /\ f = g
                          THEN r.period ELSE period[f]
      /\ \A f \in Cgroups :
           IF todo[h][1] = Write("runtime", g) /\ f = g
             THEN \A k \in Slots : runtime'[f][k] =
                    IF k \in RuntimeSlots(r) THEN RuntimeValue(r) ELSE runtime[f][k]
             ELSE runtime'[f] = runtime[f]
  <2>1. CASE WriteRuntimeFile(h)
    <3>1. todo[h][1].file = "runtime"
      BY <1>1, <2>1 DEF WriteRuntimeFile, Writing
    <3>2. todo[h][1] = Write("runtime", g) /\ todo[h][1] # Write("period", g)
      BY <1>3, <3>1 DEF Write
    <3> QED
      BY <1>1, <1>2, <1>3, <2>1, <3>2 DEF WriteRuntimeFile, TypeOK
  <2>2. CASE WritePeriod(h)
    <3>1. todo[h][1].file = "period"
      BY <1>1, <2>2 DEF WritePeriod, Writing
    <3>2. todo[h][1] = Write("period", g) /\ todo[h][1] # Write("runtime", g)
      BY <1>3, <3>1 DEF Write
    <3> QED
      BY <1>1, <1>2, <1>3, <2>2, <3>2 DEF WritePeriod, TypeOK
  <2>3. CASE WriteCpuset(h)
    <3>1. todo[h][1].file = "cpuset"
      BY <1>1, <2>3 DEF WriteCpuset, Writing
    <3>2. todo[h][1] # Write("period", g) /\ todo[h][1] # Write("runtime", g)
      BY <3>1 DEF Write
    <3> QED
      BY <2>3, <3>2 DEF WriteCpuset
  <2> QED
    BY <2>1, <2>2, <2>3
<1>5. \A i \in Handlers : i # h => pc'[i] = pc[i] /\ req'[i] = req[i] /\ todo'[i] = todo[i]
  BY <1>1 DEF Advance, Answer, TypeOK
<1>6. \/ ~Busy(h)'
      \/ /\ Busy(h)' /\ req'[h] = r /\ Len(todo[h]) > 1 /\ todo'[h] = Tail(todo[h])
  BY <1>1 DEF Advance, Answer, TypeOK, Busy
<1> HIDE DEF r, c, p, g
<1>7. ASSUME NEW i \in Handlers, i # h PROVE MovesAtRest(i)'
  <2>1. CASE Busy(i)
    <3>1. /\ g \notin {req[i].container_id, Pod(i)}
          /\ req[i].container_id \in Cgroups /\ Pod(i) \in Cgroups
      BY <1>1, <1>2, <1>3, <1>7, <2>1, Apart, BusyRequest DEF c, p, r, Busy
    <3>2. \A f \in {req[i].container_id, Pod(i)} :
            runtime'[f] = runtime[f] /\ period'[f] = period[f]
      BY <1>4, <3>1
    <3> QED
      BY <1>5, <1>7, <2>1, <3>2, RestBystander DEF NestedInv, RestInv
  <2>2. CASE ~Busy(i)
    BY <1>5, <1>7, <2>2 DEF MovesAtRest, Busy
  <2> QED
    BY <2>1, <2>2
<1>8. ASSUME NEW d \in Containers, d # c, period'[d] # period'[PodOf[d]]
      PROVE  \A k \in Slots : runtime'[d][k] = 0
  <2>1. d \in Cgroups /\ PodOf[d] \in Cgroups /\ d # g /\ PodOf[d] # g
    BY <1>2, <1>3, <1>8, ActuatorAssumption DEF OrderSafe, Cgroups, p
  <2> QED
    BY <1>4, <1>8, <2>1 DEF NestedInv, RestInv
<1>9. CASE KeepsPeriod(r)
  <2>1. period[c] = period[p] /\ (~r.only_runtime => period[c] = r.period)
    BY <1>9 DEF KeepsPeriod, c, p
  <2>2. period'[c] = period[c] /\ period'[p] = period[p]
    <3>1. todo[h][1] = Write("period", g) => ~r.only_runtime
      BY <1>3 DEF Write
    <3> QED
      BY <1>2, <1>4, <2>1, <3>1
  <2>3. MovesAtRest(h)'
    BY <1>6, <2>1, <2>2 DEF MovesAtRest, KeepsPeriod, c, p
  <2>4. \A d \in Containers : period'[d] # period'[PodOf[d]] =>
          \A k \in Slots : runtime'[d][k] = 0
    BY <1>8, <2>1, <2>2 DEF p
  <2>5. \A f \in Cgroups : period'[f] > 0
    BY <1>2, <1>4 DEF NestedInv, RestInv, ValidRequest
  <2> QED
    BY <1>7, <2>3, <2>4, <2>5 DEF RestInv
<1>10. CASE TakesAway(r) /\ RestFirst(r, todo[h], runtime[c])
  <2>1. /\ RuntimeValue(r) = 0 /\ ~r.only_runtime
        /\ \A k \in Slots \ RuntimeSlots(r) : runtime[c][k] = 0
    BY <1>10 DEF TakesAway, RuntimeValue, c
  <2>2. IF todo[h][1] = Write("runtime", c)
          THEN \A k \in Slots : runtime'[c][k] = 0
          ELSE runtime'[c] = runtime[c]
    <3>1. CASE todo[h][1] = Write("runtime", c)
      <4>1. g = c /\ todo[h][1] = Write("runtime", g)
        BY <1>3, <3>1 DEF Write
      <4> QED
        BY <1>2, <1>4, <2>1, <3>1, <4>1
    <3>2. CASE todo[h][1] # Write("runtime", c)
      BY <1>2, <1>4, <3>2
    <3> QED
      BY <3>1, <3>2
  <2>3. MovesAtRest(h)'
    <3>1. CASE ~Busy(h)'
      BY <3>1 DEF MovesAtRest
    <3>2. CASE /\ Busy(h)' /\ req'[h] = r /\ Len(todo[h]) > 1
               /\ todo'[h] = Tail(todo[h])
      <4>1. RestFirst(r, Tail(todo[h]), runtime'[c])
        BY <1>3, <1>10, <2>2, <3>2, RestOfRest DEF c
      <4>2. RestFirst(req[h], todo[h], runtime[req[h].container_id])'
        BY <3>2, <4>1 DEF RestFirst, Write, c
      <4>3. \A k \in Slots \ RuntimeSlots(r) : runtime'[c][k] = 0
        BY <2>1, <2>2
      <4>4. TakesAway(req[h])'
        BY <1>10, <3>2, <4>3 DEF TakesAway, RuntimeSlots, Slots, c
      <4> QED
        BY <4>2, <4>4 DEF MovesAtRest
    <3> QED
      BY <1>6, <3>1, <3>2
  <2>4. period'[c] # period'[p] => \A k \in Slots : runtime'[c][k] = 0
    <3>1. CASE todo[h][1] = Write("period", g)
      <4>1. todo[h][1].file = "period"
        BY <3>1 DEF Write
      <4>2. \A k \in Slots : runtime[c][k] = 0
        BY <1>3, <1>10, <4>1 DEF RestFirst
      <4>3. todo[h][1] # Write("runtime", c)
        BY <4>1 DEF Write
      <4> QED
        BY <2>2, <4>2, <4>3
    <3>2. CASE todo[h][1] # Write("period", g)
      <4>1. period'[c] = period[c] /\ period'[p] = period[p]
        BY <1>2, <1>4, <3>2
      <4>2. period[c] # period[p] => \A k \in Slots : runtime[c][k] = 0
        BY <1>2 DEF NestedInv, RestInv, p
      <4> QED
        BY <2>2, <4>1, <4>2
    <3> QED
      BY <3>1, <3>2
  <2>5. \A d \in Containers : period'[d] # period'[PodOf[d]] =>
          \A k \in Slots : runtime'[d][k] = 0
    BY <1>8, <2>4 DEF p
  <2>6. \A f \in Cgroups : period'[f] > 0
    BY <1>2, <1>4 DEF NestedInv, RestInv, ValidRequest
  <2> QED
    BY <1>7, <2>3, <2>5, <2>6 DEF RestInv
<1> QED
  BY <1>1, <1>9, <1>10 DEF MovesAtRest, c, r

LEMMA NestedInit == Init => NestedInv
<1> SUFFICES ASSUME Init PROVE NestedInv
  OBVIOUS
<1>1. OrderInv
  BY OrderInit
<1>2. \A h \in Handlers : MovesAtRest(h)
  BY DEF Init, MovesAtRest, Busy
<1>3. \A g \in Cgroups : period[g] = DefaultPeriod
  BY DEF Init
<1>4. \A c \in Containers : period[c] = period[PodOf[c]]
  BY <1>3, ActuatorAssumption DEF Cgroups
<1> QED
  BY <1>1, <1>2, <1>3, <1>4, ActuatorAssumption DEF NestedInv, RestInv

LEMMA NestedStep ==
  ASSUME OrderSafe, NestedInv, [Next]_vars
  PROVE  NestedInv'
<1>1. Allowed
  BY DEF NestedInv, RestInv, MovesAtRest, Allowed
<1>2. OrderInv'
  BY <1>1, OrderStep DEF NestedInv
<1>3. CASE \E h \in Handlers :
             \/ RefuseRequest(h) \/ HandleCgroup(h) \/ PassPreflight(h)
             \/ ReadPodPeriod(h) \/ ReadPodRuntime(h) \/ ReadPodMulti(h) \/ Fail(h)
  BY <1>2, <1>3, RestQuietSteps DEF NestedInv
<1>4. CASE \E h \in Handlers : WriteRuntimeFile(h) \/ WritePeriod(h) \/ WriteCpuset(h)
  BY <1>2, <1>4, RestWrite DEF NestedInv
<1>5. CASE Crash
  BY <1>2, <1>5 DEF Crash, files, NestedInv, RestInv, MovesAtRest, Busy
<1>6. CASE UNCHANGED vars
  <2>1. period' = period /\ runtime' = runtime /\ pc' = pc /\ req' = req /\ todo' = todo
    BY <1>6 DEF vars
  <2>2. \A h \in Handlers : MovesAtRest(h)'
    BY <2>1 DEF NestedInv, RestInv, MovesAtRest, Busy, KeepsPeriod, TakesAway, RestFirst,
                RuntimeSlots, Slots, Write
  <2> QED
    BY <1>2, <2>1, <2>2 DEF NestedInv, RestInv
<1> QED
  BY <1>3, <1>4, <1>5, <1>6 DEF Next, Progress

\* For every number of pods, CPUs, handlers and requests: as long as the
\* controller keeps to OrderSafe, no container is ever above its pod, whatever
\* write fails and whenever the process is restarted.
THEOREM Nested ==
  ASSUME OrderSafe
  PROVE  Spec => []LimitsNested
<1>1. NestedInv => LimitsNested
  BY DEF NestedInv, OrderInv
<1>2. NestedInv /\ [Next]_vars => NestedInv'
  BY NestedStep
<1> QED
  BY <1>1, <1>2, NestedInit, PTL DEF Spec

LEMMA ScaledUp ==
  ASSUME NEW a \in Int, NEW b \in Int, NEW d \in Nat, a <= b
  PROVE  a * d <= b * d
<1>1. (b - a) * d >= 0
  OBVIOUS
<1>2. (b - a) * d = b * d - a * d
  OBVIOUS
<1>3. a * d \in Int /\ b * d \in Int
  OBVIOUS
<1> QED
  BY <1>1, <1>2, <1>3

\* With that the bandwidth of a container, which the scheduler checks when a file is
\* written, is never above its pod's either ("This prevents the kernel from rejecting
\* writes", node-actuator/README.md), although a request moves the period and the
\* runtime of two cgroups in up to six writes any of which may be the last: the
\* writes that come first take the container's runtime away.
THEOREM BandwidthIsNested ==
  ASSUME OrderSafe
  PROVE  Spec => []BandwidthNested
<1>1. NestedInv => BandwidthNested
  <2> SUFFICES ASSUME NestedInv, NEW c \in Containers, NEW s \in Slots,
                      ~(runtime[PodOf[c]][s] < 0)
               PROVE  /\ runtime[c][s] >= 0
                      /\ runtime[c][s] * period[PodOf[c]] <= runtime[PodOf[c]][s] * period[c]
    BY DEF BandwidthNested
  <2>1. PodOf[c] \in Cgroups /\ c \in Cgroups
    BY ActuatorAssumption DEF Cgroups
  <2>2. /\ period[c] \in Nat /\ period[PodOf[c]] \in Nat
        /\ runtime[c][s] \in Int /\ runtime[PodOf[c]][s] \in Int
    BY <2>1 DEF NestedInv, OrderInv, RestInv, TypeOK
  <2>3. runtime[c][s] >= 0 /\ runtime[c][s] <= runtime[PodOf[c]][s]
    BY <2>2 DEF NestedInv, OrderInv, LimitsNested, NoLooser
  <2>4. CASE period[c] = period[PodOf[c]]
    BY <2>2, <2>3, <2>4, ScaledUp
  <2>5. CASE period[c] # period[PodOf[c]]
    <3>1. runtime[c][s] = 0
      BY <2>5 DEF NestedInv, RestInv
    <3>2. 0 * period[c] <= runtime[PodOf[c]][s] * period[c]
      BY <2>2, <2>3, <3>1, ScaledUp
    <3> QED
      BY <2>2, <3>1, <3>2
  <2> QED
    BY <2>3, <2>4, <2>5
<1>2. NestedInv /\ [Next]_vars => NestedInv'
  BY NestedStep
<1> QED
  BY <1>1, <1>2, NestedInit, PTL DEF Spec

-----------------------------------------------------------------------------
(***************************************************************************)
(* Runtime and period.  Between the writes of a request the runtime and    *)
(* the period of a cgroup belong to different requests.  The invariant     *)
(* says which of them may still be in force together with which, and that  *)
(* a request leaves container and pod alike when it is done.               *)
(***************************************************************************)

\* Is this file of g still to be written?
Left(s, f, g) == \E i \in 1 .. Len(s) : s[i] = Write(f, g)

\* No write b comes before a write a.
NotBefore(s, b, a) ==
  \A i, j \in 1 .. Len(s) : i < j => ~(s[i] = b /\ s[j] = a)

\* With this runtime and period in force, each fits the other's next value if it
\* is written first, and what is not to be written any more is what r asks for.
Fits(r, s, g, rt, pe) ==
  /\ NotBefore(s, Write("runtime", g), Write("period", g)) \/ RuntimeValue(r) <= pe
  /\ NotBefore(s, Write("period", g), Write("runtime", g)) \/ pe <= r.period
  /\ Left(s, "runtime", g) \/ \A k \in RuntimeSlots(r) : rt[k] = RuntimeValue(r)
  /\ Left(s, "period", g) \/ pe = r.period

\* A cgroup whose runtimes are limits within its period, in the slots of r only.
Sound(r, rt, pe) ==
  /\ \A k \in Slots : rt[k] >= 0 /\ rt[k] <= pe
  /\ \A k \in Slots \ RuntimeSlots(r) : rt[k] = 0

\* The first write of s, for r, takes the limits of g from rt and pe to rt2 and pe2.
Written(r, s, g, rt, pe, rt2, pe2) ==
  /\ \A k \in Slots : rt2[k] = IF s[1] = Write("runtime", g) /\ k \in RuntimeSlots(r)
                                 THEN RuntimeValue(r) ELSE rt[k]
  /\ pe2 = IF s[1] = Write("period", g) THEN r.period ELSE pe

\* The last write leaves nothing to write.
LEMMA LastWrite ==
  ASSUME NEW W, NEW s \in Seq(W), s # <<>>, ~(Len(s) > 1)
  PROVE  \A f, g : ~Left(Tail(s), f, g)
<1>1. Len(s) \in Nat \ {0} /\ Len(Tail(s)) = Len(s) - 1
  BY EmptySeq, HeadTailProperties
<1>2. 1 .. Len(Tail(s)) = {}
  BY <1>1
<1> QED
  BY <1>2 DEF Left

\* A write keeps runtime and period together.
LEMMA FitsStep ==
  ASSUME NEW r \in Requests, ValidRequest(r), ~r.only_runtime,
         NEW s \in Seq(WriteType), s # <<>>, NEW g,
         NEW rt \in [Slots -> Int], NEW pe \in Int,
         NEW rt2 \in [Slots -> Int], NEW pe2 \in Int,
         Fits(r, s, g, rt, pe), Sound(r, rt, pe), Written(r, s, g, rt, pe, rt2, pe2)
  PROVE  Fits(r, Tail(s), g, rt2, pe2) /\ Sound(r, rt2, pe2)
<1> DEFINE v == RuntimeValue(r)
           q == r.period
           S == RuntimeSlots(r)
           R == Write("runtime", g)
           P == Write("period", g)
<1>1. /\ v \in Int /\ q \in Int /\ 0 <= v /\ v <= q /\ S \subseteq Slots
  <2>1. /\ r.period \in Int /\ r.runtime \in Int /\ S \subseteq Slots
        /\ r.period > 0 /\ r.runtime <= r.period
    BY RequestType DEF ValidRequest
  <2> QED
    BY <2>1 DEF RuntimeValue
<1>2. R # P
  BY DEF Write
<1>3. /\ Len(s) \in Nat \ {0} /\ Len(Tail(s)) = Len(s) - 1
      /\ \A i \in 1 .. Len(Tail(s)) : Tail(s)[i] = s[i + 1]
  <2>1. Len(s) \in Nat /\ Len(s) # 0
    BY EmptySeq
  <2> QED
    BY <2>1, HeadTailProperties
<1>4. ASSUME NEW b, NEW a, NotBefore(s, b, a) PROVE NotBefore(Tail(s), b, a)
  <2> SUFFICES ASSUME NEW i \in 1 .. Len(Tail(s)), NEW j \in 1 .. Len(Tail(s)), i < j
               PROVE  ~(Tail(s)[i] = b /\ Tail(s)[j] = a)
    BY DEF NotBefore
  <2>1. i + 1 \in 1 .. Len(s) /\ j + 1 \in 1 .. Len(s) /\ i + 1 < j + 1
    BY <1>3
  <2> QED
    BY <1>3, <1>4, <2>1 DEF NotBefore
<1>5. ASSUME NEW f, Left(s, f, g), s[1] # Write(f, g) PROVE Left(Tail(s), f, g)
  <2>1. PICK i \in 1 .. Len(s) : s[i] = Write(f, g)
    BY <1>5 DEF Left
  <2>2. i - 1 \in 1 .. Len(Tail(s)) /\ Tail(s)[i - 1] = s[i]
    BY <1>3, <1>5, <2>1
  <2> QED
    BY <2>1, <2>2 DEF Left
<1>6. ASSUME NEW f, NotBefore(s, s[1], Write(f, g)), s[1] # Write(f, g)
      PROVE  ~Left(s, f, g)
  <2> SUFFICES ASSUME NEW i \in 1 .. Len(s), s[i] = Write(f, g) PROVE FALSE
    BY DEF Left
  <2>1. 1 \in 1 .. Len(s) /\ 1 < i
    BY <1>3, <1>6
  <2> QED
    BY <1>6, <2>1 DEF NotBefore
<1>7. /\ NotBefore(s, R, P) \/ v <= pe
      /\ NotBefore(s, P, R) \/ pe <= q
      /\ Left(s, "runtime", g) \/ \A k \in S : rt[k] = v
      /\ Left(s, "period", g) \/ pe = q
  BY DEF Fits
<1>8. /\ \A k \in Slots : rt[k] \in Int /\ rt[k] >= 0 /\ rt[k] <= pe
      /\ \A k \in Slots \ S : rt[k] = 0
  BY DEF Sound
<1> SUFFICES /\ NotBefore(Tail(s), R, P) \/ v <= pe2
             /\ NotBefore(Tail(s), P, R) \/ pe2 <= q
             /\ Left(Tail(s), "runtime", g) \/ \A k \in S : rt2[k] = v
             /\ Left(Tail(s), "period", g) \/ pe2 = q
             /\ \A k \in Slots : rt2[k] >= 0 /\ rt2[k] <= pe2
             /\ \A k \in Slots \ S : rt2[k] = 0
  BY DEF Fits, Sound
<1>9. CASE s[1] = R
  <2>1. /\ pe2 = pe
        /\ \A k \in Slots : rt2[k] = IF k \in S THEN v ELSE rt[k]
    BY <1>2, <1>9 DEF Written
  <2>2. v <= pe
    <3>1. CASE NotBefore(s, R, P)
      <4>1. ~Left(s, "period", g)
        BY <1>2, <1>6, <1>9, <3>1
      <4> QED
        BY <1>1, <1>7, <4>1
    <3> QED
      BY <1>7, <3>1
  <2>3. Left(Tail(s), "period", g) \/ pe = q
    BY <1>2, <1>5, <1>7, <1>9
  <2>4. NotBefore(Tail(s), P, R) \/ pe <= q
    BY <1>4, <1>7
  <2> HIDE DEF v, q, S, R, P
  <2> QED
    BY <1>1, <1>8, <2>1, <2>2, <2>3, <2>4
<1>10. CASE s[1] = P
  <2>1. pe2 = q /\ \A k \in Slots : rt2[k] = rt[k]
    BY <1>2, <1>10 DEF Written
  <2>2. \A k \in Slots : rt[k] <= q
    <3>1. CASE NotBefore(s, P, R)
      <4>1. ~Left(s, "runtime", g)
        BY <1>2, <1>6, <1>10, <3>1
      <4>2. \A k \in S : rt[k] = v
        BY <1>7, <4>1
      <4> HIDE DEF v, q, S
      <4> QED
        BY <1>1, <1>8, <4>2
    <3>2. CASE pe <= q
      BY <1>1, <1>8, <3>2
    <3> QED
      BY <1>7, <3>1, <3>2
  <2>3. Left(Tail(s), "runtime", g) \/ \A k \in S : rt[k] = v
    BY <1>2, <1>5, <1>7, <1>10
  <2> HIDE DEF v, q, S, R, P
  <2> QED
    BY <1>1, <1>8, <2>1, <2>2, <2>3
<1>11. CASE s[1] # R /\ s[1] # P
  <2>1. pe2 = pe /\ \A k \in Slots : rt2[k] = rt[k]
    BY <1>11 DEF Written
  <2>2. /\ Left(Tail(s), "runtime", g) \/ \A k \in S : rt[k] = v
        /\ Left(Tail(s), "period", g) \/ pe = q
    BY <1>5, <1>7, <1>11
  <2>3. /\ NotBefore(Tail(s), R, P) \/ v <= pe
        /\ NotBefore(Tail(s), P, R) \/ pe <= q
    BY <1>4, <1>7
  <2> HIDE DEF v, q, S, R, P
  <2> QED
    BY <1>1, <1>8, <2>1, <2>2, <2>3
<1> QED
  BY <1>9, <1>10, <1>11

\* The writes of one cgroup: all of them to it, runtime and period among them, and
\* which of the two comes first.
LEMMA OrderOfOneCgroup ==
  ASSUME NEW r, NEW g \in Cgroups, NEW d \in BOOLEAN
  PROVE  LET w == writeRtValues(r, g, d)
         IN  /\ Left(w, "runtime", g) /\ Left(w, "period", g)
             /\ d => NotBefore(w, Write("period", g), Write("runtime", g))
             /\ ~d => NotBefore(w, Write("runtime", g), Write("period", g))
<1> DEFINE w == writeRtValues(r, g, d)
           R == Write("runtime", g)
           P == Write("period", g)
           C == Write("cpuset", g)
<1>1. R # P /\ R # C /\ P # C
  BY DEF Write
<1>2. w \in IF d THEN {<<R, P>> \o <<>>, <<R, P>> \o <<C>>}
                 ELSE {<<P, R>> \o <<>>, <<P, R>> \o <<C>>}
  BY DEF writeRtValues
<1>3. IF d THEN w = <<R, P>> \/ w = <<R, P, C>> ELSE w = <<P, R>> \/ w = <<P, R, C>>
  <2> HIDE DEF R, P, C, w
  <2> QED
    BY <1>2
<1> HIDE DEF w, R, P, C
<1>4. ASSUME NEW A, NEW B, A # B, A # C, B # C, w = <<A, B>> \/ w = <<A, B, C>>
      PROVE  /\ \E i \in 1 .. Len(w) : w[i] = A
             /\ \E i \in 1 .. Len(w) : w[i] = B
             /\ NotBefore(w, B, A)
  <2>1. CASE w = <<A, B>>
    <3>1. Len(w) = 2 /\ w[1] = A /\ w[2] = B
      BY <2>1
    <3> QED
      BY <1>4, <3>1 DEF NotBefore
  <2>2. CASE w = <<A, B, C>>
    <3>1. Len(w) = 3 /\ w[1] = A /\ w[2] = B /\ w[3] = C
      BY <2>2
    <3> QED
      BY <1>4, <3>1 DEF NotBefore
  <2> QED
    BY <1>4, <2>1, <2>2
<1>5. /\ \E i \in 1 .. Len(w) : w[i] = R
      /\ \E i \in 1 .. Len(w) : w[i] = P
      /\ d => NotBefore(w, P, R)
      /\ ~d => NotBefore(w, R, P)
  BY <1>1, <1>3, <1>4, Zenon
<1>6. /\ Left(w, "runtime", g) /\ Left(w, "period", g)
  BY <1>5 DEF Left, R, P
<1> QED
  BY <1>5, <1>6 DEF w, R, P

\* What is left to write of g, and in which order, is not changed by writes of
\* another cgroup after it or before it.
LEMMA Joined ==
  ASSUME NEW f, NEW g, f # g,
         NEW s \in Seq(WriteType), NEW t \in Seq(WriteType),
         \A i \in 1 .. Len(s) : s[i].cgroup = f,
         \A i \in 1 .. Len(t) : t[i].cgroup = g
  PROVE  /\ \A x : Left(s, x, f) => Left(s \o t, x, f)
         /\ \A x : Left(t, x, g) => Left(s \o t, x, g)
         /\ \A x, y : NotBefore(s, Write(x, f), Write(y, f))
                        => NotBefore(s \o t, Write(x, f), Write(y, f))
         /\ \A x, y : NotBefore(t, Write(x, g), Write(y, g))
                        => NotBefore(s \o t, Write(x, g), Write(y, g))
<1>1. /\ Len(s) \in Nat /\ Len(t) \in Nat /\ Len(s \o t) = Len(s) + Len(t)
      /\ \A i \in 1 .. Len(s) : i \in 1 .. Len(s \o t) /\ (s \o t)[i] = s[i]
      /\ \A i \in 1 .. Len(t) : /\ i + Len(s) \in 1 .. Len(s \o t)
                                /\ (s \o t)[i + Len(s)] = t[i]
  OBVIOUS
<1>2. \A x, e : Write(x, e).cgroup = e
  BY DEF Write
<1>3. ASSUME NEW i \in 1 .. Len(s \o t), NEW x, (s \o t)[i] = Write(x, f)
      PROVE  i \in 1 .. Len(s) /\ s[i] = Write(x, f)
  <2>1. CASE i \in 1 .. Len(s)
    BY <1>1, <1>3, <2>1
  <2>2. CASE i \notin 1 .. Len(s)
    <3>1. i - Len(s) \in 1 .. Len(t) /\ (i - Len(s)) + Len(s) = i
      BY <1>1, <2>2
    <3>2. t[i - Len(s)] = Write(x, f)
      BY <1>1, <1>3, <3>1
    <3>3. t[i - Len(s)].cgroup = g
      BY <3>1
    <3> QED
      BY <1>2, <3>2, <3>3
  <2> QED
    BY <2>1, <2>2
<1>4. ASSUME NEW i \in 1 .. Len(s \o t), NEW x, (s \o t)[i] = Write(x, g)
      PROVE  i - Len(s) \in 1 .. Len(t) /\ t[i - Len(s)] = Write(x, g)
  <2>1. CASE i \in 1 .. Len(s)
    BY <1>1, <1>2, <1>4, <2>1
  <2>2. CASE i \notin 1 .. Len(s)
    <3>1. i - Len(s) \in 1 .. Len(t) /\ (i - Len(s)) + Len(s) = i
      BY <1>1, <2>2
    <3>2. (s \o t)[i] = t[i - Len(s)]
      BY <1>1, <3>1
    <3> QED
      BY <1>4, <3>1, <3>2
  <2> QED
    BY <2>1, <2>2
<1>5. ASSUME NEW x, Left(s, x, f) PROVE Left(s \o t, x, f)
  BY <1>1, <1>5 DEF Left
<1>6. ASSUME NEW x, Left(t, x, g) PROVE Left(s \o t, x, g)
  BY <1>1, <1>6 DEF Left
<1>7. ASSUME NEW x, NEW y, NotBefore(s, Write(x, f), Write(y, f))
      PROVE  NotBefore(s \o t, Write(x, f), Write(y, f))
  BY <1>3, <1>7 DEF NotBefore
<1>8. ASSUME NEW x, NEW y, NotBefore(t, Write(x, g), Write(y, g))
      PROVE  NotBefore(s \o t, Write(x, g), Write(y, g))
  <2> SUFFICES ASSUME NEW i \in 1 .. Len(s \o t), NEW j \in 1 .. Len(s \o t), i < j,
                      (s \o t)[i] = Write(x, g), (s \o t)[j] = Write(y, g)
               PROVE  FALSE
    BY DEF NotBefore
  <2>1. /\ i - Len(s) \in 1 .. Len(t) /\ t[i - Len(s)] = Write(x, g)
        /\ j - Len(s) \in 1 .. Len(t) /\ t[j - Len(s)] = Write(y, g)
    BY <1>4
  <2>2. i - Len(s) < j - Len(s)
    BY <1>1
  <2> QED
    BY <1>8, <2>1, <2>2 DEF NotBefore
<1> QED
  BY <1>5, <1>6, <1>7, <1>8

\* Whether a handler starts with the container tells which of runtime and period it
\* has to write first.
LEMMA Decision ==
  ASSUME PeriodSafe, NEW r \in Requests, ValidRequest(r), NEW s,
         NEW rt \in [Slots -> Int], NEW pe \in Int, Sound(r, rt, pe),
         s.period = pe, s.runtime = rt[AllCPUs],
         r.core # {} => s.multi \in {0, getCurrentMultiRuntime(rt, r.core)}
  PROVE  \E d \in BOOLEAN : /\ applyCgroup(r, s) = applyBoth(r, d)
                            /\ d => RuntimeValue(r) <= pe
                            /\ ~d => pe <= r.period
<1> DEFINE d == \/ isRuntimeDecrease(s.runtime, r.runtime)
                \/ isDecrease(s.period, r.period)
                \/ r.core # {} /\ isRuntimeDecrease(s.multi, r.runtime)
<1>1. /\ r.period \in Int /\ r.runtime \in Int /\ ~r.only_runtime
      /\ r.period > 0 /\ r.runtime <= r.period
  BY RequestType DEF ValidRequest, PeriodSafe
<1>2. /\ s.runtime \in Int /\ 0 <= s.runtime /\ s.runtime <= pe
  BY DEF Sound, Slots
<1>3. r.core # {} => s.multi \in Int /\ 0 <= s.multi /\ s.multi <= pe
  <2> SUFFICES ASSUME r.core # {} PROVE s.multi \in Int /\ 0 <= s.multi /\ s.multi <= pe
    OBVIOUS
  <2>1. CASE s.multi = 0
    BY <1>2, <2>1
  <2>2. CASE s.multi # 0
    <3>1. s.multi = getCurrentMultiRuntime(rt, r.core) /\ \E k \in CPUs : r.core = {k}
      BY <2>2 DEF getCurrentMultiRuntime
    <3>2. (CHOOSE k \in CPUs : r.core = {k}) \in Slots
      BY <3>1 DEF Slots
    <3>3. s.multi = rt[CHOOSE k \in CPUs : r.core = {k}]
      BY <3>1 DEF getCurrentMultiRuntime
    <3> QED
      BY <3>2, <3>3 DEF Sound
  <2> QED
    BY <2>1, <2>2
<1>4. d \in BOOLEAN
  BY DEF isRuntimeDecrease, isDecrease
<1>5. applyCgroup(r, s) = applyBoth(r, d)
  BY <1>1, Zenon DEF applyCgroup
<1>6. d => RuntimeValue(r) <= pe
  <2>1. RuntimeValue(r) = IF r.runtime < 0 THEN 0 ELSE r.runtime
    BY <1>1 DEF RuntimeValue
  <2>2. CASE isDecrease(s.period, r.period)
    BY <1>1, <2>1, <2>2 DEF isDecrease
  <2>3. CASE isRuntimeDecrease(s.runtime, r.runtime)
    BY <1>1, <1>2, <2>1, <2>3 DEF isRuntimeDecrease
  <2>4. CASE r.core # {} /\ isRuntimeDecrease(s.multi, r.runtime)
    BY <1>1, <1>3, <2>1, <2>4 DEF isRuntimeDecrease
  <2> QED
    BY <2>2, <2>3, <2>4
<1>7. ~d => pe <= r.period
  BY <1>1 DEF isDecrease
<1> HIDE DEF d
<1> QED
  BY <1>4, <1>5, <1>6, <1>7

\* The plan of a handler that has read the limits of the pod fits pod and container.
LEMMA PlanFits ==
  ASSUME PeriodSafe, NEW r \in Requests, ValidRequest(r), NEW s,
         NEW rt \in [Slots -> Int], NEW pe \in Int, Sound(r, rt, pe),
         s.period = pe, s.runtime = rt[AllCPUs],
         r.core # {} => s.multi \in {0, getCurrentMultiRuntime(rt, r.core)}
  PROVE  /\ OwnWrites(r, applyCgroup(r, s))
         /\ \A g \in {r.container_id, PodOf[r.container_id]} :
              Fits(r, applyCgroup(r, s), g, rt, pe)
<1>1. PICK d \in BOOLEAN : /\ applyCgroup(r, s) = applyBoth(r, d)
                           /\ d => RuntimeValue(r) <= pe
                           /\ ~d => pe <= r.period
  BY Decision
<1> DEFINE c == r.container_id
           p == PodOf[c]
           plan == applyBoth(r, d)
           C == writeRtValues(r, c, d)
           P == writeRtValues(r, p, d)
<1>2. c # p /\ c \in Cgroups /\ p \in Cgroups /\ ~r.only_runtime
  BY RequestType, ActuatorAssumption DEF Cgroups, PeriodSafe
<1>3. OwnWrites(r, plan)
  BY <1>2, NormalOrdered DEF Ordered
<1>4. /\ C \in Seq(WriteType) /\ P \in Seq(WriteType)
      /\ \A i \in 1 .. Len(C) : C[i].cgroup = c
      /\ \A i \in 1 .. Len(P) : P[i].cgroup = p
  BY <1>2, WritesType, WritesOfOneCgroup
<1>5. /\ Left(C, "runtime", c) /\ Left(C, "period", c)
      /\ d => NotBefore(C, Write("period", c), Write("runtime", c))
      /\ ~d => NotBefore(C, Write("runtime", c), Write("period", c))
      /\ Left(P, "runtime", p) /\ Left(P, "period", p)
      /\ d => NotBefore(P, Write("period", p), Write("runtime", p))
      /\ ~d => NotBefore(P, Write("runtime", p), Write("period", p))
  BY <1>2, OrderOfOneCgroup
<1>6. plan = IF d THEN C \o P ELSE P \o C
  BY DEF applyBoth
<1> HIDE DEF C, P, plan, c, p
<1>7. CASE d
  <2>1. \A g \in {c, p} :
          /\ Left(C \o P, "runtime", g) /\ Left(C \o P, "period", g)
          /\ NotBefore(C \o P, Write("period", g), Write("runtime", g))
    BY <1>2, <1>4, <1>5, <1>7, Joined
  <2> QED
    BY <1>1, <1>3, <1>6, <1>7, <2>1 DEF Fits, c, p, plan
<1>8. CASE ~d
  <2>1. \A g \in {c, p} :
          /\ Left(P \o C, "runtime", g) /\ Left(P \o C, "period", g)
          /\ NotBefore(P \o C, Write("runtime", g), Write("period", g))
    BY <1>2, <1>4, <1>5, <1>8, Joined
  <2> QED
    BY <1>1, <1>3, <1>6, <1>8, <2>1 DEF Fits, c, p, plan
<1> QED
  BY <1>7, <1>8

-----------------------------------------------------------------------------

Alike(c) == runtime[c] = runtime[PodOf[c]] /\ period[c] = period[PodOf[c]]

Writer(c) == \E h \in Handlers : pc[h] = "write" /\ req[h].container_id = c

\* Every request finds its cgroups within their period and nothing in other slots.
OwnSound ==
  \A r \in Requests : ValidRequest(r) =>
    \A g \in {r.container_id, PodOf[r.container_id]} : Sound(r, runtime[g], period[g])

\* What a handler has read is still so, and what it has left to write fits.
PeriodHandler(h) ==
  /\ pc[h] \in {"readRuntime", "readMulti"} => seen[h].period = period[Pod(h)]
  /\ pc[h] = "readMulti" => seen[h].runtime = runtime[Pod(h)][AllCPUs]
  /\ pc[h] = "write" =>
       /\ OwnWrites(req[h], todo[h])
       /\ \A g \in {req[h].container_id, Pod(h)} :
            Fits(req[h], todo[h], g, runtime[g], period[g])

PeriodInv ==
  /\ TypeOK
  /\ RuntimeWithinPeriod
  /\ Exclusive
  /\ OwnSound
  /\ \A c \in Containers : Writer(c) \/ Alike(c)
  /\ \A h \in Handlers : PeriodHandler(h)

LEMMA PeriodInit == Init => PeriodInv
<1> SUFFICES ASSUME Init PROVE PeriodInv
  OBVIOUS
<1>1. /\ \A h \in Handlers : pc[h] = "idle"
      /\ runtime = [g \in Cgroups |-> [k \in Slots |-> 0]]
      /\ period = [g \in Cgroups |-> DefaultPeriod]
      /\ DefaultPeriod \in Nat
  BY ActuatorAssumption DEF Init
<1>2. TypeOK
  BY TypeInit
<1>3. RuntimeWithinPeriod
  BY <1>1 DEF RuntimeWithinPeriod
<1>4. Exclusive /\ \A h \in Handlers : PeriodHandler(h)
  BY <1>1 DEF Exclusive, Busy, PeriodHandler
<1>5. \A c \in Containers : c \in Cgroups /\ PodOf[c] \in Cgroups /\ Alike(c)
  BY <1>1, ActuatorAssumption DEF Alike, Cgroups
<1>6. OwnSound
  <2> SUFFICES ASSUME NEW r \in Requests, ValidRequest(r),
                      NEW g \in {r.container_id, PodOf[r.container_id]}
               PROVE  Sound(r, runtime[g], period[g])
    BY DEF OwnSound
  <2>1. g \in Cgroups
    BY <1>5, RequestType
  <2> QED
    BY <1>1, <2>1 DEF Sound
<1> QED
  BY <1>2, <1>3, <1>4, <1>5, <1>6 DEF PeriodInv

\* A handler that does not move keeps its part if its cgroups do not change.
LEMMA PeriodBystander ==
  ASSUME TypeOK, NEW i \in Handlers, PeriodHandler(i),
         pc'[i] = pc[i], req'[i] = req[i], seen'[i] = seen[i], todo'[i] = todo[i],
         Busy(i) => \A g \in {req[i].container_id, Pod(i)} :
                      runtime'[g] = runtime[g] /\ period'[g] = period[g]
  PROVE  PeriodHandler(i)'
<1>1. CASE Busy(i)
  <2>1. Pod(i)' = Pod(i)
    BY DEF Pod
  <2>2. /\ runtime'[Pod(i)'] = runtime[Pod(i)] /\ period'[Pod(i)'] = period[Pod(i)]
    BY <1>1, <2>1
  <2>3. pc[i] = "write" => OwnWrites(req[i], todo[i])'
    BY DEF PeriodHandler, OwnWrites
  <2>4. ASSUME pc[i] = "write", NEW g \in {req[i].container_id, Pod(i)}
        PROVE  Fits(req'[i], todo'[i], g, runtime'[g], period'[g])
    BY <1>1, <2>4 DEF PeriodHandler
  <2> QED
    BY <2>1, <2>2, <2>3, <2>4 DEF PeriodHandler
<1>2. CASE ~Busy(i)
  BY <1>2 DEF PeriodHandler, Busy
<1> QED
  BY <1>1, <1>2

\* A step that writes no file keeps the invariant if it keeps the part of the handler
\* that moves, starts no request for a pod that has one, and lets writers write on.
LEMMA PeriodQuiet ==
  ASSUME PeriodInv, TypeOK', UNCHANGED files, Exclusive',
         \A i \in Handlers : pc[i] = "write" => pc'[i] = "write" /\ req'[i] = req[i],
         \A i \in Handlers : \/ PeriodHandler(i)'
                             \/ /\ pc'[i] = pc[i] /\ req'[i] = req[i]
                                /\ seen'[i] = seen[i] /\ todo'[i] = todo[i]
  PROVE  PeriodInv'
<1>1. /\ TypeOK
      /\ \A i \in Handlers : PeriodHandler(i)
      /\ runtime' = runtime /\ period' = period
  BY DEF PeriodInv, files
<1>2. RuntimeWithinPeriod' /\ OwnSound'
  BY <1>1 DEF PeriodInv, RuntimeWithinPeriod, OwnSound
<1>3. \A i \in Handlers : PeriodHandler(i)'
  BY <1>1, PeriodBystander
<1>4. \A c \in Containers : Writer(c)' \/ Alike(c)'
  BY <1>1 DEF PeriodInv, Writer, Alike
<1> QED
  BY <1>2, <1>3, <1>4 DEF PeriodInv

\* The last read makes the plan.
LEMMA PeriodPlan ==
  ASSUME PeriodSafe, PeriodInv, TypeOK', NEW h \in Handlers, Busy(h), pc[h] # "write",
         NEW s, Plan(h, s), UNCHANGED <<req, reply, files>>,
         s.period = period[Pod(h)],
         s.runtime = runtime[Pod(h)][AllCPUs],
         req[h].core # {} =>
           s.multi \in {0, getCurrentMultiRuntime(runtime[Pod(h)], req[h].core)}
  PROVE  PeriodInv'
<1> DEFINE r == req[h]
           c == req[h].container_id
           p == Pod(h)
<1>1. /\ TypeOK /\ Exclusive /\ OwnSound
      /\ r \in Requests /\ ValidRequest(r)
      /\ c \in Containers /\ c \in Cgroups /\ p \in Cgroups /\ p = PodOf[c]
  BY BusyRequest DEF PeriodInv, Busy, Pod
<1>2. runtime[p] \in [Slots -> Int] /\ period[p] \in Int
  BY <1>1 DEF TypeOK
<1>3. Alike(c)
  <2>1. ASSUME NEW i \in Handlers, pc[i] = "write", req[i].container_id = c PROVE FALSE
    BY <1>1, <2>1 DEF Exclusive, Busy, Pod
  <2> QED
    BY <1>1, <2>1 DEF PeriodInv, Writer
<1>4. Sound(r, runtime[p], period[p])
  BY <1>1 DEF OwnSound
<1>5. /\ OwnWrites(r, applyCgroup(r, s))
      /\ \A g \in {c, p} : Fits(r, applyCgroup(r, s), g, runtime[p], period[p])
  <2> HIDE DEF c, p
  <2> QED
    BY <1>1, <1>2, <1>4, PlanFits DEF p, c
<1>6. /\ pc'[h] = "write" /\ todo'[h] = applyCgroup(r, s) /\ req'[h] = r
      /\ runtime' = runtime /\ period' = period
      /\ \A i \in Handlers : req'[i] = req[i]
      /\ \A i \in Handlers : i # h =>
           pc'[i] = pc[i] /\ seen'[i] = seen[i] /\ todo'[i] = todo[i]
  BY <1>1 DEF Plan, TypeOK, files
<1>7. PeriodHandler(h)'
  <2>1. Pod(h)' = p
    BY <1>6 DEF Pod
  <2>2. \A g \in {c, p} : runtime'[g] = runtime[p] /\ period'[g] = period[p]
    BY <1>1, <1>3, <1>6 DEF Alike
  <2> HIDE DEF p
  <2>3. OwnWrites(req'[h], todo'[h])
    BY <1>5, <1>6
  <2>4. ASSUME NEW g \in {c, p}
        PROVE  Fits(req'[h], todo'[h], g, runtime'[g], period'[g])
    BY <1>5, <1>6, <2>2
  <2> QED
    BY <1>6, <2>1, <2>3, <2>4 DEF PeriodHandler, OwnWrites
<1>8. Exclusive'
  BY <1>1, SameRequests DEF Plan
<1> QED
  BY <1>6, <1>7, <1>8, PeriodQuiet

\* The steps that write no file.
LEMMA PeriodQuietSteps ==
  ASSUME PeriodSafe, PeriodInv, TypeOK', NEW h \in Handlers,
         \/ RefuseRequest(h) \/ HandleCgroup(h) \/ PassPreflight(h)
         \/ ReadPodPeriod(h) \/ ReadPodRuntime(h) \/ ReadPodMulti(h) \/ Fail(h)
  PROVE  PeriodInv'
<1>1. TypeOK /\ Exclusive /\ PeriodHandler(h)
  BY DEF PeriodInv
<1>2. CASE RefuseRequest(h) \/ FailPreflight(h)
  <2>1. UNCHANGED files /\ pc[h] # "write" /\ \E status : Answer(h, status)
    BY <1>2 DEF RefuseRequest, FailPreflight
  <2>2. PICK status : Answer(h, status)
    BY <2>1
  <2>3. /\ pc'[h] = "idle" /\ Exclusive'
        /\ \A i \in Handlers : i # h =>
             /\ pc'[i] = pc[i] /\ req'[i] = req[i]
             /\ seen'[i] = seen[i] /\ todo'[i] = todo[i]
    BY <1>1, <2>2, AnswerInv DEF Answer, TypeOK
  <2>4. PeriodHandler(h)'
    BY <2>3 DEF PeriodHandler
  <2> QED
    BY <2>1, <2>3, <2>4, PeriodQuiet
<1>3. CASE HandleCgroup(h)
  <2>1. PICK r \in Requests : /\ req' = [req EXCEPT ![h] = r]
                              /\ \A i \in Handlers : Busy(i) =>
                                   Pod(i) # PodOf[r.container_id]
    BY <1>3 DEF HandleCgroup, Sent, PeriodSafe
  <2>2. /\ pc[h] = "idle" /\ pc'[h] = "preflight" /\ Pod(h)' = PodOf[r.container_id]
        /\ \A i \in Handlers : i # h =>
             /\ pc'[i] = pc[i] /\ req'[i] = req[i]
             /\ seen'[i] = seen[i] /\ todo'[i] = todo[i]
             /\ Busy(i) => Pod(i) # Pod(h)'
    BY <1>1, <1>3, <2>1 DEF HandleCgroup, TypeOK, Pod
  <2>3. PeriodHandler(h)'
    BY <2>2 DEF PeriodHandler
  <2>4. Exclusive'
    BY <1>1, <2>2 DEF Exclusive, Busy, Pod
  <2> QED
    BY <1>3, <2>2, <2>3, <2>4, PeriodQuiet DEF HandleCgroup
<1>4. CASE PassPreflight(h) \/ ReadPodPeriod(h)
  <2>1. /\ UNCHANGED <<req, files>> /\ Busy(h) /\ pc[h] # "write"
        /\ \E l \in {"readPeriod", "readRuntime"} :
             pc' = [pc EXCEPT ![h] = l] /\ (l = "readRuntime" => ReadPodPeriod(h))
        /\ \A i \in Handlers : i # h =>
             /\ pc'[i] = pc[i] /\ req'[i] = req[i]
             /\ seen'[i] = seen[i] /\ todo'[i] = todo[i]
    BY <1>1, <1>4 DEF PassPreflight, ReadPodPeriod, TypeOK, Busy
  <2>2. PICK l \in {"readPeriod", "readRuntime"} :
          pc' = [pc EXCEPT ![h] = l] /\ (l = "readRuntime" => ReadPodPeriod(h))
    BY <2>1
  <2>3. pc'[h] = l
    BY <1>1, <2>2 DEF TypeOK
  <2>4. l = "readRuntime" => seen'[h].period = period'[Pod(h)']
    BY <1>1, <2>1, <2>2 DEF ReadPodPeriod, TypeOK, Pod, files
  <2>5. PeriodHandler(h)'
    BY <2>3, <2>4 DEF PeriodHandler
  <2>6. Exclusive'
    BY <1>1, <2>1, <2>2, SameRequests
  <2> QED
    BY <2>1, <2>5, <2>6, PeriodQuiet
<1>5. CASE ReadPodRuntime(h)
  <2> DEFINE s == [seen[h] EXCEPT !.runtime = runtime[Pod(h)][AllCPUs]]
  <2>1. /\ Busy(h) /\ pc[h] = "readRuntime" /\ UNCHANGED <<req, reply, files>>
        /\ s.period = period[Pod(h)] /\ s.runtime = runtime[Pod(h)][AllCPUs]
    <3>1. seen[h] \in [period : Int, runtime : Int, multi : Int]
      BY <1>1 DEF TypeOK
    <3>2. s.period = seen[h].period /\ s.runtime = runtime[Pod(h)][AllCPUs]
      BY <3>1
    <3> QED
      BY <1>1, <1>5, <3>2 DEF ReadPodRuntime, Busy, PeriodHandler
  <2> HIDE DEF s
  <2>2. CASE Plan(h, s) /\ req[h].core = {}
    BY <2>1, <2>2, PeriodPlan
  <2>3. CASE /\ seen' = [seen EXCEPT ![h] = s]
             /\ pc'   = [pc EXCEPT ![h] = "readMulti"]
             /\ UNCHANGED todo
    <3>1. /\ pc'[h] = "readMulti" /\ seen'[h] = s
          /\ runtime' = runtime /\ period' = period /\ Pod(h)' = Pod(h)
          /\ \A i \in Handlers : i # h =>
               /\ pc'[i] = pc[i] /\ req'[i] = req[i]
               /\ seen'[i] = seen[i] /\ todo'[i] = todo[i]
      BY <1>1, <2>1, <2>3 DEF TypeOK, files, Pod
    <3>2. PeriodHandler(h)'
      BY <2>1, <3>1 DEF PeriodHandler
    <3>3. Exclusive'
      BY <1>1, <2>1, <2>3, SameRequests
    <3> QED
      BY <2>1, <3>1, <3>2, <3>3, PeriodQuiet
  <2> QED
    BY <1>5, <2>2, <2>3 DEF ReadPodRuntime, s
<1>6. CASE ReadPodMulti(h) \/ MisreadPodMulti(h)
  <2>1. PICK m \in {0, getCurrentMultiRuntime(runtime[Pod(h)], req[h].core)} :
          Plan(h, [seen[h] EXCEPT !.multi = m])
    BY <1>6 DEF ReadPodMulti, MisreadPodMulti
  <2> DEFINE s == [seen[h] EXCEPT !.multi = m]
  <2>2. /\ Busy(h) /\ pc[h] = "readMulti" /\ UNCHANGED <<req, reply, files>>
        /\ seen[h].period = period[Pod(h)]
        /\ seen[h].runtime = runtime[Pod(h)][AllCPUs]
    BY <1>1, <1>6 DEF ReadPodMulti, MisreadPodMulti, Busy, PeriodHandler
  <2>3. /\ s.period = seen[h].period /\ s.runtime = seen[h].runtime /\ s.multi = m
    BY <1>1 DEF TypeOK
  <2> HIDE DEF s
  <2> QED
    BY <2>1, <2>2, <2>3, PeriodPlan DEF s
<1>7. ~FailRead(h) /\ ~FailWrite(h)
  BY DEF FailRead, FailWrite, PeriodSafe
<1> QED
  BY <1>2, <1>3, <1>4, <1>5, <1>6, <1>7 DEF Fail

\* A write, of whichever file, keeps runtime and period of its cgroup together, and
\* the last one leaves container and pod alike.
LEMMA PeriodWrite ==
  ASSUME PeriodSafe, PeriodInv, TypeOK', NEW h \in Handlers, pc[h] = "write", Advance(h),
         \A g \in Cgroups, k \in Slots : runtime'[g][k] =
           IF todo[h][1] = Write("runtime", g) /\ k \in RuntimeSlots(req[h])
             THEN RuntimeValue(req[h]) ELSE runtime[g][k],
         \A g \in Cgroups : period'[g] =
           IF todo[h][1] = Write("period", g) THEN req[h].period ELSE period[g]
  PROVE  PeriodInv'
<1> DEFINE r == req[h]
           c == req[h].container_id
           p == Pod(h)
           s == todo[h]
           v == RuntimeValue(req[h])
           S == RuntimeSlots(req[h])
<1>1. /\ TypeOK /\ TypeOK' /\ Exclusive /\ OwnSound /\ RuntimeWithinPeriod
      /\ PeriodHandler(h) /\ Busy(h)
      /\ r \in Requests /\ ValidRequest(r) /\ ~r.only_runtime
      /\ c \in Containers /\ c \in Cgroups /\ p \in Pods /\ p \in Cgroups /\ p = PodOf[c]
  BY BusyRequest DEF PeriodInv, Busy, Pod, PeriodSafe
<1>2. /\ s \in Seq(WriteType) /\ s # <<>> /\ Len(s) \in Nat \ {0}
      /\ s[1].cgroup \in {c, p}
      /\ \A g \in {c, p} : Fits(r, s, g, runtime[g], period[g])
      /\ OwnWrites(r, s)
  <2>1. s \in Seq(WriteType) /\ s # <<>>
    BY <1>1 DEF TypeOK, WriteType
  <2>2. Len(s) \in Nat \ {0}
    BY <2>1, EmptySeq
  <2>3. /\ OwnWrites(r, s)
        /\ \A g \in {c, p} : Fits(r, s, g, runtime[g], period[g])
    BY <1>1 DEF PeriodHandler
  <2>4. s[1].cgroup \in {c, p}
    <3>1. 1 \in 1 .. Len(s)
      BY <2>2
    <3> HIDE DEF s
    <3> QED
      BY <2>3, <3>1 DEF OwnWrites, Pod
  <2> QED
    BY <2>1, <2>2, <2>3, <2>4
<1>3. \A g \in Cgroups \ {c, p} : runtime'[g] = runtime[g] /\ period'[g] = period[g]
  <2> SUFFICES ASSUME NEW g \in Cgroups \ {c, p}
               PROVE  runtime'[g] = runtime[g] /\ period'[g] = period[g]
    OBVIOUS
  <2>1. \A f : Write(f, g).cgroup = g
    BY DEF Write
  <2>2. s[1] # Write("runtime", g) /\ s[1] # Write("period", g)
    BY <1>2, <2>1
  <2>3. \A k \in Slots : runtime'[g][k] = runtime[g][k]
    BY <2>2
  <2>4. runtime[g] \in [Slots -> Int] /\ runtime'[g] \in [Slots -> Int]
    BY <1>1 DEF TypeOK
  <2> QED
    BY <2>2, <2>3, <2>4
<1>4. ASSUME NEW g \in {c, p}
      PROVE  /\ Fits(r, Tail(s), g, runtime'[g], period'[g])
             /\ Sound(r, runtime'[g], period'[g])
  <2>1. g \in Cgroups
    BY <1>1
  <2>2. /\ runtime[g] \in [Slots -> Int] /\ runtime'[g] \in [Slots -> Int]
        /\ period[g] \in Int /\ period'[g] \in Int
    <3>1. /\ runtime \in [Cgroups -> [Slots -> Int]] /\ period \in [Cgroups -> Int]
          /\ runtime' \in [Cgroups -> [Slots -> Int]] /\ period' \in [Cgroups -> Int]
      BY <1>1 DEF TypeOK
    <3> QED
      BY <2>1, <3>1
  <2>3. Sound(r, runtime[g], period[g])
    BY <1>1 DEF OwnSound
  <2>4. Fits(r, s, g, runtime[g], period[g])
    BY <1>2
  <2>5. Written(r, s, g, runtime[g], period[g], runtime'[g], period'[g])
    BY <2>1 DEF Written
  <2>6. r \in Requests /\ ValidRequest(r) /\ ~r.only_runtime
    BY <1>1
  <2>7. s \in Seq(WriteType) /\ s # <<>>
    BY <1>2
  <2> HIDE DEF r, s, c, p
  <2> QED
    BY <2>2, <2>3, <2>4, <2>5, <2>6, <2>7, FitsStep
<1>5. RuntimeWithinPeriod'
  <2> SUFFICES ASSUME NEW g \in Cgroups, NEW k \in Slots
               PROVE  runtime'[g][k] <= period'[g]
    BY DEF RuntimeWithinPeriod
  <2>1. CASE g \in {c, p}
    BY <1>4, <2>1 DEF Sound
  <2>2. CASE g \notin {c, p}
    BY <1>1, <1>3, <2>2 DEF RuntimeWithinPeriod
  <2> QED
    BY <2>1, <2>2
<1>6. OwnSound'
  <2> SUFFICES ASSUME NEW q \in Requests, ValidRequest(q),
                      NEW g \in {q.container_id, PodOf[q.container_id]}
               PROVE  Sound(q, runtime'[g], period'[g])
    BY DEF OwnSound
  <2>1. /\ q.container_id \in Containers /\ PodOf[q.container_id] \in Pods
        /\ g \in Cgroups
    BY RequestType DEF Cgroups
  <2>2. CASE q.container_id = c
    <3>1. q.core = r.core
      BY <1>1, <2>2 DEF PeriodSafe
    <3>2. RuntimeSlots(q) = RuntimeSlots(r)
      BY <3>1 DEF RuntimeSlots
    <3>3. g \in {c, p}
      BY <1>1, <2>2
    <3> QED
      BY <1>4, <3>2, <3>3 DEF Sound
  <2>3. CASE q.container_id # c
    <3>1. g \notin {c, p}
      BY <1>1, <2>1, <2>3, ActuatorAssumption DEF PeriodSafe
    <3>2. runtime'[g] = runtime[g] /\ period'[g] = period[g]
      BY <1>3, <2>1, <3>1
    <3>3. Sound(q, runtime[g], period[g])
      BY <1>1 DEF OwnSound
    <3> QED
      BY <3>2, <3>3
  <2> QED
    BY <2>2, <2>3
<1>7. /\ Exclusive'
      /\ \A i \in Handlers : i # h =>
           /\ pc'[i] = pc[i] /\ req'[i] = req[i]
           /\ seen'[i] = seen[i] /\ todo'[i] = todo[i]
      /\ IF Len(s) > 1 THEN pc'[h] = "write" /\ req'[h] = r /\ todo'[h] = Tail(s)
                       ELSE pc'[h] = "idle"
  <2>1. CASE Len(s) > 1
    <3>1. /\ todo' = [todo EXCEPT ![h] = Tail(s)] /\ UNCHANGED <<pc, req, seen>>
      BY <2>1 DEF Advance
    <3>2. Exclusive'
      BY <1>1, <3>1 DEF Exclusive, Busy, Pod
    <3> QED
      BY <1>1, <2>1, <3>1, <3>2 DEF TypeOK
  <2>2. CASE ~(Len(s) > 1)
    <3>1. Answer(h, "200")
      BY <2>2 DEF Advance
    <3>2. pc'[h] = "idle"
      BY <1>1, <3>1 DEF Answer, TypeOK
    <3> QED
      BY <1>1, <2>2, <3>1, <3>2, AnswerInv
  <2> QED
    BY <2>1, <2>2
<1>8. PeriodHandler(h)'
  <2>1. CASE Len(s) > 1
    <3>1. pc'[h] = "write" /\ req'[h] = r /\ todo'[h] = Tail(s) /\ Pod(h)' = p
      BY <1>7, <2>1 DEF Pod
    <3>2. OwnWrites(r, Tail(s))
      <4>1. /\ Len(Tail(s)) = Len(s) - 1
            /\ \A i \in 1 .. Len(Tail(s)) : Tail(s)[i] = s[i + 1]
        BY <1>2, <2>1, RestOfPlan
      <4> QED
        BY <1>2, <4>1 DEF OwnWrites
    <3> HIDE DEF r, s, p
    <3>3. OwnWrites(req'[h], todo'[h])
      BY <3>1, <3>2
    <3>4. ASSUME NEW g \in {req'[h].container_id, Pod(h)'}
          PROVE  Fits(req'[h], todo'[h], g, runtime'[g], period'[g])
      <4>1. g \in {c, p}
        BY <3>1 DEF r
      <4> QED
        BY <1>4, <3>1, <4>1
    <3> QED
      BY <3>1, <3>3, <3>4 DEF PeriodHandler, OwnWrites
  <2>2. CASE ~(Len(s) > 1)
    BY <1>7, <2>2 DEF PeriodHandler
  <2> QED
    BY <2>1, <2>2
<1>9. \A i \in Handlers : PeriodHandler(i)'
  <2> SUFFICES ASSUME NEW i \in Handlers, i # h PROVE PeriodHandler(i)'
    BY <1>8
  <2>1. Busy(i) => \A g \in {req[i].container_id, Pod(i)} : g \in Cgroups \ {c, p}
    <3> SUFFICES ASSUME Busy(i)
                 PROVE  \A g \in {req[i].container_id, Pod(i)} : g \in Cgroups \ {c, p}
      OBVIOUS
    <3>1. req[i].container_id \in Cgroups /\ Pod(i) \in Cgroups
      BY <1>1, BusyRequest DEF Busy
    <3>2. {c, p} \cap {req[i].container_id, Pod(i)} = {}
      BY <1>1, Apart
    <3> HIDE DEF c, p
    <3> QED
      BY <3>1, <3>2
  <2> QED
    BY <1>1, <1>3, <1>7, <2>1, PeriodBystander DEF PeriodInv
<1>10. ASSUME NEW d \in Containers PROVE Writer(d)' \/ Alike(d)'
  <2>1. CASE d # c
    <3>1. d \in Cgroups \ {c, p} /\ PodOf[d] \in Cgroups \ {c, p}
      BY <1>1, <2>1, ActuatorAssumption DEF PeriodSafe, Cgroups
    <3>2. CASE Alike(d)
      BY <1>3, <3>1, <3>2 DEF Alike
    <3>3. CASE Writer(d)
      BY <1>7, <2>1, <3>3 DEF Writer
    <3> QED
      BY <3>2, <3>3 DEF PeriodInv
  <2>2. CASE d = c /\ Len(s) > 1
    BY <1>7, <2>2 DEF Writer
  <2>3. CASE d = c /\ ~(Len(s) > 1)
    <3>1. s \in Seq(WriteType) /\ s # <<>>
      BY <1>2
    <3>2. \A f, g : ~Left(Tail(s), f, g)
      BY <2>3, <3>1, LastWrite
    <3>3. ASSUME NEW g \in {c, p}
          PROVE  /\ period'[g] = r.period
                 /\ \A k \in Slots : runtime'[g][k] = IF k \in S THEN v ELSE 0
                 /\ runtime'[g] \in [Slots -> Int]
      <4>1. runtime'[g] \in [Slots -> Int]
        <5>1. g \in Cgroups
          BY <1>1
        <5>2. runtime' \in [Cgroups -> [Slots -> Int]]
          BY DEF TypeOK
        <5> QED
          BY <5>1, <5>2
      <4>2. Fits(r, Tail(s), g, runtime'[g], period'[g])
        BY <1>4
      <4>3. Sound(r, runtime'[g], period'[g])
        BY <1>4
      <4> QED
        BY <3>2, <4>1, <4>2, <4>3 DEF Fits, Sound
    <3>4. period'[c] = period'[p] /\ runtime'[c] = runtime'[p]
      <4>1. \A k \in Slots : runtime'[c][k] = runtime'[p][k]
        BY <3>3
      <4>2. runtime'[c] \in [Slots -> Int] /\ runtime'[p] \in [Slots -> Int]
        BY <3>3
      <4> QED
        BY <3>3, <4>1, <4>2
    <3> QED
      BY <1>1, <2>3, <3>4 DEF Alike
  <2> QED
    BY <2>1, <2>2, <2>3
<1> QED
  BY <1>1, <1>5, <1>6, <1>7, <1>9, <1>10 DEF PeriodInv

LEMMA PeriodWriteSteps ==
  ASSUME PeriodSafe, PeriodInv, TypeOK', NEW h \in Handlers,
         WriteRuntimeFile(h) \/ WritePeriod(h) \/ WriteCpuset(h)
  PROVE  PeriodInv'
<1>1. /\ TypeOK /\ pc[h] = "write" /\ Advance(h)
      /\ todo[h] \in Seq(WriteType) /\ todo[h] # <<>>
  BY DEF PeriodInv, WriteRuntimeFile, WritePeriod, WriteCpuset, Writing, TypeOK, WriteType
<1>2. PICK f \in Files, g \in Cgroups : Head(todo[h]) = Write(f, g)
  <2>1. Head(todo[h]) \in WriteType
    BY <1>1
  <2> QED
    BY <2>1 DEF WriteType, Write
<1>3. todo[h][1] = Write(f, g) /\ Head(todo[h]).file = f /\ Head(todo[h]).cgroup = g
  BY <1>1, <1>2 DEF Write
<1>4. \A x, e : Write(x, e) = Write(f, g) <=> x = f /\ e = g
  BY DEF Write
<1>5. CASE WriteRuntimeFile(h)
  <2>1. f = "runtime" /\ period' = period
    BY <1>3, <1>5 DEF WriteRuntimeFile, Writing
  <2>2. \A e \in Cgroups, k \in Slots : runtime'[e][k] =
          IF e = g /\ k \in RuntimeSlots(req[h]) THEN RuntimeValue(req[h]) ELSE runtime[e][k]
    BY <1>1, <1>3, <1>5 DEF WriteRuntimeFile, TypeOK
  <2> QED
    BY <1>1, <1>3, <1>4, <2>1, <2>2, PeriodWrite
<1>6. CASE WritePeriod(h)
  <2>1. f = "period" /\ runtime' = runtime
    BY <1>3, <1>6 DEF WritePeriod, Writing
  <2>2. \A e \in Cgroups : period'[e] = IF e = g THEN req[h].period ELSE period[e]
    BY <1>1, <1>3, <1>6 DEF WritePeriod, TypeOK
  <2> QED
    BY <1>1, <1>3, <1>4, <2>1, <2>2, PeriodWrite
<1>7. CASE WriteCpuset(h)
  <2>1. f = "cpuset" /\ runtime' = runtime /\ period' = period
    BY <1>3, <1>7 DEF WriteCpuset, Writing
  <2> QED
    BY <1>1, <1>3, <1>4, <2>1, PeriodWrite
<1> QED
  BY <1>5, <1>6, <1>7

LEMMA PeriodStep ==
  ASSUME PeriodSafe, PeriodInv, [Next]_vars
  PROVE  PeriodInv'
<1>1. TypeOK'
  BY TypeStep DEF PeriodInv
<1>2. CASE \E h \in Handlers :
             \/ RefuseRequest(h) \/ HandleCgroup(h) \/ PassPreflight(h)
             \/ ReadPodPeriod(h) \/ ReadPodRuntime(h) \/ ReadPodMulti(h) \/ Fail(h)
  BY <1>1, <1>2, PeriodQuietSteps
<1>3. CASE \E h \in Handlers : WriteRuntimeFile(h) \/ WritePeriod(h) \/ WriteCpuset(h)
  BY <1>1, <1>3, PeriodWriteSteps
<1>4. ~Crash
  BY DEF Crash, PeriodSafe
<1>5. CASE UNCHANGED vars
  BY <1>1, <1>5, PeriodQuiet DEF vars, files, PeriodInv, Exclusive, Busy, Pod
<1> QED
  BY <1>2, <1>3, <1>4, <1>5 DEF Next, Progress

\* For all requests that meet PeriodSafe, however they move the two limits, and all
\* pods, CPUs and handlers, no runtime is ever longer than its period.
THEOREM WithinPeriod ==
  ASSUME PeriodSafe
  PROVE  Spec => []RuntimeWithinPeriod
<1>1. PeriodInv /\ [Next]_vars => PeriodInv'
  BY PeriodStep
<1>2. PeriodInv => RuntimeWithinPeriod
  BY DEF PeriodInv
<1> QED
  BY <1>1, <1>2, PeriodInit, PTL DEF Spec
=============================================================================
