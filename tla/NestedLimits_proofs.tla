------------------------ MODULE NestedLimits_proofs ------------------------
(***************************************************************************)
(* What a controller that keeps one request per pod in flight can rely on, *)
(* for every number of containers, CPUs, handlers and requests: the answer *)
(* 200 is true, and, with the requests the write order is right for, the   *)
(* handler implements NestedLimits.                                        *)
(***************************************************************************)
EXTENDS NodeActuator_proofs

-----------------------------------------------------------------------------
(***************************************************************************)
(* The invariant.  Every limit of a request that is being written is in    *)
(* force already or still in the plan, in the container and in the pod.    *)
(***************************************************************************)

\* The files a request is about.
Needed(r, f) ==
  \/ f = "runtime"
  \/ f = "period" /\ ~r.only_runtime
  \/ f = "cpuset" /\ ~r.only_runtime /\ r.core # {}

\* The file of w has what r asks for.
Holds(r, w) ==
  /\ w.file = "runtime" =>
       \A k \in RuntimeSlots(r) : runtime[w.cgroup][k] = RuntimeValue(r)
  /\ w.file = "period" => period[w.cgroup] = r.period
  /\ w.file = "cpuset" => cpuset[w.cgroup] = r.core

Pending(s, w) == \E i \in 1 .. Len(s) : s[i] = w

DoneOrDue(r, s) ==
  \A f \in Files, g \in {r.container_id, PodOf[r.container_id]} :
    Needed(r, f) => Holds(r, Write(f, g)) \/ Pending(s, Write(f, g))

AppliedInv ==
  /\ TypeOK
  /\ Exclusive
  /\ \A h \in Handlers :
       /\ Busy(h) => reply[h] = "none"
       /\ OwnWrites(req[h], todo[h])
       /\ pc[h] = "write" => DoneOrDue(req[h], todo[h])

-----------------------------------------------------------------------------
(***************************************************************************)
(* A plan is complete and keeps to the cgroups of its request.             *)
(***************************************************************************)

LEMMA PlanOwn ==
  ASSUME NEW r \in Requests, ValidRequest(r), NEW s
  PROVE  OwnWrites(r, applyCgroup(r, s))
<1>1. CASE r.only_runtime
  <2>1. PICK d \in BOOLEAN : applyCgroup(r, s) = applyRuntimeWithOrder(r, d)
    <3> DEFINE e == IF r.core = {} THEN isRuntimeDecrease(s.runtime, r.runtime)
                    ELSE r.core # {} /\ isRuntimeDecrease(s.multi, r.runtime)
    <3>1. e \in BOOLEAN
      BY DEF isRuntimeDecrease
    <3>2. applyCgroup(r, s) = applyRuntimeWithOrder(r, e)
      BY <1>1, Zenon DEF applyCgroup
    <3> HIDE DEF e
    <3> QED
      BY <3>1, <3>2
  <2> QED
    BY <2>1, EscalationOrdered DEF Ordered
<1>2. CASE ~r.only_runtime
  <2>1. PICK d \in BOOLEAN : applyCgroup(r, s) = applyBoth(r, d)
    <3> DEFINE e == \/ isRuntimeDecrease(s.runtime, r.runtime)
                    \/ isDecrease(s.period, r.period)
                    \/ r.core # {} /\ isRuntimeDecrease(s.multi, r.runtime)
    <3>1. e \in BOOLEAN
      BY DEF isRuntimeDecrease, isDecrease
    <3>2. applyCgroup(r, s) = applyBoth(r, e)
      BY <1>2, Zenon DEF applyCgroup
    <3> HIDE DEF e
    <3> QED
      BY <3>1, <3>2
  <2> QED
    BY <1>2, <2>1, NormalOrdered DEF Ordered
<1> QED
  BY <1>1, <1>2

\* writeRtValues writes every file a normal request is about.
LEMMA WritesComplete ==
  ASSUME NEW r, NEW g, NEW d \in BOOLEAN, NEW f \in Files,
         ~r.only_runtime, Needed(r, f)
  PROVE  Pending(writeRtValues(r, g, d), Write(f, g))
<1> DEFINE w == writeRtValues(r, g, d)
           R == Write("runtime", g)
           P == Write("period", g)
           C == Write("cpuset", g)
<1>1. w = (IF d THEN <<R, P>> ELSE <<P, R>>) \o (IF r.core = {} THEN <<>> ELSE <<C>>)
  BY Zenon DEF writeRtValues
<1>2. f = "runtime" \/ f = "period" \/ (f = "cpuset" /\ r.core # {})
  BY DEF Needed
<1>3. Write(f, g) = IF f = "runtime" THEN R ELSE IF f = "period" THEN P ELSE C
  BY <1>2
<1> HIDE DEF w, R, P, C
<1>4. w[1] = IF d THEN R ELSE P
  BY <1>1
<1>5. w[2] = IF d THEN P ELSE R
  BY <1>1
<1>6. Len(w) = (IF r.core = {} THEN 2 ELSE 3) /\ (r.core # {} => w[3] = C)
  BY <1>1
<1>7. CASE f = "runtime" \/ f = "period"
  <2>1. 1 \in 1 .. Len(w) /\ 2 \in 1 .. Len(w)
    BY <1>6
  <2> QED
    BY <1>3, <1>4, <1>5, <1>7, <2>1 DEF Pending, w
<1>8. CASE f = "cpuset" /\ r.core # {}
  <2>1. 3 \in 1 .. Len(w) /\ w[3] = C
    BY <1>6, <1>8
  <2> QED
    BY <1>3, <1>8, <2>1 DEF Pending, w
<1> QED
  BY <1>2, <1>7, <1>8

\* What is in one of two sequences is in both together.
LEMMA PendingInBoth ==
  ASSUME NEW s \in Seq(WriteType), NEW t \in Seq(WriteType), NEW w,
         Pending(s, w) \/ Pending(t, w)
  PROVE  Pending(s \o t, w)
<1>1. /\ Len(s) \in Nat /\ Len(t) \in Nat /\ Len(s \o t) = Len(s) + Len(t)
      /\ \A i \in 1 .. Len(s) + Len(t) :
           (s \o t)[i] = IF i <= Len(s) THEN s[i] ELSE t[i - Len(s)]
  BY ConcatProperties
<1>2. CASE Pending(s, w)
  <2>1. PICK i \in 1 .. Len(s) : s[i] = w
    BY <1>2 DEF Pending
  <2>2. i \in 1 .. Len(s \o t) /\ (s \o t)[i] = w
    BY <1>1, <2>1
  <2> QED
    BY <2>2 DEF Pending
<1>3. CASE Pending(t, w)
  <2>1. PICK i \in 1 .. Len(t) : t[i] = w
    BY <1>3 DEF Pending
  <2>2. /\ Len(s) + i \in 1 .. Len(s) + Len(t)
        /\ ~(Len(s) + i <= Len(s)) /\ (Len(s) + i) - Len(s) = i
    BY <1>1
  <2>3. Len(s) + i \in 1 .. Len(s \o t) /\ (s \o t)[Len(s) + i] = w
    BY <1>1, <2>1, <2>2
  <2> QED
    BY <2>3 DEF Pending
<1> QED
  BY <1>2, <1>3

LEMMA PlanComplete ==
  ASSUME NEW r \in Requests, ValidRequest(r), NEW s,
         NEW f \in Files, NEW g \in {r.container_id, PodOf[r.container_id]},
         Needed(r, f)
  PROVE  Pending(applyCgroup(r, s), Write(f, g))
<1> DEFINE c == r.container_id
           p == PodOf[r.container_id]
<1>1. c \in Cgroups /\ p \in Cgroups
  BY RequestType DEF Cgroups
<1>2. CASE r.only_runtime
  <2>1. f = "runtime"
    BY <1>2 DEF Needed
  <2> DEFINE C == Write("runtime", c)
             P == Write("runtime", p)
             plan == applyCgroup(r, s)
  <2>2. plan = <<C, P>> \/ plan = <<P, C>>
    BY <1>2 DEF applyCgroup, applyRuntimeWithOrder
  <2>3. Write(f, g) \in {C, P}
    BY <2>1
  <2> HIDE DEF C, P, plan
  <2>4. Len(plan) = 2 /\ {plan[1], plan[2]} = {C, P}
    <3>1. CASE plan = <<C, P>>
      BY <3>1
    <3>2. CASE plan = <<P, C>>
      BY <3>2
    <3> QED
      BY <2>2, <3>1, <3>2
  <2>5. \E i \in 1 .. Len(plan) : plan[i] = Write(f, g)
    BY <2>3, <2>4
  <2> QED
    BY <2>5 DEF Pending, plan
<1>3. CASE ~r.only_runtime
  <2>1. PICK d \in BOOLEAN : applyCgroup(r, s) = applyBoth(r, d)
    <3> DEFINE e == \/ isRuntimeDecrease(s.runtime, r.runtime)
                    \/ isDecrease(s.period, r.period)
                    \/ r.core # {} /\ isRuntimeDecrease(s.multi, r.runtime)
    <3>1. e \in BOOLEAN
      BY DEF isRuntimeDecrease, isDecrease
    <3>2. applyCgroup(r, s) = applyBoth(r, e)
      BY <1>3, Zenon DEF applyCgroup
    <3> HIDE DEF e
    <3> QED
      BY <3>1, <3>2
  <2> DEFINE C == writeRtValues(r, c, d)
             P == writeRtValues(r, p, d)
  <2>2. C \in Seq(WriteType) /\ P \in Seq(WriteType)
    BY <1>1, WritesType
  <2>3. Pending(C, Write(f, g)) \/ Pending(P, Write(f, g))
    BY <1>3, WritesComplete
  <2>4. applyCgroup(r, s) = IF d THEN C \o P ELSE P \o C
    BY <2>1 DEF applyBoth
  <2> HIDE DEF C, P
  <2>5. Pending(C \o P, Write(f, g)) /\ Pending(P \o C, Write(f, g))
    BY <2>2, <2>3, PendingInBoth
  <2> QED
    BY <2>4, <2>5
<1> QED
  BY <1>2, <1>3
-----------------------------------------------------------------------------
(***************************************************************************)
(* The steps.                                                              *)
(***************************************************************************)

\* What an answer does to the handlers.
LEMMA AnswerEffect ==
  ASSUME TypeOK, NEW h \in Handlers, NEW status, Answer(h, status)
  PROVE  /\ pc'[h] = "idle" /\ todo'[h] = <<>> /\ reply'[h] = status
         /\ \A i \in Handlers : i # h =>
              /\ pc'[i] = pc[i] /\ req'[i] = req[i]
              /\ todo'[i] = todo[i] /\ reply'[i] = reply[i]
BY DEF Answer, TypeOK

\* A handler whose request, plan and files stay as they are keeps its part.
LEMMA KeepsDoneOrDue ==
  ASSUME NEW i \in Handlers, DoneOrDue(req[i], todo[i]),
         req'[i] = req[i], todo'[i] = todo[i],
         \A g \in {req[i].container_id, PodOf[req[i].container_id]} :
           /\ runtime'[g] = runtime[g]
           /\ period'[g] = period[g]
           /\ cpuset'[g] = cpuset[g]
  PROVE  DoneOrDue(req[i], todo[i])'
<1>1. PICK r : r = req[i]
  OBVIOUS
<1>2. PICK s : s = todo[i]
  OBVIOUS
<1>3. req'[i] = r /\ todo'[i] = s
  BY <1>1, <1>2
<1>4. ASSUME NEW f \in Files, NEW g \in {r.container_id, PodOf[r.container_id]},
             Holds(r, Write(f, g))
      PROVE  Holds(r, Write(f, g))'
  <2>1. Write(f, g).cgroup = g
    BY DEF Write
  <2>2. runtime'[g] = runtime[g] /\ period'[g] = period[g] /\ cpuset'[g] = cpuset[g]
    BY <1>1
  <2> QED
    BY <1>4, <2>1, <2>2 DEF Holds
<1>5. DoneOrDue(r, s)'
  BY <1>1, <1>2, <1>4 DEF DoneOrDue, Pending
<1> QED
  BY <1>3, <1>5 DEF DoneOrDue, Holds, Pending

\* A step that writes no file keeps the invariant if what the handler that moves
\* has to write is complete.
LEMMA QuietApplied ==
  ASSUME AppliedInv, TypeOK', Exclusive', UNCHANGED files,
         \A i \in Handlers :
           \/ /\ Busy(i)' => reply'[i] = "none"
              /\ OwnWrites(req'[i], todo'[i])
              /\ pc'[i] = "write" => DoneOrDue(req[i], todo[i])'
           \/ /\ pc'[i] = pc[i] /\ req'[i] = req[i]
              /\ todo'[i] = todo[i] /\ reply'[i] = reply[i]
  PROVE  AppliedInv'
<1> SUFFICES ASSUME NEW i \in Handlers,
                    pc'[i] = pc[i], req'[i] = req[i],
                    todo'[i] = todo[i], reply'[i] = reply[i]
             PROVE  /\ Busy(i)' => reply'[i] = "none"
                    /\ OwnWrites(req'[i], todo'[i])
                    /\ pc'[i] = "write" => DoneOrDue(req[i], todo[i])'
  BY DEF AppliedInv, OwnWrites
<1>1. Busy(i)' => reply'[i] = "none"
  BY DEF AppliedInv, Busy
<1>2. OwnWrites(req'[i], todo'[i])
  BY DEF AppliedInv
<1>3. pc'[i] = "write" => DoneOrDue(req[i], todo[i])'
  BY KeepsDoneOrDue DEF AppliedInv, files
<1> QED
  BY <1>1, <1>2, <1>3

\* A plan just made is complete.
LEMMA PlanApplied ==
  ASSUME AppliedInv, TypeOK', NEW h \in Handlers, Busy(h),
         NEW s, Plan(h, s), UNCHANGED <<req, reply, files>>
  PROVE  AppliedInv'
<1>1. TypeOK /\ Exclusive /\ req[h] \in Requests /\ ValidRequest(req[h])
  BY BusyRequest DEF AppliedInv, Busy
<1>2. PICK r \in Requests : r = req[h] /\ ValidRequest(r)
  BY <1>1
<1>3. PICK t : t = applyCgroup(r, s)
  OBVIOUS
<1>4. /\ pc'[h] = "write" /\ req'[h] = r /\ todo'[h] = t
      /\ reply'[h] = "none"
      /\ \A i \in Handlers : i # h =>
           /\ pc'[i] = pc[i] /\ req'[i] = req[i]
           /\ todo'[i] = todo[i] /\ reply'[i] = reply[i]
  BY <1>1, <1>2, <1>3 DEF Plan, TypeOK, AppliedInv
<1>5. OwnWrites(r, t)
  BY <1>2, <1>3, PlanOwn
<1>6. DoneOrDue(r, t)'
  BY <1>2, <1>3, PlanComplete DEF DoneOrDue, Pending
<1>7. DoneOrDue(req[h], todo[h])'
  BY <1>4, <1>6 DEF DoneOrDue, Pending, Holds
<1>8. Exclusive'
  BY <1>1, SameRequests DEF Plan
<1> QED
  BY <1>4, <1>5, <1>7, <1>8, QuietApplied

\* The steps that write no file.
LEMMA QuietAppliedSteps ==
  ASSUME Serialized, AppliedInv, TypeOK', NEW h \in Handlers,
         \/ RefuseRequest(h) \/ HandleCgroup(h) \/ PassPreflight(h)
         \/ ReadPodPeriod(h) \/ ReadPodRuntime(h) \/ ReadPodMulti(h) \/ Fail(h)
  PROVE  AppliedInv'
<1>1. TypeOK /\ Exclusive
  BY DEF AppliedInv
<1>2. CASE RefuseRequest(h) \/ FailPreflight(h) \/ FailRead(h) \/ FailWrite(h)
  <2>1. UNCHANGED files /\ \E status : Answer(h, status)
    BY <1>2 DEF RefuseRequest, FailPreflight, FailRead, FailWrite
  <2>2. /\ pc'[h] = "idle" /\ todo'[h] = <<>>
        /\ \A i \in Handlers : i # h =>
             /\ pc'[i] = pc[i] /\ req'[i] = req[i]
             /\ todo'[i] = todo[i] /\ reply'[i] = reply[i]
    BY <1>1, <2>1, AnswerEffect
  <2>3. Exclusive'
    BY <1>1, <2>1, AnswerInv
  <2>4. ~Busy(h)' /\ OwnWrites(req'[h], todo'[h])
    BY <2>2 DEF Busy, OwnWrites
  <2> QED
    BY <2>1, <2>2, <2>3, <2>4, QuietApplied
<1>3. CASE HandleCgroup(h)
  <2>1. PICK r \in Requests : /\ req' = [req EXCEPT ![h] = r]
                              /\ \A i \in Handlers : Busy(i) =>
                                   Pod(i) # PodOf[r.container_id]
    BY <1>3 DEF HandleCgroup, Sent
  <2>2. todo[h] = <<>>
    BY <1>1, <1>3 DEF HandleCgroup, TypeOK
  <2>3. /\ pc'[h] = "preflight" /\ todo'[h] = <<>> /\ reply'[h] = "none"
        /\ req'[h] = r
        /\ \A i \in Handlers : i # h =>
             /\ pc'[i] = pc[i] /\ req'[i] = req[i]
             /\ todo'[i] = todo[i] /\ reply'[i] = reply[i]
    BY <1>1, <1>3, <2>1, <2>2 DEF HandleCgroup, TypeOK
  <2>4. Exclusive'
    BY <1>1, <2>1, <2>3 DEF Exclusive, Busy, Pod
  <2>5. OwnWrites(req'[h], todo'[h])
    BY <2>3 DEF OwnWrites
  <2> QED
    BY <1>3, <2>3, <2>4, <2>5, QuietApplied DEF HandleCgroup
<1>4. CASE PassPreflight(h) \/ ReadPodPeriod(h)
  <2>1. /\ Busy(h) /\ pc'[h] # "write" /\ todo'[h] = <<>>
        /\ UNCHANGED <<req, reply, files>>
        /\ \A i \in Handlers : i # h => pc'[i] = pc[i] /\ todo'[i] = todo[i]
    BY <1>1, <1>4 DEF PassPreflight, ReadPodPeriod, TypeOK, Busy
  <2>2. Exclusive'
    BY <1>1, <1>4, <2>1, SameRequests DEF PassPreflight, ReadPodPeriod
  <2>3. OwnWrites(req'[h], todo'[h]) /\ (Busy(h)' => reply'[h] = "none")
    BY <2>1 DEF OwnWrites, AppliedInv
  <2> QED
    BY <2>1, <2>2, <2>3, QuietApplied
<1>5. CASE ReadPodRuntime(h) \/ ReadPodMulti(h) \/ MisreadPodMulti(h)
  <2>1. Busy(h) /\ UNCHANGED <<req, reply, files>>
    BY <1>5 DEF ReadPodRuntime, ReadPodMulti, MisreadPodMulti, Busy
  <2>2. CASE \E s : Plan(h, s)
    BY <2>1, <2>2, PlanApplied
  <2>3. CASE /\ pc[h] = "readRuntime"
             /\ pc' = [pc EXCEPT ![h] = "readMulti"]
             /\ UNCHANGED todo
    <3>1. /\ pc'[h] # "write" /\ todo'[h] = <<>>
          /\ \A i \in Handlers : i # h => pc'[i] = pc[i] /\ todo'[i] = todo[i]
      BY <1>1, <2>3 DEF TypeOK
    <3>2. Exclusive'
      BY <1>1, <2>1, <2>3, SameRequests
    <3>3. OwnWrites(req'[h], todo'[h]) /\ (Busy(h)' => reply'[h] = "none")
      BY <2>1, <3>1 DEF OwnWrites, AppliedInv
    <3> QED
      BY <2>1, <3>1, <3>2, <3>3, QuietApplied
  <2> QED
    BY <1>5, <2>2, <2>3 DEF ReadPodRuntime, ReadPodMulti, MisreadPodMulti
<1> QED
  BY <1>2, <1>3, <1>4, <1>5 DEF Fail

\* The head of a plan is a write to the container of the request or to its pod.
LEMMA HeadOfAppliedPlan ==
  ASSUME AppliedInv, NEW h \in Handlers, pc[h] = "write"
  PROVE  /\ Busy(h) /\ req[h] \in Requests /\ ValidRequest(req[h])
         /\ todo[h] \in Seq(WriteType) /\ Len(todo[h]) >= 1
         /\ Head(todo[h]) = todo[h][1] /\ todo[h][1] \in WriteType
         /\ todo[h][1].cgroup \in {req[h].container_id, PodOf[req[h].container_id]}
         /\ todo[h][1] = Write(todo[h][1].file, todo[h][1].cgroup)
<1>1. todo[h] \in Seq(WriteType) /\ todo[h] # <<>>
  BY DEF AppliedInv, TypeOK, WriteType
<1>2. Len(todo[h]) >= 1 /\ Head(todo[h]) = todo[h][1] /\ todo[h][1] \in WriteType
  BY <1>1
<1>3. todo[h][1].cgroup \in {req[h].container_id, PodOf[req[h].container_id]}
  <2>1. 1 \in 1 .. Len(todo[h])
    BY <1>1, <1>2
  <2> QED
    BY <2>1 DEF AppliedInv, OwnWrites
<1>4. todo[h][1] = Write(todo[h][1].file, todo[h][1].cgroup)
  BY <1>2 DEF WriteType, Write
<1> QED
  BY <1>1, <1>2, <1>3, <1>4, BusyRequest DEF AppliedInv, Busy

WriteStep(h) == WriteRuntimeFile(h) \/ WritePeriod(h) \/ WriteCpuset(h)

\* A write brings its file to what the request asks for and leaves the others.
LEMMA WriteEffect ==
  ASSUME AppliedInv, NEW h \in Handlers, WriteStep(h),
         NEW r \in Requests, req[h] = r, NEW w, w = todo[h][1]
  PROVE  /\ pc[h] = "write" /\ Advance(h)
         /\ Holds(r, w)'
         /\ \A f \in Files, g \in Cgroups :
              Write(f, g) # w /\ Holds(r, Write(f, g)) => Holds(r, Write(f, g))'
         /\ \A g \in Cgroups : g # w.cgroup =>
              /\ runtime'[g] = runtime[g]
              /\ period'[g] = period[g]
              /\ cpuset'[g] = cpuset[g]
<1>1. /\ pc[h] = "write" /\ Advance(h) /\ Head(todo[h]) = w
      /\ w \in WriteType /\ w = Write(w.file, w.cgroup)
      /\ w.cgroup \in Cgroups /\ TypeOK
  <2>1. pc[h] = "write" /\ Advance(h)
    BY DEF WriteStep, WriteRuntimeFile, WritePeriod, WriteCpuset, Writing
  <2> QED
    BY <2>1, HeadOfAppliedPlan DEF WriteType, AppliedInv
<1>2. CASE WriteRuntimeFile(h)
  <2>1. /\ w.file = "runtime" /\ period' = period /\ cpuset' = cpuset
        /\ \A g \in Cgroups : g # w.cgroup => runtime'[g] = runtime[g]
        /\ \A k \in RuntimeSlots(r) : runtime'[w.cgroup][k] = RuntimeValue(r)
    <3>1. runtime' = [runtime EXCEPT ![w.cgroup] =
                        [k \in Slots |-> IF k \in RuntimeSlots(r)
                                           THEN RuntimeValue(r) ELSE @[k]]]
      BY <1>1, <1>2 DEF WriteRuntimeFile
    <3>2. RuntimeSlots(r) \subseteq Slots
      BY <1>1, HeadOfAppliedPlan, RequestType
    <3>3. runtime \in [Cgroups -> [Slots -> Int]]
      BY <1>1 DEF TypeOK
    <3>4. w.file = "runtime" /\ period' = period /\ cpuset' = cpuset
      BY <1>1, <1>2 DEF WriteRuntimeFile, Writing
    <3> QED
      BY <1>1, <3>1, <3>2, <3>3, <3>4
  <2>2. Holds(r, w)'
    BY <2>1 DEF Holds
  <2>3. ASSUME NEW f \in Files, NEW g \in Cgroups,
               Write(f, g) # w, Holds(r, Write(f, g))
        PROVE  Holds(r, Write(f, g))'
    <3>1. f = "runtime" => g # w.cgroup
      BY <1>1, <2>1, <2>3
    <3>2. Write(f, g).file = f /\ Write(f, g).cgroup = g
      BY DEF Write
    <3> QED
      BY <2>1, <2>3, <3>1, <3>2 DEF Holds
  <2> QED
    BY <1>1, <2>1, <2>2, <2>3
<1>3. CASE WritePeriod(h)
  <2>1. /\ w.file = "period" /\ runtime' = runtime /\ cpuset' = cpuset
        /\ \A g \in Cgroups :
             period'[g] = IF g = w.cgroup THEN r.period ELSE period[g]
    BY <1>1, <1>3 DEF WritePeriod, Writing, TypeOK
  <2>2. Holds(r, w)'
    BY <1>1, <2>1 DEF Holds
  <2>3. ASSUME NEW f \in Files, NEW g \in Cgroups,
               Write(f, g) # w, Holds(r, Write(f, g))
        PROVE  Holds(r, Write(f, g))'
    <3>1. f = "period" => g # w.cgroup
      BY <1>1, <2>1, <2>3
    <3>2. Write(f, g).file = f /\ Write(f, g).cgroup = g
      BY DEF Write
    <3> QED
      BY <2>1, <2>3, <3>1, <3>2 DEF Holds
  <2> QED
    BY <1>1, <2>1, <2>2, <2>3
<1>4. CASE WriteCpuset(h)
  <2>1. /\ w.file = "cpuset" /\ runtime' = runtime /\ period' = period
        /\ \A g \in Cgroups :
             cpuset'[g] = IF g = w.cgroup THEN r.core ELSE cpuset[g]
    BY <1>1, <1>4 DEF WriteCpuset, Writing, TypeOK
  <2>2. Holds(r, w)'
    BY <1>1, <2>1 DEF Holds
  <2>3. ASSUME NEW f \in Files, NEW g \in Cgroups,
               Write(f, g) # w, Holds(r, Write(f, g))
        PROVE  Holds(r, Write(f, g))'
    <3>1. f = "cpuset" => g # w.cgroup
      BY <1>1, <2>1, <2>3
    <3>2. Write(f, g).file = f /\ Write(f, g).cgroup = g
      BY DEF Write
    <3> QED
      BY <2>1, <2>3, <3>1, <3>2 DEF Holds
  <2> QED
    BY <1>1, <2>1, <2>2, <2>3
<1> QED
  BY <1>2, <1>3, <1>4 DEF WriteStep

\* After a write everything the request needs is in force or in the rest of the
\* plan; after the last one it is in force.
LEMMA DueAfterWrite ==
  ASSUME AppliedInv, NEW h \in Handlers, WriteStep(h),
         NEW r \in Requests, req[h] = r,
         NEW f \in Files, NEW g \in {r.container_id, PodOf[r.container_id]},
         Needed(r, f)
  PROVE  \/ Holds(r, Write(f, g))'
         \/ Len(todo[h]) > 1 /\ Pending(Tail(todo[h]), Write(f, g))
<1>1. PICK w : w = todo[h][1]
  OBVIOUS
<1>2. /\ pc[h] = "write" /\ Holds(r, w)' /\ g \in Cgroups
      /\ Write(f, g) # w /\ Holds(r, Write(f, g)) => Holds(r, Write(f, g))'
  <2>1. pc[h] = "write"
    BY <1>1, WriteEffect
  <2>2. g \in Cgroups
    BY <2>1, HeadOfAppliedPlan, RequestType DEF Cgroups
  <2> QED
    BY <1>1, <2>1, <2>2, WriteEffect
<1>3. CASE Write(f, g) = w
  BY <1>2, <1>3
<1>4. CASE Write(f, g) # w
  <2>1. Holds(r, Write(f, g)) \/ Pending(todo[h], Write(f, g))
    BY <1>2 DEF AppliedInv, DoneOrDue
  <2>2. CASE Holds(r, Write(f, g))
    BY <1>2, <1>4, <2>2
  <2>3. CASE Pending(todo[h], Write(f, g))
    <3>1. PICK i \in 1 .. Len(todo[h]) : todo[h][i] = Write(f, g)
      BY <2>3 DEF Pending
    <3>2. i # 1
      BY <1>1, <1>4, <3>1
    <3>3. todo[h] \in Seq(WriteType) /\ Len(todo[h]) \in Nat /\ Len(todo[h]) > 1
      BY <1>2, <3>1, <3>2, HeadOfAppliedPlan
    <3>4. /\ i - 1 \in 1 .. Len(Tail(todo[h]))
          /\ Tail(todo[h])[i - 1] = Write(f, g)
      <4>1. /\ Len(Tail(todo[h])) = Len(todo[h]) - 1
            /\ \A j \in 1 .. Len(Tail(todo[h])) : Tail(todo[h])[j] = todo[h][j + 1]
        BY <3>3, RestOfPlan
      <4>2. i - 1 \in 1 .. Len(Tail(todo[h])) /\ (i - 1) + 1 = i
        BY <3>2, <3>3, <4>1
      <4> QED
        BY <3>1, <4>1, <4>2
    <3> QED
      BY <3>3, <3>4 DEF Pending
  <2> QED
    BY <2>1, <2>2, <2>3
<1> QED
  BY <1>3, <1>4

\* What is needed in both cgroups is all that Applied speaks of.
LEMMA NeededApplied ==
  ASSUME NEW r,
         \A f \in Files, g \in {r.container_id, PodOf[r.container_id]} :
           Needed(r, f) => Holds(r, Write(f, g))'
  PROVE  Applied(r)'
<1> SUFFICES ASSUME NEW g \in {r.container_id, PodOf[r.container_id]}
             PROVE  /\ \A k \in RuntimeSlots(r) : runtime'[g][k] = RuntimeValue(r)
                    /\ ~r.only_runtime => period'[g] = r.period
                    /\ ~r.only_runtime /\ r.core # {} => cpuset'[g] = r.core
  BY DEF Applied
<1>1. \A f \in Files : Write(f, g).file = f /\ Write(f, g).cgroup = g
  BY DEF Write
<1>2. {"runtime", "period", "cpuset"} \subseteq Files
  BY DEF Files
<1> QED
  BY <1>1, <1>2 DEF Needed, Holds

\* A write keeps the invariant.
LEMMA WriteApplied ==
  ASSUME AppliedInv, TypeOK', NEW h \in Handlers, WriteStep(h)
  PROVE  AppliedInv'
<1>1. PICK r \in Requests : r = req[h] /\ ValidRequest(r)
  <2>1. pc[h] = "write"
    BY DEF WriteStep, WriteRuntimeFile, WritePeriod, WriteCpuset, Writing
  <2> QED
    BY <2>1, HeadOfAppliedPlan
<1>2. PICK w : w = todo[h][1]
  OBVIOUS
<1>3. /\ TypeOK /\ Exclusive /\ pc[h] = "write" /\ Busy(h) /\ Advance(h)
      /\ w.cgroup \in {r.container_id, PodOf[r.container_id]}
      /\ \A g \in Cgroups : g # w.cgroup =>
           /\ runtime'[g] = runtime[g] /\ period'[g] = period[g] /\ cpuset'[g] = cpuset[g]
  BY <1>1, <1>2, WriteEffect, HeadOfAppliedPlan DEF AppliedInv
<1>4. \A i \in Handlers : i # h =>
        /\ pc'[i] = pc[i] /\ req'[i] = req[i]
        /\ todo'[i] = todo[i] /\ reply'[i] = reply[i]
  <2>1. CASE Len(todo[h]) > 1
    BY <1>3, <2>1 DEF Advance, TypeOK
  <2>2. CASE ~(Len(todo[h]) > 1)
    BY <1>3, <2>2, AnswerEffect DEF Advance
  <2> QED
    BY <2>1, <2>2
<1>5. ASSUME NEW i \in Handlers, i # h
      PROVE  /\ Busy(i)' => reply'[i] = "none"
             /\ OwnWrites(req'[i], todo'[i])
             /\ pc'[i] = "write" => DoneOrDue(req[i], todo[i])'
  <2>1. Busy(i)' => reply'[i] = "none"
    BY <1>4, <1>5 DEF AppliedInv, Busy
  <2>2. OwnWrites(req'[i], todo'[i])
    BY <1>4, <1>5 DEF AppliedInv
  <2>3. ASSUME pc[i] = "write" PROVE DoneOrDue(req[i], todo[i])'
    <3>1. {req[h].container_id, Pod(h)} \cap {req[i].container_id, Pod(i)} = {}
      BY <1>3, <1>5, <2>3, Apart DEF Busy
    <3>2. w.cgroup \notin {req[i].container_id, PodOf[req[i].container_id]}
      BY <1>1, <1>3, <3>1 DEF Pod
    <3>3. req[i].container_id \in Cgroups /\ PodOf[req[i].container_id] \in Cgroups
      BY <1>3, <2>3, BusyRequest DEF Pod
    <3>4. DoneOrDue(req[i], todo[i])
      BY <2>3 DEF AppliedInv
    <3> QED
      BY <1>3, <1>4, <1>5, <3>2, <3>3, <3>4, KeepsDoneOrDue
  <2> QED
    BY <1>4, <1>5, <2>1, <2>2, <2>3
<1>6. CASE ~(Len(todo[h]) > 1)
  <2>1. Answer(h, "200")
    BY <1>3, <1>6 DEF Advance
  <2>2. pc'[h] = "idle" /\ todo'[h] = <<>>
    BY <1>3, <2>1, AnswerEffect
  <2>3. Exclusive'
    BY <1>3, <2>1, AnswerInv
  <2> QED
    BY <1>5, <2>2, <2>3 DEF AppliedInv, OwnWrites, Busy
<1>7. CASE Len(todo[h]) > 1
  <2>1. /\ pc'[h] = "write" /\ req'[h] = r /\ todo'[h] = Tail(todo[h])
        /\ reply'[h] = "none" /\ UNCHANGED <<pc, req>>
    BY <1>1, <1>3, <1>7 DEF Advance, TypeOK, AppliedInv, Busy
  <2>2. PICK t : t = Tail(todo[h])
    OBVIOUS
  <2>3. OwnWrites(r, t)
    <3>1. /\ todo[h] \in Seq(WriteType)
          /\ Len(Tail(todo[h])) = Len(todo[h]) - 1
          /\ \A j \in 1 .. Len(Tail(todo[h])) : Tail(todo[h])[j] = todo[h][j + 1]
      BY <1>3, <1>7, HeadOfAppliedPlan, RestOfPlan
    <3>2. OwnWrites(r, todo[h])
      BY <1>1 DEF AppliedInv
    <3> QED
      BY <2>2, <3>1, <3>2 DEF OwnWrites
  <2>4. DoneOrDue(r, t)'
    BY <1>1, <2>2, DueAfterWrite DEF DoneOrDue, Pending
  <2>5. DoneOrDue(req[h], todo[h])'
    BY <2>1, <2>2, <2>4 DEF DoneOrDue, Pending, Holds
  <2>6. Exclusive'
    BY <1>3, <2>1 DEF Exclusive, Busy, Pod
  <2> QED
    BY <1>5, <2>1, <2>2, <2>3, <2>5, <2>6 DEF AppliedInv
<1> QED
  BY <1>6, <1>7

LEMMA AppliedInit == Init => AppliedInv
<1> SUFFICES ASSUME Init PROVE AppliedInv
  OBVIOUS
<1>1. TypeOK
  BY TypeInit
<1>2. \A h \in Handlers : todo[h] = <<>> /\ pc[h] = "idle"
  BY DEF Init
<1> QED
  BY <1>1, <1>2 DEF AppliedInv, Exclusive, Busy, OwnWrites

LEMMA AppliedStep ==
  ASSUME Serialized, AppliedInv, [Next]_vars
  PROVE  AppliedInv'
<1>1. TypeOK'
  BY TypeStep DEF AppliedInv
<1>2. CASE \E h \in Handlers :
             \/ RefuseRequest(h) \/ HandleCgroup(h) \/ PassPreflight(h)
             \/ ReadPodPeriod(h) \/ ReadPodRuntime(h) \/ ReadPodMulti(h) \/ Fail(h)
  BY <1>1, <1>2, QuietAppliedSteps
<1>3. CASE \E h \in Handlers : WriteStep(h)
  BY <1>1, <1>3, WriteApplied
<1>4. CASE Crash
  <2>1. /\ UNCHANGED files
        /\ \A h \in Handlers : pc'[h] = "idle" /\ todo'[h] = <<>>
    BY <1>4 DEF Crash
  <2> QED
    BY <1>1, <2>1 DEF AppliedInv, Exclusive, Busy, OwnWrites
<1>5. CASE UNCHANGED vars
  <2>1. Exclusive'
    BY <1>5 DEF vars, AppliedInv, Exclusive, Busy, Pod
  <2> QED
    BY <1>1, <1>5, <2>1, QuietApplied DEF vars, files
<1> QED
  BY <1>2, <1>3, <1>4, <1>5 DEF Next, Progress, WriteStep

\* Of the steps of a handler that is writing, only that after its last write
\* answers 200.
LEMMA AnswersAfterLastWrite ==
  ASSUME Serialized, AppliedInv, [Next]_vars, NEW h \in Handlers, NEW r \in Requests,
         pc[h] = "write", req[h] = r, reply'[h] = "200"
  PROVE  Applied(r)'
<1>1. TypeOK /\ reply[h] = "none"
  BY DEF AppliedInv, Busy
<1>2. ASSUME NEW i \in Handlers, i # h, Next,
             \/ RefuseRequest(i) \/ HandleCgroup(i) \/ Progress(i) \/ Fail(i)
      PROVE  reply'[h] = reply[h]
  <2>1. CASE \E status : Answer(i, status)
    BY <1>1, <1>2, <2>1, AnswerEffect
  <2>2. CASE reply' = reply
    BY <2>2
  <2>3. CASE HandleCgroup(i)
    BY <1>1, <1>2, <2>3 DEF HandleCgroup, TypeOK
  <2> QED
    BY <1>2, <2>1, <2>2, <2>3
       DEF RefuseRequest, Progress, Fail, FailPreflight, FailRead, FailWrite,
           PassPreflight, ReadPodPeriod, ReadPodRuntime, ReadPodMulti,
           MisreadPodMulti, WriteRuntimeFile, WritePeriod, WriteCpuset, Advance
<1>3. CASE WriteStep(h)
  <2>1. Advance(h)
    BY <1>3 DEF WriteStep, WriteRuntimeFile, WritePeriod, WriteCpuset
  <2>2. ~(Len(todo[h]) > 1)
    BY <1>1, <2>1 DEF Advance
  <2>3. \A f \in Files, g \in {r.container_id, PodOf[r.container_id]} :
          Needed(r, f) => Holds(r, Write(f, g))'
    BY <1>3, <2>2, DueAfterWrite
  <2> QED
    BY <2>3, NeededApplied
<1>4. ~(RefuseRequest(h) \/ HandleCgroup(h) \/ PassPreflight(h) \/ ReadPodPeriod(h)
        \/ ReadPodRuntime(h) \/ ReadPodMulti(h))
  BY DEF RefuseRequest, HandleCgroup, PassPreflight, ReadPodPeriod, ReadPodRuntime,
         ReadPodMulti
<1>5. ~Fail(h)
  <2>1. \A status : Answer(h, status) => reply'[h] = status
    BY <1>1, AnswerEffect
  <2> QED
    BY <2>1 DEF Fail, FailPreflight, FailRead, MisreadPodMulti, FailWrite
<1>6. ~Crash
  BY DEF Crash
<1>7. ~UNCHANGED vars
  BY <1>1 DEF vars
<1> QED
  BY <1>1, <1>2, <1>3, <1>4, <1>5, <1>6, <1>7 DEF Next, Progress, WriteStep

\* For every number of pods, containers, CPUs, handlers and requests, whatever
\* fails and whenever the process is restarted: if the controller keeps one request
\* per pod in flight, the answer 200 means that every limit of the request is in
\* force in the container and in the pod.
THEOREM SuccessIsTrue ==
  ASSUME Serialized
  PROVE  Spec => SuccessMeansApplied
<1>1. Init => AppliedInv
  BY AppliedInit
<1>2. AppliedInv /\ [Next]_vars => AppliedInv'
  BY AppliedStep
<1>3. AppliedInv /\ [Next]_vars =>
        [\A h \in Handlers, r \in Requests :
           pc[h] = "write" /\ req[h] = r /\ reply'[h] = "200" => Applied(r)']_vars
  BY AnswersAfterLastWrite
<1> QED
  BY <1>1, <1>2, <1>3, PTL DEF Spec, SuccessMeansApplied

-----------------------------------------------------------------------------
(***************************************************************************)
(* The refinement.  Wanted is what the mapping shows of the handlers.      *)
(***************************************************************************)

Wanted == [h \in Handlers |-> IF Busy(h) THEN Want(req[h]) ELSE NoRequest]

Wants == {Want(r) : r \in {q \in Requests : ValidRequest(q)}}

\* An answer is an answer of the abstract specification.
LEMMA AnswerMaps ==
  ASSUME TypeOK, NEW h \in Handlers, NEW status, Answer(h, status)
  PROVE  Limits!Reply(h, status)
<1>1. /\ \A i \in Handlers : Busy(i)' <=> Busy(i) /\ i # h
      /\ \A i \in Handlers : i # h => req'[i] = req[i]
  BY AnswerEffect DEF Busy
<1>2. Wanted' = [Wanted EXCEPT ![h] = NoRequest]
  BY <1>1 DEF Wanted
<1>3. reply' = [reply EXCEPT ![h] = status]
  BY DEF Answer
<1> QED
  BY <1>2, <1>3 DEF Limits!Reply, Wanted

\* As long as nobody starts or ends, nothing changes for the controller.
LEMMA KeepsWanted ==
  ASSUME TypeOK, NEW h \in Handlers, Busy(h), NEW l, l # "idle",
         pc' = [pc EXCEPT ![h] = l] \/ pc' = pc, UNCHANGED req
  PROVE  Wanted' = Wanted
<1>1. \A i \in Handlers : Busy(i)' <=> Busy(i)
  BY DEF Busy, TypeOK
<1> QED
  BY <1>1 DEF Wanted

\* A busy handler wants something.
LEMMA BusyWants ==
  ASSUME TypeOK, NEW h \in Handlers, Busy(h)
  PROVE  Wanted[h] = Want(req[h]) /\ Want(req[h]) \in Wants
BY BusyRequest DEF Wanted, Wants, Busy

\* LimitsNested and Applied are those of the abstract specification.
LEMMA NestedMaps == LimitsNested => Limits!Nested
BY DEF LimitsNested, NoLooser, Limits!Nested, Limits!Below

LEMMA InitMaps == Init => Limits!Init
<1> SUFFICES ASSUME Init PROVE Limits!Init
  OBVIOUS
<1>1. Wanted = [h \in Handlers |-> NoRequest]
  BY DEF Init, Wanted, Busy
<1> QED
  BY <1>1 DEF Init, Limits!Init, Wanted, Cgroups

\* A request is taken up when its pod has none.
LEMMA AskMaps ==
  ASSUME Serialized, TypeOK, NEW h \in Handlers, HandleCgroup(h)
  PROVE  Limits!Ask(h)
<1>1. PICK r \in Requests : /\ ValidRequest(r)
                            /\ req' = [req EXCEPT ![h] = r]
                            /\ \A i \in Handlers : Busy(i) =>
                                 Pod(i) # PodOf[r.container_id]
  BY DEF HandleCgroup, Sent
<1>2. /\ ~Busy(h) /\ Busy(h)' /\ req'[h] = r
      /\ \A i \in Handlers : i # h => (Busy(i)' <=> Busy(i)) /\ req'[i] = req[i]
  BY <1>1 DEF HandleCgroup, Busy, TypeOK
<1>3. Wanted' = [Wanted EXCEPT ![h] = Want(r)]
  BY <1>2 DEF Wanted
<1>4. Want(r) \in Wants
  BY <1>1 DEF Wants
<1>5. ASSUME NEW i \in Handlers, Wanted[i] # NoRequest
      PROVE  PodOf[Wanted[i].child] # PodOf[Want(r).child]
  <2>1. Busy(i) /\ Wanted[i] = Want(req[i])
    BY <1>5 DEF Wanted
  <2> QED
    BY <1>1, <2>1 DEF Want, Pod
<1>6. Wanted[h] = NoRequest
  BY <1>2 DEF Wanted
<1>7. reply' = [reply EXCEPT ![h] = "none"] /\ runtime' = runtime
  BY DEF HandleCgroup, files
<1> QED
  BY <1>3, <1>4, <1>5, <1>6, <1>7 DEF Limits!Ask, Wanted, Wants

\* A write of the runtime is one of the two moves of its request.
LEMMA TouchMaps ==
  ASSUME AppliedInv, LimitsNested', NEW h \in Handlers, WriteRuntimeFile(h),
         NEW r \in Requests, r = req[h]
  PROVE  Limits!Touch(Want(r))
<1> DEFINE g == Head(todo[h]).cgroup
<1>1. g \in {r.container_id, PodOf[r.container_id]}
  BY HeadOfAppliedPlan DEF WriteRuntimeFile, Writing
<1>2. runtime' = [runtime EXCEPT ![g] =
                    [k \in Slots |-> IF k \in RuntimeSlots(r)
                                       THEN RuntimeValue(r) ELSE @[k]]]
  BY DEF WriteRuntimeFile
<1>3. Limits!Nested'
  BY NestedMaps DEF LimitsNested, NoLooser, Limits!Nested, Limits!Below
<1> QED
  BY <1>1, <1>2, <1>3 DEF Limits!Touch, Limits!Apply, Want

\* A write is a move, the answer 200, or nothing to the controller.
LEMMA WriteMaps ==
  ASSUME Serialized, AppliedInv, LimitsNested', [Next]_vars, NEW h \in Handlers,
         WriteStep(h)
  PROVE  \/ Limits!Move(h)
         \/ Limits!Succeed(h)
         \/ UNCHANGED <<runtime, Wanted, reply>>
<1>1. TypeOK /\ pc[h] = "write" /\ Busy(h) /\ Advance(h)
  BY DEF AppliedInv, WriteStep, WriteRuntimeFile, WritePeriod, WriteCpuset, Writing,
         Busy
<1>2. PICK r \in Requests : r = req[h] /\ ValidRequest(r)
  BY <1>1, HeadOfAppliedPlan
<1>3. Wanted[h] = Want(r) /\ Want(r) \in Wants
  BY <1>1, <1>2, BusyWants
<1>4. Limits!Touch(Want(r)) \/ runtime' = runtime
  <2>1. CASE WriteRuntimeFile(h)
    BY <1>2, <2>1, TouchMaps
  <2>2. CASE WritePeriod(h) \/ WriteCpuset(h)
    BY <2>2 DEF WritePeriod, WriteCpuset
  <2> QED
    BY <2>1, <2>2 DEF WriteStep
<1>5. CASE Len(todo[h]) > 1
  <2>1. UNCHANGED <<pc, req, reply>>
    BY <1>1, <1>5 DEF Advance
  <2>2. Wanted' = Wanted
    BY <2>1 DEF Wanted, Busy
  <2> QED
    BY <1>3, <1>4, <2>1, <2>2 DEF Limits!Move, Wanted, Wants
<1>6. CASE ~(Len(todo[h]) > 1)
  <2>1. Answer(h, "200")
    BY <1>1, <1>6 DEF Advance
  <2>2. Limits!Reply(h, "200")
    BY <1>1, <2>1, AnswerMaps
  <2>3. Applied(r)'
    <3>1. reply'[h] = "200"
      BY <1>1, <2>1, AnswerEffect
    <3> QED
      BY <1>1, <1>2, <3>1, AnswersAfterLastWrite
  <2>4. Limits!InForce(Want(r))'
    BY <2>3 DEF Applied, Limits!InForce, Want
  <2> QED
    BY <1>3, <1>4, <2>2, <2>4 DEF Limits!Succeed, Wanted, Wants
<1> QED
  BY <1>5, <1>6

\* Every step is a step of the abstract specification, or nothing to it.
LEMMA StepMaps ==
  ASSUME Serialized, AppliedInv, LimitsNested', [Next]_vars
  PROVE  [Limits!Next]_<<runtime, Wanted, reply>>
<1>1. TypeOK
  BY DEF AppliedInv
<1>2. ASSUME NEW h \in Handlers, RefuseRequest(h) PROVE Limits!Refuse(h)
  <2>1. Limits!Reply(h, "400") /\ runtime' = runtime
    BY <1>1, <1>2, AnswerMaps DEF RefuseRequest, files
  <2>2. Wanted[h] = NoRequest
    BY <1>2 DEF RefuseRequest, Wanted, Busy
  <2> QED
    BY <2>1, <2>2 DEF Limits!Refuse, Wanted
<1>3. ASSUME NEW h \in Handlers, HandleCgroup(h) PROVE Limits!Ask(h)
  BY <1>1, <1>3, AskMaps
<1>4. ASSUME NEW h \in Handlers,
             \/ PassPreflight(h) \/ ReadPodPeriod(h) \/ ReadPodRuntime(h)
             \/ ReadPodMulti(h) \/ MisreadPodMulti(h)
      PROVE  UNCHANGED <<runtime, Wanted, reply>>
  <2>1. /\ Busy(h) /\ UNCHANGED <<req, reply, runtime>>
        /\ \E l : l # "idle" /\ pc' = [pc EXCEPT ![h] = l]
    BY <1>4 DEF PassPreflight, ReadPodPeriod, ReadPodRuntime, ReadPodMulti,
                MisreadPodMulti, Plan, Busy, files
  <2>2. Wanted' = Wanted
    BY <1>1, <2>1, KeepsWanted
  <2> QED
    BY <2>1, <2>2
<1>5. ASSUME NEW h \in Handlers, FailPreflight(h) \/ FailRead(h) \/ FailWrite(h)
      PROVE  Limits!GiveUp(h)
  <2>1. Busy(h) /\ Answer(h, "500") /\ runtime' = runtime
    BY <1>5 DEF FailPreflight, FailRead, FailWrite, Busy, files
  <2>2. Limits!Reply(h, "500")
    BY <1>1, <2>1, AnswerMaps
  <2>3. Wanted[h] \in Wants
    BY <1>1, <2>1, BusyWants
  <2> QED
    BY <2>1, <2>2, <2>3 DEF Limits!GiveUp, Wanted, Wants
<1>6. ASSUME NEW h \in Handlers, WriteStep(h)
      PROVE  \/ Limits!Move(h) \/ Limits!Succeed(h)
             \/ UNCHANGED <<runtime, Wanted, reply>>
  BY <1>6, WriteMaps
<1>7. CASE Crash
  <2>1. Wanted' = [h \in Handlers |-> NoRequest]
    BY <1>7 DEF Crash, Wanted, Busy
  <2>2. reply' = [h \in Handlers |-> "none"] /\ runtime' = runtime
    BY <1>7 DEF Crash, files
  <2> QED
    BY <2>1, <2>2 DEF Limits!Next, Limits!Restart, Wanted
<1>8. CASE UNCHANGED vars
  BY <1>8 DEF vars, Wanted, Busy
<1> QED
  BY <1>2, <1>3, <1>4, <1>5, <1>6, <1>7, <1>8
     DEF Next, Progress, Fail, WriteStep, Limits!Next

\* For every value of the constants that meets OrderSafe, the /cgroup handler
\* implements NestedLimits: its reads, its plans, its files, its periods and its
\* interleavings show the controller nothing that specification does not allow.
THEOREM Refinement ==
  ASSUME OrderSafe
  PROVE  Spec => ImplementsNestedLimits
<1>1. Init => Limits!Init /\ AppliedInv /\ NestedInv
  BY InitMaps, AppliedInit, NestedInit
<1>2. AppliedInv /\ NestedInv /\ [Next]_vars => AppliedInv' /\ NestedInv'
  BY AppliedStep, NestedStep DEF OrderSafe
<1>3. AppliedInv /\ NestedInv' /\ [Next]_vars => [Limits!Next]_(Limits!abstract)
  <2>1. NestedInv' => LimitsNested'
    BY DEF NestedInv, OrderInv
  <2> QED
    BY <2>1, StepMaps DEF OrderSafe, Limits!abstract, Wanted
<1> QED
  BY <1>1, <1>2, <1>3, PTL DEF Spec, ImplementsNestedLimits, Limits!Spec
=============================================================================
