------------------------ MODULE CpuUtilSender_proofs ------------------------
(***************************************************************************)
(* What holds of the CPU agent for every set of samples and whatever fails:*)
(* its types, and that a Node is not released early; and, when nothing     *)
(* fails, that a busy Node is remembered.                                  *)
(***************************************************************************)
EXTENDS CpuUtilSender, TLAPS

\* A quotient is bounded as its numerator is.
LEMMA DivBound ==
  ASSUME NEW n \in Nat, NEW d \in Nat \ {0}, NEW k \in Nat, n < d * (k + 1)
  PROVE  n \div d \in 0 .. k
<1> DEFINE q == n \div d
<1>1. q \in Int /\ d * q <= n /\ n < d * (q + 1)
  OBVIOUS
<1> HIDE DEF q
<1>2. q >= 0
  <2> SUFFICES ASSUME q + 1 <= 0 PROVE FALSE
    BY <1>1
  <2>1. d * (q + 1) <= 0
    BY <1>1
  <2> QED
    BY <1>1, <2>1
<1>3. q <= k
  <2> SUFFICES ASSUME q >= k + 1 PROVE FALSE
    BY <1>1
  <2>1. d * q >= d * (k + 1)
    BY <1>1
  <2> QED
    BY <1>1, <2>1
<1> QED
  BY <1>1, <1>2, <1>3 DEF q

\* computeUsage is a percentage, even when the idle counter goes back.
LEMMA UsageType ==
  ASSUME NEW s \in [idle : Int, total : Nat]
  PROVE  computeUsage(s) \in Usages
<1> DEFINE t == s.total
           i == s.idle % Word
<1>1. t \in Nat /\ i \in Nat
  BY SenderAssumption
<1>2. CASE t <= 0 \/ i > t
  BY <1>2 DEF computeUsage, Usages
<1>3. CASE ~(t <= 0 \/ i > t)
  <2> DEFINE n == 200 * (t - i) + t
             d == 2 * t
  <2> HIDE DEF t, i
  <2>1. n \in Nat /\ d \in Nat \ {0} /\ n < d * (100 + 1)
    BY <1>1, <1>3
  <2>2. n \div d \in 0 .. 100
    BY <2>1, DivBound
  <2>3. computeUsage(s) = n \div d
    BY <1>3 DEF computeUsage, t, i
  <2> QED
    BY <2>2, <2>3 DEF Usages
<1> QED
  BY <1>2, <1>3

LEMMA ReadingType ==
  ASSUME NEW u \in Readings
  PROVE  u \in Usages /\ u \in Int
BY UsageType, SenderAssumption DEF Readings, Usages

-----------------------------------------------------------------------------
(***************************************************************************)
(* Types.                                                                  *)
(***************************************************************************)

LEMMA CapType ==
  ASSUME NEW m \in Nat, NEW n \in 0 .. m
  PROVE  Cap(n + 1, m) \in 0 .. m
BY DEF Cap

\* The ends of the ranges of TypeOK.
LEMMA Ranges ==
  /\ 0 \in 0 .. Timeout
  /\ 0 \in 0 .. MaxAge /\ MaxAge \in 0 .. MaxAge
  /\ 0 \in 0 .. MaxDur /\ MaxDur \in Nat /\ MaxAge \in Nat
BY SenderAssumption DEF Timeout, MaxAge, Hysteresis

\* NoPatch is no annotation, and the usages start at 0.
LEMMA NoPatchApart == NoPatch \notin Annotations
BY DEF NoPatch, Annotations, Usages

LEMMA SenderTypeInit == Init => TypeOK
<1> SUFFICES ASSUME Init PROVE TypeOK
  OBVIOUS
<1>1. kubectl \in [Kubectls -> Annotations \cup {NoPatch}]
  BY DEF Init
<1>2. pc = "post" <=> patch # NoPatch
  BY DEF Init
<1> QED
  BY <1>1, <1>2, Ranges DEF Init, TypeOK

\* An iteration of the loop keeps the types.
LEMMA IterateType ==
  ASSUME TypeOK, Iterate
  PROVE  TypeOK'
<1>1. PICK u \in Readings : Measure(u)
  BY DEF Iterate, AnnounceBusy, StayBusy, AnnounceDrop, AnnounceIdle, StayIdle
<1>2. /\ tick' = "none" /\ short' \in BOOLEAN
      /\ over90time' \in 0 .. MaxDur
      /\ sinceBusy' \in 0 .. MaxAge /\ hotFor' \in 0 .. MaxDur
  <2>1. Cap(over90time + 1, MaxDur) \in 0 .. MaxDur
    BY CapType, Ranges DEF TypeOK
  <2>2. (tick = "late") \in BOOLEAN
    OBVIOUS
  <2>3. sinceBusy' = 0 \/ sinceBusy' = sinceBusy
    BY <1>1 DEF Measure
  <2>4. hotFor' = 0 \/ hotFor' = hotFor
    BY <1>1 DEF Measure
  <2>5. over90time' = 0 \/ over90time' = Cap(over90time + 1, MaxDur)
    BY <1>1 DEF Measure
  <2>6. tick' = "none" /\ short' \in BOOLEAN
    BY <1>1, <2>2 DEF Measure
  <2>7. over90time' \in 0 .. MaxDur
    BY <2>1, <2>5, Ranges
  <2>8. sinceBusy' \in 0 .. MaxAge
    BY <2>3, Ranges DEF TypeOK
  <2>9. hotFor' \in 0 .. MaxDur
    BY <2>4, Ranges DEF TypeOK
  <2> QED
    BY <2>6, <2>7, <2>8, <2>9
<1>3. ASSUME NEW w \in Readings, NEW b \in {"true", "false"}, Post(w, b),
             waitingForBusyFalse' \in BOOLEAN
      PROVE  TypeOK'
  <2>1. patch' \in Annotations /\ patch' # NoPatch
    BY <1>2, <1>3, ReadingType DEF Post, Annotations, NoPatch, Usages
  <2>2. pc' = "post" <=> patch' # NoPatch
    BY <1>3, <2>1 DEF Post
  <2> QED
    BY <1>2, <1>3, <2>1, <2>2, Ranges DEF Post, TypeOK
<1>4. ASSUME Skip, waitingForBusyFalse' \in BOOLEAN PROVE TypeOK'
  BY <1>2, <1>4 DEF Skip, TypeOK
<1> QED
  BY <1>3, <1>4 DEF Iterate, AnnounceBusy, StayBusy, AnnounceDrop, AnnounceIdle,
     StayIdle, TypeOK

\* The part of the state that Return leaves behind.
LEMMA ReturnType ==
  ASSUME TypeOK, Return
  PROVE  /\ pc' \in {"boot", "wait", "post"}
         /\ timer' \in 0 .. Timeout
         /\ tick' \in {"none", "due", "late"} /\ short' \in BOOLEAN
         /\ over90time' \in 0 .. MaxDur
         /\ patch' \in Annotations \cup {NoPatch} /\ applied' \in BOOLEAN
         /\ ann' \in Annotations \cup {NoPatch}
         /\ sinceBusy' \in 0 .. MaxAge /\ hotFor' \in 0 .. MaxDur
         /\ pc' = "post" <=> patch' # NoPatch
BY Ranges DEF Return, TypeOK, ticker, history

\* The end of a POST keeps the types.
LEMMA FinishType ==
  ASSUME TypeOK, Finish
  PROVE  TypeOK'
<1>1. CASE Annotate
  BY <1>1 DEF Annotate, TypeOK, ticker, loop, history
<1>2. CASE PostOK
  <2>1. patch \in Annotations
    BY <1>2 DEF PostOK, TypeOK
  <2>2. lastAnnUsage' \in Usages \cup {-1}
    BY <1>2, <2>1 DEF PostOK, Annotations
  <2>3. waitingForBusyFalse' \in BOOLEAN /\ dropAge' \in 0 .. MaxAge
    BY <1>2, Ranges DEF PostOK, TypeOK
  <2> QED
    BY <1>2, <2>2, <2>3, Ranges, ReturnType DEF PostOK, TypeOK
<1>3. CASE PostError
  BY <1>3, ReturnType DEF PostError, TypeOK
<1>4. CASE PostTimeout
  <2>1. PICK k \in Kubectls : kubectl' = [kubectl EXCEPT ![k] = patch]
    BY <1>4 DEF PostTimeout
  <2>2. kubectl' \in [Kubectls -> Annotations \cup {NoPatch}]
    BY <2>1 DEF TypeOK
  <2> QED
    BY <1>4, <2>2, ReturnType DEF PostTimeout, TypeOK
<1> QED
  BY <1>1, <1>2, <1>3, <1>4 DEF Finish

LEMMA SenderTypeStep == TypeOK /\ [Next]_vars => TypeOK'
<1> SUFFICES ASSUME TypeOK, [Next]_vars PROVE TypeOK'
  OBVIOUS
<1>1. CASE Second
  <2>1. /\ annAge' \in 0 .. MaxAge /\ dropAge' \in 0 .. MaxAge
        /\ sinceBusy' \in 0 .. MaxAge /\ hotFor' \in 0 .. MaxDur
    <3>1. MaxAge \in Nat /\ MaxDur \in Nat
      BY SenderAssumption DEF MaxAge, Hysteresis
    <3> QED
      BY <1>1, <3>1, CapType DEF Second, TypeOK
  <2>2. timer' \in 0 .. Timeout /\ tick' \in {"none", "due", "late"}
    BY <1>1 DEF Second, TypeOK, Timeout, BootTime
  <2> QED
    BY <1>1, <2>1, <2>2 DEF Second, TypeOK
<1>2. CASE StartLoop
  BY <1>2 DEF StartLoop, TypeOK, loop, ticker, history, Timeout
<1>3. CASE Iterate
  BY <1>3, IterateType
<1>4. CASE ReadError
  BY <1>4 DEF ReadError, Skip, TypeOK, history
<1>5. CASE Finish
  BY <1>5, FinishType
<1>6. ASSUME NEW k \in Kubectls, LateKubectl(k) PROVE TypeOK'
  BY <1>6 DEF LateKubectl, TypeOK, ticker, loop, history
<1>7. CASE Crash
  <2>1. kubectl' \in [Kubectls -> Annotations \cup {NoPatch}]
    BY <1>7 DEF Crash
  <2>2. pc' = "post" <=> patch' # NoPatch
    BY <1>7 DEF Crash
  <2> QED
    BY <1>7, <2>1, <2>2, Ranges DEF Crash, TypeOK
<1>8. CASE OtherPatch
  BY <1>8, ClientsAssumption DEF OtherPatch, TypeOK, ticker, loop, history
<1>9. CASE UNCHANGED vars
  BY <1>9 DEF vars, TypeOK
<1> QED
  BY <1>1, <1>2, <1>3, <1>4, <1>5, <1>6, <1>7, <1>8, <1>9 DEF Next

\* The agent's state keeps its types for all samples, faults and restarts.
THEOREM SenderTypeCorrect == Spec => []TypeOK
BY SenderTypeInit, SenderTypeStep, PTL DEF Spec

-----------------------------------------------------------------------------
(***************************************************************************)
(* A Node is not released early.                                           *)
(***************************************************************************)

\* A drop that is waited for is more recent than any sample above 90%: such a
\* sample ends the wait, and the 5 seconds start after the drop.
ReleaseInv ==
  /\ TypeOK
  /\ NoEarlyRelease
  /\ waitingForBusyFalse => dropAge <= sinceBusy

LEMMA ReleaseInit == Init => ReleaseInv
BY SenderTypeInit DEF Init, ReleaseInv, NoEarlyRelease

\* An iteration of the loop sends "false" only after a long enough wait.
LEMMA IterateRelease ==
  ASSUME ReleaseInv, Iterate
  PROVE  ReleaseInv'
<1>1. TypeOK'
  BY IterateType DEF ReleaseInv
<1>2. dropAge \in Int /\ sinceBusy \in Int
  BY DEF ReleaseInv, TypeOK, MaxAge, Hysteresis
<1>3. ASSUME NEW u \in Readings, NEW b \in {"true", "false"},
             Measure(u), Post(u, b),
             waitingForBusyFalse' => waitingForBusyFalse /\ u <= 90,
             b = "false" =>
               /\ waitingForBusyFalse /\ u <= 90
               /\ dropAge >= Hysteresis
      PROVE  ReleaseInv'
  <2>1. u <= 90 => sinceBusy' = sinceBusy
    BY <1>3, ReadingType DEF Measure
  <2>2. dropAge' = dropAge /\ patch'.busy = b
    BY <1>3 DEF Post
  <2>3. NoEarlyRelease'
    BY <1>2, <1>3, <2>1, <2>2 DEF NoEarlyRelease, ReleaseInv, Hysteresis
  <2>4. waitingForBusyFalse' => dropAge' <= sinceBusy'
    BY <1>3, <2>1, <2>2 DEF ReleaseInv
  <2> QED
    BY <1>1, <2>3, <2>4 DEF ReleaseInv
<1>4. ASSUME NEW u \in Readings, Measure(u), Skip,
             waitingForBusyFalse' => waitingForBusyFalse /\ u <= 90
      PROVE  ReleaseInv'
  <2>1. u <= 90 => sinceBusy' = sinceBusy
    BY <1>4, ReadingType DEF Measure
  <2>2. dropAge' = dropAge /\ pc' = "wait"
    BY <1>4 DEF Skip, Measure
  <2> QED
    BY <1>1, <1>4, <2>1, <2>2 DEF ReleaseInv, NoEarlyRelease
<1>5. CASE AnnounceBusy
  BY <1>3, <1>5 DEF AnnounceBusy
<1>6. CASE StayBusy
  BY <1>4, <1>6 DEF StayBusy
<1>7. CASE AnnounceDrop
  BY <1>3, <1>7 DEF AnnounceDrop
<1>8. CASE AnnounceIdle
  <2>1. ASSUME TRUE \in Past(dropAge, Hysteresis) PROVE dropAge >= Hysteresis
    <3>1. CASE dropAge = Hysteresis
      BY <1>2, <3>1
    <3>2. CASE dropAge # Hysteresis
      <4>1. TRUE = (dropAge > Hysteresis)
        BY <2>1, <3>2 DEF Past
      <4> QED
        BY <1>2, <4>1 DEF Hysteresis
    <3> QED
      BY <3>1, <3>2
  <2> QED
    BY <1>3, <1>8, <2>1 DEF AnnounceIdle
<1>9. CASE StayIdle
  BY <1>4, <1>9 DEF StayIdle
<1> QED
  BY <1>5, <1>6, <1>7, <1>8, <1>9 DEF Iterate

LEMMA ReleaseStep == ReleaseInv /\ [Next]_vars => ReleaseInv'
<1> SUFFICES ASSUME ReleaseInv, [Next]_vars PROVE ReleaseInv'
  OBVIOUS
<1>1. TypeOK /\ TypeOK'
  BY SenderTypeStep DEF ReleaseInv
<1>2. dropAge \in 0 .. MaxAge /\ sinceBusy \in 0 .. MaxAge
  BY <1>1 DEF TypeOK
<1>3. CASE Second
  <2>1. dropAge' = Cap(dropAge + 1, MaxAge) /\ sinceBusy' = Cap(sinceBusy + 1, MaxAge)
    BY <1>3 DEF Second
  <2>2. sinceBusy >= Hysteresis => sinceBusy' >= Hysteresis
    BY <1>2, <2>1 DEF Cap, MaxAge, Hysteresis
  <2>3. dropAge <= sinceBusy => dropAge' <= sinceBusy'
    BY <1>2, <2>1 DEF Cap, MaxAge, Hysteresis
  <2> QED
    BY <1>1, <1>3, <2>2, <2>3 DEF Second, ReleaseInv, NoEarlyRelease
<1>4. CASE StartLoop
  BY <1>1, <1>4 DEF StartLoop, ReleaseInv, NoEarlyRelease, loop, history
<1>5. CASE Iterate
  BY <1>5, IterateRelease
<1>6. CASE ReadError
  BY <1>1, <1>6 DEF ReadError, Skip, ReleaseInv, NoEarlyRelease, history
<1>7. CASE Annotate
  BY <1>1, <1>7 DEF Annotate, ReleaseInv, NoEarlyRelease, loop, history
<1>8. CASE PostOK
  <2>1. sinceBusy' = sinceBusy /\ pc' = "wait"
    BY <1>8 DEF PostOK, Return, history
  <2>2. waitingForBusyFalse' => dropAge' = 0
    BY <1>8 DEF PostOK
  <2>3. 0 <= sinceBusy
    BY <1>2, Ranges
  <2>4. NoEarlyRelease'
    BY <2>1 DEF NoEarlyRelease
  <2> QED
    BY <1>1, <2>1, <2>2, <2>3, <2>4 DEF ReleaseInv
<1>9. CASE PostError \/ PostTimeout
  BY <1>1, <1>9 DEF PostError, PostTimeout, Return, ReleaseInv, NoEarlyRelease,
     history
<1>10. ASSUME NEW k \in Kubectls, LateKubectl(k) PROVE ReleaseInv'
  BY <1>1, <1>10 DEF LateKubectl, ReleaseInv, NoEarlyRelease, loop, history
<1>11. CASE Crash
  BY <1>1, <1>11 DEF Crash, ReleaseInv, NoEarlyRelease
<1>12. CASE OtherPatch
  BY <1>1, <1>12 DEF OtherPatch, ReleaseInv, NoEarlyRelease, loop, history
<1>13. CASE UNCHANGED vars
  BY <1>1, <1>13 DEF vars, ReleaseInv, NoEarlyRelease
<1> QED
  BY <1>3, <1>4, <1>5, <1>6, <1>7, <1>8, <1>9, <1>10, <1>11, <1>12, <1>13
     DEF Next, Finish

\* isCpuBusy = "false" is sent only after 5 seconds without a sample above 90%,
\* for all samples, whatever fails and whenever the agent is restarted.
THEOREM NotReleasedEarly == Spec => []NoEarlyRelease
<1>1. ReleaseInv => NoEarlyRelease
  BY DEF ReleaseInv
<1> QED
  BY <1>1, ReleaseInit, ReleaseStep, PTL DEF Spec

-----------------------------------------------------------------------------
(***************************************************************************)
(* When nothing fails, a busy Node is remembered.                          *)
(***************************************************************************)

\* Nothing outlives its POST, and while one is answered the Node holds what was
\* posted.
RememberInv ==
  /\ TypeOK
  /\ BusyRemembered
  /\ \A k \in Kubectls : kubectl[k] = NoPatch
  /\ applied => pc = "post" /\ ann = patch

LEMMA RememberInit == Init => RememberInv
<1> SUFFICES ASSUME Init PROVE RememberInv
  OBVIOUS
<1>1. ann.busy # "true"
  BY DEF Init, NoPatch
<1> QED
  BY <1>1, SenderTypeInit DEF Init, RememberInv, BusyRemembered

LEMMA RememberStep ==
  ASSUME ~Faults, ~Crashes, OtherPatches = {}, RememberInv, [Next]_vars
  PROVE  RememberInv'
<1>1. TypeOK /\ TypeOK'
  BY SenderTypeStep DEF RememberInv
<1>2. CASE Second
  BY <1>1, <1>2 DEF Second, RememberInv, BusyRemembered
<1>3. CASE StartLoop
  BY <1>1, <1>3 DEF StartLoop, RememberInv, BusyRemembered, loop
<1>4. ASSUME NEW u \in Readings, NEW b \in {"true", "false"}, Post(u, b),
             pc = "wait"
      PROVE  RememberInv'
  BY <1>1, <1>4 DEF Post, RememberInv, BusyRemembered
<1>5. CASE AnnounceBusy \/ AnnounceDrop \/ AnnounceIdle
  BY <1>4, <1>5 DEF AnnounceBusy, AnnounceDrop, AnnounceIdle, Measure
<1>6. CASE StayBusy
  \* A usage that is not due is the one annotated last.
  <2>1. PICK u \in Readings : Measure(u) /\ u > 90 /\ FALSE \in Due(u) /\ Skip
    BY <1>6 DEF StayBusy
  <2>2. u = lastAnnUsage
    BY <2>1 DEF Due
  <2> QED
    BY <1>1, <2>1, <2>2 DEF Skip, RememberInv, BusyRemembered
<1>7. CASE StayIdle
  BY <1>1, <1>7 DEF StayIdle, Skip, RememberInv, BusyRemembered
<1>8. CASE ReadError \/ PostError \/ PostTimeout \/ Crash
  BY <1>8 DEF ReadError, PostError, PostTimeout, Crash
<1>9. CASE Annotate
  BY <1>1, <1>9 DEF Annotate, RememberInv, BusyRemembered
<1>10. CASE PostOK
  <2>1. pc' = "wait" /\ ~applied' /\ ann' = patch /\ kubectl' = kubectl
    BY <1>10 DEF PostOK, Return, RememberInv
  <2>2. patch.usage \in Int
    BY <1>1, <1>10 DEF PostOK, TypeOK, Annotations, Usages
  <2>3. CASE patch.busy = "true" /\ patch.usage <= 90
    BY <1>1, <1>10, <2>1, <2>3 DEF PostOK, RememberInv, BusyRemembered
  <2>4. CASE patch.busy = "true" /\ patch.usage > 90
    BY <1>1, <1>10, <2>1, <2>4 DEF PostOK, RememberInv, BusyRemembered
  <2>5. CASE patch.busy # "true"
    BY <1>1, <2>1, <2>5 DEF RememberInv, BusyRemembered
  <2> QED
    BY <2>2, <2>3, <2>4, <2>5
<1>11. ASSUME NEW k \in Kubectls, LateKubectl(k) PROVE FALSE
  BY <1>11 DEF LateKubectl, RememberInv
<1>12. CASE UNCHANGED vars
  BY <1>1, <1>12 DEF vars, RememberInv, BusyRemembered
<1>13. ~OtherPatch
  BY DEF OtherPatch
<1> QED
  BY <1>2, <1>3, <1>5, <1>6, <1>7, <1>8, <1>9, <1>10, <1>11, <1>12, <1>13
     DEF Next, Iterate, Finish

\* While no annotation fails, nobody else annotates and the agent is not restarted,
\* a Node that is marked busy is one the loop will take the mark back from, for all
\* samples.
THEOREM NotForgotten ==
  ASSUME ~Faults, ~Crashes, OtherPatches = {}
  PROVE  Spec => []BusyRemembered
<1>1. RememberInv => BusyRemembered
  BY DEF RememberInv
<1>2. RememberInv /\ [Next]_vars => RememberInv'
  BY RememberStep
<1> QED
  BY <1>1, <1>2, RememberInit, PTL DEF Spec

-----------------------------------------------------------------------------
(***************************************************************************)
(* The duration.                                                           *)
(***************************************************************************)

\* Each count takes a tick, and each tick a second.
DurationInv ==
  /\ TypeOK
  /\ DurationNotOvercounted
  /\ tick # "none" => over90time <= hotFor

\* A sample takes the tick, so that it counts one second at most.
LEMMA MeasureDuration ==
  ASSUME DurationInv, NEW u \in Readings, Measure(u)
  PROVE  over90time' <= hotFor' + 1 /\ tick' = "none"
<1>1. over90time \in Nat /\ hotFor \in Nat /\ MaxDur \in Nat
  BY Ranges DEF DurationInv, TypeOK
<1>2. over90time <= hotFor /\ tick' = "none"
  BY DEF DurationInv, Measure
<1>3. CASE u > 90
  <2>1. over90time' = Cap(over90time + 1, MaxDur) /\ hotFor' = hotFor
    BY <1>3 DEF Measure
  <2>2. Cap(over90time + 1, MaxDur) <= over90time + 1
    BY <1>1 DEF Cap
  <2>3. Cap(over90time + 1, MaxDur) \in Int
    BY <1>1 DEF Cap
  <2> QED
    BY <1>1, <1>2, <2>1, <2>2, <2>3
<1>4. CASE ~(u > 90)
  BY <1>2, <1>4 DEF Measure
<1> QED
  BY <1>3, <1>4

\* A second counted, and capped, keeps a count below it.
LEMMA SecondCounted ==
  ASSUME NEW max \in Nat, NEW n \in 0 .. max, NEW secs \in 0 .. max,
         n <= secs + 1
  PROVE  LET after == IF n = 0 THEN 0 ELSE Cap(secs + 1, max)
         IN  n <= after /\ n <= after + 1
BY DEF Cap

LEMMA DurationStep == DurationInv /\ [Next]_vars => DurationInv'
<1> SUFFICES ASSUME DurationInv, [Next]_vars PROVE DurationInv'
  OBVIOUS
<1>1. TypeOK /\ TypeOK'
  BY SenderTypeStep DEF DurationInv
<1>2. over90time \in 0 .. MaxDur /\ hotFor \in 0 .. MaxDur /\ MaxDur \in Nat
  BY <1>1, Ranges DEF TypeOK
<1>3. CASE Second
  <2>1. over90time' = over90time
    BY <1>3 DEF Second
  <2>2. hotFor' = IF over90time = 0 THEN 0 ELSE Cap(hotFor + 1, MaxDur)
    BY <1>3 DEF Second
  <2>3. over90time <= hotFor + 1
    BY DEF DurationInv, DurationNotOvercounted
  <2>4. over90time' <= hotFor' /\ over90time' <= hotFor' + 1
    BY <1>2, <2>1, <2>2, <2>3, SecondCounted
  <2> QED
    BY <1>1, <2>4 DEF DurationInv, DurationNotOvercounted
<1>4. CASE Iterate
  <2>1. PICK u \in Readings : Measure(u)
    BY <1>4 DEF Iterate, AnnounceBusy, StayBusy, AnnounceDrop, AnnounceIdle, StayIdle
  <2> QED
    BY <1>1, <2>1, MeasureDuration DEF DurationInv, DurationNotOvercounted
<1>5. CASE StartLoop
  BY <1>1, <1>5 DEF StartLoop, DurationInv, DurationNotOvercounted, loop, ticker,
     history
<1>6. CASE ReadError
  BY <1>1, <1>6 DEF ReadError, DurationInv, DurationNotOvercounted, history
<1>7. CASE Annotate
  BY <1>1, <1>7 DEF Annotate, DurationInv, DurationNotOvercounted, loop, ticker,
     history
<1>8. CASE PostOK \/ PostError \/ PostTimeout
  BY <1>1, <1>8 DEF PostOK, PostError, PostTimeout, Return, DurationInv,
     DurationNotOvercounted, ticker, history
<1>9. ASSUME NEW k \in Kubectls, LateKubectl(k) PROVE DurationInv'
  BY <1>1, <1>9 DEF LateKubectl, DurationInv, DurationNotOvercounted, loop, ticker,
     history
<1>10. CASE Crash
  BY <1>1, <1>10 DEF Crash, DurationInv, DurationNotOvercounted
<1>11. CASE OtherPatch
  BY <1>1, <1>11 DEF OtherPatch, DurationInv, DurationNotOvercounted, loop, ticker,
     history
<1>12. CASE UNCHANGED vars
  BY <1>1, <1>12 DEF vars, DurationInv, DurationNotOvercounted
<1> QED
  BY <1>3, <1>4, <1>5, <1>6, <1>7, <1>8, <1>9, <1>10, <1>11, <1>12 DEF Next, Finish

\* The duration above 90% never counts more seconds than have passed, whatever
\* ticks are late or lost and whatever fails.
THEOREM NotOvercounted == Spec => []DurationNotOvercounted
<1>1. DurationInv => DurationNotOvercounted
  BY DEF DurationInv
<1>2. Init => DurationInv
  BY SenderTypeInit DEF Init, DurationInv, DurationNotOvercounted
<1> QED
  BY <1>1, <1>2, DurationStep, PTL DEF Spec

-----------------------------------------------------------------------------
(***************************************************************************)
(* The mark is current while the loop waits for a tick.  Between a sample  *)
(* and that, the patch under way says what the sample was, and a usage     *)
(* above 90% that was annotated is still marked.                           *)
(***************************************************************************)

MarkInv ==
  /\ RememberInv
  /\ MarkCurrent
  /\ pc = "boot" => over90time = 0 /\ ann.busy # "true"
  /\ lastAnnUsage > 90 /\ ~applied => ann.busy = "true"
  /\ pc = "post" =>
       /\ over90time > 0 <=> patch.usage > 90
       /\ patch.usage > 90 => patch.busy = "true"

LEMMA MarkInit == Init => MarkInv
<1> SUFFICES ASSUME Init PROVE MarkInv
  OBVIOUS
<1>1. ann.busy # "true" /\ ~(lastAnnUsage > 90)
  BY DEF Init, NoPatch
<1> QED
  BY <1>1, RememberInit DEF Init, MarkInv, MarkCurrent

LEMMA NotPast ==
  ASSUME NEW age \in Int, NEW limit \in Int, FALSE \in Past(age, limit)
  PROVE  age <= limit
<1>1. CASE age = limit
  BY <1>1
<1>2. CASE age # limit
  <2>1. FALSE \in {age > limit}
    BY <1>2 DEF Past
  <2>2. FALSE = (age > limit)
    BY <2>1
  <2> QED
    BY <2>2
<1> QED
  BY <1>1, <1>2

\* What a sample leaves of the duration.
LEMMA MeasureMark ==
  ASSUME TypeOK, NEW u \in Readings, Measure(u)
  PROVE  /\ u \in Int /\ pc = "wait" /\ tick' = "none"
         /\ over90time' \in Nat /\ (over90time' > 0 <=> u > 90)
<1>1. over90time \in Nat /\ MaxDur \in Nat \ {0} /\ u \in Int
  <2>1. over90time \in 0 .. MaxDur
    BY DEF TypeOK
  <2>2. u \in 0 .. 100
    BY ReadingType DEF Usages
  <2> QED
    BY <2>1, <2>2, SenderAssumption
<1>2. Cap(over90time + 1, MaxDur) \in Nat \ {0}
  BY <1>1 DEF Cap
<1> QED
  BY <1>1, <1>2 DEF Measure

\* The loop posts: the mark stays for now.
LEMMA PostMark ==
  ASSUME MarkInv, RememberInv', NEW u \in Readings, NEW b \in {"true", "false"},
         Measure(u), Post(u, b), u > 90 => b = "true"
  PROVE  MarkInv'
<1>1. u \in Int /\ pc = "wait" /\ (over90time' > 0 <=> u > 90)
  BY MeasureMark DEF MarkInv, RememberInv
<1>2. /\ pc' = "post" /\ UNCHANGED <<lastAnnUsage, ann>>
      /\ patch'.usage = u /\ patch'.busy = b
  BY DEF Post
<1>3. ~applied
  BY <1>1 DEF MarkInv, RememberInv
<1> QED
  BY <1>1, <1>2, <1>3 DEF MarkInv, MarkCurrent

LEMMA IterateMark == ASSUME MarkInv, RememberInv', Iterate PROVE MarkInv'
<1>1. TypeOK /\ BusyRemembered
  BY DEF MarkInv, RememberInv
<1>2. CASE AnnounceBusy \/ AnnounceDrop \/ AnnounceIdle
  <2>1. PICK u \in Readings, b \in {"true", "false"} :
          Measure(u) /\ Post(u, b) /\ (u > 90 => b = "true")
    <3>1. CASE AnnounceBusy
      BY <3>1 DEF AnnounceBusy
    <3>2. CASE AnnounceDrop
      BY <3>2 DEF AnnounceDrop
    <3>3. CASE AnnounceIdle
      <4>1. PICK u \in Readings : Measure(u) /\ u <= 90 /\ Post(u, "false")
        BY <3>3 DEF AnnounceIdle
      <4>2. u \in Int
        BY <1>1, <4>1, MeasureMark
      <4> QED
        BY <4>1, <4>2
    <3> QED
      BY <1>2, <3>1, <3>2, <3>3
  <2> QED
    BY <2>1, PostMark
<1>3. CASE StayBusy
  \* A usage that is not due is the one annotated last, which is still marked.
  <2>1. PICK u \in Readings : Measure(u) /\ u > 90 /\ FALSE \in Due(u) /\ Skip
    BY <1>3 DEF StayBusy
  <2>2. /\ u \in Int /\ pc = "wait" /\ over90time' \in Nat /\ over90time' > 0
    BY <1>1, <2>1, MeasureMark
  <2>3. lastAnnUsage > 90 /\ ~applied
    BY <2>1, <2>2 DEF Due, MarkInv, RememberInv
  <2>4. ann.busy = "true"
    BY <2>3 DEF MarkInv
  <2> QED
    BY <2>1, <2>2, <2>4 DEF Skip, MarkInv, MarkCurrent
<1>4. CASE StayIdle
  \* The 5 seconds are not over.
  <2>1. PICK u \in Readings :
          /\ Measure(u) /\ u <= 90 /\ lastAnnUsage <= 90
          /\ waitingForBusyFalse => FALSE \in Past(dropAge, Hysteresis)
          /\ Skip /\ UNCHANGED waitingForBusyFalse
    BY <1>4 DEF StayIdle
  <2>2. /\ u \in Int /\ pc = "wait" /\ over90time' \in Nat /\ ~(over90time' > 0)
    BY <1>1, <2>1, MeasureMark
  <2>3. lastAnnUsage \in Int /\ dropAge \in Int
    <3>1. lastAnnUsage \in (0 .. 100) \cup {-1} /\ dropAge \in 0 .. 6
      BY <1>1 DEF TypeOK, Usages, MaxAge, Hysteresis
    <3> QED
      BY <3>1
  <2>4. ASSUME waitingForBusyFalse PROVE dropAge <= Hysteresis
    <3>1. FALSE \in Past(dropAge, Hysteresis)
      BY <2>1, <2>4
    <3>2. Hysteresis \in Int
      BY DEF Hysteresis
    <3> QED
      BY <2>3, <3>1, <3>2, NotPast
  <2>5. ann.busy = "true" => waitingForBusyFalse
    BY <1>1, <2>1, <2>2, <2>3 DEF BusyRemembered
  <2> QED
    BY <2>1, <2>2, <2>4, <2>5 DEF Skip, MarkInv, MarkCurrent
<1> QED
  BY <1>2, <1>3, <1>4 DEF Iterate

LEMMA MarkStep ==
  ASSUME ~Faults, ~Crashes, OtherPatches = {}, MarkInv, [Next]_vars
  PROVE  MarkInv'
<1>1. TypeOK /\ RememberInv /\ RememberInv'
  BY RememberStep DEF MarkInv, RememberInv
<1>2. CASE Second
  <2>1. /\ pc' = pc /\ (pc = "wait" => tick' # "none")
        /\ UNCHANGED <<over90time, lastAnnUsage, patch, applied, ann>>
    BY <1>2 DEF Second
  <2> QED
    BY <1>1, <2>1 DEF MarkInv, MarkCurrent
<1>3. CASE StartLoop
  BY <1>1, <1>3 DEF StartLoop, MarkInv, MarkCurrent, loop
<1>4. CASE Iterate
  BY <1>1, <1>4, IterateMark
<1>5. CASE Annotate
  BY <1>1, <1>5 DEF Annotate, MarkInv, MarkCurrent, loop
<1>6. CASE PostOK
  <2>1. /\ pc = "post" /\ pc' = "wait" /\ applied /\ ~applied' /\ lastAnnUsage' = patch.usage
        /\ ann' = ann /\ ann = patch /\ UNCHANGED over90time
    BY <1>1, <1>6 DEF PostOK, Return, RememberInv
  <2>2. patch.usage \in Int /\ over90time \in Int
    BY <1>1, <1>6, Ranges DEF PostOK, TypeOK, Annotations, Usages
  <2>3. patch.busy = "true" /\ patch.usage <= 90 =>
          waitingForBusyFalse' /\ dropAge' <= Hysteresis
    BY <1>6 DEF PostOK, Hysteresis
  <2>4. /\ over90time > 0 <=> patch.usage > 90
        /\ patch.usage > 90 => patch.busy = "true"
    BY <2>1 DEF MarkInv
  <2> QED
    BY <1>1, <2>1, <2>2, <2>3, <2>4 DEF MarkInv, MarkCurrent
<1>7. CASE ReadError \/ PostError \/ PostTimeout \/ OtherPatch \/ Crash
  BY <1>7 DEF ReadError, PostError, PostTimeout, OtherPatch, Crash
<1>8. ASSUME NEW k \in Kubectls, LateKubectl(k) PROVE FALSE
  BY <1>1, <1>8 DEF LateKubectl, RememberInv
<1>9. CASE UNCHANGED vars
  BY <1>1, <1>9 DEF vars, MarkInv, MarkCurrent
<1> QED
  BY <1>2, <1>3, <1>4, <1>5, <1>6, <1>7, <1>8, <1>9 DEF Next, Finish

\* While nothing fails, nobody else annotates and the agent is not restarted, the Node
\* is marked busy within the loop's iteration after a sample above 90%, and no more
\* than 5 seconds after a drop, for all samples.
THEOREM MarksInTime ==
  ASSUME ~Faults, ~Crashes, OtherPatches = {}
  PROVE  Spec => []MarkCurrent
<1>1. MarkInv => MarkCurrent
  BY DEF MarkInv
<1>2. MarkInv /\ [Next]_vars => MarkInv'
  BY MarkStep
<1> QED
  BY <1>1, <1>2, MarkInit, PTL DEF Spec
=============================================================================
