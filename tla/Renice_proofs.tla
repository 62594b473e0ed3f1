---------------------------- MODULE Renice_proofs ----------------------------
(***************************************************************************)
(* Whom /renice may hit, for every number of handlers, containers and      *)
(* process ids.                                                            *)
(*                                                                         *)
(* A handler that is about to call renice holds an id that belonged to its *)
(* container.  As long as the kernel gives no id away a second time, it    *)
(* belongs to the container still, or to nobody.                           *)
(***************************************************************************)
EXTENDS Renice, TLAPS

\* The id that h holds is its container's, or was.
Held(h) ==
  pc[h] = "renice" /\ pid[h] \in Pids =>
    /\ pid[h] \in used
    /\ proc[pid[h]] \in {req[h].container, Free}

HeldInv ==
  /\ TypeOK
  /\ \A p \in Pids : proc[p] # Free => p \in used
  /\ \A h \in Handlers : Held(h)

-----------------------------------------------------------------------------
(***************************************************************************)
(* The types.                                                              *)
(***************************************************************************)

LEMMA TypeInit == Init => TypeOK
  BY ReniceAssumption DEF Init, TypeOK, NiceRange

\* renice only ever sets a nice value that there is.
LEMMA ClampedType == ASSUME NEW n \in Int PROVE Clamped(n) \in NiceRange
  BY DEF Clamped, NiceRange

\* What an answer leaves of the handlers' state.
LEMMA AnswerTypes ==
  ASSUME TypeOK, NEW h \in Handlers, NEW status \in {"200", "400", "405", "500"},
         Answer(h, status)
  PROVE  /\ pc' \in [Handlers -> {"idle", "inspect", "renice"}]
         /\ req' \in [Handlers -> Requests \cup {NoRequest}]
         /\ pid' \in [Handlers -> Pids \cup {Self}]
         /\ reply' \in [Handlers -> {"none", "200", "400", "405", "500"}]
         /\ pc'[h] = "idle"
         /\ \A i \in Handlers \ {h} :
              pc'[i] = pc[i] /\ req'[i] = req[i] /\ pid'[i] = pid[i] /\ reply'[i] = reply[i]
  BY DEF TypeOK, Answer

LEMMA TypeStep == TypeOK /\ [Next]_vars => TypeOK'
<1> SUFFICES ASSUME TypeOK, [Next]_vars PROVE TypeOK'
  OBVIOUS
<1>1. ASSUME NEW h \in Handlers, NEW status \in {"200", "400", "405", "500"},
             Answer(h, status), UNCHANGED system
      PROVE  TypeOK'
  BY <1>1, AnswerTypes DEF TypeOK, system
<1>2. ASSUME NEW h \in Handlers, Accept(h) PROVE TypeOK'
  BY <1>2 DEF Accept, TypeOK, system
<1>3. ASSUME NEW h \in Handlers, Inspect(h) \/ InspectExited(h) PROVE TypeOK'
  BY <1>3 DEF Inspect, InspectExited, Found, TypeOK, system
<1>4. ASSUME NEW h \in Handlers, RunRenice(h) PROVE TypeOK'
  <2>1. Clamped(req[h].nice) \in NiceRange
    BY <1>4, ClampedType, ReniceAssumption DEF RunRenice, TypeOK, Requests
  <2>2. nice' \in [Pids -> NiceRange] /\ \A p \in Pids : proc'[p] = Free => nice'[p] = 0
    BY <1>4, <2>1 DEF RunRenice, TypeOK
  <2> QED
    BY <1>4, <2>2, AnswerTypes DEF RunRenice, TypeOK
<1>5. ASSUME NEW p \in Pids, Stop(p) PROVE TypeOK'
  BY <1>5, ReniceAssumption DEF Stop, TypeOK, NiceRange, handlers
<1>6. ASSUME NEW p \in Pids, NEW x \in Containers \cup {Other}, Start(p, x) PROVE TypeOK'
  BY <1>6, ReniceAssumption DEF Start, TypeOK, NiceRange, handlers
<1>7. CASE UNCHANGED vars
  BY <1>7 DEF vars, TypeOK
<1>8. ASSUME NEW h \in Handlers, handleRenice(h) PROVE TypeOK'
  BY <1>1, <1>2, <1>3, <1>4, <1>8
     DEF handleRenice, Refuse, FailInspect, ReniceSelf, FailRenice
<1> QED
  BY <1>5, <1>6, <1>7, <1>8 DEF Next

\* The types of the endpoint's state, for all requests, processes and failures.
THEOREM ReniceTypeCorrect == Spec => []TypeOK
  BY TypeInit, TypeStep, PTL DEF Spec

-----------------------------------------------------------------------------
(***************************************************************************)
(* The invariant.                                                          *)
(***************************************************************************)

LEMMA HeldInit == Init => HeldInv
<1> SUFFICES ASSUME Init PROVE HeldInv
  OBVIOUS
<1>1. TypeOK
  BY TypeInit
<1> QED
  BY <1>1 DEF Init, HeldInv, Held

LEMMA HeldStep == ASSUME ~Reuse PROVE HeldInv /\ [Next]_vars => HeldInv'
<1> SUFFICES ASSUME HeldInv, [Next]_vars PROVE HeldInv'
  OBVIOUS
<1>1. TypeOK /\ TypeOK'
  BY TypeStep DEF HeldInv
<1>2. ASSUME NEW h \in Handlers, NEW status \in {"200", "400", "405", "500"},
             Answer(h, status), proc' = proc, used' = used
      PROVE  HeldInv'
  BY <1>1, <1>2, AnswerTypes DEF HeldInv, Held
<1>3. ASSUME NEW h \in Handlers, Accept(h) PROVE HeldInv'
  BY <1>1, <1>3 DEF Accept, HeldInv, Held, TypeOK, system
<1>4. ASSUME NEW h \in Handlers, Inspect(h) \/ InspectExited(h) PROVE HeldInv'
  <2>1. PICK p \in Pids \cup {Self} :
          /\ Found(h, p)
          /\ p \in Pids => proc[p] = req[h].container
    BY <1>4, ReniceAssumption DEF Inspect, InspectExited
  <2>2. p \in Pids => p \in used
    <3>1. req[h].container \in Containers
      BY <1>1, <1>4 DEF Inspect, InspectExited, TypeOK, Requests
    <3> QED
      BY <2>1, <3>1, ReniceAssumption DEF HeldInv
  <2> QED
    BY <1>1, <2>1, <2>2 DEF Found, system, HeldInv, Held, TypeOK
<1>5. ASSUME NEW p \in Pids, Stop(p) PROVE HeldInv'
  BY <1>1, <1>5 DEF Stop, handlers, HeldInv, Held, TypeOK
<1>6. ASSUME NEW p \in Pids, NEW x \in Containers \cup {Other}, Start(p, x)
      PROVE  HeldInv'
  <2>1. p \notin used /\ used' = used \cup {p, x} /\ UNCHANGED handlers
    BY <1>6 DEF Start
  <2>2. \A q \in Pids \ {p} : proc'[q] = proc[q]
    BY <1>1, <1>6 DEF Start, TypeOK
  <2>3. \A q \in Pids : proc'[q] # Free => q \in used'
    BY <2>1, <2>2 DEF HeldInv
  <2>4. ASSUME NEW h \in Handlers PROVE Held(h)'
    BY <2>1, <2>2 DEF HeldInv, Held, handlers
  <2> QED
    BY <1>1, <2>3, <2>4 DEF HeldInv
<1>7. CASE UNCHANGED vars
  BY <1>1, <1>7 DEF vars, HeldInv, Held
<1>8. ASSUME NEW h \in Handlers, handleRenice(h) PROVE HeldInv'
  BY <1>2, <1>3, <1>4, <1>8
     DEF handleRenice, Refuse, FailInspect, RunRenice, ReniceSelf, FailRenice, system
<1> QED
  BY <1>5, <1>6, <1>7, <1>8 DEF Next

-----------------------------------------------------------------------------
(***************************************************************************)
(* The theorems.                                                           *)
(***************************************************************************)

\* As long as no process id is given away a second time, renice hits the process
\* of the requested container or none, whenever the container exits.
THEOREM HitsNoBystander == ASSUME ~Reuse PROVE Spec => NoBystander
<1>1. HeldInv => \A h \in Handlers : RunRenice(h) => proc[pid[h]] = req[h].container
  BY DEF HeldInv, Held, RunRenice
<1>2. HeldInv /\ [Next]_vars =>
        [\A h \in Handlers : RunRenice(h) => proc[pid[h]] = req[h].container]_vars
  BY <1>1
<1> QED
  BY <1>2, HeldInit, HeldStep, PTL DEF Spec, NoBystander

-----------------------------------------------------------------------------
(***************************************************************************)
(* An answer 200.  A container runs once: the id that crictl gave for it is *)
(* the only one it can still have.                                         *)
(***************************************************************************)

\* If the container of h runs, it has the id that h holds.
Last(h) ==
  pc[h] = "renice" =>
    /\ req[h].container \in used
    /\ \A q \in Pids : proc[q] = req[h].container => q = pid[h]

LastInv ==
  /\ TypeOK
  /\ \A p \in Pids : proc[p] \in Containers => proc[p] \in used
  /\ \A p, q \in Pids : proc[p] = proc[q] /\ proc[p] \in Containers => p = q
  /\ \A h \in Handlers : Last(h) /\ (pc[h] # "idle" => reply[h] = "none")

LEMMA LastInit == Init => LastInv
<1> SUFFICES ASSUME Init PROVE LastInv
  OBVIOUS
<1>1. TypeOK
  BY TypeInit
<1> QED
  BY <1>1, ReniceAssumption DEF Init, LastInv, Last

LEMMA LastStep == LastInv /\ [Next]_vars => LastInv'
<1> SUFFICES ASSUME LastInv, [Next]_vars PROVE LastInv'
  OBVIOUS
<1>1. TypeOK /\ TypeOK'
  BY TypeStep DEF LastInv
<1>2. ASSUME NEW h \in Handlers, NEW status \in {"200", "400", "405", "500"},
             Answer(h, status), proc' = proc, used' = used
      PROVE  LastInv'
  BY <1>1, <1>2, AnswerTypes DEF LastInv, Last
<1>3. ASSUME NEW h \in Handlers, Accept(h) PROVE LastInv'
  BY <1>1, <1>3 DEF Accept, LastInv, Last, TypeOK, system
<1>4. ASSUME NEW h \in Handlers, Inspect(h) \/ InspectExited(h) PROVE LastInv'
  <2>1. req[h].container \in Containers
    BY <1>1, <1>4 DEF Inspect, InspectExited, TypeOK, Requests
  <2>2. PICK p \in Pids \cup {Self} :
          /\ Found(h, p)
          /\ req[h].container \in used
          /\ \A q \in Pids : proc[q] = req[h].container => q = p
    BY <1>4, <2>1 DEF Inspect, InspectExited, LastInv
  <2>3. ASSUME NEW i \in Handlers PROVE Last(i)'
    <3>1. CASE i = h
      BY <1>1, <2>2, <3>1 DEF Found, system, Last, TypeOK
    <3>2. CASE i # h
      BY <1>1, <2>2, <3>2 DEF Found, system, LastInv, Last, TypeOK
    <3> QED
      BY <3>1, <3>2
  <2>4. \A i \in Handlers : pc'[i] # "idle" => reply'[i] = "none"
    BY <1>1, <1>4, <2>2 DEF Found, Inspect, InspectExited, LastInv, TypeOK
  <2> QED
    BY <1>1, <2>2, <2>3, <2>4 DEF Found, system, LastInv
<1>5. ASSUME NEW p \in Pids, Stop(p) PROVE LastInv'
  <2>1. /\ UNCHANGED <<used, handlers>>
        /\ proc' = [proc EXCEPT ![p] = Free]
    BY <1>5 DEF Stop
  <2>2. \A q \in Pids : proc'[q] \in Containers => proc'[q] = proc[q]
    BY <1>1, <2>1, ReniceAssumption DEF TypeOK
  <2>3. \A h \in Handlers : pc[h] = "renice" => req[h].container \in Containers
    BY <1>1 DEF TypeOK, Requests
  <2>4. ASSUME NEW h \in Handlers PROVE Last(h)'
    BY <1>1, <2>1, <2>2, <2>3 DEF handlers, LastInv, Last
  <2> QED
    BY <1>1, <2>1, <2>2, <2>4 DEF handlers, LastInv
<1>6. ASSUME NEW p \in Pids, NEW x \in Containers \cup {Other}, Start(p, x)
      PROVE  LastInv'
  <2>1. /\ x \in Containers => x \notin used
        /\ used' = used \cup {p, x} /\ UNCHANGED handlers
        /\ proc' = [proc EXCEPT ![p] = x]
    BY <1>6 DEF Start
  <2>2. proc'[p] = x /\ \A q \in Pids \ {p} : proc'[q] = proc[q]
    BY <1>1, <2>1 DEF TypeOK
  <2>3. \A q \in Pids : proc'[q] \in Containers => proc'[q] \in used'
    BY <2>1, <2>2 DEF LastInv
  <2>4. \A q, r \in Pids : proc'[q] = proc'[r] /\ proc'[q] \in Containers => q = r
    BY <2>1, <2>2 DEF LastInv
  <2>5. ASSUME NEW h \in Handlers PROVE Last(h)'
    <3>1. pc[h] = "renice" => req[h].container \in Containers /\ req[h].container \in used
      BY <1>1 DEF TypeOK, Requests, LastInv, Last
    <3> QED
      BY <2>1, <2>2, <3>1 DEF handlers, LastInv, Last
  <2> QED
    BY <1>1, <2>1, <2>3, <2>4, <2>5 DEF handlers, LastInv
<1>7. CASE UNCHANGED vars
  BY <1>1, <1>7 DEF vars, LastInv, Last
<1>8. ASSUME NEW h \in Handlers, handleRenice(h) PROVE LastInv'
  BY <1>2, <1>3, <1>4, <1>8
     DEF handleRenice, Refuse, FailInspect, RunRenice, ReniceSelf, FailRenice, system
<1> QED
  BY <1>5, <1>6, <1>7, <1>8 DEF Next

\* An answer 200 of handleRenice means that the container, if it still runs, has
\* the nice value, also when the kernel gives ids away again, whatever number
\* was asked for.
THEOREM SuccessIsReniced == Spec => SuccessMeansReniced
<1> DEFINE Told ==
      \A h \in Handlers, p \in Pids :
        pc[h] = "renice" /\ reply'[h] = "200" /\ proc[p] = req[h].container
          => nice'[p] = Clamped(req[h].nice)
<1>1. LastInv /\ [Next]_vars => [Told]_vars
  <2> SUFFICES ASSUME LastInv, Next, NEW h \in Handlers, NEW p \in Pids,
                      pc[h] = "renice", reply'[h] = "200", proc[p] = req[h].container
               PROVE  nice'[p] = Clamped(req[h].nice)
    OBVIOUS
  <2>1. TypeOK /\ req[h].container \in Containers
    BY DEF LastInv, TypeOK, Requests
  <2>2. p = pid[h] /\ reply[h] # "200"
    BY DEF LastInv, Last
  <2>3. ASSUME NEW i \in Handlers, handleRenice(i) PROVE i = h
    BY <2>1, <2>2, <2>3
       DEF handleRenice, Refuse, Accept, Inspect, InspectExited, FailInspect, Found,
           RunRenice, ReniceSelf, FailRenice, Answer, TypeOK
  <2>4. handleRenice(h)
    BY <2>2, <2>3 DEF Next, Start, Stop, handlers
  <2>5. CASE RunRenice(h)
    BY <2>1, <2>2, <2>5 DEF RunRenice, TypeOK
  <2>6. ~ReniceSelf(h)
    BY <2>2, ReniceAssumption DEF ReniceSelf
  <2>7. ~FailRenice(h)
    BY <2>1 DEF FailRenice, Answer, TypeOK
  <2> QED
    BY <2>4, <2>5, <2>6, <2>7 DEF handleRenice, Refuse, Accept, Inspect, InspectExited, FailInspect
<1> QED
  BY <1>1, LastInit, LastStep, PTL DEF Spec, SuccessMeansReniced
=============================================================================
