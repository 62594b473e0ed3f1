---------------------------- MODULE CpuUtilSender ----------------------------
(***************************************************************************)
(* The CPU agent (cpu_util_sender/main.go): a loop samples /proc/stat once *)
(* a second and annotates the Node through the HTTP API of its own         *)
(* process, whose handler runs "kubectl annotate".                         *)
(*                                                                         *)
(* Time passes in whole seconds.  The loop waits for an annotation for up  *)
(* to 3 seconds, in which the ticker keeps at most one tick.  The handler  *)
(* does not see the timeout of its client: kubectl goes on and may still   *)
(* annotate the Node, after the annotations that follow.  The annotations  *)
(* are the only state that outlives the process.                           *)
(***************************************************************************)
EXTENDS Integers

CONSTANTS
  Samples,    \* what /proc/stat may advance by: records [idle, total] of jiffies
  Word,       \* the modulus of a counter, 2^64 in the code
  MaxDur,     \* over90time is counted up to this many seconds
  Kubectls,   \* kubectl processes that may outlive the POST that started them
  Faults,     \* may reads and annotations fail?
  Crashes,    \* may the process die and be restarted?
  OtherPatches  \* annotations that other clients of the HTTP API may PATCH

Timeout   == 3  \* seconds an annotation may take
BootTime  == 3  \* seconds main sleeps before its first tick
Hysteresis == 5 \* seconds below 90% before the Node is no longer busy
MaxAge    == Hysteresis + 1  \* ages are counted up to here

ASSUME SenderAssumption ==
  /\ Samples \subseteq [idle : Int, total : Nat]
  /\ Word \in Nat \ {0}
  /\ \A s \in Samples : -Word < s.idle /\ s.idle <= s.total /\ s.total < Word
  /\ MaxDur \in Nat \ {0}
  /\ {Faults, Crashes} \subseteq BOOLEAN

\* Mutant of computeUsage: counters that are not idle for longer than they ran.
computeUsageUnclamped(s) ==
  LET idleDelta == s.idle % Word
  IN  IF s.total <= 0
        THEN 0
        ELSE (200 * (s.total - idleDelta) + s.total) \div (2 * s.total)

\* The usage in percent of what was counted between two readings, rounded to the
\* nearest integer.  Counters are unsigned: an idle counter that goes back, as
\* iowait may, looks like a long idle time.
computeUsage(s) ==
  LET idleDelta == s.idle % Word
  IN  IF s.total <= 0 \/ idleDelta > s.total
        THEN 0
        ELSE (200 * (s.total - idleDelta) + s.total) \div (2 * s.total)

Usages == 0 .. 100

\* The annotations of the Node that the agent writes, in one patch.
Annotations == [usage : Usages, dur : 0 .. MaxDur, busy : {"true", "false"}]

ASSUME ClientsAssumption == OtherPatches \subseteq Annotations

NoPatch == [usage |-> -1, dur |-> 0, busy |-> "none"]

VARIABLES
  pc,       \* "boot", "wait" for the ticker, or "post": in annotateViaHTTP
  timer,    \* seconds spent there, in "boot" and in "post"
  tick,     \* the tick in the ticker's channel: "none", "due" or "late"
  short,    \* was the last sample taken late, so that the next may be empty?
  over90time,
  lastAnnUsage,
  annAge,   \* seconds since lastAnnTime
  dropAge,  \* seconds since droppedBelowTime
  waitingForBusyFalse,
  patch,    \* the annotations being posted
  applied,  \* has kubectl written them?
  kubectl,  \* the patches that outlived their POST
  ann,      \* the annotations of the Node
  sinceBusy,\* history: seconds since a sample above 90%
  hotFor    \* history: seconds since every sample is above 90%

loop    == <<over90time, lastAnnUsage, annAge, dropAge, waitingForBusyFalse>>
ticker  == <<tick, short>>
history == <<sinceBusy, hotFor>>
vars    == <<pc, timer, tick, short, over90time, lastAnnUsage, annAge, dropAge,
             waitingForBusyFalse, patch, applied, kubectl, ann, sinceBusy, hotFor>>

Cap(n, max) == IF n < max THEN n ELSE max

\* Whether an age is past a limit; at the limit, either answer, since the clock
\* is read some time after the tick.
Past(age, limit) ==
  IF age = limit THEN BOOLEAN ELSE {age > limit}

Init ==
  /\ pc = "boot" /\ timer = 0
  /\ tick = "none" /\ short = FALSE
  /\ over90time = 0
  /\ lastAnnUsage = -1
  /\ annAge = MaxAge /\ dropAge = MaxAge
  /\ waitingForBusyFalse = FALSE
  /\ patch = NoPatch /\ applied = FALSE
  /\ kubectl = [k \in Kubectls |-> NoPatch]
  /\ ann = NoPatch
  /\ sinceBusy = MaxAge /\ hotFor = 0

-----------------------------------------------------------------------------
(***************************************************************************)
(* Time.                                                                   *)
(***************************************************************************)

\* A second passes.  The loop is prompt: it takes a tick within the second, and
\* annotateViaHTTP returns within the timeout.
Second ==
  /\ pc = "boot" => timer < BootTime
  /\ pc = "wait" => tick = "none"
  /\ pc = "post" => timer < Timeout
  /\ timer' = IF pc = "wait" THEN 0 ELSE timer + 1
  /\ tick' = CASE pc = "boot" -> "none"
               [] pc = "wait" -> "due"
               [] pc = "post" -> "late"
  /\ annAge'    = Cap(annAge + 1, MaxAge)
  /\ dropAge'   = Cap(dropAge + 1, MaxAge)
  /\ sinceBusy' = Cap(sinceBusy + 1, MaxAge)
  /\ hotFor'    = IF over90time = 0 THEN 0 ELSE Cap(hotFor + 1, MaxDur)
  /\ UNCHANGED <<pc, short, over90time, lastAnnUsage, waitingForBusyFalse,
                 patch, applied, kubectl, ann>>

\* main has slept and read its first sample; the ticker starts.
StartLoop ==
  /\ pc = "boot"
  /\ timer = BootTime
  /\ pc' = "wait"
  /\ timer' = 0
  /\ UNCHANGED <<loop, ticker, patch, applied, kubectl, ann, history>>

-----------------------------------------------------------------------------
(***************************************************************************)
(* One iteration of the loop.                                              *)
(***************************************************************************)

\* The usages that may be computed since the last sample.  A sample right after
\* a late one may count not a single jiffy.
Readings ==
  {computeUsage(s) : s \in Samples}
  \cup (IF short THEN {computeUsage([idle |-> 0, total |-> 0])} ELSE {})

\* Mutant of Measure: the seconds above 90% add up over the drops.
MeasureTotal(u) ==
  /\ pc = "wait" /\ tick # "none"
  /\ tick'  = "none"
  /\ short' = (tick = "late")
  /\ over90time' = IF u > 90 THEN Cap(over90time + 1, MaxDur) ELSE over90time
  /\ sinceBusy'  = IF u > 90 THEN 0 ELSE sinceBusy
  /\ hotFor'     = IF u > 90 THEN hotFor ELSE 0

\* The loop takes the tick, has measured u and counts the seconds above 90%.
Measure(u) ==
  /\ pc = "wait" /\ tick # "none"
  /\ tick'  = "none"
  /\ short' = (tick = "late")
  /\ over90time' = IF u > 90 THEN Cap(over90time + 1, MaxDur) ELSE 0
  /\ sinceBusy'  = IF u > 90 THEN 0 ELSE sinceBusy
  /\ hotFor'     = IF u > 90 THEN hotFor ELSE 0

\* The loop calls annotateViaHTTP.
Post(u, busy) ==
  /\ pc' = "post" /\ timer' = 0
  /\ patch' = [usage |-> u, dur |-> over90time', busy |-> busy]
  /\ applied' = FALSE
  /\ UNCHANGED <<lastAnnUsage, annAge, dropAge, kubectl, ann>>

Skip ==
  UNCHANGED <<pc, timer, patch, applied, lastAnnUsage, annAge, dropAge, kubectl, ann>>

\* /proc/stat cannot be read: the tick is lost, the previous sample stays.
ReadError ==
  /\ Faults
  /\ pc = "wait" /\ tick # "none"
  /\ tick' = "none" /\ short' = FALSE
  /\ Skip
  /\ UNCHANGED <<over90time, waitingForBusyFalse, history>>

\* Mutant of Due: a usage is annotated once.
DueOnce(u) == {u # lastAnnUsage}

\* Mutant of Due: no two annotations within 5 seconds.
DueByAge(u) == Past(annAge, Hysteresis)

\* Above 90%: is u to be annotated?  A new usage is, and any usage after 5 seconds.
Due(u) == IF u # lastAnnUsage THEN {TRUE} ELSE Past(annAge, Hysteresis)

\* Mutant of AnnounceBusy: an end of busy that is waited for is not called off.
AnnounceBusyWaiting ==
  \E u \in Readings :
    /\ Measure(u)
    /\ u > 90
    /\ TRUE \in Due(u)
    /\ Post(u, "true")
    /\ UNCHANGED waitingForBusyFalse

AnnounceBusy ==
  \E u \in Readings :
    /\ Measure(u)
    /\ u > 90
    /\ TRUE \in Due(u)
    /\ waitingForBusyFalse' = FALSE
    /\ Post(u, "true")

StayBusy ==
  \E u \in Readings :
    /\ Measure(u)
    /\ u > 90
    /\ FALSE \in Due(u)
    /\ waitingForBusyFalse' = FALSE
    /\ Skip

\* The first sample not above 90% after an annotation that was.
AnnounceDrop ==
  \E u \in Readings :
    /\ Measure(u)
    /\ u <= 90
    /\ lastAnnUsage > 90
    /\ Post(u, "true")
    /\ UNCHANGED waitingForBusyFalse

\* Not above 90% for 5 seconds since then: no longer busy.
AnnounceIdle ==
  \E u \in Readings :
    /\ Measure(u)
    /\ u <= 90
    /\ lastAnnUsage <= 90
    /\ waitingForBusyFalse /\ TRUE \in Past(dropAge, Hysteresis)
    /\ Post(u, "false")
    /\ UNCHANGED waitingForBusyFalse

\* Mutant of StayIdle: every sample starts the 5 seconds anew.
StayIdleRestarting ==
  \E u \in Readings :
    /\ Measure(u)
    /\ u <= 90
    /\ lastAnnUsage <= 90
    /\ waitingForBusyFalse => FALSE \in Past(dropAge, Hysteresis)
    /\ dropAge' = 0
    /\ UNCHANGED <<pc, timer, patch, applied, lastAnnUsage, annAge, kubectl, ann>>
    /\ UNCHANGED waitingForBusyFalse

StayIdle ==
  \E u \in Readings :
    /\ Measure(u)
    /\ u <= 90
    /\ lastAnnUsage <= 90
    /\ waitingForBusyFalse => FALSE \in Past(dropAge, Hysteresis)
    /\ Skip
    /\ UNCHANGED waitingForBusyFalse

-----------------------------------------------------------------------------
(***************************************************************************)
(* annotateViaHTTP, handleNodeAnnotations and kubectl.                     *)
(***************************************************************************)

\* kubectl annotates the Node.
Annotate ==
  /\ pc = "post" /\ ~applied
  /\ applied' = TRUE
  /\ ann' = patch
  /\ UNCHANGED <<pc, timer, ticker, loop, patch, kubectl, history>>

\* The loop goes back to the ticker.
Return ==
  /\ pc' = "wait" /\ timer' = 0
  /\ patch' = NoPatch /\ applied' = FALSE
  /\ UNCHANGED <<ticker, ann, history, over90time>>

\* Mutant of PostOK: nothing is waited for after a drop.
PostOKForgetting ==
  /\ pc = "post" /\ applied
  /\ lastAnnUsage' = patch.usage
  /\ annAge' = 0
  /\ waitingForBusyFalse' = FALSE
  /\ Return
  /\ UNCHANGED <<dropAge, kubectl>>

\* The POST succeeded: remember what was annotated, and after a drop wait.
PostOK ==
  /\ pc = "post" /\ applied
  /\ lastAnnUsage' = patch.usage
  /\ annAge' = 0
  /\ IF patch.busy = "true" /\ patch.usage <= 90
       THEN waitingForBusyFalse' = TRUE /\ dropAge' = 0
       ELSE waitingForBusyFalse' = FALSE /\ UNCHANGED dropAge
  /\ Return
  /\ UNCHANGED kubectl

\* The POST failed, before or after kubectl had annotated the Node.
PostError ==
  /\ Faults
  /\ pc = "post"
  /\ Return
  /\ UNCHANGED <<lastAnnUsage, annAge, dropAge, waitingForBusyFalse, kubectl>>

\* The client gives up after 3 seconds; kubectl runs on.
PostTimeout ==
  /\ Faults
  /\ pc = "post" /\ timer = Timeout
  /\ ~applied
  /\ \E k \in Kubectls :
       /\ kubectl[k] = NoPatch
       /\ kubectl' = [kubectl EXCEPT ![k] = patch]
  /\ Return
  /\ UNCHANGED <<lastAnnUsage, annAge, dropAge, waitingForBusyFalse>>

\* A kubectl that outlived its POST annotates the Node, or fails.
LateKubectl(k) ==
  /\ kubectl[k] # NoPatch
  /\ kubectl' = [kubectl EXCEPT ![k] = NoPatch]
  /\ ann' \in {ann, kubectl[k]}
  /\ UNCHANGED <<pc, timer, ticker, loop, patch, applied, history>>

\* Another client PATCHes the Node: to handleNodeAnnotations it is no different from
\* the agent's own loop, which does not learn of it.
OtherPatch ==
  /\ \E a \in OtherPatches : ann' = a
  /\ UNCHANGED <<pc, timer, ticker, loop, patch, applied, kubectl, history>>

\* The process dies with its children and is started again.
Crash ==
  /\ Crashes
  /\ pc # "boot"
  /\ pc' = "boot" /\ timer' = 0
  /\ tick' = "none" /\ short' = FALSE
  /\ over90time' = 0
  /\ lastAnnUsage' = -1
  /\ annAge' = MaxAge /\ dropAge' = MaxAge
  /\ waitingForBusyFalse' = FALSE
  /\ patch' = NoPatch /\ applied' = FALSE
  /\ kubectl' = [k \in Kubectls |-> NoPatch]
  /\ hotFor' = 0
  /\ UNCHANGED <<ann, sinceBusy>>

-----------------------------------------------------------------------------

Iterate == AnnounceBusy \/ StayBusy \/ AnnounceDrop \/ AnnounceIdle \/ StayIdle

Finish == Annotate \/ PostOK \/ PostError \/ PostTimeout

Next ==
  \/ Second
  \/ StartLoop
  \/ Iterate
  \/ ReadError
  \/ Finish
  \/ \E k \in Kubectls : LateKubectl(k)
  \/ OtherPatch
  \/ Crash

Spec == Init /\ [][Next]_vars

\* Time passes, the loop runs whenever it has a tick, an annotation ends, and so
\* does every kubectl.
Fairness ==
  /\ WF_vars(Second)
  /\ WF_vars(StartLoop)
  /\ WF_vars(Iterate \/ ReadError)
  /\ WF_vars(Finish)
  /\ \A k \in Kubectls : WF_vars(LateKubectl(k))

FairSpec == Spec /\ Fairness

-----------------------------------------------------------------------------
(***************************************************************************)
(* Properties.                                                             *)
(***************************************************************************)

\* Every variable has its type, and a patch is there exactly while one is posted.
TypeOK ==
  /\ pc \in {"boot", "wait", "post"}
  /\ timer \in 0 .. Timeout
  /\ tick \in {"none", "due", "late"} /\ short \in BOOLEAN
  /\ over90time \in 0 .. MaxDur
  /\ lastAnnUsage \in Usages \cup {-1}
  /\ annAge \in 0 .. MaxAge /\ dropAge \in 0 .. MaxAge
  /\ waitingForBusyFalse \in BOOLEAN
  /\ patch \in Annotations \cup {NoPatch} /\ applied \in BOOLEAN
  /\ kubectl \in [Kubectls -> Annotations \cup {NoPatch}]
  /\ ann \in Annotations \cup {NoPatch}
  /\ sinceBusy \in 0 .. MaxAge /\ hotFor \in 0 .. MaxDur
  /\ pc = "post" <=> patch # NoPatch

\* isCpuBusy = "false" is sent only after 5 seconds without a sample above 90%,
\* whatever failed and whenever the process was restarted.
NoEarlyRelease ==
  pc = "post" /\ patch.busy = "false" => sinceBusy >= Hysteresis

\* While the Node is marked busy and no annotation is under way, the loop still
\* knows that it has to take the mark back (the branches at main.go:352 and 361).
BusyRemembered ==
  pc # "post" /\ ann.busy = "true" => lastAnnUsage > 90 \/ waitingForBusyFalse

\* Whenever the loop waits for its next tick, the Node is marked busy if the last
\* sample was above 90%, and if it is marked although it was not, at most 5 seconds
\* have passed since the drop was annotated: no spike is held back by the limit on
\* the rate of annotations, and no mark outlives the hysteresis.
MarkCurrent ==
  pc = "wait" /\ tick = "none" =>
    /\ over90time > 0 => ann.busy = "true"
    /\ over90time = 0 /\ ann.busy = "true" =>
         waitingForBusyFalse /\ dropAge <= Hysteresis

\* From some time on, every sample is above 90%; or none is.
AlwaysHot  == <>[][tick # "none" /\ tick' = "none" => over90time' > 0]_vars
AlwaysCool == <>[][over90time' = 0]_vars

\* From some time on, nothing fails, nobody else annotates and the process lives.  (Where StayIdle is
\* possible, a tick lost to a failed read changes no more than StayIdle does.)
Settles ==
  <>[][/\ ReadError => StayIdle
       /\ ~PostError /\ ~PostTimeout /\ ~OtherPatch /\ ~Crash]_vars

\* A CPU that stays above 90% ends up marked busy, whatever an old kubectl, a
\* failure or another client before that left in the annotation.
BusyAnnounced == AlwaysHot /\ Settles => <>[](ann.busy = "true")

\* A CPU that stays at or below 90% does not stay marked busy (main.go:362).
BusyCleared == AlwaysCool /\ Settles => <>[](ann.busy # "true")

\* The duration never counts more seconds than have passed since the first
\* sample above 90%.
DurationNotOvercounted == over90time <= hotFor + 1

\* The annotated duration is the number of seconds the node has continuously
\* been above 90% (README.md of the agent), give or take one.
DurationIsSeconds ==
  [][pc = "wait" /\ pc' = "post" /\ patch'.usage > 90 => patch'.dur >= hotFor]_vars

\* Every node is annotated with its usage (README.md of the agent: "annotates the
\* Node object with the measured values").
UsageAnnounced == <>(ann # NoPatch)
=============================================================================
