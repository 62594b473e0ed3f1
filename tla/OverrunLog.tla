------------------------------ MODULE OverrunLog ------------------------------
(***************************************************************************)
(* What a reader of the probe's ring buffer promises: the overruns go on   *)
(* to where they are wanted, the controller or the terminal, in the order  *)
(* in which they happened and each once at most.  One is only lost when    *)
(* Capacity others wait, when the reader has no use for it, or when the    *)
(* reader ends.  There are no servers, events, cgroups, polls or           *)
(* signals here.                                                           *)
(*                                                                         *)
(* OverrunAgent and OverrunMonitor implement this specification, each      *)
(* under the mapping at its end.                                           *)
(***************************************************************************)
EXTENDS Integers, FiniteSets

CONSTANT Capacity    \* overruns that can wait

VARIABLES
  open,      \* is there a reader?
  now,       \* the time of the latest overrun
  waiting,   \* the times of those the reader is not done with
  logged     \* the times of those that went on

log == <<open, now, waiting, logged>>

Init == open = TRUE /\ now = 0 /\ waiting = {} /\ logged = {}

\* An overrun comes; it only waits for nobody if there are as many as can.
Overrun ==
  /\ open
  /\ now' = now + 1
  /\ \/ waiting' = waiting \cup {now'}
     \/ Cardinality(waiting) >= Capacity /\ UNCHANGED waiting
  /\ UNCHANGED <<open, logged>>

\* The reader is done with the one that has waited longest, ...
Done(t) ==
  /\ open
  /\ t \in waiting /\ \A u \in waiting : t <= u
  /\ waiting' = waiting \ {t}
  /\ UNCHANGED <<open, now>>

\* ... which goes on to where it is wanted, ...
Tell(t) == Done(t) /\ logged' = logged \cup {t}

\* ... or does not.
Drop(t) == Done(t) /\ UNCHANGED logged

\* The reader ends, and the ring buffer with it.
Close ==
  /\ open
  /\ open' = FALSE /\ waiting' = {}
  /\ UNCHANGED <<now, logged>>

Next == Overrun \/ Close \/ \E t \in waiting : Tell(t) \/ Drop(t)

Spec == Init /\ [][Next]_log
=============================================================================
