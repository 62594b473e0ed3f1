---------------------------- MODULE OverrunReport ----------------------------
(***************************************************************************)
(* The report (ebpf/analyze_overrun.sh) on what statistics file the agent  *)
(* left, which may be truncated or missing: for every container in the     *)
(* file it looks for the pod in what "kubectl get pods" listed, takes the  *)
(* class of service from the pod's app label, and adds up the overruns of  *)
(* every class.                                                            *)
(*                                                                         *)
(* The listing is the sequence of the container statuses of all pods, in   *)
(* the order in which jq goes through them.  A container that waits to be  *)
(* started has no containerID: contains() fails on it, which ends jq.      *)
(***************************************************************************)
EXTENDS OverrunAgent

CONSTANTS
  Waiting,     \* the containerID of a container that has none yet
  Listings     \* what kubectl may list: sequences of [id, class]

Classes == {"HIGH", "MEDIUM", "LOW", "UNKNOWN"}

Statuses == [id : Containers \cup {Waiting}, class : Classes]

ASSUME ReportAssumption ==
  /\ Waiting \notin Containers
  /\ Listings \subseteq Seq(Statuses)

VARIABLES
  report,      \* "none", "running" or "done"
  listing,     \* ALL_PODS_JSON
  left,        \* the containers of the file that were not read yet
  qos_class,   \* of every container that was
  count,       \* low_count, medium_count, high_count and unknown_count
  overruns     \* low_overruns and so on

reportVars == <<report, listing, left, qos_class, count, overruns>>
allVars    == <<budget, throttled, running, was_pos, ring, emitted, told,
                exists, byIno, pc, ev, overrunCount, totalCnt, received,
                saver, savedTotal, savedCount,
                report, listing, left, qos_class, count, overruns>>

ReportInit ==
  /\ Init
  /\ report = "none" /\ listing = <<>> /\ left = {}
  /\ qos_class = [c \in Containers |-> "none"]
  /\ count     = [k \in Classes |-> 0]
  /\ overruns  = [k \in Classes |-> 0]

-----------------------------------------------------------------------------

\* Mutant of pod_info: jq ends at the first status that does not match.
pod_info_first(c) == {i \in DOMAIN listing : i = 1 /\ listing[i].id = c}

\* The statuses that jq prints for c before it ends.
pod_info(c) ==
  {i \in DOMAIN listing :
     /\ listing[i].id = c
     /\ \A j \in 1 .. i - 1 : listing[j].id # Waiting}

\* The class of the first of them (head -1).
ClassOf(c) ==
  IF pod_info(c) = {} THEN "UNKNOWN" ELSE listing[Min(pod_info(c))].class

\* The containers the file lists.
Rows == {c \in Containers : savedCount[c] > 0}

\* The script is started on whatever the agent left when it ended, and looks at no
\* line but the rows; a kubectl that fails lists nothing.
FetchPods ==
  /\ saver \notin {"waiting", "saving"}
  /\ report = "none"
  /\ \E l \in Listings \cup {<<>>} : listing' = l
  /\ left' = Rows
  /\ report' = "running"
  /\ UNCHANGED <<qos_class, count, overruns>>

\* Mutant of Tally: a container without a pod is skipped.
TallyKnown(c) ==
  /\ qos_class' = [qos_class EXCEPT ![c] = ClassOf(c)]
  /\ IF pod_info(c) = {}
       THEN UNCHANGED <<count, overruns>>
       ELSE /\ count'    = [count EXCEPT ![ClassOf(c)] = @ + 1]
            /\ overruns' = [overruns EXCEPT ![ClassOf(c)] = @ + savedCount[c]]

Tally(c) ==
  /\ qos_class' = [qos_class EXCEPT ![c] = ClassOf(c)]
  /\ count'     = [count EXCEPT ![ClassOf(c)] = @ + 1]
  /\ overruns'  = [overruns EXCEPT ![ClassOf(c)] = @ + savedCount[c]]

\* The next line of the file, which lists the containers by falling counts.
ReadLine(c) ==
  /\ report = "running"
  /\ c \in left
  /\ \A d \in left : savedCount[d] <= savedCount[c]
  /\ left' = left \ {c}
  /\ Tally(c)
  /\ UNCHANGED <<report, listing>>

\* The summary is written.
Summarise ==
  /\ report = "running" /\ left = {}
  /\ report' = "done"
  /\ UNCHANGED <<listing, left, qos_class, count, overruns>>

AnalyzeOverrun == FetchPods \/ Summarise \/ \E c \in Containers : ReadLine(c)

ReportNext ==
  \/ Next /\ UNCHANGED reportVars
  \/ AnalyzeOverrun /\ UNCHANGED vars

ReportSpec == ReportInit /\ [][ReportNext]_allVars

-----------------------------------------------------------------------------
(***************************************************************************)
(* Properties.                                                             *)
(***************************************************************************)

\* total_containers and total_overruns
total_containers == MapThenSumSet(LAMBDA k : count[k], Classes)
total_overruns   == MapThenSumSet(LAMBDA k : overruns[k], Classes)

\* The report accounts for every row of the file, whatever became of the pods and
\* however the agent ended; and when its total is below the one the agent wrote at
\* the top of the file, then the file was not written whole.
ReportAddsUp ==
  report = "done" =>
    /\ total_containers = Cardinality(Rows)
    /\ total_overruns = MapThenSumSet(LAMBDA c : savedCount[c], Rows)
    /\ total_overruns < savedTotal => saver # "saved"

\* A container of the file whose pod is listed is in the class of the pod ("find
\* the pod that has the container", line 53), if no listed container waits.
PodClassified ==
  \A i \in DOMAIN listing :
    /\ \A j \in DOMAIN listing : listing[j].id # Waiting
    /\ listing[i].id \in Containers
    /\ qos_class[listing[i].id] # "none"
    => qos_class[listing[i].id] = listing[i].class

\* What PodClassified needs: kubectl lists a container once.
ListedOnce ==
  \A l \in Listings : \A i, j \in DOMAIN l :
    l[i].id = l[j].id /\ l[i].id # Waiting => i = j

\* The same without that condition.
PodAlwaysClassified ==
  \A i \in DOMAIN listing :
    listing[i].id \in Containers /\ qos_class[listing[i].id] # "none"
      => qos_class[listing[i].id] = listing[i].class
=============================================================================
