------------------------ MODULE OverrunReport_proofs ------------------------
(***************************************************************************)
(* What holds of the report for all statistics files and listings.         *)
(***************************************************************************)
EXTENDS OverrunReport, OverrunAgent_proofs

\* A class that was given is the one the listing tells, and none is given before
\* the pods are listed.
ClassInv ==
  /\ listing \in Listings \cup {<<>>}
  /\ qos_class \in [Containers -> Classes \cup {"none"}]
  /\ report = "none" => \A c \in Containers : qos_class[c] = "none"
  /\ \A c \in Containers : qos_class[c] # "none" => qos_class[c] = ClassOf(c)

LEMMA ListedPlaces ==
  ASSUME NEW l \in Listings \cup {<<>>}
  PROVE  /\ DOMAIN l \subseteq Nat
         /\ \A i \in DOMAIN l : l[i].class \in Classes
<1>1. l \in Seq(Statuses)
  <2>1. <<>> \in Seq(Statuses)
    OBVIOUS
  <2>2. Listings \subseteq Seq(Statuses)
    BY ReportAssumption
  <2> QED
    BY <2>1, <2>2
<1>2. DOMAIN l = 1 .. Len(l) /\ \A i \in 1 .. Len(l) : l[i] \in Statuses
  BY <1>1
<1> QED
  BY <1>2 DEF Statuses

\* head -1 takes the first place that was found.
LEMMA MinOfNaturals ==
  ASSUME NEW S \in SUBSET Nat, S # {}
  PROVE  Min(S) \in S /\ \A i \in S : Min(S) <= i
<1>1. PICK n \in S : \A i \in S : <<i, n>> \notin OpToRel(<, Nat)
  BY NatLessThanWellFounded, WFMin
<1>2. \A i \in S : ~ (i < n)
  BY <1>1 DEF OpToRel
<1>3. \A i \in S : n <= i
  BY <1>2
<1> QED
  BY <1>3 DEF Min

\* Of a container that is listed once, jq finds that place.
LEMMA ClassOfListed ==
  ASSUME ListedOnce, listing \in Listings \cup {<<>>},
         NEW i \in DOMAIN listing, listing[i].id # Waiting,
         \A j \in DOMAIN listing : listing[j].id # Waiting
  PROVE  ClassOf(listing[i].id) = listing[i].class
<1> DEFINE c == listing[i].id
<1>1. listing \in Listings
  OBVIOUS
<1>2. listing \in Seq(Statuses) /\ DOMAIN listing = 1 .. Len(listing) /\ i \in Int
  BY <1>1, ReportAssumption
<1>3. \A j \in 1 .. i - 1 : j \in DOMAIN listing
  BY <1>2
<1>4. pod_info(c) = {i}
  BY <1>1, <1>3 DEF pod_info, ListedOnce
<1>5. Min({i}) = i
  BY <1>2 DEF Min
<1> QED
  BY <1>4, <1>5 DEF ClassOf

\* What jq finds is a class.
LEMMA ClassOfType ==
  ASSUME listing \in Listings \cup {<<>>}, NEW c \in Containers
  PROVE  ClassOf(c) \in Classes
<1>1. CASE pod_info(c) = {}
  BY <1>1 DEF ClassOf, Classes
<1>2. CASE pod_info(c) # {}
  <2>1. pod_info(c) \subseteq DOMAIN listing /\ DOMAIN listing \subseteq Nat
    BY ListedPlaces DEF pod_info
  <2>2. Min(pod_info(c)) \in pod_info(c)
    BY <1>2, <2>1, MinOfNaturals
  <2> QED
    BY <1>2, <2>1, <2>2, ListedPlaces DEF ClassOf
<1> QED
  BY <1>1, <1>2

LEMMA ClassInvInit == ReportInit => ClassInv
BY DEF ReportInit, ClassInv

LEMMA ClassInvStep ==
  ASSUME ListedOnce, ClassInv, [ReportNext]_allVars
  PROVE  ClassInv'
<1>1. CASE UNCHANGED <<report, listing, qos_class>>
  <2>1. \A c : ClassOf(c)' = ClassOf(c)
    BY <1>1 DEF ClassOf, pod_info
  <2> QED
    BY <1>1, <2>1 DEF ClassInv
<1>2. CASE FetchPods
  <2>1. /\ listing' \in Listings \cup {<<>>} /\ report' = "running"
        /\ qos_class' = qos_class /\ \A c \in Containers : qos_class[c] = "none"
    BY <1>2 DEF FetchPods, ClassInv
  <2> QED
    BY <2>1 DEF ClassInv
<1>3. ASSUME NEW c \in Containers, ReadLine(c) PROVE ClassInv'
  <2>1. /\ qos_class' = [qos_class EXCEPT ![c] = ClassOf(c)]
        /\ report' = "running" /\ listing' = listing
    BY <1>3 DEF ReadLine, Tally
  <2>2. \A d : ClassOf(d)' = ClassOf(d)
    BY <2>1 DEF ClassOf, pod_info
  <2>3. ClassOf(c) \in Classes
    BY ClassOfType DEF ClassInv
  <2>4. qos_class' \in [Containers -> Classes \cup {"none"}]
    BY <2>1, <2>3 DEF ClassInv
  <2>5. ASSUME NEW d \in Containers, qos_class'[d] # "none"
        PROVE  qos_class'[d] = ClassOf(d)
    BY <2>1, <2>5 DEF ClassInv
  <2> QED
    BY <2>1, <2>2, <2>4, <2>5 DEF ClassInv
<1>4. CASE Summarise
  <2>1. UNCHANGED <<listing, qos_class>> /\ report' = "done"
    BY <1>4 DEF Summarise
  <2>2. \A c : ClassOf(c)' = ClassOf(c)
    BY <2>1 DEF ClassOf, pod_info
  <2> QED
    BY <2>1, <2>2 DEF ClassInv
<1> QED
  BY <1>1, <1>2, <1>3, <1>4 DEF ReportNext, AnalyzeOverrun, reportVars, allVars

\* For all listings that hold no container twice, and whatever the agent saved, a
\* container that was looked up is in the class of its pod unless a listed one waits.
THEOREM ClassifiesPods ==
  ASSUME ListedOnce
  PROVE  ReportSpec => []PodClassified
<1>1. ClassInv /\ [ReportNext]_allVars => ClassInv'
  BY ClassInvStep
<1>2. ClassInv => PodClassified
  <2> SUFFICES ASSUME ClassInv, NEW i \in DOMAIN listing,
                      \A j \in DOMAIN listing : listing[j].id # Waiting,
                      listing[i].id \in Containers, qos_class[listing[i].id] # "none"
               PROVE  qos_class[listing[i].id] = listing[i].class
    BY DEF PodClassified
  <2>1. qos_class[listing[i].id] = ClassOf(listing[i].id)
    BY DEF ClassInv
  <2> QED
    BY <2>1, ClassOfListed DEF ClassInv
<1> QED
  BY <1>1, <1>2, ClassInvInit, PTL DEF ReportSpec

-----------------------------------------------------------------------------
(***************************************************************************)
(* The totals.  What was read and what is left of the file are together    *)
(* the file, in containers and in overruns, whatever class a container is  *)
(* put in.                                                                 *)
(***************************************************************************)

\* The report disturbs nothing in the agent.
LEMMA ReportStep == ASSUME [ReportNext]_allVars PROVE [Next]_vars
  BY DEF ReportNext, allVars, vars

TallyInv ==
  /\ report \in {"none", "running", "done"}
  /\ listing \in Listings \cup {<<>>}
  /\ count \in [Classes -> Int] /\ overruns \in [Classes -> Int]
  /\ report = "none" => \A k \in Classes : count[k] = 0 /\ overruns[k] = 0
  /\ report # "none" =>
       /\ saver \notin {"waiting", "saving"}
       /\ left \in SUBSET Rows
       /\ Sum(count, Classes) + Cardinality(left) = Cardinality(Rows)
       /\ Sum(overruns, Classes) + Sum(savedCount, left) = Sum(savedCount, Rows)
  /\ report = "done" => left = {}

LEMMA ClassesFinite == IsFiniteSet(Classes)
<1>1. Classes = ({"HIGH"} \cup {"MEDIUM"}) \cup ({"LOW"} \cup {"UNKNOWN"})
  BY DEF Classes
<1>2. IsFiniteSet({"HIGH"} \cup {"MEDIUM"})
  BY FS_Singleton, FS_AddElement
<1>3. IsFiniteSet(({"HIGH"} \cup {"MEDIUM"}) \cup {"LOW"})
  BY <1>2, FS_AddElement
<1>4. IsFiniteSet((({"HIGH"} \cup {"MEDIUM"}) \cup {"LOW"}) \cup {"UNKNOWN"})
  BY <1>3, FS_AddElement
<1>5. Classes = (({"HIGH"} \cup {"MEDIUM"}) \cup {"LOW"}) \cup {"UNKNOWN"}
  BY DEF Classes
<1> QED
  BY <1>4, <1>5

\* What the totals are taken of.
LEMMA TallyTypes ==
  ASSUME AgentInv, TallyInv
  PROVE  /\ IsFiniteSet(Rows)
         /\ \A c \in Containers : savedCount[c] \in Int
         /\ Sum(count, Classes) \in Int /\ Sum(overruns, Classes) \in Int
<1>1. Rows \in SUBSET Containers
  BY DEF Rows
<1>2. IsFiniteSet(Rows)
  BY <1>1, AgentAssumption, FS_Subset
<1>3. \A k \in Classes : count[k] \in Int /\ overruns[k] \in Int
  BY DEF TallyInv
<1>4. Sum(count, Classes) \in Int /\ Sum(overruns, Classes) \in Int
  BY <1>3, ClassesFinite, SumType
<1> QED
  BY <1>2, <1>4, MergedTypes

\* The rows of a file that was written whole are all its counts.
LEMMA RowsOfWhole ==
  ASSUME AgentInv, SaveInv, saver = "saved"
  PROVE  Sum(savedCount, Rows) = Total(savedCount)
<1>1. Rows \in SUBSET Containers /\ IsFiniteSet(Containers)
  BY AgentAssumption DEF Rows
<1>2. \A c \in Containers : savedCount[c] \in Int /\ savedCount[c] >= 0
  BY MergedTypes DEF SaveInv
<1>3. \A c \in Containers \ Rows : savedCount[c] = 0
  BY <1>2 DEF Rows
<1> QED
  BY <1>1, <1>2, <1>3, SumNonzero, TotalIsSum

\* When the file is opened, all of it is left.
LEMMA FetchTallies ==
  ASSUME AgentInv, TallyInv, FetchPods, UNCHANGED vars
  PROVE  TallyInv'
<1>1. /\ saver \notin {"waiting", "saving"} /\ report = "none" /\ report' = "running" /\ left' = Rows
      /\ listing' \in Listings \cup {<<>>}
      /\ qos_class' = qos_class /\ count' = count /\ overruns' = overruns
      /\ saver' = saver /\ savedCount' = savedCount
  BY DEF FetchPods, vars
<1>2. Rows' = Rows
  BY <1>1 DEF Rows
<1>3. /\ IsFiniteSet(Classes) /\ {} \in SUBSET Classes
      /\ \A k \in Classes : count[k] \in Int /\ count[k] = 0
      /\ \A k \in Classes : overruns[k] \in Int /\ overruns[k] = 0
  BY <1>1, ClassesFinite DEF TallyInv
<1>4. Sum(count, {}) = Sum(count, Classes) /\ Sum(overruns, {}) = Sum(overruns, Classes)
  BY <1>3, SumNonzero
<1>5. Sum(count, Classes) = 0 /\ Sum(overruns, Classes) = 0
  BY <1>3, <1>4, SumRecursion
<1>6. Cardinality(Rows) \in Int /\ Sum(savedCount, Rows) \in Int
  <2>1. Cardinality(Rows) \in Nat
    BY TallyTypes, FS_CardinalityType
  <2>2. \A c \in Rows : savedCount[c] \in Int
    BY TallyTypes DEF Rows
  <2> QED
    BY <2>1, <2>2, TallyTypes, SumType
<1>7. /\ 0 + Cardinality(Rows) = Cardinality(Rows)
      /\ 0 + Sum(savedCount, Rows) = Sum(savedCount, Rows)
  BY <1>6
<1> QED
  BY <1>1, <1>2, <1>5, <1>7 DEF TallyInv

\* A line that is read goes to one class with all its overruns.
LEMMA LineTallies ==
  ASSUME AgentInv, TallyInv, NEW c \in Containers, ReadLine(c), UNCHANGED vars
  PROVE  TallyInv'
<1> DEFINE k == ClassOf(c)
           rest == left \ {c}
<1>1. /\ report = "running" /\ c \in left /\ left' = rest
      /\ count' = [count EXCEPT ![k] = @ + 1]
      /\ overruns' = [overruns EXCEPT ![k] = @ + savedCount[c]]
      /\ report' = report /\ listing' = listing
      /\ saver' = saver /\ savedCount' = savedCount
  BY DEF ReadLine, Tally, vars
<1>2. k \in Classes
  BY ClassOfType DEF TallyInv
<1>3. /\ saver \notin {"waiting", "saving"} /\ left \in SUBSET Rows
      /\ Sum(count, Classes) + Cardinality(left) = Cardinality(Rows)
      /\ Sum(overruns, Classes) + Sum(savedCount, left) = Sum(savedCount, Rows)
      /\ listing \in Listings \cup {<<>>}
      /\ count \in [Classes -> Int] /\ overruns \in [Classes -> Int]
  BY <1>1 DEF TallyInv
<1>4. Rows' = Rows
  BY <1>1 DEF Rows
<1> HIDE DEF k
<1>5. IsFiniteSet(left) /\ \A d \in left : savedCount[d] \in Int
  <2>1. IsFiniteSet(left)
    BY <1>3, TallyTypes, FS_Subset
  <2> QED
    BY <1>3, <2>1, TallyTypes DEF Rows
<1>6. savedCount[c] \in Int
  BY <1>1, <1>5
<1>7. Sum(count', Classes) = Sum(count, Classes) + 1
  <2>1. \A j \in Classes : count[j] \in Int
    BY <1>3
  <2>2. \A j \in Classes : count'[j] = IF j = k THEN count[j] + 1 ELSE count[j]
    BY <1>1, <1>2, <1>3
  <2>3. 1 \in Int
    OBVIOUS
  <2> QED
    BY <1>2, <2>1, <2>2, <2>3, ClassesFinite, SumRaise
<1>8. Sum(overruns', Classes) = Sum(overruns, Classes) + savedCount[c]
  <2>1. \A j \in Classes : overruns[j] \in Int
    BY <1>3
  <2>2. \A j \in Classes :
          overruns'[j] = IF j = k THEN overruns[j] + savedCount[c] ELSE overruns[j]
    BY <1>1, <1>2, <1>3
  <2> QED
    BY <1>2, <1>6, <2>1, <2>2, ClassesFinite, SumRaise
<1>9. Cardinality(rest) = Cardinality(left) - 1 /\ Cardinality(left) \in Nat
  BY <1>1, <1>5, FS_RemoveElement, FS_CardinalityType
<1>10. Sum(savedCount, left) = savedCount[c] + Sum(savedCount, rest)
  BY <1>1, <1>5, SumRemove
<1>11. Sum(savedCount, rest) \in Int
  <2>1. IsFiniteSet(rest) /\ \A d \in rest : savedCount[d] \in Int
    BY <1>5, FS_Subset
  <2> HIDE DEF rest
  <2> QED
    BY <2>1, SumType
<1>12. rest \in SUBSET Rows
  BY <1>3
<1>13. count' \in [Classes -> Int] /\ overruns' \in [Classes -> Int]
  BY <1>1, <1>2, <1>3, <1>6
<1> HIDE DEF rest
<1>14. Sum(count', Classes) + Cardinality(rest) = Cardinality(Rows)
  BY <1>3, <1>7, <1>9, TallyTypes
<1>15. Sum(overruns', Classes) + Sum(savedCount, rest) = Sum(savedCount, Rows)
  BY <1>3, <1>6, <1>8, <1>10, <1>11, TallyTypes
<1> QED
  BY <1>1, <1>3, <1>4, <1>12, <1>13, <1>14, <1>15 DEF TallyInv

\* Once the agent has ended, its file stays as it is.
LEMMA FileStays ==
  ASSUME [Next]_vars, saver \notin {"waiting", "saving"}
  PROVE  saver' = saver /\ savedCount' = savedCount /\ savedTotal' = savedTotal
<1>1. CASE UNCHANGED vars
  BY <1>1 DEF vars
<1>2. CASE Probe
  BY <1>2 DEF Probe, agentVars
<1>3. ASSUME NEW g \in Cgroups, CreateCgroup(g) \/ RemoveCgroup(g)
      PROVE  UNCHANGED stats
  BY <1>3 DEF CreateCgroup, RemoveCgroup
<1>4. CASE EventLoop
  BY <1>4 DEF EventLoop, Read, Lookup, Count, Detected, CountTotal, PostOK, PostFail, stats
<1>5. CASE Signal \/ SaveStats
  BY <1>5 DEF Signal, SaveStats, SaveCount, Exit, ExitTruncated, FailToSave
<1> QED
  BY <1>1, <1>2, <1>3, <1>4, <1>5 DEF Next, stats

\* A step that leaves the report alone, and the file once it was read.
LEMMA TallyAlone ==
  ASSUME TallyInv, [Next]_vars, UNCHANGED reportVars
  PROVE  TallyInv'
<1>1. /\ report' = report /\ listing' = listing /\ left' = left
      /\ count' = count /\ overruns' = overruns
  BY DEF reportVars
<1>2. report # "none" => saver' = saver /\ savedCount' = savedCount
  BY FileStays DEF TallyInv
<1>3. report # "none" => Rows' = Rows
  BY <1>2 DEF Rows
<1> QED
  BY <1>1, <1>2, <1>3 DEF TallyInv

LEMMA TallyInvStep ==
  AgentInv /\ TallyInv /\ [ReportNext]_allVars => TallyInv'
<1> SUFFICES ASSUME AgentInv, TallyInv, [ReportNext]_allVars PROVE TallyInv'
  OBVIOUS
<1>1. CASE UNCHANGED allVars
  <2>1. UNCHANGED vars /\ UNCHANGED reportVars
    BY <1>1 DEF allVars, vars, reportVars
  <2> QED
    BY <2>1, TallyAlone
<1>2. CASE Next /\ UNCHANGED reportVars
  BY <1>2, TallyAlone
<1>3. CASE FetchPods /\ UNCHANGED vars
  BY <1>3, FetchTallies
<1>4. ASSUME NEW c \in Containers, ReadLine(c), UNCHANGED vars PROVE TallyInv'
  BY <1>4, LineTallies
<1>5. CASE Summarise /\ UNCHANGED vars
  <2>1. /\ report = "running" /\ left = {} /\ report' = "done"
        /\ listing' = listing /\ left' = left /\ count' = count /\ overruns' = overruns
        /\ saver' = saver /\ savedCount' = savedCount
    BY <1>5 DEF Summarise, vars
  <2>2. Rows' = Rows
    BY <2>1 DEF Rows
  <2> QED
    BY <2>1, <2>2 DEF TallyInv
<1> QED
  BY <1>1, <1>2, <1>3, <1>4, <1>5 DEF ReportNext, AnalyzeOverrun

LEMMA TallyInvInit == ReportInit => TallyInv
<1> SUFFICES ASSUME ReportInit PROVE TallyInv
  OBVIOUS
<1>1. /\ report = "none" /\ listing = <<>>
      /\ count = [k \in Classes |-> 0] /\ overruns = [k \in Classes |-> 0]
  BY DEF ReportInit
<1> QED
  BY <1>1 DEF TallyInv

\* Whatever the agent left, a file cut short included, and for all listings, those
\* that list a container twice included: the totals of the report are the containers
\* and the counts of the rows, and below the total at the top only if rows are missing.
THEOREM AddsUp == ReportSpec => []ReportAddsUp
<1>1. AgentInv /\ SaveInv /\ TallyInv => ReportAddsUp
  <2> SUFFICES ASSUME AgentInv, SaveInv, TallyInv, report = "done"
               PROVE  /\ total_containers = Cardinality(Rows)
                      /\ total_overruns = Sum(savedCount, Rows)
                      /\ total_overruns < savedTotal => saver # "saved"
    BY DEF ReportAddsUp, Sum
  <2>1. /\ left = {}
        /\ Sum(count, Classes) + Cardinality(left) = Cardinality(Rows)
        /\ Sum(overruns, Classes) + Sum(savedCount, left) = Sum(savedCount, Rows)
    BY DEF TallyInv
  <2>2. Cardinality(left) = 0 /\ Sum(savedCount, left) = 0
    BY <2>1, FS_EmptySet, ClassesFinite, SumRecursion
  <2>3. total_containers = Sum(count, Classes) /\ total_overruns = Sum(overruns, Classes)
    BY DEF total_containers, total_overruns, Sum
  <2>4. Sum(count, Classes) = Cardinality(Rows)
    BY <2>1, <2>2, TallyTypes
  <2>5. Sum(overruns, Classes) = Sum(savedCount, Rows)
    BY <2>1, <2>2, TallyTypes
  <2>6. ASSUME saver = "saved" PROVE Sum(savedCount, Rows) >= savedTotal
    <3>1. Sum(savedCount, Rows) = Total(savedCount)
      BY <2>6, RowsOfWhole
    <3> QED
      BY <2>6, <3>1, MergedTypes DEF SaveInv
  <2>7. Sum(savedCount, Rows) \in Int /\ savedTotal \in Nat
    BY <2>3, <2>5, TallyTypes, MergedTypes
  <2>8. total_overruns < savedTotal => saver # "saved"
    BY <2>3, <2>5, <2>6, <2>7
  <2> QED
    BY <2>3, <2>4, <2>5, <2>8
<1>2. AgentInv /\ SaveInv /\ [ReportNext]_allVars => AgentInv' /\ SaveInv'
  BY ReportStep, AgentInvStep, SaveInvStep
<1>3. ReportInit => AgentInv /\ SaveInv /\ TallyInv
  BY AgentInit, SaveInvInit, TallyInvInit DEF ReportInit
<1> QED
  BY <1>1, <1>2, <1>3, TallyInvStep, PTL DEF ReportSpec
=============================================================================
