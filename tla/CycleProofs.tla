----------------------------- MODULE CycleProofs -----------------------------
(***************************************************************************)
(* Theorems about TestCycle, for any test cases, labels and retries: what  *)
(* the answer of execute_tests says holds, and every bug is traceable.     *)
(***************************************************************************)
EXTENDS TestCycle, TLAPS

Before   == {"idle", "paging", "grouping", "selecting"}
Answered == {"none", "duplicate", "created", "lost"}

CycleTypeOK ==
    /\ system \in {"zephyr", "xray", "meego"}
    /\ cycle \in Before \cup {"executing", "incidents", "uploading"} \cup Answers
    /\ runs \in SUBSET Runs
    /\ incident \in [Runs -> Answered \cup {"requested", "unique", "reported"}]
    /\ bugs \in SUBSET Runs
    /\ executions \in [Runs -> Nat]

\* What the stages have left untouched.
InOrder ==
    /\ cycle \in Before \cup {"no_tests"} => runs = {}
    /\ cycle \in Before \cup {"executing"} => bugs = {}
    /\ cycle \notin {"uploading", "completed", "raised"} => Recorded = {}

\* Incidents are settled before the first execution is recorded, so that what an execution
\* names stays what the agent answered.
SettledFirst ==
    /\ cycle # "incidents" => \A r \in Runs : incident[r] \in Answered
    /\ \A r \in Runs : incident[r] # "none" => r \in runs
    /\ \A r \in bugs : incident[r] \in {"reported", "created", "lost"}
    /\ noted = {r \in Recorded : incident[r] = "created"}

Counted ==
    /\ Recorded \subseteq runs
    /\ \A r \in Runs : executions[r] > 1 => system = "zephyr"

CycleInv == CycleTypeOK /\ InOrder /\ SettledFirst /\ Counted /\ AnswerHolds

-----------------------------------------------------------------------------
\* A request starts from nothing.
LEMMA CycleStart ==
    ASSUME Locals(labels, runs, incident, bugs, executions, noted), cycle = "idle",
           system \in {"zephyr", "xray", "meego"}
    PROVE  CycleInv
BY DEF Locals, CycleInv, CycleTypeOK, InOrder, SettledFirst, Counted, AnswerHolds, Recorded,
       Before, Answered

\* The steps before the groups end, and those that only fail, record nothing.
LEMMA CycleEarly ==
    ASSUME CycleInv,
           \/ FetchTests \/ FetchPage \/ GroupByLabels \/ SelectAgents \/ GroupsEnd
           \/ NothingRan \/ CreateTestPlan
    PROVE  CycleInv'
<1> USE DEF CycleInv, CycleTypeOK, InOrder, SettledFirst, Counted, AnswerHolds, Recorded,
            Before, Answered, Answers, To, localVars
<1>1. CASE FetchTests
  BY <1>1 DEF FetchTests, ZephyrFetch, XrayFetch
<1>2. CASE FetchPage
  BY <1>2 DEF FetchPage
<1>3. CASE GroupByLabels
  BY <1>3 DEF GroupByLabels
<1>4. CASE SelectAgents
  BY <1>4 DEF SelectAgents
<1>5. CASE GroupsEnd
  BY <1>5 DEF GroupsEnd
<1>6. CASE NothingRan
  BY <1>6 DEF NothingRan
<1>7. CASE CreateTestPlan
  BY <1>7 DEF CreateTestPlan, AllAnswered
<1>8. QED
  BY <1>1, <1>2, <1>3, <1>4, <1>5, <1>6, <1>7

\* An incident moves on while nothing is recorded yet.
LEMMA CycleIncident ==
    ASSUME CycleInv, NEW r \in Runs,
           CheckDuplicates(r) \/ CreateBug(r) \/ BugAnswered(r) \/ IncidentLost(r)
    PROVE  CycleInv'
<1> USE DEF CycleInv, CycleTypeOK, InOrder, SettledFirst, Counted, AnswerHolds, Recorded,
            Before, Answered, Answers, Becomes
<1>1. cycle = "incidents" /\ r \in runs
  BY DEF CheckDuplicates, CreateBug, BugAnswered, IncidentLost
<1>2. CASE CheckDuplicates(r)
  BY <1>1, <1>2 DEF CheckDuplicates
<1>3. CASE CreateBug(r)
  BY <1>1, <1>3 DEF CreateBug
<1>4. CASE BugAnswered(r)
  BY <1>1, <1>4 DEF BugAnswered
<1>5. CASE IncidentLost(r)
  BY <1>1, <1>5 DEF IncidentLost
<1>6. QED
  BY <1>2, <1>3, <1>4, <1>5

\* The results are recorded, run by run or all at once, and reported when all are.
LEMMA CycleUpload ==
    ASSUME CycleInv, XrayImport \/ GenerateReport \/ \E r \in Runs : ZephyrExecution(r)
    PROVE  CycleInv'
<1> USE DEF CycleInv, CycleTypeOK, InOrder, SettledFirst, Counted, AnswerHolds, Recorded,
            Before, Answered, Answers, To
<1>1. CASE XrayImport
  BY <1>1 DEF XrayImport, Imported, Record
<1>2. CASE GenerateReport
  BY <1>2 DEF GenerateReport, localVars
<1>3. ASSUME NEW r \in Runs, ZephyrExecution(r)
      PROVE  CycleInv'
  <2>1. PICK n \in Nat : Record([executions EXCEPT ![r] = n])
    BY <1>3, CycleAssumption DEF ZephyrExecution, Processed
  <2>2. /\ cycle = "uploading" /\ cycle' \in {"uploading", "raised"}
        /\ system = "zephyr" /\ r \in runs
    BY <1>3 DEF ZephyrExecution
  <2>3. QED
    BY <2>1, <2>2 DEF Record
<1>4. QED
  BY <1>1, <1>2, <1>3

LEMMA CycleStep == CycleInv /\ [CycleNext]_cycleVars => CycleInv'
<1> SUFFICES ASSUME CycleInv, [CycleNext]_cycleVars
             PROVE  CycleInv'
  OBVIOUS
<1>1. CASE NextRequest
  <2>1. /\ Locals(labels, runs, incident, bugs, executions, noted)' /\ cycle' = "idle"
        /\ system' \in {"zephyr", "xray", "meego"}
    BY <1>1 DEF NextRequest, Locals, To, CycleInv, CycleTypeOK
  <2>2. QED
    BY <2>1 DEF Locals, CycleInv, CycleTypeOK, InOrder, SettledFirst, Counted, AnswerHolds,
                Recorded, Before, Answered
<1>2. CASE UNCHANGED cycleVars
  BY <1>2 DEF cycleVars, localVars, CycleInv, CycleTypeOK, InOrder, SettledFirst, Counted,
              AnswerHolds, Recorded
<1>3. QED
  BY <1>1, <1>2, CycleEarly, CycleIncident, CycleUpload DEF CycleNext

LEMMA CycleInvariant == CycleSpec => []CycleInv
<1>1. CycleInit => CycleInv
  BY CycleStart DEF CycleInit
<1>2. QED
  BY CycleStep, <1>1, PTL DEF CycleSpec

\* A request that answers "completed" has recorded the runs that took place, each once
\* unless Zephyr was slow, and its Allure results are those and no others.
THEOREM CompletedMeansReported == CycleSpec => []AnswerHolds
<1>1. CycleInv => AnswerHolds
  BY DEF CycleInv
<1>2. QED
  BY CycleInvariant, <1>1, PTL

\* A bug exists only for a run that failed, and the execution of that run names it unless
\* the incident agent's answer was lost.
THEOREM BugsTraceable == CycleSpec => []BugsNoted
<1>1. CycleInv => BugsNoted
  BY DEF CycleInv, CycleTypeOK, InOrder, SettledFirst, Counted, BugsNoted, Answered, Recorded
<1>2. QED
  BY CycleInvariant, <1>1, PTL
=============================================================================
