------------------------------ MODULE TestCycle ------------------------------
(***************************************************************************)
(* Requests to execute a project's automated tests, one at a time          *)
(* (orchestrator/main.py: execute_tests), from the fetch to the answer.    *)
(* The tests run in one group per label, of which only the promise in      *)
(* TestGroup is used here: each of its tests has one result.  The failed   *)
(* tests' incidents are requested together; when all are answered the      *)
(* results go to the test management system (zephyr_client.py,             *)
(* xray_client.py) and to Allure, with calls that block the event loop.    *)
(***************************************************************************)
EXTENDS Naturals, FiniteSets

CONSTANTS
    TestCases,      \* the automated test cases of the project
    Labels,         \* labels other than AUTOMATED_TC_LABEL
    MAX_RETRIES     \* RetryConfig.MAX_RETRIES, the attempts of a Zephyr call

ASSUME CycleAssumption == MAX_RETRIES \in Nat \ {0}

\* A test runs once for each of its labels.
Runs == Labels \X TestCases

VARIABLES
    system,      \* TEST_MANAGEMENT_SYSTEM
    cycle,       \* where the request stands; at the end, its answer
    labels,      \* the labels of the tests fetched
    runs,        \* those of the groups that were started
    incident,    \* what has become of each run's incident
    bugs,        \* the runs for which the agent created a bug in Jira
    executions,  \* how many executions each run has in the test cycle
    noted,       \* the runs whose bug is named in their execution
    report,      \* the runs in the Allure results
    stale        \* these hold results of an earlier request too

localVars == <<labels, runs, incident, bugs, executions, noted>>
cycleVars == <<system, cycle, localVars, report, stale>>

Answers == {"no_tests", "completed", "raised"}

Locals(ls, rs, inc, bs, ex, ns) ==
    /\ ls = [x \in TestCases |-> {}] /\ rs = {} /\ bs = {} /\ ns = {}
    /\ inc = [r \in Runs |-> "none"]
    /\ ex = [r \in Runs |-> 0]

CycleInit ==
    /\ system \in {"zephyr", "xray", "meego"}
    /\ cycle = "idle"
    /\ Locals(labels, runs, incident, bugs, executions, noted)
    /\ report = {} /\ stale = FALSE

To(next) == cycle' = next

\* The next request waits for execution_lock; what the last one left in Allure stays.
NextRequest ==
    /\ cycle \in Answers
    /\ To("idle")
    /\ Locals(labels', runs', incident', bugs', executions', noted')
    /\ stale' = (stale \/ report # {}) /\ report' = {}
    /\ UNCHANGED system

-----------------------------------------------------------------------------
(* Fetching and executing.                                                 *)

\* What a fetch makes of the test cases; of a TestCase only the labels matter here.
Parsed == [TestCases -> SUBSET Labels]

\* The approved test cases with AUTOMATED_TC_LABEL, or the first page of them.
ZephyrFetch ==
    /\ system = "zephyr"
    /\ \/ labels' \in Parsed /\ To("grouping")
       \/ UNCHANGED labels /\ To("paging")

\* Test cases of any status, at most 100.
XrayFetch ==
    /\ system = "xray"
    /\ labels' \in Parsed
    /\ To("grouping")

\* Meego's fetch raises NotImplementedError, a call of the others may fail.
FetchTests ==
    /\ cycle = "idle"
    /\ \/ ZephyrFetch
       \/ XrayFetch
       \/ UNCHANGED labels /\ To("raised")
    /\ UNCHANGED <<system, runs, incident, bugs, executions, noted, report, stale>>

\* Zephyr's first page was not the last: startAt is advanced but the parameters are not,
\* and the same page is fetched again, for ever or until a call fails.
FetchPage ==
    /\ cycle = "paging"
    /\ cycle' \in {"paging", "raised"}
    /\ UNCHANGED <<system, localVars, report, stale>>

\* Test cases are grouped by their other labels; one without any is in no group.
GroupByLabels ==
    /\ cycle = "grouping"
    /\ To(IF \A x \in TestCases : labels[x] = {} THEN "no_tests" ELSE "selecting")
    /\ UNCHANGED <<system, localVars, report, stale>>

\* The labels for which a model names an agent among those that are available, told by
\* their cards: any of them.
Served == SUBSET Labels

\* A label for which no registered agent is found, or whose selection fails, is skipped.
SelectAgents ==
    /\ cycle = "selecting"
    /\ \E chosen \in Served :
        runs' = {r \in Runs : r[1] \in chosen \cap labels[r[2]]}
    /\ To("executing")
    /\ UNCHANGED <<system, labels, incident, bugs, executions, noted, report, stale>>

\* The groups have all ended; the incidents of the failed runs are requested at once.
GroupsEnd ==
    /\ cycle = "executing"
    /\ \E failed \in SUBSET runs :
        incident' = [r \in Runs |-> IF r \in failed THEN "requested" ELSE "none"]
    /\ To("incidents")
    /\ UNCHANGED <<system, labels, runs, bugs, executions, noted, report, stale>>

-----------------------------------------------------------------------------
(* Incidents, each a task of the incident agent.                           *)

Becomes(r, from, next) ==
    /\ incident[r] = from
    /\ incident' = [incident EXCEPT ![r] = next]
    /\ UNCHANGED <<system, cycle, labels, runs, executions, noted, report, stale>>

\* The candidates of the vector database and the issues linked to the test case are
\* compared with the failure: an answer of duplicates, or a new bug.
CheckDuplicates(r) ==
    /\ Becomes(r, "requested", "duplicate") \/ Becomes(r, "requested", "unique")
    /\ UNCHANGED bugs

\* The bug is created, with the artifacts that could be saved.
CreateBug(r) ==
    /\ Becomes(r, "unique", "reported")
    /\ bugs' = bugs \cup {r}

\* It is linked to the test case, which Xray's client cannot do, and answered.
BugAnswered(r) == Becomes(r, "reported", "created") /\ UNCHANGED bugs

\* An AgentExecutionError, a task that fails, an answer that cannot be read: the result
\* stays without an incident, also when the bug exists, and the others go on.
IncidentLost(r) ==
    /\ \E from \in {"requested", "unique", "reported"} : Becomes(r, from, "lost")
    /\ UNCHANGED bugs

-----------------------------------------------------------------------------
(* _generate_test_report.                                                  *)

AllAnswered == \A r \in runs : incident[r] \in {"none", "duplicate", "created", "lost"}

\* Without a result there is nothing to report.
NothingRan ==
    /\ cycle = "incidents"
    /\ runs = {}
    /\ To("completed")
    /\ UNCHANGED <<system, localVars, report, stale>>

\* Seeded fault: the first answer is enough.
CreateTestPlanEarly ==
    /\ cycle = "incidents"
    /\ runs # {}
    /\ \E r \in runs : incident[r] \in {"none", "duplicate", "created", "lost"}
    /\ cycle' \in {"uploading", "raised"}
    /\ UNCHANGED <<system, localVars, report, stale>>

CreateTestPlan ==
    /\ cycle = "incidents"
    /\ runs # {} /\ AllAnswered
    /\ cycle' \in {"uploading", "raised"}
    /\ UNCHANGED <<system, localVars, report, stale>>

Recorded == {r \in Runs : executions[r] > 0}

\* The executions name the bugs that were answered.
Record(ex) ==
    /\ executions' = ex
    /\ noted' = {r \in Runs : ex[r] > 0 /\ incident[r] = "created"}
    /\ UNCHANGED <<system, labels, runs, incident, bugs, report, stale>>

\* How often Zephyr processes a call: one that timed out may have been, and is made again.
Processed(answered) == (IF answered THEN 1 ELSE 0)..MAX_RETRIES

\* Zephyr: an execution per result, then its links.  A failed call ends the upload.
ZephyrExecution(r) ==
    /\ cycle = "uploading" /\ system = "zephyr"
    /\ r \in runs \ Recorded
    /\ \/ \E n \in Processed(TRUE) : Record([executions EXCEPT ![r] = n]) /\ UNCHANGED cycle
       \/ \E n \in Processed(FALSE) : Record([executions EXCEPT ![r] = n]) /\ To("raised")

Imported == Record([r \in Runs |-> IF r \in runs THEN 1 ELSE 0])

\* Xray: all results in one call, unless a result has artifacts: FileArtifact has neither
\* "bytes" nor "mimeType".  A call that fails may have been processed all the same.
XrayImport ==
    /\ cycle = "uploading" /\ system = "xray"
    /\ Recorded = {}
    /\ \/ Imported /\ UNCHANGED cycle
       \/ Imported /\ To("raised")
       \/ Record(executions) /\ To("raised")

\* Seeded fault: the results of the last report are not removed.
GenerateReportUncleaned ==
    /\ cycle = "uploading" /\ Recorded = runs
    /\ report' = runs /\ To("completed")
    /\ UNCHANGED <<system, localVars, stale>>

\* The directories are cleaned, the results written and the HTML generated by a command
\* that may fail.
GenerateReport ==
    /\ cycle = "uploading" /\ Recorded = runs
    /\ \/ report' = runs /\ To("completed")
       \/ report' \in SUBSET runs /\ To("raised")
    /\ stale' = FALSE
    /\ UNCHANGED <<system, localVars>>

-----------------------------------------------------------------------------
CycleNext ==
    \/ FetchTests \/ FetchPage \/ GroupByLabels \/ SelectAgents \/ GroupsEnd
    \/ \E r \in Runs : CheckDuplicates(r) \/ CreateBug(r) \/ BugAnswered(r) \/ IncidentLost(r)
    \/ NothingRan \/ CreateTestPlan \/ XrayImport \/ GenerateReport
    \/ \E r \in Runs : ZephyrExecution(r)
    \/ NextRequest

CycleSpec == CycleInit /\ [][CycleNext]_cycleVars

-----------------------------------------------------------------------------
\* "Test execution completed": the test cycle holds the runs that took place, and more
\* than one execution of a run only if Zephyr was slow; the Allure results hold them
\* all, and no result of an earlier request.
AnswerHolds ==
    cycle = "completed" /\ runs # {} =>
        /\ Recorded = runs
        /\ \A r \in runs : executions[r] > 1 => system = "zephyr"
        /\ report = runs /\ ~stale

\* No bug is created for a test that passed, and every execution in the test cycle, also
\* in one that was left incomplete, names the bug of its run, unless the incident
\* agent's answer was lost.
BugsNoted ==
    /\ \A r \in bugs : r \in runs /\ incident[r] \in {"reported", "created", "lost"}
    /\ \A r \in bugs \cap Recorded : r \in noted \/ incident[r] = "lost"
=============================================================================
