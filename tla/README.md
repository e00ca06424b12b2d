# TLA+ models of the QuAIA orchestrator

This directory holds formal models of the orchestrator of this repository, the
agents it drives, the systems it writes to and the dashboard it feeds: TLA+ modules, the TLC
configurations that check them, and TLAPS proofs. `PROJECT.json` lists
components, runs, mutants, findings, hazards, theorems and, for every
definition that models code, the lines it stands for.

## 1. Inventory

| Component | State | Operations | Interacts with |
|---|---|---|---|
| Agent registry (`orchestrator/models.py`, `AgentRegistry`) | per agent: card, status, busy slots, BROKEN reason, stuck task id, current tasks | `register`, `update_status`, `set_current_task`, reads | everything in `orchestrator/main.py` |
| Task dispatch (`main.py`, `reserve_agent_waiting_if_needed`, `_select_agent`, `_send_task_to_agent_with_message`) | `agent_selection_lock`; per request: chosen agent, time left, last A2A id and status, artifacts | wait, select with the model, re-check, reserve, read the stream, finish / time out / fail | registry, task history, hub, `cancellation_queue` |
| Recovery worker (`_retry_cancellation_task`) | `cancellation_queue`, the item in hand | cancel the stuck task, fetch the card, mark AVAILABLE, re-queue after 60 s, give up after 24 h | registry, agents |
| Health check and discovery | the probes under way | probe AVAILABLE agents, mark BROKEN, register new agents | registry, `cancellation_queue` |
| Parallel test execution (`_execute_test_group`, `_agent_worker`) | a queue of tests with its join counter, one worker per agent, the result list | take, execute through dispatch, retry, report, stop | dispatch, registry, `cancellation_queue` |
| Request to execute tests (`execute_tests`, `_generate_test_report`) | results, incidents, test cycle, Allure directories | fetch, group by label, run groups, create incidents, upload, report | test groups, incident agent, test management, Allure |
| Webhooks, pipeline queue (`_RequirementReviewGuard`, the triggers, `_pipeline_consumer`) | dedup window, rate window, job queue, semaphore | accept or drop, run up to three jobs at once | Feishu Project, pipelines |
| Pipeline jobs (`_run_pipeline`, `_run_requirement_review`) | the story's document, the generated cases and their keys | generate, write, classify, review; comment on requirements | dispatch, Meego client |
| Streaming hub and SSE endpoints (`streaming_hub.py`, `main.py`) | per subscriber: bounded buffer and activity index; stream tokens | publish, coalesce, overflow, snapshot, expire | dispatch, UI |
| Dashboard UI (`ui/src/App.tsx`, `api/sse.ts`) | live store, connection, polled data | snapshot, activity, done, reconcile, reconnect | SSE endpoints, dashboard service |
| Agent executor (`common/agent_executor.py`) | per request: log buffer, activity queue, run task; per agent: last usage and trace | run, flush, cancel, finish in order | A2A server, orchestrator |
| RAG synchronisation (`rag_sync_service.py`, `vector_db_service.py`) | watermark, vector collection | reconcile deletions, fetch changes, upsert, save | Jira, Qdrant, incident agent |
| Generation agent (`agents/test_case_generation/main.py`) | - | classify a document, chunk it, generate in batches | pipeline |
| Clients (Zephyr, Xray, Meego, Allure) | token caches | create, fetch, upload, retry | pipelines, test execution |
| Authentication, log formatting, model services, agents' prompts, scripts | none or caches | I/O and formatting | - |

Everything in the orchestrator runs on one asyncio event loop. Code between two
awaits that really suspend is atomic; the registry, the histories and the hub
hold their locks without awaiting anything else, so each call is atomic too.
What is hard is what happens between suspensions: the model call during a
selection, the agent's stream, the probe and the card fetch, the sleeps.

Hard behaviours and the properties that answer them, per component:

- *Dispatch, recovery, health check*: four parties change one slot counter and
  one status. Slots are neither leaked nor freed twice, agents are not
  overbooked, BROKEN agents are neither forgotten nor recovered while at work,
  the selection lock is always released.
- *Test execution*: workers die with their agents, failed tests are queued
  again. No test is lost or doubled; the group ends. What the request answers
  agrees with test cycle, bugs and Allure results, whatever call fails.
- *Webhook and pipelines*: windows at their boundaries, a concurrency limit, and
  a chain of writes any of which may fail. The guard drops exactly the excess;
  pipelines keep out of each other's work items; every job ends.
- *Generation agent*: sections are merged and split. No text under a
  heading is lost; what stands before the first heading is dropped by the code.
- *Hub, SSE, UI*: bounded buffers, events between snapshot and subscription,
  reconnects. Events keep their order; what is dropped is announced; the live
  store converges.
- *Agent executor*: cancellation racing the end of a run; terminal status last;
  artifacts of one task never reported for another.
- *RAG sync*: Jira changes during a sync, syncs overlap and fail half-way. The
  watermark skips no change, unless a sync is slow or overlaps another, and the
  copy catches up.

## 2. Modules

| Module | Level | Extends or implements |
|---|---|---|
| `AgentRegistry`, `Dispatch` | agents, slots, requests, recovery | implements `SlotPool` |
| `SlotPool` | abstract: open agents, tasks at work, tasks stuck | - |
| `TestExecution` | one test group over the dispatcher | extends `Dispatch`, implements `TestGroup` |
| `TestGroup` | abstract: a group reports every test once and ends | - |
| `TestCycle` | a request around such groups | uses the promise of `TestGroup` |
| `Intake`, `PrdChunking` | webhooks and queue; operators on documents | - |
| `Pipeline` | the jobs of the queue | extends `Intake` and `PrdChunking` |
| `RagSync` | the copy of the issues | - |
| `AgentExecutor` | the A2A server of an agent | - |
| `StreamingHub`, `DashboardFeed` | hub; connections and browser | the latter extends the former |
| `DispatchProofs` | theorems of `Dispatch`: types and status; slots, recovery, refinement | extends it |
| `TestProofs`, `CycleProofs` | theorems of `TestExecution` and of `TestCycle` | each extends its module; `TestProofs` also `DispatchProofs` |
| `RagProofs`, `FeedProofs` | theorems of `RagSync`; of `StreamingHub` and `DashboardFeed` | each extends its module |
| `SequenceLemmas` | induction on naturals and sequences; what `FlattenSeq` returns | - |
| `ExecutorProofs`, `PipelineProofs` | theorems of `AgentExecutor`; of `Intake` and `Pipeline` | each extends its module and `SequenceLemmas` |

The `MC` modules give model values, symmetries and documents.

`AgentRegistry` keeps one record per agent (`entry`) instead of the code's five
dictionaries, and states each method as an operator on it (`Occupied`,
`Released`, `Broken`, `Tracking`, `NotTracking`; `Put` ignores unknown agents,
as `update_status` does). `remove()` is never called and is left out.

`Dispatch` adds the actions:

| Code | Action |
|---|---|
| entry of `reserve_agent_waiting_if_needed` (404 without agents) | `Submit` |
| lock taken, `get_available_agents` | `AcquireLock` |
| `_select_agent` returned; re-check; `update_status(BUSY)` | `SelectAgent`, `SelectNone`, `SelectError` |
| the sleep, the 503 | `Retry`, `WaitTimeout` |
| loop over the stream | `StatusUpdate`, `Finish`, `StreamEnds`, `ChunkTimeout`, `OverallTimeout`, `CommError` |
| `_retry_cancellation_task` | `GiveUp`, `SkipUnknown`, `Attempt`, `CancelAccepted`, `CancelFailed`, `FetchSucceeds`, `FetchFails`, `Requeue` |
| `_health_check_agents` | `StartHealthCheck`, `ProbeAnswered`, `ProbeFailed` |
| `_process_url_discovery` | `Discover` |

Time is not modelled: whatever a timeout may interrupt, it may interrupt at any
moment. `MaxTries` bounds the rounds of the reservation loop before
`TASK_EXECUTION_TIMEOUT`; `MaxOutages` bounds how often agents leave the
network. An agent that is `online` answers; one that is not, does not. The
internal task id and the agent's A2A id of one task are identified. The ghosts
`agentOf` (after the end of a request), `cancels`, `abandoned` and the item
field `by` record history for properties; no guard reads them except where the
code has the same information.

`SlotPool` is what that amounts to without lock, model call, recovery queue and
probes: a task takes a slot of an open agent and keeps it; a failure closes the
agent; an agent opens when nothing is left on it. `Dispatch` maps an agent that
is not BROKEN to an open one, running requests to `working`, and the items that
carry a slot to `stuck`; a health check's item carries none.

`TestExecution` EXTENDS `Dispatch` with one test group: its queue with the join
counter, a worker per agent of the pool, and the results. A worker submits its
test to the dispatcher like any other request, and the dispatcher chooses an
agent of its own. Of all this `TestGroup` keeps the stage of the group and how
often each test is reported.

`TestCycle` is the request: it needs of its groups only that promise, because
`execute_tests` waits for them with `gather()` and looks at nothing but results.

| Code | Action |
|---|---|
| `fetch_test_cases_by_labels` of the three clients; Zephyr's further pages | `FetchTests` (`ZephyrFetch`, `XrayFetch`), `FetchPage` |
| `_group_test_cases_by_labels`, `_request_all_test_cases_execution`, `gather()` over the groups | `GroupByLabels`, `SelectAgents`, `GroupsEnd` |
| the incident agent: candidates, bug, link and answer; any failure of the task | `CheckDuplicates`, `CreateBug`, `BugAnswered`, `IncidentLost` |
| `_generate_test_report`: nothing to do; plan; executions of Zephyr with their retries; Xray's import; Allure | `NothingRan`, `CreateTestPlan`, `ZephyrExecution`, `XrayImport`, `GenerateReport` |
| `execution_lock` passes to the next request | `NextRequest` |

`MCTestCycle` checks both levels in one run: a behaviour is about one of them,
chosen in its initial state by `level`, and they share no variable.

`Intake` has the guard's two windows with their lazy eviction (`Remembered`,
`InWindow`, `DropReason`), the triggers (`RequirementReady`, `StoryReady`), the
queue (`Put`), its consumer (`Consume`) and the semaphore (`StartJob`,
`EndsJob`). `PrdChunking` has the generation agent's classification and chunking
as operators (`Kind`, `Merged`, `Split`, `Chunks`): size is counted in lines, a
line is named by its section and place, so what is merged, split, moved or
dropped can be told. `Pipeline` is what becomes of a job:

| Code | Action |
|---|---|
| `_run_requirement_review` | `ReviewAnswered` |
| the generation agent has a slot and reads the document | `ReadsDocument` |
| the batches are answered, `_write_test_cases_to_feishu_project` | `WritesTestCases` |
| classification and its labels, review and its comments | `WritesLabels`, `WritesComments` |
| any request of a pipeline raises, fails or cannot be parsed | `GivesUp` |

A work item is named by the job and test case it was created for, and a label
or comment by the job and test case it is about, so a label on the wrong work
item can be seen. `create_test_cases` returns the ids it got and the pairing is
by position, as `zip` has it (`Assigned`).

`RagSync` is one project's issues in Jira, their copy in Qdrant, the watermark
and any number of syncs. Every call of a sync is an action (`ListIssues`,
`Scroll`, `DeleteStale`, `ReadWatermark`, `Fetch`, `Upsert`, `DeleteInactive`,
`Save`), each may fail (`UpsertFails`; `SyncFails`, also after the last upsert
when the inactive issues are deleted), and Jira changes in between. `gather()` does not cancel the other upserts when one fails, so these
go on after the sync has answered. The ghosts `slow` (a sync saved later than
`Delay` after its fetch) and `overlapped` mark what the properties exclude.

Definitions marked *Seeded fault* are deliberate mistakes: each replaces one
definition in a mutant listed in `PROJECT.json`, which TLC must catch with the
property it is listed with. They are not part of any specification.

`AgentExecutor` is the other end of a dispatch: the A2A server of an agent calls
`execute()` for every request, on one executor and one agent object.

| Code | Action |
|---|---|
| `_execute_task` up to its first await; no message; task and WORKING sent, run scheduled | `Begin`, `Reject`, `StartRun` |
| `AgentBase.run`: first step, log lines, `report_activity`, a tool, its three ways to end, cancellation | `RunStarts`, `LogLine`, `Report`, `SaveArtifacts`, `RunSucceeds`, `RunFails`, `RunCrashes`, `RunCancelled` |
| `flush_logs_loop` (drain; sent), `flush_activity_loop` | `FlushStart`, `FlushEnd`, `ForwardActivity` |
| the inner `finally`: pop the run, stop the loops; last log chunk | `Resume`, `FinalChunk` |
| artifacts and terminal status of each outcome | `Close` |
| `cancel()` of an active run | `Cancel` |
| the orchestrator's `_handle_stream_chunk` and `_save_agent_logs_from_task` | `Read` |

Log lines are numbered, so order, repetition and loss can be seen in `events`
and in the orchestrator's `record`. The buffer needs no variable: what it holds
follows from the lines logged and its size (`Oldest`). `lost` is a ghost.

`StreamingHub` holds what the dispatcher tells the dashboard (`StartTask`,
`ReportActivity`, `Finalize`) and the global subscribers' buffers. An activity
event is one dict that all subscribers share and that coalescing rewrites in
place, so buffers hold the dict's name and `content` what it reads at present.
`DashboardFeed` adds connections (`Open` builds and sends the snapshot,
`BeginStream` subscribes, `Forward`, `Expire`, `Lose`) and the browser
(`Receive` is `handleSseEvent` with `liveReducer`, `AnswerPoll` and
`ReceivePoll` the polled list with its reconciliation).

## 3. What the runs check

| Run | Instance | Shows |
|---|---|---|
| `dispatch` | 2 agents with 2 slots, 3 tasks, 2 rounds, 1 outage | slots are neither leaked nor freed twice (`SlotAccounting`), no agent is overbooked (`NoOverbooking`), status and slots agree (`StatusMatchesSlots`), BROKEN agents are tracked (`BrokenIsTracked`), not reserved (`BrokenNotReserved`), recovered only while broken (`PendingIsBroken`) and only when drained (`QuarantineUntilDrained`); all of this implements `SlotPool` (`ImplementsSlotPool`) |
| `dispatch_live` | 2 agents, 2 tasks, 1 round, 1 outage | requests end (`RequestsEnd`), reachable BROKEN agents are used again (`BrokenRecovers`) |
| `stuck_cancel` (violated) | 1 agent with 2 slots, 2 tasks | one reason per agent: the OFFLINE failure of one task hides that another is stuck, whose slot is given back without a request to cancel it |
| `test_execution` | group: 2 agents with 1 slot, 2 tests, 3 tasks; request: 2 test cases, 2 labels, 2 attempts | no test is lost or doubled (`NoTestLost`), the join counter counts the tests that are left (`JoinCounter`), the group implements `TestGroup` (`ImplementsTestGroup`); a completed request has told test cycle and Allure of every run and of no other (`AnswerHolds`), and every bug is noted unless its answer was lost (`BugsNoted`) |
| `test_execution_live` | 2 agents, 1 test, 2 tasks | a group ends, or all its workers are dead |
| `test_overbooking` (violated) | 1 agent with 1 slot, 1 test, 3 tasks | a worker that marks its agent BROKEN a second time lets the recovery free the slot of a running task |
| `test_join` (violated) | 1 agent, 2 tests, 2 tasks | the last worker exits with its agent and `queue.join()` waits for ever |
| `agent_executor` | 1 request, 3 lines, 2 activities, a buffer of 2 | log chunks are framed, in order and accounted for; the terminal status is last and is reached; the orchestrator's record is what was sent |
| `executor_shared` (violated) | 2 requests | a run saves the files of the request that started after it |
| `dashboard_feed` | 1 browser with 2 connections, 2 tasks with 2 activities; and 2 browsers with 1 connection each, 1 task with 3 activities; a buffer of 2, 1 event on the wire | index and buffer agree (`IndexMatchesBuffer`), what subscribers share is the newest (`BufferedIsNewest`), streams and entries never go back (`StreamOrdered`, `LiveNeverOlder`), a browser that was not warned is in step (`InStep`) |
| `pipeline` | 2 work items, 3 jobs of which 2 stories, 2 at once, windows of 1 tick, 2 reviews a minute, batches and pipelines of 2 cases, 1 agent slot | the guard drops exactly the excess (`GuardPrecise`), chunking keeps the text (`TextKept`), pipelines keep to their own work items (`OwnWorkItems`), labels and comments are paired right up to the first skipped case and wrong after it (`PairedUpToFirstSkip`), every accepted job ends (`JobsEnd`) |
| `rag_sync` | 2 issues, 2 syncs, 2 changes, 4 ticks of half a minute, delay 1 | no change is missed (`NothingMissed`), a completed sync leaves the copy and what the incident agent is offered in step (`CatchesUp`) |

*Bounds.* Two agents are needed for a task to go elsewhere than its worker's
agent and for one to break while another works; three tasks for two on one
agent and one that takes the slot wrongly freed. With two slots the counter has
a value between empty and full. One outage breaks an agent at any moment, and
it may come back. Two rounds of the reservation loop let a request sleep, come
back and time out. A third log line overflows a buffer of two between two
drains while another batch is on its way. A buffer of two events overflows with
the two activities and the end of two tasks, and dropping the oldest may drop an
activity, an end or a gap. The run
of the dashboard has a state constraint (`Scope`), because everything at once is
too large: either one browser with two connections, the polls and two tasks, or
two browsers with a connection each and one task. The second is what subscribers
share: both hold a dict, one has taken it, or one came after it was made; a third
activity is rewritten into two dicts at once, or into one while the other is on
its way. Requests of one executor share two attributes only
(log handler and activity queue are bound to the request's context), so one
request suffices for everything but these, which `executor_shared` covers.

With a dedup window, a minute and two reviews a minute, three jobs reach the
rate cap, the dedup window and their boundaries, and two ticks pass both; a
third job waits behind two permits, and a second pipeline behind the one agent
slot. Documents have no section (what a model extracts is free) or two, each
empty, one line or two titled pieces, with the limits at two lines: that is
short, at the limit and long, merged and split, in every combination. Two cases
are the least with one after a skipped one. Two changes are a
creation and an update or deletion, of one issue or two, at any point of two
syncs; a delay of one tick and a minute of two make a fetch and its save fall
before, on and after each boundary. Two labels of two tests are two groups that
share a test; two attempts are one retry. Limits that the code does not have
are constants marked *bound* where they are declared.

*Fairness.* The selection lock is an `asyncio.Lock`, which is FIFO: strong
fairness of `AcquireLock`. The model call, the stream and the sleeps end by a
timeout: weak fairness of a request's next step, which may be any of the ways
it ends. The recovery worker is an endless loop over calls with timeouts: weak
fairness of `Recovery`. The workers of a test group and the steps of
`execute()` are coroutines whose awaits end: weak fairness of each. The pipeline
consumer and the waiters of its semaphore (FIFO, so the head is served) run when
they can, and every call a job makes ends by itself or by its timeout: weak
fairness of `Consume`, `StartJob` and of the jobs' steps together; that one job
cannot starve another follows from the bound on their steps. Nothing is
asked of clients, of discovery, of the network, of flush loops and of
cancellation.

*Deadlock* is checked in the dispatch and test runs that can go on for ever and
switched off where the modelled system stops by design (a request has ended, all
jobs have, the bounds on activities, connections, ticks and changes are used up).

## 4. Findings

1. `stuck_cancel`: the registry keeps one reason per agent. A task is reported as
   TASK_STUCK with its A2A id, another task of the agent then fails with a
   communication error, and its OFFLINE replaces the reason (`main.py:1846`,
   `models.py:290`): the recovery worker fetches the card and gives back the stuck
   task's slot (`main.py:449`) without the cancellation `README.md:87` speaks of.
   The property is about tasks whose id was given to the registry. A task stopped
   by the overall timeout is not among them, because `main.py:1828` gives no id
   even when one is known: there is nothing to cancel it by.
2. `test_overbooking`: `_agent_worker` marks its agent BROKEN and queues it
   although the dispatcher has settled the failed task's slot.
3. `test_join`: workers of BROKEN agents exit with tests in the queue.
4. `executor_shared`: incidents are created in parallel, and the incident agent
   saves the attachments of whichever request arrived last.

Seen while modelling, without a run: `set_current_task(None)` forgets the other
tasks of the agent (`CurrentTasksComplete`); events between snapshot and
subscription are lost (`InStep` without its ghost `missed`); a snapshot that
arrives after the poll that reported a task's end puts its entry back into the
live store, unseen because only running tasks show their entries. Further:

- `main.py:1370-1374` pairs test cases with the created ids by position, while
  Meego's `create_test_cases` leaves out a case that got no id: labels and
  comments of the cases after it go to the wrong work items
  (`PairedUpToFirstSkip` says exactly which).
- `zephyr_client.py:242` advances `start_at` but not the parameters built from
  it: a project with a second page of test cases is never fetched, and the loop
  is synchronous (`FetchPage`).
- `zephyr_client.py:51` repeats a POST that timed out: executions may be doubled
  (`AnswerHolds` allows it for Zephyr only).
- Xray's import reads `bytes` and `mimeType` of a `FileArtifact`, which has
  neither: results with artifacts are not uploaded (`XrayImport`, where a call
  that fails may have been processed or not).
- `rag_sync_service.py:26-27` promises that issues updated during a sync are
  fetched by the next. The watermark is the time of the save less a fixed delay
  (`:111`), so what changes after the fetch of a sync that takes longer than the
  delay to save is not fetched by the next one (the ghost `slow`).
- Syncs that overlap, or the upserts a failed sync has left running, may miss a
  change or write an old version over a new one: the ghost `overlapped` excludes
  both from `NothingMissed` and `CatchesUp`.
- A test case with two labels runs twice and is reported twice (`Runs`).
- A review that failed stays a duplicate until its window is over.
- A pipeline that fails between two writes leaves the first in place, and a new
  event for the story writes the cases again.

## 5. What is proved

Every theorem is about the specification without fairness and holds for all
values of the constants that satisfy the named assumptions of the modules. The
runs check the same formulas on small instances. An inductive invariant is
stated in the proof module beside the theorems that need it; TLC has checked
each on the instance of the run before it was proved.

**Dispatch** (`DispatchProofs`; `RegistryAssumption`,
`DispatchAssumption`: at least one slot and one round, `NoAgent` no agent,
`NoTask` no task, finitely many tasks)

| Theorem | Property |
|---|---|
| `TypeCorrect` | `TypeOK` |
| `StatusCorrect` | `StatusMatchesSlots` |
| `SlotsExact` | `SlotAccounting`: an agent's counter is the number of tasks that hold a slot of it |
| `NeverOverbooked` | `NoOverbooking` |
| `RecoveryOfBroken` | `PendingIsBroken` |
| `BrokenNotForgotten` | `BrokenIsTracked` |
| `BrokenStaysUnreserved`, `QuarantineHolds` | `BrokenNotReserved`, `QuarantineUntilDrained` (action properties) |
| `DispatchImplementsPool` | `ImplementsSlotPool` |

`TypeOK` is not inductive: taking the lock counts a round, and only a request
that has rounds left may wait for it (`TypeInv`). `SlotAccounting` is not
either, since settling an item gives a slot back: `SlotInv` says in addition
that a slot is held on a registered agent by a request that runs or has failed
(`HoldersKnown`), that a queued item is about a BROKEN agent and stands for the
slot of the task that queued it (`ItemsSettle`), and that no two items stand for
the same task (`NoItemTwice`). Without the last, two items could free one slot
twice, which is what the finding `test_overbooking` does from outside of
`Dispatch`. `Tracked` ties each BROKEN agent to the item or to the task by which
it is found again, and is inductive with `SlotInv`. The two action properties
then follow step by step. For the refinement each action has a lemma that names
the step of `SlotPool` it is, or that it is a stutter; the lemmas need `SlotInv`
because the pool counts holders and the code counts slots.

**Test execution** (`TestProofs`; also `TestAssumption`): `TestTypeCorrect`
(`TestTypeOK`), `TestsKept` (`NoTestLost`), `JoinCounterExact` (`JoinCounter`),
`GroupImplementsTestGroup` (`ImplementsTestGroup`). `NoTestLost` counts; the
invariant `GroupInv` says instead where each test is: nowhere twice
(`OnePlace`), tests only before the join and Stops only after it (`InStage`).
The type of `wTask` needs an argument of its own: a task id that is not used is
left for each attempt (`IdsSuffice`), because a worker that fails uses one up
and exits, so a group needs at most one id per test and per worker. That is why
`TestAssumption` asks for so many task ids; `uuid4()` has them.

**Request to execute tests** (`CycleProofs`): `CompletedMeansReported`
(`AnswerHolds`), `BugsTraceable` (`BugsNoted`), from `CycleInv`: what a stage has
not reached is untouched (`InOrder`), no report is written before every incident
is settled (`SettledFirst`), and executions are counted as told (`Counted`).

**RAG synchronisation** (`RagProofs`; `RagAssumption`): `RagTypeCorrect`
(`RagTypeOK`), `NoChangeIsMissed` (`NothingMissed`), `SyncsCatchUp` (`CatchesUp`,
an action property). `RagInv` is the type of what syncs hold with the order of
the times they have read, and, as long as no sync was slow and none overlapped,
`InSequence`: what a sync in hand has not yet listed, deleted, fetched or
written accounts for every difference between Jira and the copy. That the delay
covers a sync's length and a query's precision of a minute is the arithmetic in
it.

**Hub and dashboard** (`FeedProofs`): `FeedTypeCorrect` (`FeedTypeOK`),
`IndexNamesBuffered` (`IndexMatchesBuffer`), `BuffersSayNewest`
(`BufferedIsNewest`), `StreamInOrder` (`StreamOrdered`), `SilentFeedIsInStep`
(`InStep`), `LiveMovesForward` (`LiveNeverOlder`, an action property), for any
number of browsers, connections and tasks and any capacity. `FeedInv` has per
subscriber and task: the index names the one activity of the task in the buffer,
this reads as the newest report, and nothing of a task follows its end
(`Buffering`); from browser over wire to buffer the events of a task are in
order, and the last of them, or the mark of a gap, tells the orchestrator's
state (`Delivering`); a connection that expired says so last (`Expiring`); and a
dict nobody published is as it was made (`Unwritten`). Most of the proof is
one lemma for each of the few things that happen to a buffer: append, rewrite in
place, drop the oldest, take.

**Agent executor** (`ExecutorProofs`; `ExecutorAssumption`): `ExecutorTyped`
(`ExecTypeOK`), `ExecutorFramesLogs` (`LogsFramed`), `ExecutorKeepsOrder`
(`LinesInOrder`), `ExecutorAccounts` (`LinesAccounted`), `ExecutorEndsOnce`
(`TerminalStatusLast`), `ExecutorRecordComplete` (`RecordComplete`), for any
number of requests, lines and activities and any buffer size. None of the
properties is inductive; `ExecInv` has per request what holds in between: when
there may be a batch on its way and what the last drain leaves (`Staged`); a
terminal status only when the request is done (`Closed`); `sent_any_logs` says
exactly whether the artifact is open (`Framed`); what is sent comes before the
batch on its way and this before the drain cursor (`Ordered`); every line up to
the cursor is sent, on its way or lost (`Accounted`); and the record is what was
read, before and after the collected artifact replaces it (`Kept`).
`ExecTypeOK` needs one fact of its own: a run that saves files has received a
message.

The lines of a stream are a flattened sequence, `FlattenSeq`, whose definition
is a recursive function. The library's induction theorems cannot be used (they
take an operator), so `SequenceLemmas` states induction on the natural numbers
as a fact about sets (`Induct`): a set of naturals with 0 and the successor of
each of its members is all of them. It follows from the library's theorem that
the proper subsets of finite sets are well-founded, applied to the intervals
`1..n`. From it come the lemmas that the recursion defines a function
(`JoinsExist`), depends on what it has joined so far only (`JoinsPrefix`), and
that a sequence appended at the end is joined at the end (`FlattenAppend`).
`LogsFramed` was restated by the positions of the log chunks, instead of by a
selected subsequence; it says the same.

**Webhooks and pipelines** (`PipelineProofs`; `IntakeAssumption`,
`PipelineAssumption`): `PipelineTyped` (`PipelineTypeOK`), `GuardDropsExcess`
(`GuardPrecise`), `PipelinesKeepApart` (`OwnWorkItems`), `PairedByPosition`
(`PairedUpToFirstSkip`), `ChunkingKeepsText` (`TextKept`), for any documents, work
items, windows and thresholds and any numbers of jobs, cases and permits. `IntakeInv` says where jobs are: in the queue or at the
semaphore once, as their phase says (`Placed`); the queue's counter and the
permits count the jobs not done and the jobs that run (`Counted`), which is what
keeps `task_done` above 0 and a permit from being given back twice; and the
guard, which prunes both windows and keeps one time per work item, remembers
every accepted event as long as it matters (`Windows`). `GuardPrecise` follows,
since what it forgets is outside of both windows. `PairInv` says what a pipeline
has in hand: the document while batches are answered (`Reading`); once it has
work items it creates no more (`Made`); its keys are its own work items, the one
of the case exactly if no case up to it was skipped (`Keyed`), and so are the
labels and comments made with them (`Noted`). The keys are the ids in the order
of creation, so `NthPairs` is needed: the c-th member of a set of positions
exists, and is c exactly if the set has all of `1..c`. It is proved by the
induction of `SequenceLemmas`.

`TextKept` is about a pure function and needs no more of the state than that a
document read is one. Documents, sections and chunks are sequences of which each
member contributes its text: `MapJoin` maps and joins, and respects appending,
concatenation and flattening (`MapJoinAppend`, `MapJoinConcat`,
`MapJoinFlatten`). With that, a merged section adds its text at the end, because
the heading that is put between is no text (`MergedIntoText`, `MergedText`); the
preamble of a split section and its pieces up to a line have the text up to the
next title, which is itself no text (`PiecesText`, `SplitText`); and an empty
piece has none (`KeptText`). `PrdChunking` was restated for this, with the same
results: `Merged` is a recursive function instead of a fold over an operator,
the pieces are found from title to title instead of by a sorted sequence, and
lines and pieces are selected by joining instead of by `SelectSeq`.

Two definitions were corrected because they could not be proved about:
`Buffered`, `BufferedBeyond` and `IndexAfter` of `StreamingHub` were a CASE with
overlapping guards, which leaves open what it is when two hold, and are now
decided in the order of the code's conditions. `Delay` is bounded by `MaxTime`,
since a longer one makes every sync fetch everything. `Intake` and `Pipeline` used
the operators `:>` and `@@` of module `TLC`, which the provers do not know; they
are function constructors now, with the same values.

*Model-checked only:*

- the liveness properties (`RequestsEnd`, `BrokenRecovers`, the end of groups,
  jobs and executions) and whatever depends on fairness or `ENABLED`: the prover
  handles neither.

## 6. Plan

The modules of section 2 are done, and every safety property that a passing run
checks is proved.

Modules that would still add something: `ModelWrapper` (the retry loops of
`AgentBase` and the model wrapper, outcomes by class of error), `Discovery`
(two URLs of one agent, the second look-up by card URL) and `TaskHistory` (the
ring buffer with its index; updates of an evicted task).

## 7. Not modelled, and why

Prompts and tools of the agents, the model calls, the machine-learning services
and guards (stateless or external; an answer may be anything); authentication
(stateless); log formatting and the format of reports and attachments (pure
I/O); the dashboard's aggregations (read-only); launch scripts.

Within modelled parts:

- Discovery: the port scan and the two URLs of one agent. Dispatch: remaining
  time and back-off lengths, and an exception in the recovery loop itself
  (`main.py:500`), which no card the code fetches can raise.
- Test execution: one label group; the level of the dispatcher and the level of
  the request are checked separately, and `TestGroup` is what connects them.
- Webhooks: how long a job waits for an agent. Pipelines: the story comment of
  a requirement review, which the agent writes itself; a key a model makes up is
  taken to name no work item, since unknown keys are skipped.
- RAG: Jira states times in UTC; a collection that does not exist yet is empty;
  Jira and the orchestrator share one clock.
- Clients: request formats, token caches, and the operations nothing calls
  (status changes, test cases created in Zephyr or Xray).
- Hub, dashboard and executor: per-agent streams, the stream token store, the
  token cache and retry delays of the browser, failing sends of an executor, and
  the CANCELED status `cancel()` emits on its own queue when no run is active.
