---------------------------- MODULE TestExecution ----------------------------
(***************************************************************************)
(* Parallel execution of one group of automated tests                      *)
(* (orchestrator/main.py: _execute_test_group, _agent_worker,              *)
(* _execute_single_test), composed with Dispatch: there is a worker per    *)
(* agent of the pool, but a worker sends its test through the dispatcher,  *)
(* which chooses an agent of its own.                                      *)
(***************************************************************************)
EXTENDS Dispatch, SequencesExt

CONSTANTS
    Tests,      \* the test cases of the group
    Stop        \* None, the queue item that tells a worker to stop

\* Bound: uuid4() never runs out of task ids, so there is one for each attempt of a group,
\* the first of each test and one more for each worker that fails but the last.
ASSUME TestAssumption ==
    /\ IsFiniteSet(Tests) /\ IsFiniteSet(Agents)
    /\ Stop \notin Tests
    /\ Cardinality(Tasks) + 1 >= Cardinality(Tests) + Cardinality(Agents)

VARIABLES
    group,      \* where _execute_test_group stands
    pool,       \* valid_agent_ids: the agents with a worker
    testQueue,  \* the group's asyncio.Queue
    unfinished, \* its count of items put and not yet task_done
    wpc,        \* where each agent's worker stands
    wTest,      \* the test it has taken
    wTask,      \* the dispatcher's task for it
    results     \* how many results each test has in the results list

testVars == <<group, pool, testQueue, unfinished, wpc, wTest, wTask, results>>
allVars  == <<vars, testVars>>

WorkerPhase == {"none", "checking", "getting", "executing", "exited"}

TestTypeOK ==
    /\ TypeOK
    /\ group \in {"idle", "joining", "stopping", "done"}
    /\ pool \in SUBSET Agents
    /\ testQueue \in Seq(Tests \cup {Stop})
    /\ unfinished \in Nat
    /\ wpc \in [Agents -> WorkerPhase]
    /\ wTest \in [Agents -> Tests \cup {Stop}]
    /\ wTask \in [Agents -> Tasks \cup {NoTask}]
    /\ results \in [Tests -> Nat]

TestInit ==
    /\ Init
    /\ group = "idle"
    /\ pool = {}
    /\ testQueue = <<>>
    /\ unfinished = 0
    /\ wpc = [a \in Agents |-> "none"]
    /\ wTest = [a \in Agents |-> Stop]
    /\ wTask = [a \in Agents |-> NoTask]
    /\ results = [test \in Tests |-> 0]

-----------------------------------------------------------------------------
(* The group.                                                              *)

\* The model has named the pool among the registered agents; every test is queued
\* and every agent of the pool gets its worker.
StartGroup(agents) ==
    /\ group = "idle"
    /\ agents # {} /\ agents \subseteq cards
    /\ group' = "joining"
    /\ pool' = agents
    /\ testQueue' = SetToSeq(Tests)
    /\ unfinished' = Cardinality(Tests)
    /\ wpc' = [a \in Agents |-> IF a \in agents THEN "checking" ELSE "none"]
    /\ UNCHANGED <<vars, wTest, wTask, results>>

\* Seeded faults: the group waits for an empty queue, not for its items to be done;
\* the workers are never told to stop.
JoinReturnsEarly ==
    /\ group = "joining"
    /\ testQueue = <<>>
    /\ group' = "stopping"
    /\ testQueue' = testQueue \o [i \in 1..Cardinality(pool) |-> Stop]
    /\ unfinished' = unfinished + Cardinality(pool)
    /\ UNCHANGED <<vars, pool, wpc, wTest, wTask, results>>
JoinReturnsUntold ==
    /\ group = "joining"
    /\ unfinished = 0
    /\ group' = "stopping"
    /\ UNCHANGED <<vars, pool, testQueue, unfinished, wpc, wTest, wTask, results>>

\* queue.join() returns: each worker is sent a Stop.
JoinReturns ==
    /\ group = "joining"
    /\ unfinished = 0
    /\ group' = "stopping"
    /\ testQueue' = testQueue \o [i \in 1..Cardinality(pool) |-> Stop]
    /\ unfinished' = Cardinality(pool)
    /\ UNCHANGED <<vars, pool, wpc, wTest, wTask, results>>

\* gather(*workers) returns: the group's results are complete.
GroupDone ==
    /\ group = "stopping"
    /\ \A a \in pool : wpc[a] = "exited"
    /\ group' = "done"
    /\ UNCHANGED <<vars, pool, testQueue, unfinished, wpc, wTest, wTask, results>>

-----------------------------------------------------------------------------
(* A worker.                                                               *)

\* uuid4() for the next task: an unused id.
FreshId == CHOOSE t \in Tasks : pc[t] = "idle"

\* queue.get() delivers: a Stop ends the worker, a test goes to the dispatcher.
TakeTest(a) ==
    /\ testQueue # <<>>
    /\ testQueue' = Tail(testQueue)
    /\ IF Head(testQueue) = Stop
       THEN /\ wpc' = [wpc EXCEPT ![a] = "exited"]
            /\ unfinished' = unfinished - 1
            /\ UNCHANGED <<vars, wTest, wTask>>
       ELSE /\ wpc' = [wpc EXCEPT ![a] = "executing"]
            /\ wTest' = [wTest EXCEPT ![a] = Head(testQueue)]
            /\ Submit(FreshId) /\ wTask' = [wTask EXCEPT ![a] = FreshId]
            /\ UNCHANGED unfinished
    /\ UNCHANGED <<group, pool, results>>

\* The worker of a BROKEN agent exits; that of a BUSY one looks again later.
SeeBroken(a) ==
    /\ wpc[a] = "checking"
    /\ entry[a].status = "BROKEN"
    /\ wpc' = [wpc EXCEPT ![a] = "exited"]
    /\ UNCHANGED <<vars, group, pool, testQueue, unfinished, wTest, wTask, results>>

\* With its agent AVAILABLE the worker gets an item, at once or after a wait
\* during which the status may change.
SeeAvailable(a) ==
    /\ wpc[a] = "checking"
    /\ entry[a].status = "AVAILABLE"
    /\ \/ TakeTest(a)
       \/ /\ testQueue = <<>>
          /\ wpc' = [wpc EXCEPT ![a] = "getting"]
          /\ UNCHANGED <<vars, group, pool, testQueue, unfinished, wTest, wTask, results>>

WakeUp(a) == wpc[a] = "getting" /\ TakeTest(a)

Executed(a) ==
    /\ wpc[a] = "executing"
    /\ wTest' = [wTest EXCEPT ![a] = Stop]
    /\ wTask' = [wTask EXCEPT ![a] = NoTask]

AddResult(test) == results' = [results EXCEPT ![test] = @ + 1]

\* Seeded fault: task_done() is called twice for one item.
TestDoneTwice(a) ==
    /\ Executed(a)
    /\ pc[wTask[a]] = "returned"
    /\ AddResult(wTest[a])
    /\ unfinished' = unfinished - 2
    /\ wpc' = [wpc EXCEPT ![a] = "checking"]
    /\ UNCHANGED <<vars, group, pool, testQueue>>

\* The task returned with artifacts: its extracted result, or an "error" result.
TestDone(a) ==
    /\ Executed(a)
    /\ pc[wTask[a]] = "returned"
    /\ AddResult(wTest[a])
    /\ unfinished' = unfinished - 1
    /\ wpc' = [wpc EXCEPT ![a] = "checking"]
    /\ UNCHANGED <<vars, group, pool, testQueue>>

OthersAlive(a) == \E b \in pool \ {a} : ~IsBroken(b)

\* Seeded faults: a failed test is not queued again; it is queued without task_done().
TestFailedDropped(a) ==
    /\ Executed(a)
    /\ pc[wTask[a]] \in Ended
    /\ Put(a, Broken(entry[a], "TASK_STUCK", NoTask))
    /\ queue' = Append(queue, [agent |-> a, by |-> NoTask])
    /\ unfinished' = unfinished - 1
    /\ wpc' = [wpc EXCEPT ![a] = "exited"]
    /\ UNCHANGED <<cards, requestVars, lockVars, recoveryVars, probing, networkVars,
                   group, pool, testQueue, results>>
TestFailedUndone(a) ==
    /\ Executed(a)
    /\ pc[wTask[a]] \in Ended
    /\ Put(a, Broken(entry[a], "TASK_STUCK", NoTask))
    /\ queue' = Append(queue, [agent |-> a, by |-> NoTask])
    /\ testQueue' = Append(testQueue, wTest[a])
    /\ unfinished' = unfinished + 1
    /\ wpc' = [wpc EXCEPT ![a] = "exited"]
    /\ UNCHANGED <<cards, requestVars, lockVars, recoveryVars, probing, networkVars,
                   group, pool, results>>

\* The request raised, or its task is not COMPLETED or has no artifacts: the worker
\* blames its own agent, whichever one ran the task.  The test is queued again
\* while another agent of the pool is not BROKEN, and the worker exits.
TestFailed(a) ==
    /\ Executed(a)
    /\ pc[wTask[a]] \in Ended
    /\ Put(a, Broken(entry[a], "TASK_STUCK", NoTask))
    /\ queue' = Append(queue, [agent |-> a, by |-> NoTask])
    /\ IF OthersAlive(a)
       THEN /\ testQueue' = Append(testQueue, wTest[a])
            /\ UNCHANGED <<unfinished, results>>
       ELSE /\ AddResult(wTest[a])
            /\ unfinished' = unfinished - 1
            /\ UNCHANGED testQueue
    /\ wpc' = [wpc EXCEPT ![a] = "exited"]
    /\ UNCHANGED <<cards, requestVars, lockVars, recoveryVars, probing, networkVars,
                   group, pool>>

-----------------------------------------------------------------------------
TestWorker(a) ==
    SeeBroken(a) \/ SeeAvailable(a) \/ WakeUp(a) \/ TestDone(a) \/ TestFailed(a)

TestGroup ==
    \/ \E agents \in SUBSET Agents : StartGroup(agents)
    \/ JoinReturns
    \/ GroupDone

\* Bound: other requests leave enough task ids for each test and each retry.
IdsLeft == Cardinality({t \in Tasks : pc[t] = "idle"}) >= Cardinality(Tests) + Cardinality(Agents)

OtherRequests ==
    /\ Next
    /\ (\E t \in Tasks : pc[t] = "idle" /\ pc'[t] # "idle") => IdsLeft
    /\ UNCHANGED testVars

TestNext ==
    \/ OtherRequests
    \/ TestGroup
    \/ \E a \in Agents : TestWorker(a)

TestSpec == TestInit /\ [][TestNext]_allVars

\* Beside the dispatcher's fairness: the event loop runs the group and its workers,
\* and serves the getters of the queue in turn.
TestFairSpec ==
    /\ TestSpec
    /\ Fairness
    /\ WF_allVars(JoinReturns)
    /\ WF_allVars(GroupDone)
    /\ \A a \in Agents :
        /\ WF_allVars(SeeBroken(a) \/ SeeAvailable(a))
        /\ SF_allVars(WakeUp(a))
        /\ WF_allVars(TestDone(a) \/ TestFailed(a))

-----------------------------------------------------------------------------
Executing(test) == {a \in Agents : wpc[a] = "executing" /\ wTest[a] = test}
Queued(test)    == {i \in DOMAIN testQueue : testQueue[i] = test}

\* Once the group is started every test is in exactly one place: queued once, with one
\* worker, or in the results once.  No failure and no retry loses or doubles a test.
NoTestLost ==
    group # "idle" => \A test \in Tests :
        Cardinality(Queued(test)) + Cardinality(Executing(test)) + results[test] = 1

\* What the request that started the group relies on: every test gets one result, none
\* twice, and the workers are only stopped when no test is left without.
Group == INSTANCE TestGroup WITH
    stage <- CASE group = "idle" -> "idle" [] group = "joining" -> "running" [] OTHER -> "ended",
    reported <- results

ImplementsTestGroup == Group!Spec

\* The queue's join counter is the number of items that are queued or being executed.
JoinCounter ==
    unfinished = Len(testQueue) + Cardinality({a \in Agents : wpc[a] = "executing"})

\* A group ends, or all of its workers have given up on BROKEN agents.
GroupEndsOrDies ==
    group = "joining" ~> group = "done" \/ \A a \in pool : wpc[a] = "exited"

-----------------------------------------------------------------------------
\* main.py:1084, "Wait for all items in the queue to be processed": the wait ends.
\* It does not when the last worker exits with tests left in the queue.
GroupEnds == group = "joining" ~> group = "done"
=============================================================================
