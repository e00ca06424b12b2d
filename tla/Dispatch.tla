------------------------------- MODULE Dispatch -------------------------------
(***************************************************************************)
(* Task dispatch in the orchestrator (orchestrator/main.py): requests      *)
(* reserve an agent under agent_selection_lock, run one task on it over an *)
(* A2A stream, and give the slot back or hand the agent to the recovery    *)
(* worker; the health check and the recovery worker change the same        *)
(* registry.  Everything runs on one asyncio event loop, so an action is   *)
(* the code between two suspension points.                                 *)
(***************************************************************************)
EXTENDS AgentRegistry, Sequences

CONSTANTS
    MaxTries,    \* rounds of the reservation loop before TASK_EXECUTION_TIMEOUT
    MaxOutages   \* bound: how often agents leave the network

ASSUME DispatchAssumption == MaxTries \in Nat \ {0} /\ MaxOutages \in Nat

VARIABLES
    pc,          \* where each request's _send_task_to_agent_with_message stands; its
                 \* record in TaskHistory is RUNNING exactly while pc is "running"
    tries,       \* rounds of the reservation loop a waiting request has made
    agentOf,     \* the agent whose slot the request has taken: its local agent_id
                 \* and, once it has ended, a ghost until the slot is given back
    identified,  \* tasks whose A2A id is known: last_task_id of a running request and,
                 \* once it has ended on a chunk timeout, the id it left in the registry
    lockHolder,  \* the request that holds agent_selection_lock
    offered,     \* available_agent_ids the holder has put before the model
    queue,       \* cancellation_queue
    worker,      \* the recovery worker's local state
    cancels,     \* ghost: tasks with a slot whose cancellation was requested
    abandoned,   \* ghost: agents an item of which was given up after 24 hours
    probing,     \* agents the running health check is still probing
    online,      \* agents the network reaches
    outages      \* how often agents have left it

slotVars     == <<agentOf, identified>>
requestVars  == <<pc, tries, slotVars>>
lockVars     == <<lockHolder, offered>>
recoveryVars == <<worker, cancels, abandoned>>
networkVars  == <<online, outages>>
registryVars == <<cards, entry>>
vars == <<registryVars, requestVars, lockVars, queue, recoveryVars, probing, networkVars>>

\* A request returns its task, raises, or raises HTTP 408 for a stuck task.
Ended == {"returned", "raised", "timedOut"}
Phase == {"idle", "waiting", "selecting", "sleeping", "running"} \cup Ended

\* cancellation_queue holds (agent_id, timestamp).  "by" is a ghost: the task whose
\* failure queued the item, or NoTask.  The timestamp only decides on giving up.
Item == [agent : Agents \cup {NoAgent}, by : Tasks \cup {NoTask}]
NoItem == [agent |-> NoAgent, by |-> NoTask]

\* stuck is the id the worker tries to cancel in this attempt, or NoTask.
Worker == [at : {"idle", "cancelling", "fetching", "sleeping"},
           item : Item, stuck : Tasks \cup {NoTask}]
Idle == [at |-> "idle", item |-> NoItem, stuck |-> NoTask]

TypeOK ==
    /\ RegistryTypeOK
    /\ pc \in [Tasks -> Phase]
    /\ tries \in [Tasks -> 0..MaxTries]
    /\ agentOf \in [Tasks -> Agents \cup {NoAgent}]
    /\ identified \in SUBSET Tasks
    /\ lockHolder \in Tasks \cup {NoTask}
    /\ offered \in SUBSET Agents
    /\ queue \in Seq(Item)
    /\ worker \in Worker
    /\ cancels \in SUBSET Tasks
    /\ abandoned \in SUBSET Agents
    /\ probing \in SUBSET Agents
    /\ online \in SUBSET Agents
    /\ outages \in 0..MaxOutages

Init ==
    /\ RegistryInit
    /\ pc = [t \in Tasks |-> "idle"]
    /\ tries = [t \in Tasks |-> 0]
    /\ agentOf = [t \in Tasks |-> NoAgent]
    /\ identified = {}
    /\ lockHolder = NoTask
    /\ offered = {}
    /\ queue = <<>>
    /\ worker = Idle
    /\ cancels = {}
    /\ abandoned = {}
    /\ probing = {}
    /\ online = Agents
    /\ outages = 0

-----------------------------------------------------------------------------
(* Discovery registers an agent that answers its card request.             *)
Discover(a) ==
    /\ a \in online \ cards
    /\ Register(a)
    /\ UNCHANGED <<requestVars, lockVars, queue, recoveryVars, probing, networkVars>>

-----------------------------------------------------------------------------
(* Reservation: reserve_agent_waiting_if_needed and _select_agent.         *)

Goto(t, phase) == pc' = [pc EXCEPT ![t] = phase]

\* With no agent registered the request is refused (404).
Submit(t) ==
    /\ pc[t] = "idle"
    /\ Goto(t, IF cards = {} THEN "raised" ELSE "waiting")
    /\ UNCHANGED <<registryVars, tries, slotVars, lockVars, queue, recoveryVars,
                   probing, networkVars>>

\* The lock is taken; with no agent available it is released at once.
AcquireLock(t) ==
    /\ pc[t] = "waiting"
    /\ lockHolder = NoTask
    /\ tries' = [tries EXCEPT ![t] = @ + 1]
    /\ IF Available = {}
       THEN /\ Goto(t, "sleeping")
            /\ UNCHANGED lockVars
       ELSE /\ Goto(t, "selecting")
            /\ lockHolder' = t
            /\ offered' = Available
    /\ UNCHANGED <<registryVars, slotVars, queue, recoveryVars, probing, networkVars>>

ReleaseLock == lockHolder' = NoTask /\ offered' = {}

\* Seeded fault: the availability is not read again after the model call.
SelectAgentUnchecked(t, a) ==
    /\ pc[t] = "selecting"
    /\ a \in offered
    /\ Put(a, Tracking(Occupied(entry[a]), t))
    /\ Goto(t, "running")
    /\ agentOf' = [agentOf EXCEPT ![t] = a]
    /\ tries' = [tries EXCEPT ![t] = 0]
    /\ ReleaseLock
    /\ UNCHANGED <<cards, identified, queue, recoveryVars, probing, networkVars>>

\* The model names an offered agent and it still has a free slot: the slot is
\* reserved and the task starts, without a suspension in between.
SelectAgent(t, a) ==
    /\ pc[t] = "selecting"
    /\ a \in offered
    /\ a \in Available
    /\ Put(a, Tracking(Occupied(entry[a]), t))
    /\ Goto(t, "running")
    /\ agentOf' = [agentOf EXCEPT ![t] = a]
    /\ tries' = [tries EXCEPT ![t] = 0]
    /\ ReleaseLock
    /\ UNCHANGED <<cards, identified, queue, recoveryVars, probing, networkVars>>

\* Seeded fault: the lock is kept when no agent was selected.
SelectNoneLocked(t) ==
    /\ pc[t] = "selecting"
    /\ Goto(t, "sleeping")
    /\ UNCHANGED <<registryVars, tries, slotVars, lockVars, queue, recoveryVars, probing,
                   networkVars>>

\* The model names no agent, an unknown one, or one that was lost meanwhile.
SelectNone(t) ==
    /\ pc[t] = "selecting"
    /\ Goto(t, "sleeping")
    /\ ReleaseLock
    /\ UNCHANGED <<registryVars, tries, slotVars, queue, recoveryVars, probing, networkVars>>

\* The model call raises: agent_id is None, yet (None, now) is queued.
SelectError(t) ==
    /\ pc[t] = "selecting"
    /\ Goto(t, "raised")
    /\ tries' = [tries EXCEPT ![t] = 0]
    /\ queue' = Append(queue, NoItem)
    /\ ReleaseLock
    /\ UNCHANGED <<registryVars, slotVars, recoveryVars, probing, networkVars>>

\* The sleep outside the lock ends: another round, or 503 once the time is over.
Retry(t) ==
    /\ pc[t] = "sleeping"
    /\ tries[t] < MaxTries
    /\ Goto(t, "waiting")
    /\ UNCHANGED <<registryVars, tries, slotVars, lockVars, queue, recoveryVars,
                   probing, networkVars>>

WaitTimeout(t) ==
    /\ pc[t] = "sleeping"
    /\ Goto(t, "raised")
    /\ tries' = [tries EXCEPT ![t] = 0]
    /\ UNCHANGED <<registryVars, slotVars, lockVars, queue, recoveryVars, probing, networkVars>>

-----------------------------------------------------------------------------
(* The task on its agent: the loop over the response stream.               *)

\* A status update that ends nothing delivers the agent's task id.
StatusUpdate(t) ==
    /\ pc[t] = "running"
    /\ agentOf[t] \in online
    /\ identified' = identified \cup {t}
    /\ UNCHANGED <<registryVars, pc, tries, agentOf, lockVars, queue, recoveryVars,
                   probing, networkVars>>

RunningUnchanged ==
    UNCHANGED <<cards, tries, lockVars, recoveryVars, probing, networkVars>>

\* The slot is given back, then set_current_task(None) forgets the agent's tasks.
GiveBack(t) ==
    /\ pc[t] = "running"
    /\ Put(agentOf[t], NotTracking(Released(entry[agentOf[t]])))
    /\ agentOf' = [agentOf EXCEPT ![t] = NoAgent]
    /\ identified' = identified \ {t}
    /\ UNCHANGED queue
    /\ RunningUnchanged

\* The slot stays taken; of last_task_id only the id given to the registry is left.
Leave(t, id) ==
    /\ identified' = IF id = t THEN identified ELSE identified \ {t}
    /\ UNCHANGED agentOf

\* Seeded fault: the agent is marked BROKEN but not queued.
HandOverUnqueued(t, reason, id) ==
    /\ pc[t] = "running"
    /\ Put(agentOf[t], NotTracking(Broken(entry[agentOf[t]], reason, id)))
    /\ Leave(t, id)
    /\ UNCHANGED queue
    /\ RunningUnchanged

\* The agent is marked BROKEN and queued for recovery.
HandOver(t, reason, id) ==
    /\ pc[t] = "running"
    /\ Put(agentOf[t], NotTracking(Broken(entry[agentOf[t]], reason, id)))
    /\ queue' = Append(queue, [agent |-> agentOf[t], by |-> t])
    /\ Leave(t, id)
    /\ RunningUnchanged

\* COMPLETED, FAILED or REJECTED arrives.
Finish(t) ==
    /\ agentOf[t] \in online
    /\ GiveBack(t)
    /\ Goto(t, "returned")

\* The stream ends before a terminal status.
StreamEnds(t) ==
    /\ GiveBack(t)
    /\ Goto(t, "raised")

\* wait_for on the next chunk times out: the stuck task's id is recorded, if known.
ChunkTimeout(t) ==
    /\ HandOver(t, "TASK_STUCK", IF t \in identified THEN t ELSE NoTask)
    /\ Goto(t, "timedOut")

\* The time is over when the loop looks at it: no id is recorded.
OverallTimeout(t) ==
    /\ HandOver(t, "TASK_STUCK", NoTask)
    /\ Goto(t, "timedOut")

\* Anything else raised while talking to the agent.
CommError(t) ==
    /\ HandOver(t, "OFFLINE", NoTask)
    /\ Goto(t, "raised")

-----------------------------------------------------------------------------
(* The recovery worker: _retry_cancellation_task.                          *)

WorkerUnchanged == UNCHANGED <<cards, pc, tries, lockVars, probing, networkVars>>

TakeItem ==
    /\ worker.at = "idle"
    /\ queue # <<>>
    /\ queue' = Tail(queue)

\* An item older than 24 hours is dropped; its agent stays as it is.
GiveUp ==
    /\ TakeItem
    /\ abandoned' = abandoned \cup ({Head(queue).agent} \ {NoAgent})
    /\ UNCHANGED <<entry, slotVars, worker, cancels>>
    /\ WorkerUnchanged

SkipUnknown ==
    /\ TakeItem
    /\ Head(queue).agent \notin cards
    /\ UNCHANGED <<entry, slotVars, recoveryVars>>
    /\ WorkerUnchanged

\* The broken context is read once, before the calls to the agent.
Attempt ==
    /\ TakeItem
    /\ Head(queue).agent \in cards
    /\ LET e == entry[Head(queue).agent]
           cancel == e.reason = "TASK_STUCK" /\ e.stuck # NoTask
       IN  /\ worker' = [at |-> IF cancel THEN "cancelling" ELSE "fetching",
                         item |-> Head(queue),
                         stuck |-> IF cancel THEN e.stuck ELSE NoTask]
           /\ cancels' = IF cancel /\ agentOf[e.stuck] # NoAgent
                         THEN cancels \cup {e.stuck} ELSE cancels
    /\ UNCHANGED <<entry, slotVars, abandoned>>
    /\ WorkerUnchanged

\* update_status(AVAILABLE) gives back one slot: that of the item's task.
Recovered ==
    /\ worker.item.agent \in online
    /\ Put(worker.item.agent, Released(entry[worker.item.agent]))
    /\ worker' = Idle
    /\ agentOf' = [t \in Tasks |-> IF t = worker.item.by THEN NoAgent ELSE agentOf[t]]
    /\ identified' = identified \ {worker.item.by}
    /\ cancels' = cancels \ {worker.item.by}
    /\ UNCHANGED <<queue, abandoned>>
    /\ WorkerUnchanged

CancelAccepted ==
    /\ worker.at = "cancelling"
    /\ Recovered

\* Not cancelled: the card fetch decides.
CancelFailed ==
    /\ worker.at = "cancelling"
    /\ worker' = [worker EXCEPT !.at = "fetching"]
    /\ UNCHANGED <<entry, slotVars, queue, cancels, abandoned>>
    /\ WorkerUnchanged

FetchSucceeds ==
    /\ worker.at = "fetching"
    /\ Recovered

\* Only after a failed cancellation is the reason changed to OFFLINE.
FetchFails ==
    /\ worker.at = "fetching"
    /\ worker.item.agent \notin online
    /\ IF worker.stuck # NoTask
       THEN Put(worker.item.agent, Broken(entry[worker.item.agent], "OFFLINE", NoTask))
       ELSE UNCHANGED entry
    /\ worker' = [worker EXCEPT !.at = "sleeping", !.stuck = NoTask]
    /\ UNCHANGED <<slotVars, queue, cancels, abandoned>>
    /\ WorkerUnchanged

\* Seeded fault: an agent that is still away is not queued again.
RequeueForgotten ==
    /\ worker.at = "sleeping"
    /\ worker' = Idle
    /\ UNCHANGED <<entry, slotVars, queue, cancels, abandoned>>
    /\ WorkerUnchanged

\* After 60 seconds the item goes back to the end of the queue.
Requeue ==
    /\ worker.at = "sleeping"
    /\ queue' = Append(queue, worker.item)
    /\ worker' = Idle
    /\ UNCHANGED <<entry, slotVars, cancels, abandoned>>
    /\ WorkerUnchanged

-----------------------------------------------------------------------------
(* The periodic health check: _health_check_agents.                        *)

\* One cycle probes every registered agent that is AVAILABLE.
StartHealthCheck ==
    /\ probing = {}
    /\ probing' = {a \in cards : entry[a].status = "AVAILABLE"}
    /\ UNCHANGED <<registryVars, requestVars, lockVars, queue, recoveryVars, networkVars>>

ProbeAnswered(a) ==
    /\ a \in probing \cap online
    /\ probing' = probing \ {a}
    /\ UNCHANGED <<registryVars, requestVars, lockVars, queue, recoveryVars, networkVars>>

\* Seeded fault: the agent is marked on the strength of the status read before the probe.
ProbeFailedUnchecked(a) ==
    /\ a \in probing \ online
    /\ probing' = probing \ {a}
    /\ Put(a, Broken(entry[a], "OFFLINE", NoTask))
    /\ queue' = Append(queue, [agent |-> a, by |-> NoTask])
    /\ UNCHANGED <<cards, requestVars, lockVars, recoveryVars, networkVars>>

\* No answer: the status is read again before the agent is marked.
ProbeFailed(a) ==
    /\ a \in probing \ online
    /\ probing' = probing \ {a}
    /\ IF entry[a].status = "AVAILABLE"
       THEN /\ Put(a, Broken(entry[a], "OFFLINE", NoTask))
            /\ queue' = Append(queue, [agent |-> a, by |-> NoTask])
       ELSE UNCHANGED <<entry, queue>>
    /\ UNCHANGED <<cards, requestVars, lockVars, recoveryVars, networkVars>>

-----------------------------------------------------------------------------
(* The network (external).                                                 *)
GoOffline(a) ==
    /\ a \in online
    /\ outages < MaxOutages
    /\ online' = online \ {a}
    /\ outages' = outages + 1
    /\ UNCHANGED <<registryVars, requestVars, lockVars, queue, recoveryVars, probing>>

GoOnline(a) ==
    /\ a \in Agents \ online
    /\ online' = online \cup {a}
    /\ UNCHANGED <<registryVars, requestVars, lockVars, queue, recoveryVars, probing, outages>>

-----------------------------------------------------------------------------
Select(t) == SelectNone(t) \/ SelectError(t) \/ \E a \in Agents : SelectAgent(t, a)

EndRun(t) ==
    Finish(t) \/ StreamEnds(t) \/ ChunkTimeout(t) \/ OverallTimeout(t) \/ CommError(t)

Request(t) ==
    \/ Submit(t) \/ AcquireLock(t) \/ Select(t) \/ Retry(t) \/ WaitTimeout(t)
    \/ StatusUpdate(t) \/ EndRun(t)

Recovery ==
    \/ GiveUp \/ SkipUnknown \/ Attempt \/ CancelAccepted \/ CancelFailed
    \/ FetchSucceeds \/ FetchFails \/ Requeue

Environment(a) ==
    Discover(a) \/ ProbeAnswered(a) \/ ProbeFailed(a) \/ GoOffline(a) \/ GoOnline(a)

Next ==
    \/ \E t \in Tasks : Request(t)
    \/ Recovery
    \/ StartHealthCheck
    \/ \E a \in Agents : Environment(a)

Spec == Init /\ [][Next]_vars

(***************************************************************************)
(* Fairness.  The lock is FIFO and every holder releases it; the model     *)
(* call, the stream and the sleeps are all bounded by timeouts; the worker *)
(* and a started probe run until they are done.  Clients, the network,     *)
(* discovery and the start of a health check owe nothing.                  *)
(***************************************************************************)
Fairness ==
    /\ \A t \in Tasks :
        /\ SF_vars(AcquireLock(t))
        /\ WF_vars(Select(t))
        /\ WF_vars(Retry(t) \/ WaitTimeout(t))
        /\ WF_vars(EndRun(t))
    /\ WF_vars(Recovery)

FairSpec == Spec /\ Fairness

-----------------------------------------------------------------------------
Held(a)    == {t \in Tasks : agentOf[t] = a}
Running(a) == {t \in Tasks : pc[t] = "running" /\ agentOf[t] = a}

\* Items the recovery worker has still to deal with.
Pending == {queue[i] : i \in DOMAIN queue}
           \cup (IF worker.at = "idle" THEN {} ELSE {worker.item})

\* The slot counter is exactly the number of tasks that run on the agent or
\* failed on it and wait for its recovery: no path through the dispatcher,
\* the recovery worker and the health check leaks or frees a slot twice.
SlotAccounting == \A a \in Agents : entry[a].slots = Cardinality(Held(a))

\* However reservations, failures and recoveries interleave, an agent never
\* runs more tasks than it has slots (MAX_SLOTS_PER_AGENT, config.py).
NoOverbooking == \A a \in Agents : Cardinality(Running(a)) <= MaxSlots

\* The status agrees with the slots: AVAILABLE means that none is taken and BUSY
\* that some is; only a BROKEN agent may have either.  (Inductive by itself.)
Consistent(e) ==
    /\ e.slots \in 0..MaxSlots
    /\ e.status = "AVAILABLE" => e.slots = 0
    /\ e.status = "BUSY" => e.slots > 0

StatusMatchesSlots == \A a \in Agents : Consistent(entry[a])

\* A BROKEN agent is never forgotten: an item for it is pending, a task still runs
\* on it (whose end frees the slot or queues an item), or it was given up on.
BrokenIsTracked ==
    \A a \in cards : IsBroken(a) =>
        \/ \E i \in Pending : i.agent = a
        \/ Running(a) # {}
        \/ a \in abandoned

\* A pending item is about an agent that is still BROKEN, so the worker never
\* "recovers" an agent that has gone back to work meanwhile.
PendingIsBroken == \A i \in Pending : i.agent # NoAgent => IsBroken(i.agent)

\* The selection re-checks the agent after the model call: an agent that broke
\* during the call is not turned BUSY by the reservation.
BrokenNotReserved == [][\A a \in Agents : IsBroken(a) => entry'[a].status # "BUSY"]_vars

\* An agent comes out of quarantine only when no task holds one of its slots.
QuarantineUntilDrained ==
    [][\A a \in Agents : IsBroken(a) /\ ~IsBroken(a)' => Held(a)' = {}]_vars

\* Every request that waits for an agent comes to an end, with a result or an error.
RequestsEnd == \A t \in Tasks : pc[t] = "waiting" ~> pc[t] \in Ended

\* A BROKEN agent that stays on the network and is not given up on is used again.
BrokenRecovers ==
    \A a \in Agents :
        <>[](a \in online) /\ []~(a \in abandoned) => []<>~IsBroken(a)

\* The refinement: an agent is open when it is registered and not BROKEN; a task
\* works while its request runs and is stuck once the request has ended without
\* giving the slot back.
Pool == INSTANCE SlotPool WITH
            open    <- {a \in cards : ~IsBroken(a)},
            working <- [a \in Agents |-> Running(a)],
            stuck   <- [a \in Agents |-> Held(a) \ Running(a)]

\* Behind the lock, the model call, the recovery queue and the probes, the dispatcher
\* is a pool of slots: no step takes a slot of a closed or full agent, opens an agent
\* that a task still holds, or keeps one closed after its last slot is released.
ImplementsSlotPool == Pool!Spec

-----------------------------------------------------------------------------
\* README.md:87, "Attempts to cancel the stuck task using the A2A protocol before
\* marking the agent as available": the slot of a task that was reported as stuck
\* under its A2A id is given back only after a request to cancel that task.
StuckTaskCancelledFirst ==
    [][\A t \in identified : pc[t] = "timedOut" /\ agentOf'[t] = NoAgent => t \in cancels]_vars

\* models.py:318: get_current_tasks returns all tasks running on the agent.
\* set_current_task(None) forgets the others with the one that ended.
CurrentTasksComplete == \A a \in Agents : Running(a) \subseteq entry[a].tasks
=============================================================================
