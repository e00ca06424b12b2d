---------------------------- MODULE DispatchProofs ----------------------------
(***************************************************************************)
(* Theorems about Dispatch, for any sets of agents and tasks, any number   *)
(* of slots and any bounds: the types, the agreement of an agent's status  *)
(* with its slots, exact slot counters, that an agent under recovery is    *)
(* BROKEN and not forgotten, and that the dispatcher implements SlotPool.  *)
(***************************************************************************)
EXTENDS Dispatch, FiniteSetTheorems, TLAPS

\* The round counter stays within its bound because a request waits for the lock
\* only while rounds are left.
TriesBounded ==
    \A t \in Tasks :
        /\ pc[t] = "idle" => tries[t] = 0
        /\ pc[t] = "waiting" => tries[t] < MaxTries

TypeInv == TypeOK /\ TriesBounded

-----------------------------------------------------------------------------
(* What the registry's operators return.                                   *)

\* Each operator on entries returns an entry: the registry stays well-formed
\* whichever of its methods is called.
LEMMA EntryOps ==
    ASSUME NEW e \in Entry
    PROVE  /\ Fresh \in Entry
           /\ Occupied(e) \in Entry
           /\ Released(e) \in Entry
           /\ NotTracking(e) \in Entry
<1>1. Fresh \in Entry
  BY DEF Entry, Fresh, Status, Reason
<1>2. Occupied(e) \in Entry
  <2>1. e.slots + 1 \in Nat
    BY DEF Entry
  <2>2. QED
    BY <2>1 DEF Entry, Occupied, Status
<1>3. Released(e) \in Entry
  <2>1. CASE e.slots <= 1
    BY <1>1, <2>1 DEF Released
  <2>2. CASE ~(e.slots <= 1)
    <3>1. e.slots \in Nat /\ e.slots - 1 \in Nat
      BY <2>2 DEF Entry
    <3>2. [e EXCEPT !.slots = e.slots - 1] \in Entry
      BY <3>1 DEF Entry
    <3>3. QED
      BY <2>2, <3>2 DEF Released
  <2>3. QED
    BY <2>1, <2>2
<1>4. NotTracking(e) \in Entry
  BY DEF Entry, NotTracking
<1>5. QED
  BY <1>1, <1>2, <1>3, <1>4

\* Naming the task an agent works on, or none, keeps its entry an entry.
LEMMA TrackingType ==
    ASSUME NEW e \in Entry, NEW t \in Tasks
    PROVE  Tracking(e, t) \in Entry
BY DEF Entry, Tracking

\* Marking an agent BROKEN for any reason and task keeps its entry an entry.
LEMMA BrokenType ==
    ASSUME NEW e \in Entry, NEW r \in Reason, NEW id \in Tasks \cup {NoTask}
    PROVE  Broken(e, r, id) \in Entry
BY DEF Entry, Broken, Status

\* An update with an entry keeps the registry well-formed, and changes no agent
\* but the one it names.
LEMMA PutType ==
    ASSUME RegistryTypeOK, NEW a, NEW e, a \in cards => e \in Entry,
           Put(a, e)
    PROVE  entry' \in [Agents -> Entry]
BY DEF RegistryTypeOK, Put

\* The recovery queue stays a sequence of items when one is put or taken.
LEMMA QueueOps ==
    ASSUME NEW q \in Seq(Item), NEW i \in Item
    PROVE  /\ Append(q, i) \in Seq(Item)
           /\ q # <<>> => Head(q) \in Item /\ Tail(q) \in Seq(Item)
OBVIOUS

-----------------------------------------------------------------------------
(* Type correctness.                                                       *)

\* The registry starts empty, and nothing runs: the initial state is well-typed.
LEMMA TypeInit == Init => TypeInv
BY DispatchAssumption
DEF Init, RegistryInit, TypeInv, TypeOK, TriesBounded, RegistryTypeOK, Idle, Worker,
    NoItem, Item, Phase, Entry, Fresh, Status, Reason

\* The steps of a request that leave the registry alone.
LEMMA TypeWaiting ==
    ASSUME TypeInv, NEW t \in Tasks,
           \/ Submit(t) \/ AcquireLock(t) \/ SelectNone(t) \/ SelectError(t)
           \/ Retry(t) \/ WaitTimeout(t) \/ StatusUpdate(t)
    PROVE  TypeInv'
<1> USE DispatchAssumption
    DEF TypeInv, TypeOK, TriesBounded, RegistryTypeOK, Goto, Phase, Ended,
        registryVars, slotVars, lockVars, recoveryVars, networkVars
<1>1. CASE Submit(t)
  BY <1>1 DEF Submit
<1>2. CASE AcquireLock(t)
  <2>1. tries[t] + 1 \in 0..MaxTries
    BY <1>2 DEF AcquireLock
  <2>2. PICK n \in 0..MaxTries : n = tries[t] + 1
    BY <2>1
  <2>3. tries' = [tries EXCEPT ![t] = n]
    BY <1>2, <2>2 DEF AcquireLock
  <2>4. PICK next \in {"sleeping", "selecting"} : pc' = [pc EXCEPT ![t] = next]
    BY <1>2 DEF AcquireLock
  <2>5. tries' \in [Tasks -> 0..MaxTries]
    BY <2>3
  <2>6. pc' \in [Tasks -> Phase]
    BY <2>4
  <2>7. \A u \in Tasks : pc'[u] \in {"idle", "waiting"} =>
                            u # t /\ pc'[u] = pc[u] /\ tries'[u] = tries[u]
    BY <2>3, <2>4
  <2>8. TriesBounded'
    BY <2>7
  <2>9. /\ lockHolder' \in Tasks \cup {NoTask}
        /\ offered' \in SUBSET Agents
    BY <1>2 DEF AcquireLock, Available
  <2>10. QED
    BY <1>2, <2>5, <2>6, <2>8, <2>9 DEF AcquireLock
<1>3. CASE SelectNone(t)
  BY <1>3 DEF SelectNone, ReleaseLock
<1>4. CASE SelectError(t)
  <2>1. Append(queue, NoItem) \in Seq(Item)
    BY QueueOps DEF NoItem, Item
  <2>2. QED
    BY <1>4, <2>1 DEF SelectError, ReleaseLock
<1>5. CASE Retry(t)
  BY <1>5 DEF Retry
<1>6. CASE WaitTimeout(t)
  BY <1>6 DEF WaitTimeout
<1>7. CASE StatusUpdate(t)
  BY <1>7 DEF StatusUpdate
<1>8. QED
  BY <1>1, <1>2, <1>3, <1>4, <1>5, <1>6, <1>7

\* The steps of a request that change its agent's entry.
LEMMA TypeRunning ==
    ASSUME TypeInv, NEW t \in Tasks,
           (\E a \in Agents : SelectAgent(t, a)) \/ EndRun(t)
    PROVE  TypeInv'
<1> USE DEF TypeInv, TypeOK, TriesBounded, RegistryTypeOK, Goto, Phase, Ended,
        slotVars, lockVars, recoveryVars, networkVars
<1>1. ASSUME NEW a \in Agents, SelectAgent(t, a)
      PROVE  TypeInv'
  <2>1. Tracking(Occupied(entry[a]), t) \in Entry
    BY EntryOps, TrackingType
  <2>2. entry' \in [Agents -> Entry]
    BY <1>1, <2>1, PutType DEF SelectAgent
  <2>3. QED
    BY <1>1, <2>2, DispatchAssumption DEF SelectAgent, ReleaseLock
<1>2. ASSUME GiveBack(t), Goto(t, "returned") \/ Goto(t, "raised")
      PROVE  TypeInv'
  <2>1. agentOf[t] \in cards => NotTracking(Released(entry[agentOf[t]])) \in Entry
    BY EntryOps
  <2>2. entry' \in [Agents -> Entry]
    BY <1>2, <2>1, PutType DEF GiveBack
  <2>3. QED
    BY <1>2, <2>2 DEF GiveBack, RunningUnchanged
<1>3. ASSUME NEW r \in Reason, NEW id \in Tasks \cup {NoTask},
             HandOver(t, r, id), Goto(t, "timedOut") \/ Goto(t, "raised")
      PROVE  TypeInv'
  <2>1. agentOf[t] \in cards => NotTracking(Broken(entry[agentOf[t]], r, id)) \in Entry
    BY EntryOps, BrokenType
  <2>2. entry' \in [Agents -> Entry]
    BY <1>3, <2>1, PutType DEF HandOver
  <2>3. queue' \in Seq(Item)
    BY <1>3, QueueOps DEF HandOver, Item
  <2>4. QED
    BY <1>3, <2>2, <2>3 DEF HandOver, Leave, RunningUnchanged
<1>4. QED
  BY <1>1, <1>2, <1>3
  DEF EndRun, Finish, StreamEnds, ChunkTimeout, OverallTimeout, CommError, Reason

\* The steps of the recovery worker.
LEMMA TypeRecovery ==
    ASSUME TypeInv, Recovery
    PROVE  TypeInv'
<1> USE DEF TypeInv, TypeOK, TriesBounded, RegistryTypeOK, WorkerUnchanged, TakeItem,
        slotVars, lockVars, recoveryVars, networkVars
<1>1. CASE GiveUp
  <2>1. Head(queue) \in Item /\ Tail(queue) \in Seq(Item)
    BY <1>1, QueueOps DEF GiveUp
  <2>2. Head(queue).agent \in Agents \cup {NoAgent}
    BY <2>1 DEF Item
  <2>3. QED
    BY <1>1, <2>1, <2>2 DEF GiveUp
<1>2. CASE SkipUnknown
  BY <1>2, QueueOps DEF SkipUnknown
<1>3. CASE Attempt
  <2>1. Head(queue) \in Item /\ Tail(queue) \in Seq(Item)
    BY <1>3, QueueOps DEF Attempt
  <2>2. entry[Head(queue).agent] \in Entry
    BY <1>3 DEF Attempt
  <2>3. entry[Head(queue).agent].stuck \in Tasks \cup {NoTask}
    BY <2>2 DEF Entry
  <2>4. worker' \in Worker
    BY <1>3, <2>1, <2>3 DEF Attempt, Worker
  <2>5. cancels' \in SUBSET Tasks
    BY <1>3, <2>3 DEF Attempt
  <2>6. QED
    BY <1>3, <2>1, <2>4, <2>5 DEF Attempt
<1>4. CASE Recovered
  <2>1. worker.item.agent \in cards => Released(entry[worker.item.agent]) \in Entry
    BY EntryOps
  <2>2. entry' \in [Agents -> Entry]
    BY <1>4, <2>1, PutType DEF Recovered
  <2>3. Idle \in Worker
    BY DEF Idle, NoItem, Item, Worker
  <2>4. QED
    BY <1>4, <2>2, <2>3 DEF Recovered
<1>5. CASE CancelFailed
  BY <1>5 DEF CancelFailed, Worker
<1>6. CASE FetchFails
  <2>1. worker.item.agent \in cards =>
            Broken(entry[worker.item.agent], "OFFLINE", NoTask) \in Entry
    BY BrokenType DEF Reason
  <2>2. entry' \in [Agents -> Entry]
    BY <1>6, <2>1, PutType DEF FetchFails
  <2>3. worker' \in Worker
    BY <1>6 DEF FetchFails, Worker
  <2>4. QED
    BY <1>6, <2>2, <2>3 DEF FetchFails
<1>7. CASE Requeue
  <2>1. worker.item \in Item
    BY DEF Worker
  <2>2. Idle \in Worker
    BY DEF Idle, NoItem, Item, Worker
  <2>3. QED
    BY <1>7, <2>1, <2>2, QueueOps DEF Requeue
<1>8. QED
  BY <1>1, <1>2, <1>3, <1>4, <1>5, <1>6, <1>7
  DEF Recovery, CancelAccepted, FetchSucceeds

\* The steps of the health check, the discovery and the network.
LEMMA TypeEnvironment ==
    ASSUME TypeInv, StartHealthCheck \/ \E a \in Agents : Environment(a)
    PROVE  TypeInv'
<1> USE DEF TypeInv, TypeOK, TriesBounded, RegistryTypeOK,
        registryVars, requestVars, slotVars, lockVars, recoveryVars, networkVars
<1>1. CASE StartHealthCheck
  BY <1>1 DEF StartHealthCheck
<1>2. ASSUME NEW a \in Agents, Discover(a)
      PROVE  TypeInv'
  <2>1. Fresh \in Entry
    BY DEF Fresh, Entry, Status, Reason
  <2>2. QED
    BY <1>2, <2>1 DEF Discover, Register
<1>3. ASSUME NEW a \in Agents, ProbeAnswered(a)
      PROVE  TypeInv'
  BY <1>3 DEF ProbeAnswered
<1>4. ASSUME NEW a \in Agents, ProbeFailed(a)
      PROVE  TypeInv'
  <2>1. Broken(entry[a], "OFFLINE", NoTask) \in Entry
    BY BrokenType DEF Reason
  <2>2. entry' \in [Agents -> Entry]
    BY <1>4, <2>1, PutType DEF ProbeFailed
  <2>3. [agent |-> a, by |-> NoTask] \in Item
    BY DEF Item
  <2>4. queue' \in Seq(Item)
    BY <1>4, <2>3, QueueOps DEF ProbeFailed
  <2>5. QED
    BY <1>4, <2>2, <2>4 DEF ProbeFailed
<1>5. ASSUME NEW a \in Agents, GoOffline(a) \/ GoOnline(a)
      PROVE  TypeInv'
  BY <1>5, DispatchAssumption DEF GoOffline, GoOnline
<1>6. QED
  BY <1>1, <1>2, <1>3, <1>4, <1>5 DEF Environment

\* Every step of the dispatcher, its recovery worker and its environment keeps the types.
LEMMA TypeStep == TypeInv /\ [Next]_vars => TypeInv'
<1> SUFFICES ASSUME TypeInv, [Next]_vars
             PROVE  TypeInv'
  OBVIOUS
<1>1. ASSUME NEW t \in Tasks, Request(t)
      PROVE  TypeInv'
  BY <1>1, TypeWaiting, TypeRunning DEF Request, Select
<1>2. CASE UNCHANGED vars
  BY <1>2 DEF TypeInv, TypeOK, TriesBounded, RegistryTypeOK, vars, registryVars,
              requestVars, slotVars, lockVars, recoveryVars, networkVars
<1>3. QED
  BY <1>1, <1>2, TypeRecovery, TypeEnvironment DEF Next

\* Every reachable state of the dispatcher is type-correct, for any numbers of agents,
\* tasks, slots, rounds and outages.
THEOREM TypeCorrect == Spec => []TypeOK
<1>1. TypeInv => TypeOK
  BY DEF TypeInv
<1>2. QED
  BY TypeInit, TypeStep, <1>1, PTL DEF Spec

-----------------------------------------------------------------------------
(* The status of an agent agrees with its slots.                           *)

\* Every registry operator preserves the agreement; taking a slot does so because
\* only an agent with a free one is reserved.
LEMMA EntryConsistent ==
    ASSUME NEW e \in Entry, Consistent(e), NEW t, NEW r, NEW id
    PROVE  /\ Consistent(Fresh)
           /\ e.slots < MaxSlots => Consistent(Tracking(Occupied(e), t))
           /\ Consistent(Released(e))
           /\ Consistent(NotTracking(Released(e)))
           /\ Consistent(Broken(e, r, id))
           /\ Consistent(NotTracking(Broken(e, r, id)))
<1> USE RegistryAssumption
<1>1. e.slots \in Nat /\ e.slots <= MaxSlots
  BY DEF Consistent, Entry
<1>2. Consistent(Fresh)
  BY DEF Consistent, Fresh
<1>3. ASSUME e.slots < MaxSlots
      PROVE  Consistent(Tracking(Occupied(e), t))
  <2> DEFINE o == Tracking(Occupied(e), t)
  <2>1. o.slots = e.slots + 1 /\ o.status = "BUSY"
    BY DEF Tracking, Occupied, Entry
  <2>2. QED
    BY <1>1, <1>3, <2>1 DEF Consistent
<1>4. Consistent(Released(e)) /\ Consistent(NotTracking(Released(e)))
  <2>1. CASE e.slots <= 1
    BY <2>1 DEF Consistent, Released, NotTracking, Fresh
  <2>2. CASE ~(e.slots <= 1)
    <3> DEFINE d == [e EXCEPT !.slots = e.slots - 1]
    <3>1. /\ d.slots = e.slots - 1 /\ d.status = e.status
          /\ NotTracking(d).slots = d.slots /\ NotTracking(d).status = d.status
      BY DEF Entry, NotTracking
    <3>2. Consistent(d) /\ Consistent(NotTracking(d))
      BY <1>1, <2>2, <3>1 DEF Consistent
    <3>3. Released(e) = d
      BY <2>2 DEF Released
    <3>4. QED
      BY <3>2, <3>3
  <2>3. QED
    BY <2>1, <2>2
<1>5. Consistent(Broken(e, r, id)) /\ Consistent(NotTracking(Broken(e, r, id)))
  <2> DEFINE b == Broken(e, r, id)
  <2>1. /\ b.slots = e.slots /\ b.status = "BROKEN"
        /\ NotTracking(b).slots = e.slots /\ NotTracking(b).status = "BROKEN"
    BY DEF Entry, Broken, NotTracking
  <2>2. QED
    BY <1>1, <2>1 DEF Consistent
<1>6. QED
  BY <1>2, <1>3, <1>4, <1>5

\* Replacing one entry by a consistent one keeps every entry consistent.
LEMMA PutConsistent ==
    ASSUME RegistryTypeOK, StatusMatchesSlots, NEW a, NEW e,
           a \in cards => Consistent(e), Put(a, e)
    PROVE  StatusMatchesSlots'
BY DEF RegistryTypeOK, StatusMatchesSlots, Consistent, Put

\* Every step keeps each agent's status in agreement with its slots.
LEMMA StatusStep == TypeInv /\ StatusMatchesSlots /\ [Next]_vars => StatusMatchesSlots'
<1> SUFFICES ASSUME TypeInv, StatusMatchesSlots, [Next]_vars
             PROVE  StatusMatchesSlots'
  OBVIOUS
<1>1. RegistryTypeOK
  BY DEF TypeInv, TypeOK
<1>2. ASSUME NEW a \in cards
      PROVE  entry[a] \in Entry /\ Consistent(entry[a])
  BY <1>1, <1>2 DEF RegistryTypeOK, StatusMatchesSlots
<1>3. ASSUME UNCHANGED entry
      PROVE  StatusMatchesSlots'
  BY <1>3 DEF StatusMatchesSlots, Consistent
<1>4. ASSUME NEW t \in Tasks, NEW a \in Agents, SelectAgent(t, a)
      PROVE  StatusMatchesSlots'
  <2>1. a \in cards /\ entry[a].slots < MaxSlots
    BY <1>4 DEF SelectAgent, Available
  <2>2. Consistent(Tracking(Occupied(entry[a]), t))
    BY <1>2, <2>1, EntryConsistent
  <2>3. QED
    BY <1>1, <1>4, <2>2, PutConsistent DEF SelectAgent
<1>5. ASSUME NEW t \in Tasks, GiveBack(t)
      PROVE  StatusMatchesSlots'
  <2>1. agentOf[t] \in cards => Consistent(NotTracking(Released(entry[agentOf[t]])))
    BY <1>2, EntryConsistent
  <2>2. QED
    BY <1>1, <1>5, <2>1, PutConsistent DEF GiveBack
<1>6. ASSUME NEW t \in Tasks, NEW r, NEW id, HandOver(t, r, id)
      PROVE  StatusMatchesSlots'
  <2>1. agentOf[t] \in cards => Consistent(NotTracking(Broken(entry[agentOf[t]], r, id)))
    BY <1>2, EntryConsistent
  <2>2. QED
    BY <1>1, <1>6, <2>1, PutConsistent DEF HandOver
<1>7. CASE Recovered
  <2>1. worker.item.agent \in cards => Consistent(Released(entry[worker.item.agent]))
    BY <1>2, EntryConsistent
  <2>2. QED
    BY <1>1, <1>7, <2>1, PutConsistent DEF Recovered
<1>8. CASE FetchFails
  <2>1. worker.item.agent \in cards =>
            Consistent(Broken(entry[worker.item.agent], "OFFLINE", NoTask))
    BY <1>2, EntryConsistent
  <2>2. QED
    BY <1>1, <1>3, <1>8, <2>1, PutConsistent DEF FetchFails
<1>9. ASSUME NEW a \in Agents, ProbeFailed(a)
      PROVE  StatusMatchesSlots'
  <2>1. a \in cards => Consistent(Broken(entry[a], "OFFLINE", NoTask))
    BY <1>2, EntryConsistent
  <2>2. QED
    BY <1>1, <1>3, <1>9, <2>1, PutConsistent DEF ProbeFailed
<1>10. ASSUME NEW a \in Agents, Discover(a)
       PROVE  StatusMatchesSlots'
  <2>1. Consistent(Fresh)
    BY RegistryAssumption DEF Consistent, Fresh
  <2>2. QED
    BY <1>1, <1>10, <2>1
    DEF Discover, Register, RegistryTypeOK, StatusMatchesSlots, Consistent
<1>11. ASSUME NEW t \in Tasks, Request(t)
       PROVE  StatusMatchesSlots'
  <2>1. EndRun(t) => StatusMatchesSlots'
    BY <1>5, <1>6
    DEF EndRun, Finish, StreamEnds, ChunkTimeout, OverallTimeout, CommError
  <2>2. Select(t) => StatusMatchesSlots'
    BY <1>3, <1>4 DEF Select, SelectNone, SelectError, registryVars
  <2>3. QED
    BY <1>3, <1>11, <2>1, <2>2
    DEF Request, Submit, AcquireLock, Retry, WaitTimeout, StatusUpdate, registryVars
<1>12. CASE Recovery
  BY <1>3, <1>7, <1>8, <1>12
  DEF Recovery, GiveUp, SkipUnknown, Attempt, CancelAccepted, CancelFailed, FetchSucceeds,
      Requeue
<1>13. CASE StartHealthCheck
  BY <1>3, <1>13 DEF StartHealthCheck, registryVars
<1>14. ASSUME NEW a \in Agents, Environment(a)
       PROVE  StatusMatchesSlots'
  BY <1>3, <1>9, <1>10, <1>14 DEF Environment, ProbeAnswered, GoOffline, GoOnline, registryVars
<1>15. CASE UNCHANGED vars
  BY <1>3, <1>15 DEF vars, registryVars
<1>16. QED
  BY <1>11, <1>12, <1>13, <1>14, <1>15 DEF Next

\* In every reachable state an agent's status agrees with its slots, and no more than
\* MaxSlots of them are taken, for any values of the constants.
THEOREM StatusCorrect == Spec => []StatusMatchesSlots
<1>1. Init => StatusMatchesSlots
  BY RegistryAssumption DEF Init, RegistryInit, Fresh, StatusMatchesSlots, Consistent
<1>2. QED
  BY TypeInit, TypeStep, StatusStep, <1>1, PTL DEF Spec

-----------------------------------------------------------------------------
(* Slots, recovery and the refinement.                                     *)

\* A slot is held on a registered agent: by the request that runs there, or by one that
\* ended with an error and whose item is still to be settled.
HoldersKnown ==
    \A t \in Tasks :
        /\ agentOf[t] # NoAgent =>
               agentOf[t] \in cards /\ pc[t] \in {"running", "raised", "timedOut"}
        /\ pc[t] = "running" => agentOf[t] # NoAgent

\* An item is about a BROKEN agent and stands for the slot of the task that queued it;
\* the health check's item is about an agent that nothing holds.
Settles(i) ==
    /\ i.agent # NoAgent => IsBroken(i.agent)
    /\ i.by \in Tasks =>
           /\ i.agent # NoAgent /\ agentOf[i.by] = i.agent
           /\ pc[i.by] # "running"
    /\ i.by = NoTask /\ i.agent # NoAgent => Held(i.agent) = {}

ItemsSettle == \A i \in Pending : Settles(i)

\* No slot is settled by two items, and no agent is in the health check's items twice.
NoItemTwice ==
    /\ \A p, q \in DOMAIN queue :
           p # q /\ queue[p].agent # NoAgent => queue[p] # queue[q]
    /\ worker.at # "idle" =>
           /\ worker.item.agent # NoAgent
           /\ \A p \in DOMAIN queue : queue[p] # worker.item

\* SlotAccounting is not inductive: that the recovery frees a slot that is held, and
\* only once, depends on which items are pending.
SlotInv ==
    /\ SlotAccounting
    /\ HoldersKnown
    /\ ItemsSettle
    /\ NoItemTwice
    /\ probing \subseteq cards

\* A task that failed and holds a slot has its item, and a BROKEN agent that nothing
\* holds has the health check's, unless an item was given up.
Tracked ==
    /\ \A t \in Tasks : agentOf[t] # NoAgent /\ pc[t] # "running" =>
           agentOf[t] \in abandoned \/ \E i \in Pending : i.by = t
    /\ \A a \in Agents : IsBroken(a) /\ Held(a) = {} =>
           a \in abandoned \/ \E i \in Pending : i.agent = a

-----------------------------------------------------------------------------
(* What the registry's operators mean for the tasks that hold an agent.    *)

\* The tasks that hold an agent are finitely many.
LEMMA HeldFinite ==
    ASSUME NEW a
    PROVE  IsFiniteSet(Held(a)) /\ Cardinality(Held(a)) \in Nat
<1>1. IsFiniteSet(Held(a))
  BY RegistryAssumption, FS_Subset DEF Held
<1>2. QED
  BY <1>1, FS_CardinalityType

\* Giving a slot back releases its task and no other; it opens a BROKEN agent exactly
\* when it was the last.  (update_status(AVAILABLE))
LEMMA ReleaseEffect ==
    ASSUME TypeOK, SlotAccounting, NEW a \in cards, NEW t \in Tasks, agentOf[t] = a,
           NEW e \in {Released(entry[a]), NotTracking(Released(entry[a]))},
           Put(a, e), cards' = cards, agentOf' = [agentOf EXCEPT ![t] = NoAgent]
    PROVE  /\ SlotAccounting'
           /\ \A b \in Agents : Held(b)' = Held(b) \ {t}
           /\ \A b \in Agents : b # a => (IsBroken(b)' <=> IsBroken(b))
           /\ IsBroken(a)' <=> IsBroken(a) /\ Held(a) # {t}
<1> USE DEF TypeOK, RegistryTypeOK
<1>1. ASSUME NEW b \in Agents
      PROVE  Held(b)' = Held(b) \ {t}
  BY RegistryAssumption, <1>1 DEF Held
<1>2. a \in Agents /\ t \in Held(a) /\ entry[a] \in Entry
  BY DEF Held
<1>3. entry' = [entry EXCEPT ![a] = e]
  BY DEF Put
<1>4. /\ entry[a].slots = Cardinality(Held(a))
      /\ Cardinality(Held(a)) \in Nat
      /\ Cardinality(Held(a) \ {t}) = Cardinality(Held(a)) - 1
      /\ Cardinality(Held(a) \ {t}) \in Nat
      /\ Cardinality(Held(a) \ {t}) = 0 <=> Held(a) \ {t} = {}
  <2>1. IsFiniteSet(Held(a)) /\ IsFiniteSet(Held(a) \ {t})
    BY HeldFinite, FS_RemoveElement
  <2>2. Cardinality(Held(a) \ {t}) = Cardinality(Held(a)) - 1
    BY <1>2, <2>1, FS_RemoveElement
  <2>3. QED
    BY <1>2, <2>1, <2>2, FS_CardinalityType, FS_EmptySet DEF SlotAccounting
<1>5. entry[a].slots <= 1 <=> Held(a) = {t}
  BY <1>2, <1>4
<1>6. /\ e.slots = entry[a].slots - 1
      /\ e.status = IF Held(a) = {t} THEN "AVAILABLE" ELSE entry[a].status
  <2>1. CASE entry[a].slots <= 1
    BY <1>4, <1>5, <2>1 DEF Released, NotTracking, Fresh
  <2>2. CASE ~(entry[a].slots <= 1)
    BY <1>2, <1>5, <2>2 DEF Released, NotTracking, Entry
  <2>3. QED
    BY <2>1, <2>2
<1>7. SlotAccounting'
  <2>1. ASSUME NEW b \in Agents, b # a
        PROVE  Held(b) \ {t} = Held(b)
    BY <1>2, <2>1 DEF Held
  <2>2. QED
    BY <1>1, <1>2, <1>3, <1>4, <1>6, <2>1 DEF SlotAccounting
<1>8. QED
  BY <1>1, <1>2, <1>3, <1>6, <1>7 DEF IsBroken

\* Reserving an agent adds one task to those that hold it and leaves BROKEN agents BROKEN.
\* (update_status(BUSY))
LEMMA ReserveEffect ==
    ASSUME TypeOK, SlotAccounting, NEW a \in Available, NEW t \in Tasks,
           agentOf[t] = NoAgent, Put(a, Tracking(Occupied(entry[a]), t)),
           cards' = cards, agentOf' = [agentOf EXCEPT ![t] = a]
    PROVE  /\ SlotAccounting'
           /\ \A b \in Agents : b # a => Held(b)' = Held(b)
           /\ Held(a)' = Held(a) \cup {t}
           /\ \A b \in Agents : IsBroken(b)' <=> IsBroken(b)
           /\ ~IsBroken(a)
<1> USE DEF TypeOK, RegistryTypeOK
<1>1. a \in cards /\ a \in Agents /\ entry[a] \in Entry /\ entry[a].status # "BROKEN"
  BY DEF Available
<1>2. t \notin Held(a) /\ Held(a)' = Held(a) \cup {t}
  BY <1>1, RegistryAssumption DEF Held
<1>3. ASSUME NEW b \in Agents, b # a
      PROVE  Held(b)' = Held(b)
  BY <1>3, RegistryAssumption DEF Held
<1>4. /\ entry' = [entry EXCEPT ![a] = Tracking(Occupied(entry[a]), t)]
      /\ entry'[a].slots = entry[a].slots + 1
      /\ entry'[a].status = "BUSY"
  BY <1>1 DEF Put, Tracking, Occupied, Entry
<1>5. SlotAccounting'
  <2>1. Cardinality(Held(a) \cup {t}) = Cardinality(Held(a)) + 1
    BY <1>2, HeldFinite, FS_AddElement
  <2>2. QED
    BY <1>1, <1>2, <1>3, <1>4, <2>1 DEF SlotAccounting
<1>6. QED
  BY <1>1, <1>2, <1>3, <1>4, <1>5 DEF IsBroken

\* Marking an agent BROKEN keeps its slots.  (update_status(BROKEN))
LEMMA BreakEffect ==
    ASSUME TypeOK, NEW a \in cards, NEW r, NEW id,
           NEW e \in {Broken(entry[a], r, id), NotTracking(Broken(entry[a], r, id))},
           Put(a, e), UNCHANGED <<cards, agentOf>>
    PROVE  /\ SlotAccounting => SlotAccounting'
           /\ \A b \in Agents : Held(b)' = Held(b)
           /\ \A b \in Agents : IsBroken(b)' <=> IsBroken(b) \/ b = a
<1> USE DEF TypeOK, RegistryTypeOK
<1>1. a \in Agents /\ entry' = [entry EXCEPT ![a] = e]
  BY DEF Put
<1>2. e.slots = entry[a].slots /\ e.status = "BROKEN"
  <2>1. entry[a] \in Entry
    BY <1>1
  <2>2. QED
    BY <2>1 DEF Broken, NotTracking, Entry
<1>3. \A b \in Agents : Held(b)' = Held(b) /\ entry'[b].slots = entry[b].slots
  BY <1>1, <1>2 DEF Held
<1>4. QED
  BY <1>1, <1>2, <1>3 DEF SlotAccounting, IsBroken

\* Nobody holds an agent that is not registered, and a card makes it a free one.
LEMMA DiscoverEffect ==
    ASSUME TypeOK, SlotAccounting, HoldersKnown, NEW a \in Agents, Discover(a)
    PROVE  /\ SlotAccounting'
           /\ Held(a) = {} /\ ~IsBroken(a) /\ ~IsBroken(a)'
           /\ \A b \in Agents : Held(b)' = Held(b)
           /\ \A b \in Agents : IsBroken(b)' <=> IsBroken(b)
<1> USE DEF TypeOK, RegistryTypeOK
<1>1. a \notin cards /\ cards' = cards \cup {a} /\ entry' = [entry EXCEPT ![a] = Fresh]
  BY DEF Discover, Register
<1>2. \A b \in Agents : Held(b)' = Held(b)
  BY DEF Discover, Held, requestVars, slotVars
<1>3. Held(a) = {}
  BY <1>1, RegistryAssumption DEF Held, HoldersKnown
<1>4. Fresh.slots = 0 /\ Fresh.status = "AVAILABLE"
  BY DEF Fresh
<1>5. QED
  BY <1>1, <1>2, <1>3, <1>4, FS_EmptySet DEF SlotAccounting, IsBroken

-----------------------------------------------------------------------------
(* What the steps of the queue and of its worker do to the pending items.  *)

\* Where a pending item is, before and after a step.
LEMMA PendingWhere ==
    /\ \A i : i \in Pending <=>
           (\E p \in DOMAIN queue : queue[p] = i) \/ (worker.at # "idle" /\ i = worker.item)
    /\ \A i : i \in Pending' <=>
           (\E p \in DOMAIN queue' : queue'[p] = i) \/ (worker'.at # "idle" /\ i = worker'.item)
BY DEF Pending

\* What is pending is an item.
LEMMA PendingItem ==
    ASSUME TypeOK, NEW i \in Pending
    PROVE  i \in Item
BY PendingWhere DEF TypeOK, Worker

\* A new item joins the others.
LEMMA PutItem ==
    ASSUME TypeOK, NEW i \in Item, queue' = Append(queue, i), UNCHANGED worker
    PROVE  /\ Pending' = Pending \cup {i}
           /\ NoItemTwice /\ (i.agent = NoAgent \/ i \notin Pending) => NoItemTwice'
<1> USE DEF TypeOK
<1>1. /\ DOMAIN queue' = 1..Len(queue) + 1 /\ DOMAIN queue = 1..Len(queue)
      /\ Len(queue) \in Nat
      /\ \A p \in DOMAIN queue : queue'[p] = queue[p]
      /\ queue'[Len(queue) + 1] = i
  OBVIOUS
<1>2. Pending' = Pending \cup {i}
  <2>1. \A j : (\E p \in DOMAIN queue' : queue'[p] = j) <=>
               (\E p \in DOMAIN queue : queue[p] = j) \/ j = i
    BY <1>1
  <2>2. \A j : j \in Pending' <=> j \in Pending \/ j = i
    BY <2>1, PendingWhere
  <2>3. QED
    BY <2>2
<1>3. ASSUME NoItemTwice, i.agent = NoAgent \/ i \notin Pending
      PROVE  NoItemTwice'
  <2>1. \A p \in DOMAIN queue : queue[p].agent # NoAgent => queue[p] # i
    BY <1>3 DEF Pending
  <2>2. worker.at # "idle" => worker.item # i
    BY <1>3 DEF Pending, NoItemTwice
  <2>3. \A p \in DOMAIN queue' : p \in DOMAIN queue \/ p = Len(queue) + 1
    BY <1>1
  <2>4. QED
    BY <1>1, <1>3, <2>1, <2>2, <2>3 DEF NoItemTwice
<1>4. QED
  BY <1>2, <1>3

\* Positions in the queue without its head.
LEMMA TailItems ==
    ASSUME TypeOK, queue # <<>>
    PROVE  /\ Head(queue) = queue[1] /\ 1 \in DOMAIN queue
           /\ \A p \in DOMAIN Tail(queue) :
                  p + 1 \in DOMAIN queue /\ p + 1 # 1 /\ Tail(queue)[p] = queue[p + 1]
           /\ \A p \in DOMAIN queue \ {1} :
                  p - 1 \in DOMAIN Tail(queue) /\ Tail(queue)[p - 1] = queue[p]
           /\ \A p, q \in DOMAIN Tail(queue) : p # q => p + 1 # q + 1
<1> USE DEF TypeOK
<1>1. /\ Len(queue) \in Nat /\ Len(queue) > 0 /\ Head(queue) = queue[1]
      /\ DOMAIN queue = 1..Len(queue)
      /\ DOMAIN Tail(queue) = 1..Len(queue) - 1
      /\ \A p \in 1..Len(queue) - 1 : Tail(queue)[p] = queue[p + 1]
  OBVIOUS
<1>2. QED
  BY <1>1

\* An item is dropped.
LEMMA DropItem ==
    ASSUME TypeOK, TakeItem, UNCHANGED worker
    PROVE  /\ Pending' \subseteq Pending
           /\ NoItemTwice => NoItemTwice'
<1>1. Pending' \subseteq Pending
  BY TailItems DEF TakeItem, Pending
<1>2. QED
  BY <1>1, TailItems DEF TakeItem, NoItemTwice

\* An item is taken to be settled.
LEMMA AttemptItem ==
    ASSUME TypeOK, TakeItem, worker'.at # "idle", worker'.item = Head(queue)
    PROVE  /\ Pending' = Pending
           /\ NoItemTwice /\ Head(queue).agent # NoAgent => NoItemTwice'
<1>1. Pending' \subseteq Pending
  BY TailItems DEF TakeItem, Pending
<1>2. Pending \subseteq Pending'
  <2>1. \A p \in DOMAIN queue :
            queue[p] = Head(queue) \/ (\E o \in DOMAIN queue' : queue'[o] = queue[p])
    BY TailItems DEF TakeItem
  <2>2. QED
    BY <2>1, PendingWhere DEF TakeItem
<1>3. ASSUME NoItemTwice, Head(queue).agent # NoAgent
      PROVE  NoItemTwice'
  <2>1. queue # <<>> /\ queue' = Tail(queue)
    BY DEF TakeItem
  <2>2. \A p \in DOMAIN queue' : queue'[p] # Head(queue)
    BY <1>3, <2>1, TailItems DEF NoItemTwice
  <2>3. QED
    BY <1>3, <2>1, <2>2, TailItems DEF NoItemTwice
<1>4. QED
  BY <1>1, <1>2, <1>3

\* An item that could not be settled goes to the end of the queue.
LEMMA RequeueItem ==
    ASSUME TypeOK, NoItemTwice, Requeue
    PROVE  Pending' = Pending /\ NoItemTwice'
<1> USE DEF TypeOK
<1>1. worker.at = "sleeping" /\ worker'.at = "idle" /\ queue' = Append(queue, worker.item)
  BY DEF Requeue, Idle
<1>2. /\ DOMAIN queue' = 1..Len(queue) + 1 /\ DOMAIN queue = 1..Len(queue)
      /\ Len(queue) \in Nat
      /\ \A p \in DOMAIN queue : queue'[p] = queue[p]
      /\ queue'[Len(queue) + 1] = worker.item
      /\ \A p \in DOMAIN queue' : p \in DOMAIN queue \/ p = Len(queue) + 1
  <2>1. worker.item \in Item
    BY DEF Worker
  <2>2. QED
    BY <1>1, <2>1
<1>3. QED
  BY <1>1, <1>2 DEF Pending, NoItemTwice

\* An item is settled: it alone is gone.
LEMMA SettleItem ==
    ASSUME NoItemTwice, worker.at # "idle", worker' = Idle, UNCHANGED queue
    PROVE  Pending' = Pending \ {worker.item} /\ NoItemTwice'
BY DEF Pending, NoItemTwice, Idle

-----------------------------------------------------------------------------
(* The slot counters are exact.                                            *)

\* At the start nobody holds an agent and nothing is pending.
LEMMA SlotInit == Init => SlotInv
<1> SUFFICES ASSUME Init
             PROVE  SlotInv
  OBVIOUS
<1>1. \A a \in Agents : Held(a) = {}
  BY RegistryAssumption DEF Init, Held
<1>2. SlotAccounting
  BY <1>1, FS_EmptySet DEF Init, RegistryInit, Fresh, SlotAccounting
<1>3. Pending = {}
  BY DEF Init, Idle, Pending
<1>4. QED
  BY <1>2, <1>3 DEF Init, Idle, SlotInv, HoldersKnown, ItemsSettle, NoItemTwice

\* A step that neither holds nor releases an agent, and settles no item, keeps the
\* invariant.
LEMMA SlotQuiet ==
    ASSUME TypeOK, SlotInv, UNCHANGED <<cards, entry, agentOf>>, probing' \subseteq cards,
           \A t \in Tasks : \/ pc'[t] = pc[t]
                            \/ agentOf[t] = NoAgent /\ pc'[t] # "running",
           \A i \in Pending' : i \in Pending \/ i = NoItem,
           NoItemTwice'
    PROVE  SlotInv'
<1> USE DEF TypeOK, SlotInv
<1>1. \A a \in Agents : Held(a)' = Held(a)
  BY DEF Held
<1>2. \A a : IsBroken(a)' <=> IsBroken(a)
  BY DEF IsBroken
<1>3. SlotAccounting'
  BY <1>1 DEF SlotAccounting
<1>4. HoldersKnown'
  BY DEF HoldersKnown
<1>5. ItemsSettle'
  <2>1. ASSUME NEW i \in Pending', i \in Pending
        PROVE  Settles(i)'
    <3>1. Settles(i)
      BY <2>1 DEF ItemsSettle
    <3>2. i.by \in Tasks => pc'[i.by] # "running"
      BY <3>1 DEF Settles
    <3>3. i.agent # NoAgent => Held(i.agent)' = Held(i.agent)
      BY DEF Held
    <3>4. QED
      BY <1>2, <3>1, <3>2, <3>3 DEF Settles
  <2>2. Settles(NoItem)'
    BY RegistryAssumption DEF NoItem, Settles
  <2>3. QED
    BY <2>1, <2>2 DEF ItemsSettle
<1>6. QED
  BY <1>3, <1>4, <1>5

\* A request that waits for an agent holds none.
LEMMA WaitingHoldsNone ==
    ASSUME TypeOK, SlotInv, NEW t \in Tasks,
           pc[t] \in {"idle", "waiting", "selecting", "sleeping"}
    PROVE  agentOf[t] = NoAgent
BY DEF SlotInv, HoldersKnown

\* The steps of a request until it has an agent.
LEMMA SlotWaiting ==
    ASSUME TypeInv, SlotInv, NEW t \in Tasks,
           \/ Submit(t) \/ AcquireLock(t) \/ SelectNone(t) \/ SelectError(t)
           \/ Retry(t) \/ WaitTimeout(t) \/ StatusUpdate(t)
    PROVE  SlotInv'
<1> USE DEF TypeInv, TypeOK, Goto, registryVars, slotVars, recoveryVars
<1>1. CASE SelectError(t)
  <2>1. NoItem \in Item /\ NoItem.agent = NoAgent
    BY DEF NoItem, Item
  <2>2. NoItemTwice' /\ Pending' = Pending \cup {NoItem}
    BY <1>1, <2>1, PutItem DEF SelectError, SlotInv
  <2>3. QED
    BY <1>1, <2>2, WaitingHoldsNone, SlotQuiet DEF SelectError, SlotInv
<1>2. ASSUME UNCHANGED <<cards, entry, agentOf, probing, queue, worker>>,
             \A u \in Tasks : \/ pc'[u] = pc[u]
                              \/ agentOf[u] = NoAgent /\ pc'[u] # "running"
      PROVE  SlotInv'
  <2>1. Pending' = Pending /\ (NoItemTwice => NoItemTwice')
    BY <1>2 DEF Pending, NoItemTwice
  <2>2. QED
    BY <1>2, <2>1, SlotQuiet DEF SlotInv
<1>3. CASE Submit(t)
  BY <1>2, <1>3, WaitingHoldsNone DEF Submit
<1>4. CASE AcquireLock(t)
  BY <1>2, <1>4, WaitingHoldsNone DEF AcquireLock
<1>5. CASE SelectNone(t)
  BY <1>2, <1>5, WaitingHoldsNone DEF SelectNone
<1>6. CASE Retry(t)
  BY <1>2, <1>6, WaitingHoldsNone DEF Retry
<1>7. CASE WaitTimeout(t)
  BY <1>2, <1>7, WaitingHoldsNone DEF WaitTimeout
<1>8. CASE StatusUpdate(t)
  BY <1>2, <1>8 DEF StatusUpdate
<1>9. QED
  BY <1>1, <1>3, <1>4, <1>5, <1>6, <1>7, <1>8

\* A reservation takes a slot of an agent nothing is pending for.
LEMMA SlotReserve ==
    ASSUME TypeInv, SlotInv, NEW t \in Tasks, NEW a \in Agents, SelectAgent(t, a)
    PROVE  SlotInv'
<1> USE DEF TypeInv, TypeOK, SlotInv, Goto
<1>1. /\ pc[t] = "selecting" /\ agentOf[t] = NoAgent /\ a \in Available /\ a \in cards
      /\ Put(a, Tracking(Occupied(entry[a]), t))
      /\ cards' = cards /\ agentOf' = [agentOf EXCEPT ![t] = a]
      /\ pc' = [pc EXCEPT ![t] = "running"]
      /\ UNCHANGED <<queue, worker, probing>>
  BY WaitingHoldsNone DEF SelectAgent, Available, recoveryVars
<1>2. /\ SlotAccounting'
      /\ \A b \in Agents : b # a => Held(b)' = Held(b)
      /\ \A b \in Agents : IsBroken(b)' <=> IsBroken(b)
      /\ ~IsBroken(a)
  BY <1>1, ReserveEffect
<1>3. Pending' = Pending /\ NoItemTwice'
  BY <1>1 DEF Pending, NoItemTwice
<1>4. HoldersKnown'
  BY <1>1, RegistryAssumption DEF HoldersKnown
<1>5. ItemsSettle'
  <2>1. ASSUME NEW i \in Pending
        PROVE  Settles(i)'
    <3>1. Settles(i)
      BY <2>1 DEF ItemsSettle
    <3>2. i.agent # a /\ i.by # t
      BY <1>1, <1>2, <3>1, RegistryAssumption DEF Settles
    <3>3. i.agent # NoAgent => i.agent \in Agents
      BY <3>1 DEF Settles, IsBroken, RegistryTypeOK
    <3>4. QED
      BY <1>1, <1>2, <3>1, <3>2, <3>3 DEF Settles
  <2>2. QED
    BY <1>3, <2>1 DEF ItemsSettle
<1>6. QED
  BY <1>1, <1>2, <1>3, <1>4, <1>5

\* A finished task gives its slot back; what is pending for the agent stays pending.
LEMMA SlotGiveBack ==
    ASSUME TypeInv, SlotInv, NEW t \in Tasks, GiveBack(t),
           Goto(t, "returned") \/ Goto(t, "raised")
    PROVE  SlotInv'
<1> USE DEF TypeInv, TypeOK, SlotInv, Goto
<1>0. PICK a \in Agents : agentOf[t] = a
  BY DEF GiveBack, HoldersKnown
<1>1. /\ pc[t] = "running" /\ a \in cards /\ agentOf[t] = a
      /\ Put(a, NotTracking(Released(entry[a])))
      /\ cards' = cards /\ agentOf' = [agentOf EXCEPT ![t] = NoAgent]
      /\ \A u \in Tasks : u # t => pc'[u] = pc[u]
      /\ pc'[t] # "running"
      /\ UNCHANGED <<queue, worker, probing>>
  BY <1>0, RegistryAssumption DEF GiveBack, RunningUnchanged, HoldersKnown, recoveryVars
<1>2. /\ SlotAccounting'
      /\ \A b \in Agents : Held(b)' = Held(b) \ {t}
      /\ \A b \in Agents : b # a => (IsBroken(b)' <=> IsBroken(b))
      /\ IsBroken(a)' <=> IsBroken(a) /\ Held(a) # {t}
  BY <1>1, ReleaseEffect
<1>3. Pending' = Pending /\ NoItemTwice'
  BY <1>1 DEF Pending, NoItemTwice
<1>4. HoldersKnown'
  BY <1>1 DEF HoldersKnown
<1>5. ItemsSettle'
  <2>1. ASSUME NEW i \in Pending
        PROVE  Settles(i)'
    <3>1. Settles(i) /\ i.by # t
      BY <1>1, <2>1 DEF ItemsSettle, Settles
    <3>2. i.agent # NoAgent => i.agent \in Agents
      BY <3>1 DEF Settles, IsBroken, RegistryTypeOK
    <3>3. i \in Item
      BY PendingItem
    <3>4. i.agent = a => Held(a) # {t}
      <4>1. i.by \in Tasks \/ i.by = NoTask
        BY <3>3 DEF Item
      <4>2. a # NoAgent
        BY <1>1, RegistryAssumption
      <4>3. QED
        BY <3>1, <4>1, <4>2 DEF Settles, Held
    <3>5. i.agent # NoAgent => IsBroken(i.agent)'
      BY <1>2, <3>1, <3>2, <3>4 DEF Settles
    <3>6. i.by \in Tasks => agentOf'[i.by] = agentOf[i.by] /\ pc'[i.by] = pc[i.by]
      BY <1>1, <3>1
    <3>7. i.by = NoTask /\ i.agent # NoAgent => Held(i.agent)' = {}
      BY <1>2, <3>1, <3>2 DEF Settles
    <3>8. QED
      BY <3>1, <3>5, <3>6, <3>7 DEF Settles
  <2>2. QED
    BY <1>3, <2>1 DEF ItemsSettle
<1>6. QED
  BY <1>1, <1>2, <1>3, <1>4, <1>5

\* A failed task keeps its slot, and its item is the only one that stands for it.
LEMMA SlotHandOver ==
    ASSUME TypeInv, SlotInv, NEW t \in Tasks, NEW r, NEW id, HandOver(t, r, id),
           Goto(t, "timedOut") \/ Goto(t, "raised")
    PROVE  SlotInv'
<1> USE DEF TypeInv, TypeOK, SlotInv, Goto
<1>0. PICK a \in Agents : agentOf[t] = a
  BY DEF HandOver, HoldersKnown
<1> DEFINE item == [agent |-> a, by |-> t]
<1>1. /\ pc[t] = "running" /\ a \in cards
      /\ Put(a, NotTracking(Broken(entry[a], r, id)))
      /\ UNCHANGED <<cards, agentOf, worker, probing>>
      /\ \A u \in Tasks : u # t => pc'[u] = pc[u]
      /\ pc'[t] \in {"timedOut", "raised"}
      /\ queue' = Append(queue, item)
  BY <1>0, RegistryAssumption
  DEF HandOver, Leave, RunningUnchanged, HoldersKnown, slotVars, recoveryVars
<1>2. /\ SlotAccounting'
      /\ \A b \in Agents : Held(b)' = Held(b)
      /\ \A b \in Agents : IsBroken(b)' <=> IsBroken(b) \/ b = a
  BY <1>1, BreakEffect
<1>3. item \in Item /\ item \notin Pending
  BY <1>1 DEF Item, ItemsSettle, Settles
<1>4. Pending' = Pending \cup {item} /\ NoItemTwice'
  BY <1>1, <1>3, PutItem
<1>5. HoldersKnown'
  BY <1>1 DEF HoldersKnown
<1>6. ItemsSettle'
  <2>1. ASSUME NEW i \in Pending
        PROVE  Settles(i)'
    <3>1. Settles(i)
      BY <2>1 DEF ItemsSettle
    <3>2. i.agent # NoAgent => i.agent \in Agents
      BY <3>1 DEF Settles, IsBroken, RegistryTypeOK
    <3>3. i.by \in Tasks => pc'[i.by] # "running"
      BY <1>1, <3>1 DEF Settles
    <3>4. QED
      BY <1>1, <1>2, <3>1, <3>2, <3>3 DEF Settles
  <2>2. Settles(item)'
    BY <1>0, <1>1, <1>2, RegistryAssumption DEF Settles
  <2>3. QED
    BY <1>4, <2>1, <2>2 DEF ItemsSettle
<1>7. QED
  BY <1>1, <1>2, <1>4, <1>5, <1>6

\* The recovery frees the slot of the item's task, or none: if the agent goes back to
\* work, nothing else is pending for it.
LEMMA SlotRecovered ==
    ASSUME TypeInv, SlotInv, worker.at # "idle", Recovered
    PROVE  /\ SlotInv'
           /\ Pending' = Pending \ {worker.item}
           /\ worker.item.agent \in cards
           /\ worker.item.by \in Tasks =>
                  /\ \A b \in Agents : Held(b)' = Held(b) \ {worker.item.by}
                  /\ \A b \in Agents :
                         IsBroken(b)' <=> IsBroken(b) /\ ~(b = worker.item.agent
                                                           /\ Held(b) = {worker.item.by})
           /\ worker.item.by \notin Tasks =>
                  /\ Held(worker.item.agent) = {}
                  /\ \A b \in Agents : Held(b)' = Held(b)
                  /\ \A b \in Agents : IsBroken(b)' <=> IsBroken(b) /\ b # worker.item.agent
<1> USE DEF TypeInv, TypeOK, SlotInv
<1>0. PICK i \in Item : i = worker.item
  BY DEF Worker
<1>1. i \in Pending /\ Settles(i) /\ i.agent # NoAgent
  BY <1>0 DEF Pending, ItemsSettle, NoItemTwice
<1>2. PICK a \in Agents : a = i.agent /\ a \in cards /\ IsBroken(a) /\ entry[a] \in Entry
  BY <1>1 DEF Settles, IsBroken, RegistryTypeOK
<1>3. /\ Put(a, Released(entry[a]))
      /\ cards' = cards /\ pc' = pc /\ probing' = probing
      /\ agentOf' = [t \in Tasks |-> IF t = i.by THEN NoAgent ELSE agentOf[t]]
      /\ worker' = Idle /\ queue' = queue
  BY <1>0, <1>2 DEF Recovered, WorkerUnchanged
<1>4. Pending' = Pending \ {i} /\ NoItemTwice'
  BY <1>0, <1>3, SettleItem
<1>5. i.by \in Tasks \/ i.by = NoTask
  BY DEF Item
<1>6. CASE i.by \in Tasks
  <2>1. agentOf[i.by] = a /\ agentOf' = [agentOf EXCEPT ![i.by] = NoAgent]
    BY <1>1, <1>2, <1>3, <1>6 DEF Settles
  <2>2. /\ SlotAccounting'
        /\ \A b \in Agents : Held(b)' = Held(b) \ {i.by}
        /\ \A b \in Agents : b # a => (IsBroken(b)' <=> IsBroken(b))
        /\ IsBroken(a)' <=> IsBroken(a) /\ Held(a) # {i.by}
    BY <1>2, <1>3, <1>6, <2>1, ReleaseEffect
  <2>3. HoldersKnown'
    BY <1>1, <1>3, <1>6, <2>1 DEF HoldersKnown, Settles
  <2>4. ASSUME NEW j \in Pending, j # i
        PROVE  Settles(j)'
    <3>1. Settles(j) /\ j \in Item
      BY <2>4, PendingItem DEF ItemsSettle
    <3>2. j.agent # NoAgent => j.agent \in Agents
      BY <3>1 DEF Settles, IsBroken, RegistryTypeOK
    <3>3. j.by = i.by => j = i
      BY <1>1, <1>6, <3>1 DEF Settles, Item
    <3>4. j.agent = a => Held(a) # {i.by}
      <4>1. j.by \in Tasks \/ j.by = NoTask
        BY <3>1 DEF Item
      <4>2. a # NoAgent
        BY RegistryAssumption
      <4>3. QED
        BY <2>4, <3>1, <3>3, <4>1, <4>2 DEF Settles, Held
    <3>5. j.agent # NoAgent => IsBroken(j.agent)'
      BY <2>2, <3>1, <3>2, <3>4 DEF Settles
    <3>6. j.by \in Tasks => agentOf'[j.by] = agentOf[j.by] /\ pc'[j.by] = pc[j.by]
      BY <1>3, <2>1, <2>4, <3>3
    <3>7. j.by = NoTask /\ j.agent # NoAgent => Held(j.agent)' = {}
      BY <2>2, <3>1, <3>2 DEF Settles
    <3>8. QED
      BY <3>1, <3>5, <3>6, <3>7 DEF Settles
  <2>5. ItemsSettle'
    BY <1>4, <2>4 DEF ItemsSettle
  <2>6. QED
    BY <1>0, <1>2, <1>3, <1>4, <1>6, <2>2, <2>3, <2>5
<1>7. CASE i.by = NoTask
  <2>1. agentOf' = agentOf /\ Held(a) = {} /\ NoTask \notin Tasks
    BY <1>1, <1>2, <1>3, <1>7, RegistryAssumption DEF Settles
  <2>2. \A b \in Agents : Held(b)' = Held(b)
    BY <2>1 DEF Held
  <2>3. entry[a].slots = 0
    BY <2>1, FS_EmptySet DEF SlotAccounting
  <2>4. entry' = [entry EXCEPT ![a] = Fresh] /\ Fresh.slots = 0 /\ Fresh.status = "AVAILABLE"
    BY <1>2, <1>3, <2>3 DEF Put, Released, Fresh
  <2>5. \A b \in Agents : IsBroken(b)' <=> IsBroken(b) /\ b # a
    BY <1>3, <2>4 DEF IsBroken, RegistryTypeOK
  <2>6. SlotAccounting'
    BY <2>2, <2>3, <2>4 DEF SlotAccounting, RegistryTypeOK
  <2>7. HoldersKnown'
    BY <1>3, <2>1 DEF HoldersKnown
  <2>8. ASSUME NEW j \in Pending, j # i
        PROVE  Settles(j)'
    <3>1. Settles(j) /\ j \in Item
      BY <2>8, PendingItem DEF ItemsSettle
    <3>2. j.agent # NoAgent => j.agent \in Agents
      BY <3>1 DEF Settles, IsBroken, RegistryTypeOK
    <3>3. j.agent # a
      <4>1. j.by \in Tasks \/ j.by = NoTask
        BY <3>1 DEF Item
      <4>2. ASSUME j.agent = a, j.by \in Tasks
            PROVE  FALSE
        BY <2>1, <3>1, <4>2 DEF Settles, Held
      <4>3. ASSUME j.agent = a, j.by = NoTask
            PROVE  FALSE
        BY <1>2, <1>7, <2>8, <3>1, <4>3 DEF Item
      <4>4. QED
        BY <4>1, <4>2, <4>3
    <3>4. QED
      BY <1>3, <2>1, <2>2, <2>5, <3>1, <3>2, <3>3 DEF Settles
  <2>9. ItemsSettle'
    BY <1>4, <2>8 DEF ItemsSettle
  <2>10. QED
    BY <1>0, <1>2, <1>3, <1>4, <1>7, <2>1, <2>2, <2>5, <2>6, <2>7, <2>9
<1>8. QED
  BY <1>5, <1>6, <1>7

\* The other steps of the recovery worker move an item, or drop one.
LEMMA SlotRecovery ==
    ASSUME TypeInv, SlotInv, Recovery
    PROVE  SlotInv'
<1> USE DEF TypeInv, TypeOK, SlotInv, WorkerUnchanged, slotVars, recoveryVars
<1>1. CASE GiveUp \/ SkipUnknown
  <2>1. TakeItem /\ UNCHANGED <<worker, cards, entry, agentOf, pc, probing>>
    BY <1>1 DEF GiveUp, SkipUnknown
  <2>2. QED
    BY <2>1, DropItem, SlotQuiet
<1>2. CASE Attempt
  <2>1. /\ TakeItem /\ UNCHANGED <<cards, entry, agentOf, pc, probing>>
        /\ worker'.at # "idle" /\ worker'.item = Head(queue)
        /\ Head(queue).agent # NoAgent
    BY <1>2, RegistryAssumption DEF Attempt, RegistryTypeOK
  <2>2. QED
    BY <2>1, AttemptItem, SlotQuiet
<1>3. CASE CancelAccepted \/ FetchSucceeds
  BY <1>3, SlotRecovered DEF CancelAccepted, FetchSucceeds
<1>4. CASE CancelFailed
  <2>1. /\ UNCHANGED <<cards, entry, agentOf, pc, probing, queue>>
        /\ worker.at # "idle" /\ worker'.at # "idle" /\ worker'.item = worker.item
    BY <1>4 DEF CancelFailed, Worker
  <2>2. Pending' = Pending /\ NoItemTwice'
    BY <2>1 DEF Pending, NoItemTwice
  <2>3. QED
    BY <2>1, <2>2, SlotQuiet
<1>5. CASE FetchFails
  <2>1. /\ UNCHANGED <<cards, agentOf, pc, probing, queue>>
        /\ worker.at # "idle" /\ worker'.at # "idle" /\ worker'.item = worker.item
    BY <1>5 DEF FetchFails, Worker
  <2>2. Pending' = Pending /\ NoItemTwice'
    BY <2>1 DEF Pending, NoItemTwice
  <2>3. CASE UNCHANGED entry
    BY <2>1, <2>2, <2>3, SlotQuiet
  <2>4. CASE Put(worker.item.agent, Broken(entry[worker.item.agent], "OFFLINE", NoTask))
    <3>1. PICK a \in cards : a = worker.item.agent /\ IsBroken(a)
      BY <2>1 DEF Pending, NoItemTwice, ItemsSettle, Settles, IsBroken
    <3>2. /\ SlotAccounting'
          /\ \A b \in Agents : Held(b)' = Held(b)
          /\ \A b \in Agents : IsBroken(b)' <=> IsBroken(b)
      BY <2>1, <2>4, <3>1, BreakEffect
    <3>3. HoldersKnown'
      BY <2>1 DEF HoldersKnown
    <3>4. ItemsSettle'
      BY <2>1, <2>2, <3>2 DEF ItemsSettle, Settles, IsBroken, RegistryTypeOK
    <3>5. QED
      BY <2>1, <2>2, <3>2, <3>3, <3>4
  <2>5. QED
    BY <1>5, <2>3, <2>4 DEF FetchFails
<1>6. CASE Requeue
  <2>1. UNCHANGED <<cards, entry, agentOf, pc, probing>>
    BY <1>6 DEF Requeue
  <2>2. QED
    BY <1>6, <2>1, RequeueItem, SlotQuiet
<1>7. QED
  BY <1>1, <1>2, <1>3, <1>4, <1>5, <1>6 DEF Recovery

\* A failed probe breaks an agent that nothing holds and nothing is pending for.
LEMMA SlotProbeFailed ==
    ASSUME TypeInv, StatusMatchesSlots, SlotInv, NEW a \in Agents, ProbeFailed(a),
           entry[a].status = "AVAILABLE"
    PROVE  /\ SlotInv'
           /\ a \in cards /\ ~IsBroken(a) /\ Held(a) = {}
           /\ \A b \in Agents : Held(b)' = Held(b)
           /\ \A b \in Agents : IsBroken(b)' <=> IsBroken(b) \/ b = a
           /\ Pending' = Pending \cup {[agent |-> a, by |-> NoTask]}
<1> USE DEF TypeInv, TypeOK, SlotInv
<1> DEFINE item == [agent |-> a, by |-> NoTask]
<1>1. /\ a \in cards /\ ~IsBroken(a)
      /\ Put(a, Broken(entry[a], "OFFLINE", NoTask))
      /\ queue' = Append(queue, item)
      /\ probing' \subseteq cards
      /\ UNCHANGED <<cards, agentOf, pc, worker>>
  BY DEF ProbeFailed, IsBroken, requestVars, slotVars, recoveryVars
<1>2. Held(a) = {}
  BY <1>1, HeldFinite, FS_EmptySet DEF StatusMatchesSlots, Consistent, SlotAccounting
<1>3. /\ SlotAccounting'
      /\ \A b \in Agents : Held(b)' = Held(b)
      /\ \A b \in Agents : IsBroken(b)' <=> IsBroken(b) \/ b = a
  BY <1>1, BreakEffect
<1>4. item \in Item /\ item \notin Pending
  BY <1>1, RegistryAssumption DEF Item, ItemsSettle, Settles
<1>5. Pending' = Pending \cup {item} /\ NoItemTwice'
  BY <1>1, <1>4, PutItem
<1>6. HoldersKnown'
  BY <1>1 DEF HoldersKnown
<1>7. ItemsSettle'
  <2>1. ASSUME NEW i \in Pending
        PROVE  Settles(i)'
    <3>1. Settles(i)
      BY <2>1 DEF ItemsSettle
    <3>2. i.agent # NoAgent => i.agent \in Agents
      BY <3>1 DEF Settles, IsBroken, RegistryTypeOK
    <3>3. QED
      BY <1>1, <1>3, <3>1, <3>2 DEF Settles
  <2>2. Settles(item)'
    BY <1>2, <1>3, RegistryAssumption DEF Settles
  <2>3. QED
    BY <1>5, <2>1, <2>2 DEF ItemsSettle
<1>8. QED
  BY <1>1, <1>2, <1>3, <1>5, <1>6, <1>7

\* The steps of the health check, the discovery and the network.
LEMMA SlotEnvironment ==
    ASSUME TypeInv, StatusMatchesSlots, SlotInv,
           StartHealthCheck \/ \E a \in Agents : Environment(a)
    PROVE  SlotInv'
<1> USE DEF TypeInv, TypeOK, SlotInv, registryVars, requestVars, slotVars, recoveryVars
<1>1. ASSUME UNCHANGED <<cards, entry, agentOf, pc, queue, worker>>, probing' \subseteq cards
      PROVE  SlotInv'
  <2>1. Pending' = Pending /\ NoItemTwice'
    BY <1>1 DEF Pending, NoItemTwice
  <2>2. QED
    BY <1>1, <2>1, SlotQuiet
<1>2. CASE StartHealthCheck
  BY <1>1, <1>2 DEF StartHealthCheck
<1>3. ASSUME NEW a \in Agents, Discover(a)
      PROVE  SlotInv'
  <2>1. /\ SlotAccounting'
        /\ \A b \in Agents : Held(b)' = Held(b)
        /\ \A b \in Agents : IsBroken(b)' <=> IsBroken(b)
    BY <1>3, DiscoverEffect
  <2>2. /\ cards' = cards \cup {a}
        /\ UNCHANGED <<agentOf, pc, queue, worker, probing>>
    BY <1>3 DEF Discover, Register
  <2>3. Pending' = Pending /\ NoItemTwice'
    BY <2>2 DEF Pending, NoItemTwice
  <2>4. HoldersKnown' /\ probing' \subseteq cards'
    BY <2>2 DEF HoldersKnown
  <2>5. ItemsSettle'
    BY <2>1, <2>2, <2>3 DEF ItemsSettle, Settles, IsBroken, RegistryTypeOK
  <2>6. QED
    BY <2>1, <2>3, <2>4, <2>5
<1>4. ASSUME NEW a \in Agents, ProbeFailed(a)
      PROVE  SlotInv'
  BY <1>1, <1>4, SlotProbeFailed DEF ProbeFailed
<1>5. ASSUME NEW a \in Agents, ProbeAnswered(a) \/ GoOffline(a) \/ GoOnline(a)
      PROVE  SlotInv'
  BY <1>1, <1>5 DEF ProbeAnswered, GoOffline, GoOnline
<1>6. QED
  BY <1>2, <1>3, <1>4, <1>5 DEF Environment

\* How a run ends: its slot is given back, or handed over.
LEMMA EndRunKinds ==
    ASSUME NEW t \in Tasks, EndRun(t)
    PROVE  \/ GiveBack(t) /\ (Goto(t, "returned") \/ Goto(t, "raised"))
           \/ \E r, id : HandOver(t, r, id) /\ (Goto(t, "timedOut") \/ Goto(t, "raised"))
BY DEF EndRun, Finish, StreamEnds, ChunkTimeout, OverallTimeout, CommError

\* Every step keeps the counters exact and the pending items settled.
LEMMA SlotStep ==
    TypeInv /\ StatusMatchesSlots /\ SlotInv /\ [Next]_vars => SlotInv'
<1> SUFFICES ASSUME TypeInv, StatusMatchesSlots, SlotInv, [Next]_vars
             PROVE  SlotInv'
  OBVIOUS
<1>1. ASSUME NEW t \in Tasks, Request(t)
      PROVE  SlotInv'
  <2>1. EndRun(t) => SlotInv'
    BY EndRunKinds, SlotGiveBack, SlotHandOver
  <2>2. QED
    BY <1>1, <2>1, SlotWaiting, SlotReserve DEF Request, Select
<1>2. CASE UNCHANGED vars
  <2>1. UNCHANGED <<cards, entry, agentOf, pc, queue, worker, probing>>
    BY <1>2 DEF vars, registryVars, requestVars, slotVars, recoveryVars
  <2>2. Pending' = Pending /\ NoItemTwice'
    BY <2>1 DEF Pending, NoItemTwice, SlotInv
  <2>3. QED
    BY <2>1, <2>2, SlotQuiet DEF TypeInv, SlotInv
<1>3. QED
  BY <1>1, <1>2, SlotRecovery, SlotEnvironment DEF Next

\* TypeInv, the agreement of status and slots, and SlotInv hold together for ever.
LEMMA DispatchInvariant == Spec => [](TypeInv /\ StatusMatchesSlots /\ SlotInv)
<1>1. Init => StatusMatchesSlots
  BY RegistryAssumption DEF Init, RegistryInit, Fresh, StatusMatchesSlots, Consistent
<1>2. QED
  BY TypeInit, TypeStep, StatusStep, SlotInit, SlotStep, <1>1, PTL DEF Spec

\* No path through the dispatcher, the recovery worker and the health check leaks a slot
\* or frees one twice, whatever the numbers of agents, tasks and slots.
THEOREM SlotsExact == Spec => []SlotAccounting
<1>1. SlotInv => SlotAccounting
  BY DEF SlotInv
<1>2. QED
  BY DispatchInvariant, <1>1, PTL

\* No agent ever runs more tasks than MAX_SLOTS_PER_AGENT: its counter is exact and
\* stays within that limit.
THEOREM NeverOverbooked == Spec => []NoOverbooking
<1>1. TypeInv /\ StatusMatchesSlots /\ SlotInv => NoOverbooking
  <2> SUFFICES ASSUME StatusMatchesSlots, SlotAccounting, NEW a \in Agents
               PROVE  Cardinality(Running(a)) <= MaxSlots
    BY DEF SlotInv, NoOverbooking
  <2>1. Running(a) \subseteq Held(a)
    BY DEF Running, Held
  <2>2. IsFiniteSet(Held(a)) /\ Cardinality(Held(a)) \in Nat
    BY HeldFinite
  <2>3. Cardinality(Running(a)) \in Nat /\ Cardinality(Running(a)) <= Cardinality(Held(a))
    BY <2>1, <2>2, FS_Subset, FS_CardinalityType
  <2>4. Cardinality(Held(a)) <= MaxSlots
    BY <2>2, RegistryAssumption DEF StatusMatchesSlots, Consistent, SlotAccounting
  <2>5. QED
    BY <2>2, <2>3, <2>4, RegistryAssumption
<1>2. QED
  BY DispatchInvariant, <1>1, PTL

\* The recovery worker never deals with an agent that has gone back to work.
THEOREM RecoveryOfBroken == Spec => []PendingIsBroken
<1>1. SlotInv => PendingIsBroken
  BY DEF SlotInv, ItemsSettle, Settles, PendingIsBroken
<1>2. QED
  BY DispatchInvariant, <1>1, PTL

-----------------------------------------------------------------------------
(* The dispatcher implements SlotPool.                                     *)

\* A task that runs on an agent holds it: the pool's tasks at work and stuck tasks are
\* those that hold the agent.
LEMMA PoolHolders ==
    /\ \A a \in Agents : Pool!Holders(a) = Held(a) /\ Pool!Holders(a)' = Held(a)'
    /\ \A a \in Agents : Running(a) \subseteq Held(a)
BY DEF Pool!Holders, Held, Running

\* The pool counts as the dispatcher does.
LEMMA PoolCardinality ==
    ASSUME NEW S
    PROVE  Pool!Cardinality(S) = Cardinality(S)
BY DEF Pool!Cardinality, Cardinality, Pool!IsFiniteSet, IsFiniteSet

\* A step that changes neither holders nor runs nor BROKEN agents is no step of the pool.
LEMMA PoolQuiet ==
    ASSUME UNCHANGED cards,
           \A a \in Agents : Held(a)' = Held(a) /\ Running(a)' = Running(a),
           \A a \in Agents : IsBroken(a)' <=> IsBroken(a),
           cards \subseteq Agents
    PROVE  UNCHANGED Pool!vars
BY DEF Pool!vars

\* What a reservation is to the pool: the agent is open, and has a slot left.
LEMMA PoolTake ==
    ASSUME TypeInv, SlotInv, NEW t \in Tasks, NEW a \in Agents, SelectAgent(t, a)
    PROVE  Pool!Next
<1> USE DEF TypeInv, TypeOK, SlotInv, Goto
<1>1. /\ pc[t] = "selecting" /\ agentOf[t] = NoAgent /\ a \in Available /\ a \in cards
      /\ Put(a, Tracking(Occupied(entry[a]), t))
      /\ cards' = cards /\ agentOf' = [agentOf EXCEPT ![t] = a]
      /\ pc' = [pc EXCEPT ![t] = "running"]
  BY WaitingHoldsNone DEF SelectAgent, Available
<1>2. /\ \A b \in Agents : b # a => Held(b)' = Held(b)
      /\ Held(a)' = Held(a) \cup {t}
      /\ \A b \in Agents : IsBroken(b)' <=> IsBroken(b)
      /\ ~IsBroken(a)
  BY <1>1, ReserveEffect
<1>3. /\ \A b \in Agents : b # a => Running(b)' = Running(b)
      /\ Running(a)' = Running(a) \cup {t}
      /\ t \notin Held(a) /\ t \notin Running(a)
      /\ \A b \in Agents : t \notin Held(b)
  BY <1>1, RegistryAssumption DEF Running, Held
<1>4. Cardinality(Held(a)) < MaxSlots
  BY <1>1 DEF Available, SlotAccounting
<1>5. Pool!Take(a, t)
  <2>1. a \in {b \in cards : ~IsBroken(b)}
    BY <1>1, <1>2
  <2>2. {b \in cards : ~IsBroken(b)}' = {b \in cards : ~IsBroken(b)}
    BY <1>1, <1>2 DEF RegistryTypeOK
  <2>3. [b \in Agents |-> Running(b)]' =
            [[b \in Agents |-> Running(b)] EXCEPT ![a] = @ \cup {t}]
    BY <1>3
  <2>4. [b \in Agents |-> Held(b) \ Running(b)]' = [b \in Agents |-> Held(b) \ Running(b)]
    BY <1>2, <1>3
  <2>5. QED
    BY <1>3, <1>4, <2>1, <2>2, <2>3, <2>4, PoolHolders, PoolCardinality DEF Pool!Take
<1>6. QED
  BY <1>5 DEF Pool!Next

\* Giving back the slot of a task, of one that ran or of one that was stuck, is a release.
LEMMA PoolRelease ==
    ASSUME TypeOK, NEW t \in Tasks, NEW a \in cards, agentOf[t] = a, UNCHANGED cards,
           \A b \in Agents : Held(b)' = Held(b) \ {t} /\ Running(b)' = Running(b) \ {t},
           \A b \in Agents : IsBroken(b)' <=> IsBroken(b) /\ ~(b = a /\ Held(a) = {t})
    PROVE  Pool!Next
<1>1. a \in Agents /\ t \in Held(a)
  BY DEF TypeOK, RegistryTypeOK, Held
<1>2. Pool!Release(a, t)
  <2>1. ASSUME NEW b \in Agents, b # a
        PROVE  Running(b)' = Running(b) /\ Held(b)' = Held(b)
    <3>1. t \notin Held(b) /\ t \notin Running(b)
      BY <2>1 DEF Held, Running
    <3>2. QED
      BY <3>1
  <2>2. [b \in Agents |-> Running(b)]' = [[b \in Agents |-> Running(b)] EXCEPT ![a] = @ \ {t}]
    BY <1>1, <2>1
  <2>3. [b \in Agents |-> Held(b) \ Running(b)]' =
            [[b \in Agents |-> Held(b) \ Running(b)] EXCEPT ![a] = @ \ {t}]
    <3>1. Held(a)' \ Running(a)' = (Held(a) \ Running(a)) \ {t}
      BY <1>1
    <3>2. QED
      BY <1>1, <2>1, <3>1
  <2>4. {b \in cards : ~IsBroken(b)}' =
            IF Held(a) = {t} THEN {b \in cards : ~IsBroken(b)} \cup {a}
                             ELSE {b \in cards : ~IsBroken(b)}
    BY <1>1 DEF TypeOK, RegistryTypeOK
  <2>5. QED
    BY <1>1, <2>2, <2>3, <2>4, PoolHolders DEF Pool!Release
<1>3. QED
  BY <1>1, <1>2 DEF Pool!Next

\* A finished task releases its slot.
LEMMA PoolGiveBack ==
    ASSUME TypeInv, SlotInv, NEW t \in Tasks, GiveBack(t),
           Goto(t, "returned") \/ Goto(t, "raised")
    PROVE  Pool!Next
<1> USE DEF TypeInv, TypeOK, SlotInv, Goto
<1>0. PICK a \in Agents : agentOf[t] = a
  BY DEF GiveBack, HoldersKnown
<1>1. /\ pc[t] = "running" /\ a \in cards
      /\ Put(a, NotTracking(Released(entry[a])))
      /\ cards' = cards /\ agentOf' = [agentOf EXCEPT ![t] = NoAgent]
      /\ \A u \in Tasks : u # t => pc'[u] = pc[u]
      /\ pc'[t] # "running"
  BY <1>0, RegistryAssumption DEF GiveBack, RunningUnchanged, HoldersKnown
<1>2. /\ \A b \in Agents : Held(b)' = Held(b) \ {t}
      /\ \A b \in Agents : b # a => (IsBroken(b)' <=> IsBroken(b))
      /\ IsBroken(a)' <=> IsBroken(a) /\ Held(a) # {t}
  BY <1>0, <1>1, ReleaseEffect
<1>3. \A b \in Agents : IsBroken(b)' <=> IsBroken(b) /\ ~(b = a /\ Held(a) = {t})
  BY <1>2
<1>4. \A b \in Agents : Running(b)' = Running(b) \ {t}
  BY <1>1 DEF Running
<1>5. QED
  BY <1>0, <1>1, <1>2, <1>3, <1>4, PoolRelease

\* A task that fails becomes a stuck one and closes its agent.
LEMMA PoolHandOver ==
    ASSUME TypeInv, SlotInv, NEW t \in Tasks, NEW r, NEW id, HandOver(t, r, id),
           Goto(t, "timedOut") \/ Goto(t, "raised")
    PROVE  Pool!Next
<1> USE DEF TypeInv, TypeOK, SlotInv, Goto
<1>0. PICK a \in Agents : agentOf[t] = a
  BY DEF HandOver, HoldersKnown
<1>1. /\ pc[t] = "running" /\ a \in cards
      /\ Put(a, NotTracking(Broken(entry[a], r, id)))
      /\ UNCHANGED <<cards, agentOf>>
      /\ \A u \in Tasks : u # t => pc'[u] = pc[u]
      /\ pc'[t] \in {"timedOut", "raised"}
  BY <1>0, RegistryAssumption DEF HandOver, Leave, RunningUnchanged, HoldersKnown, slotVars
<1>2. /\ \A b \in Agents : Held(b)' = Held(b)
      /\ \A b \in Agents : IsBroken(b)' <=> IsBroken(b) \/ b = a
  BY <1>1, BreakEffect
<1>3. /\ t \in Running(a) /\ t \in Held(a)
      /\ Running(a)' = Running(a) \ {t}
      /\ \A b \in Agents : b # a => Running(b)' = Running(b)
  BY <1>0, <1>1 DEF Running, Held
<1>4. Pool!Fail(a, t)
  <2>1. [b \in Agents |-> Running(b)]' = [[b \in Agents |-> Running(b)] EXCEPT ![a] = @ \ {t}]
    BY <1>3
  <2>2. [b \in Agents |-> Held(b) \ Running(b)]' =
            [[b \in Agents |-> Held(b) \ Running(b)] EXCEPT ![a] = @ \cup {t}]
    <3>1. Held(a)' \ Running(a)' = (Held(a) \ Running(a)) \cup {t}
      BY <1>2, <1>3
    <3>2. QED
      BY <1>2, <1>3, <3>1
  <2>3. {b \in cards : ~IsBroken(b)}' = {b \in cards : ~IsBroken(b)} \ {a}
    BY <1>1, <1>2 DEF RegistryTypeOK
  <2>4. QED
    BY <1>3, <2>1, <2>2, <2>3 DEF Pool!Fail
<1>5. QED
  BY <1>4 DEF Pool!Next

\* An agent without holders opens or closes.
LEMMA PoolOpenClose ==
    ASSUME NEW a \in Agents, Held(a) = {},
           \A b \in Agents : Held(b)' = Held(b) /\ Running(b)' = Running(b),
           \/ /\ a \notin {b \in cards : ~IsBroken(b)}
              /\ {b \in cards : ~IsBroken(b)}' = {b \in cards : ~IsBroken(b)} \cup {a}
           \/ /\ a \in {b \in cards : ~IsBroken(b)}
              /\ {b \in cards : ~IsBroken(b)}' = {b \in cards : ~IsBroken(b)} \ {a}
    PROVE  Pool!Next
BY PoolHolders DEF Pool!Open, Pool!Close, Pool!Next

\* Settling an item releases the slot of its task, or opens the agent the health check
\* had found gone.
LEMMA PoolRecovered ==
    ASSUME TypeInv, SlotInv, worker.at # "idle", Recovered
    PROVE  Pool!Next
<1> USE DEF TypeInv, TypeOK, SlotInv
<1>0. PICK i \in Item : i = worker.item
  BY DEF Worker
<1>1. i.agent \in cards /\ i.agent \in Agents /\ IsBroken(i.agent) /\ Settles(i)
  BY <1>0, SlotRecovered DEF RegistryTypeOK, ItemsSettle, Settles, NoItemTwice, Pending
<1>2. cards' = cards /\ pc' = pc
  BY DEF Recovered, WorkerUnchanged
<1>3. CASE i.by \in Tasks
  <2>1. /\ \A b \in Agents : Held(b)' = Held(b) \ {i.by}
        /\ \A b \in Agents :
               IsBroken(b)' <=> IsBroken(b) /\ ~(b = i.agent /\ Held(b) = {i.by})
    BY <1>0, <1>3, SlotRecovered
  <2>2. agentOf[i.by] = i.agent /\ pc[i.by] # "running"
    BY <1>1, <1>3 DEF Settles
  <2>3. \A b \in Agents : Running(b)' = Running(b) \ {i.by}
    <3>1. \A u \in Tasks : u # i.by => agentOf'[u] = agentOf[u]
      BY <1>0 DEF Recovered
    <3>2. QED
      BY <1>2, <2>2, <3>1 DEF Running
  <2>4. QED
    BY <1>1, <1>2, <1>3, <2>1, <2>2, <2>3, PoolRelease
<1>4. CASE i.by \notin Tasks
  <2>1. /\ Held(i.agent) = {}
        /\ \A b \in Agents : Held(b)' = Held(b)
        /\ \A b \in Agents : IsBroken(b)' <=> IsBroken(b) /\ b # i.agent
    BY <1>0, <1>4, SlotRecovered
  <2>2. \A b \in Agents : Running(b)' = Running(b)
    <3>1. agentOf' = agentOf
      BY <1>0, <1>4 DEF Recovered
    <3>2. QED
      BY <1>2, <3>1 DEF Running
  <2>3. {b \in cards : ~IsBroken(b)}' = {b \in cards : ~IsBroken(b)} \cup {i.agent}
    BY <1>1, <1>2, <2>1 DEF RegistryTypeOK
  <2>4. QED
    BY <1>1, <2>1, <2>2, <2>3, PoolOpenClose
<1>5. QED
  BY <1>3, <1>4

\* Discovery opens a new agent, a failed probe closes an idle one; everything else the
\* environment does is invisible.
LEMMA PoolEnvironment ==
    ASSUME TypeInv, StatusMatchesSlots, SlotInv,
           StartHealthCheck \/ \E a \in Agents : Environment(a)
    PROVE  Pool!Next \/ UNCHANGED Pool!vars
<1> USE DEF TypeInv, TypeOK, SlotInv, registryVars, requestVars, slotVars
<1>1. ASSUME UNCHANGED <<cards, entry, agentOf, pc>>
      PROVE  UNCHANGED Pool!vars
  <2>1. /\ \A a \in Agents : Held(a)' = Held(a) /\ Running(a)' = Running(a)
        /\ \A a \in Agents : IsBroken(a)' <=> IsBroken(a)
    BY <1>1 DEF Held, Running, IsBroken
  <2>2. QED
    BY <1>1, <2>1, PoolQuiet DEF RegistryTypeOK
<1>2. ASSUME NEW a \in Agents, Discover(a)
      PROVE  Pool!Next
  <2>1. /\ Held(a) = {} /\ ~IsBroken(a) /\ ~IsBroken(a)'
        /\ \A b \in Agents : Held(b)' = Held(b)
        /\ \A b \in Agents : IsBroken(b)' <=> IsBroken(b)
    BY <1>2, DiscoverEffect
  <2>2. a \notin cards /\ cards' = cards \cup {a} /\ UNCHANGED <<agentOf, pc>>
    BY <1>2 DEF Discover, Register
  <2>3. \A b \in Agents : Running(b)' = Running(b)
    BY <2>2 DEF Running
  <2>4. {b \in cards : ~IsBroken(b)}' = {b \in cards : ~IsBroken(b)} \cup {a}
    BY <2>1, <2>2 DEF RegistryTypeOK
  <2>5. QED
    BY <2>1, <2>2, <2>3, <2>4, PoolOpenClose
<1>3. ASSUME NEW a \in Agents, ProbeFailed(a), entry[a].status = "AVAILABLE"
      PROVE  Pool!Next
  <2>1. /\ a \in cards /\ ~IsBroken(a) /\ Held(a) = {}
        /\ \A b \in Agents : Held(b)' = Held(b)
        /\ \A b \in Agents : IsBroken(b)' <=> IsBroken(b) \/ b = a
    BY <1>3, SlotProbeFailed
  <2>2. UNCHANGED <<cards, agentOf, pc>>
    BY <1>3 DEF ProbeFailed
  <2>3. \A b \in Agents : Running(b)' = Running(b)
    BY <2>2 DEF Running
  <2>4. {b \in cards : ~IsBroken(b)}' = {b \in cards : ~IsBroken(b)} \ {a}
    BY <2>1, <2>2 DEF RegistryTypeOK
  <2>5. QED
    BY <2>1, <2>3, <2>4, PoolOpenClose
<1>4. QED
  BY <1>1, <1>2, <1>3
  DEF StartHealthCheck, Environment, ProbeAnswered, ProbeFailed, GoOffline, GoOnline

\* The recovery worker's other steps are invisible: a BROKEN agent stays BROKEN.
LEMMA PoolRecovery ==
    ASSUME TypeInv, SlotInv, Recovery
    PROVE  Pool!Next \/ UNCHANGED Pool!vars
<1> USE DEF TypeInv, TypeOK, SlotInv, WorkerUnchanged, slotVars
<1>1. ASSUME UNCHANGED <<cards, agentOf, pc>>, \A a \in Agents : IsBroken(a)' <=> IsBroken(a)
      PROVE  UNCHANGED Pool!vars
  <2>1. \A a \in Agents : Held(a)' = Held(a) /\ Running(a)' = Running(a)
    BY <1>1 DEF Held, Running
  <2>2. QED
    BY <1>1, <2>1, PoolQuiet DEF RegistryTypeOK
<1>2. CASE UNCHANGED <<cards, agentOf, pc, entry>>
  BY <1>1, <1>2 DEF IsBroken
<1>3. CASE FetchFails
  <2>1. PICK a \in cards : a = worker.item.agent /\ IsBroken(a)
    BY <1>3 DEF FetchFails, Pending, NoItemTwice, ItemsSettle, Settles, IsBroken
  <2>2. CASE Put(worker.item.agent, Broken(entry[worker.item.agent], "OFFLINE", NoTask))
    <3>1. \A b \in Agents : IsBroken(b)' <=> IsBroken(b)
      BY <1>3, <2>1, <2>2, BreakEffect DEF FetchFails
    <3>2. QED
      BY <1>1, <1>3, <3>1 DEF FetchFails
  <2>3. QED
    BY <1>2, <1>3, <2>2 DEF FetchFails
<1>4. QED
  BY <1>2, <1>3, PoolRecovered
  DEF Recovery, GiveUp, SkipUnknown, Attempt, CancelAccepted, CancelFailed, FetchSucceeds,
      Requeue

\* Every step of the dispatcher is a step of the pool or leaves it alone.
LEMMA PoolStep ==
    TypeInv /\ StatusMatchesSlots /\ SlotInv /\ [Next]_vars => [Pool!Next]_Pool!vars
<1> SUFFICES ASSUME TypeInv, StatusMatchesSlots, SlotInv, [Next]_vars
             PROVE  Pool!Next \/ UNCHANGED Pool!vars
  OBVIOUS
<1>1. ASSUME UNCHANGED <<cards, entry, agentOf>>,
             \A t \in Tasks : pc'[t] = "running" <=> pc[t] = "running"
      PROVE  UNCHANGED Pool!vars
  <2>1. /\ \A a \in Agents : Held(a)' = Held(a) /\ Running(a)' = Running(a)
        /\ \A a \in Agents : IsBroken(a)' <=> IsBroken(a)
    BY <1>1 DEF Held, Running, IsBroken
  <2>2. QED
    BY <1>1, <2>1, PoolQuiet DEF TypeInv, TypeOK, RegistryTypeOK
<1>2. ASSUME NEW t \in Tasks,
             \/ Submit(t) \/ AcquireLock(t) \/ SelectNone(t) \/ SelectError(t)
             \/ Retry(t) \/ WaitTimeout(t) \/ StatusUpdate(t)
      PROVE  UNCHANGED Pool!vars
  <2>1. UNCHANGED <<cards, entry, agentOf>>
    BY <1>2 DEF Submit, AcquireLock, SelectNone, SelectError, Retry, WaitTimeout,
                StatusUpdate, registryVars, slotVars
  <2>2. \A u \in Tasks : pc'[u] = "running" <=> pc[u] = "running"
    BY <1>2 DEF Submit, AcquireLock, SelectNone, SelectError, Retry, WaitTimeout,
                StatusUpdate, Goto, TypeInv, TypeOK
  <2>3. QED
    BY <1>1, <2>1, <2>2
<1>3. ASSUME NEW t \in Tasks, Request(t)
      PROVE  Pool!Next \/ UNCHANGED Pool!vars
  <2>1. EndRun(t) => Pool!Next
    BY EndRunKinds, PoolGiveBack, PoolHandOver
  <2>2. QED
    BY <1>2, <1>3, <2>1, PoolTake DEF Request, Select
<1>4. CASE UNCHANGED vars
  BY <1>1, <1>4 DEF vars, registryVars, requestVars, slotVars
<1>5. QED
  BY <1>3, <1>4, PoolRecovery, PoolEnvironment DEF Next

\* With no card registered nothing is open, and nobody holds a slot.
LEMMA PoolInit == Init => Pool!Init
<1> SUFFICES ASSUME Init
             PROVE  Pool!Init
  OBVIOUS
<1>1. \A a \in Agents : Held(a) = {} /\ Running(a) = {}
  BY RegistryAssumption DEF Init, Held, Running
<1>2. cards = {}
  BY DEF Init, RegistryInit
<1>3. QED
  BY <1>1, <1>2 DEF Pool!Init

\* The dispatcher, with its lock, its model call, its recovery queue and its probes,
\* implements the slot pool for all agents, tasks and slots.
THEOREM DispatchImplementsPool == Spec => ImplementsSlotPool
BY DispatchInvariant, PoolInit, PoolStep, PTL DEF ImplementsSlotPool, Pool!Spec, Spec

-----------------------------------------------------------------------------
(* What no step may do to a BROKEN agent.                                  *)

\* A BROKEN agent's entry is changed by releases and failures only, and neither makes it
\* BUSY.
LEMMA NotReservedStep ==
    TypeInv /\ SlotInv /\ [Next]_vars => \A a \in Agents : IsBroken(a) => entry'[a].status # "BUSY"
<1> SUFFICES ASSUME TypeInv, SlotInv, [Next]_vars, NEW a \in Agents, IsBroken(a)
             PROVE  entry'[a].status # "BUSY"
  OBVIOUS
<1> USE DEF TypeInv, TypeOK, RegistryTypeOK
<1>1. a \in cards /\ entry[a] \in Entry /\ entry[a].status = "BROKEN"
  BY DEF IsBroken
<1>2. ASSUME UNCHANGED entry
      PROVE  entry'[a].status # "BUSY"
  BY <1>1, <1>2
<1>3. ASSUME NEW b, NEW e, Put(b, e), b = a => e.status # "BUSY"
      PROVE  entry'[a].status # "BUSY"
  BY <1>1, <1>3 DEF Put
<1>4. /\ Released(entry[a]).status # "BUSY"
      /\ NotTracking(Released(entry[a])).status # "BUSY"
      /\ \A r, id : /\ Broken(entry[a], r, id).status # "BUSY"
                    /\ NotTracking(Broken(entry[a], r, id)).status # "BUSY"
  <2>1. Released(entry[a]).status # "BUSY" /\ NotTracking(Released(entry[a])).status # "BUSY"
    BY <1>1 DEF Released, NotTracking, Fresh, Entry
  <2>2. ASSUME NEW r, NEW id
        PROVE  /\ Broken(entry[a], r, id).status # "BUSY"
               /\ NotTracking(Broken(entry[a], r, id)).status # "BUSY"
    BY <1>1 DEF Broken, NotTracking, Entry
  <2>3. QED
    BY <2>1, <2>2
<1>5. ASSUME NEW t \in Tasks, NEW b \in Agents, SelectAgent(t, b)
      PROVE  entry'[a].status # "BUSY"
  BY <1>1, <1>3, <1>5 DEF SelectAgent, Available
<1>6. ASSUME NEW t \in Tasks, GiveBack(t)
      PROVE  entry'[a].status # "BUSY"
  BY <1>3, <1>4, <1>6 DEF GiveBack
<1>7. ASSUME NEW t \in Tasks, NEW r, NEW id, HandOver(t, r, id)
      PROVE  entry'[a].status # "BUSY"
  BY <1>3, <1>4, <1>7 DEF HandOver
<1>8. ASSUME NEW t \in Tasks, Request(t)
      PROVE  entry'[a].status # "BUSY"
  <2>1. EndRun(t) => entry'[a].status # "BUSY"
    BY <1>6, <1>7, EndRunKinds
  <2>2. Select(t) => entry'[a].status # "BUSY"
    BY <1>2, <1>5 DEF Select, SelectNone, SelectError, registryVars
  <2>3. QED
    BY <1>2, <1>8, <2>1, <2>2
    DEF Request, Submit, AcquireLock, Retry, WaitTimeout, StatusUpdate, registryVars
<1>9. CASE Recovery
  <2>1. Recovered => entry'[a].status # "BUSY"
    BY <1>3, <1>4 DEF Recovered
  <2>2. FetchFails => entry'[a].status # "BUSY"
    BY <1>2, <1>3, <1>4 DEF FetchFails
  <2>3. QED
    BY <1>2, <1>9, <2>1, <2>2
    DEF Recovery, GiveUp, SkipUnknown, Attempt, CancelAccepted, CancelFailed, FetchSucceeds,
        Requeue
<1>10. ASSUME NEW b \in Agents, Environment(b)
       PROVE  entry'[a].status # "BUSY"
  <2>1. Discover(b) => entry'[a].status # "BUSY"
    BY <1>1 DEF Discover, Register
  <2>2. ProbeFailed(b) => entry'[a].status # "BUSY"
    BY <1>2, <1>3, <1>4 DEF ProbeFailed
  <2>3. QED
    BY <1>2, <1>10, <2>1, <2>2
    DEF Environment, ProbeAnswered, GoOffline, GoOnline, registryVars
<1>11. CASE StartHealthCheck \/ UNCHANGED vars
  BY <1>2, <1>11 DEF StartHealthCheck, vars, registryVars
<1>12. QED
  BY <1>8, <1>9, <1>10, <1>11 DEF Next

\* The selection re-checks the agent after the model call, so no step turns a BROKEN
\* agent BUSY.
THEOREM BrokenStaysUnreserved == Spec => BrokenNotReserved
BY DispatchInvariant, NotReservedStep, PTL DEF BrokenNotReserved, Spec

\* In the pool an agent opens only when nothing is left on it.
LEMMA QuarantineStep ==
    TypeInv /\ StatusMatchesSlots /\ SlotInv /\ [Next]_vars =>
        \A a \in Agents : IsBroken(a) /\ ~IsBroken(a)' => Held(a)' = {}
<1> SUFFICES ASSUME TypeInv, StatusMatchesSlots, SlotInv, [Next]_vars,
                    NEW a \in Agents, IsBroken(a), ~IsBroken(a)'
             PROVE  Held(a)' = {}
  OBVIOUS
<1>1. cards \subseteq cards'
  <2>1. ASSUME UNCHANGED cards
        PROVE  cards \subseteq cards'
    BY <2>1
  <2>2. ASSUME NEW t \in Tasks, Request(t)
        PROVE  UNCHANGED cards
    <3>1. EndRun(t) => UNCHANGED cards
      BY EndRunKinds DEF GiveBack, HandOver, RunningUnchanged
    <3>2. QED
      BY <2>2, <3>1 DEF Request, Select, Submit, AcquireLock, SelectAgent, SelectNone,
         SelectError, Retry, WaitTimeout, StatusUpdate, registryVars
  <2>3. Recovery => UNCHANGED cards
    BY DEF Recovery, GiveUp, SkipUnknown, Attempt, CancelAccepted, CancelFailed, Recovered,
           FetchSucceeds, FetchFails, Requeue, WorkerUnchanged
  <2>4. ASSUME NEW b \in Agents, Environment(b)
        PROVE  cards \subseteq cards'
    BY <2>4 DEF Environment, Discover, Register, ProbeAnswered, ProbeFailed, GoOffline,
                GoOnline, registryVars
  <2>5. QED
    BY <2>1, <2>2, <2>3, <2>4 DEF Next, StartHealthCheck, vars, registryVars
<1>2. a \notin {b \in cards : ~IsBroken(b)} /\ a \in {b \in cards : ~IsBroken(b)}'
  BY <1>1 DEF IsBroken
<1>3. [Pool!Next]_Pool!vars
  BY PoolStep
<1>4. Pool!Next
  BY <1>2, <1>3 DEF Pool!vars
<1>5. PICK b \in Agents :
          Pool!Open(b) \/ Pool!Close(b)
          \/ \E t \in Tasks : Pool!Take(b, t) \/ Pool!Fail(b, t) \/ Pool!Release(b, t)
  BY <1>4 DEF Pool!Next
<1>6. Held(a)' = Running(a)' \cup (Held(a)' \ Running(a)')
  BY PoolHolders DEF Held, Running
<1>7. CASE Pool!Open(b)
  <2>1. b = a /\ Held(a) = {}
    BY <1>2, <1>7, PoolHolders DEF Pool!Open
  <2>2. QED
    BY <1>6, <1>7, <2>1, PoolHolders DEF Pool!Open
<1>8. ASSUME NEW t \in Tasks, Pool!Release(b, t)
      PROVE  Held(a)' = {}
  <2>1. b = a /\ Held(a) = {t}
    BY <1>2, <1>8, PoolHolders DEF Pool!Release
  <2>2. /\ Running(a)' = Running(a) \ {t}
        /\ Held(a)' \ Running(a)' = (Held(a) \ Running(a)) \ {t}
    BY <1>8, <2>1 DEF Pool!Release
  <2>3. QED
    BY <1>6, <2>1, <2>2, PoolHolders
<1>9. QED
  BY <1>2, <1>5, <1>7, <1>8 DEF Pool!Close, Pool!Take, Pool!Fail

\* An agent comes out of quarantine only when no task holds one of its slots.
THEOREM QuarantineHolds == Spec => QuarantineUntilDrained
BY DispatchInvariant, QuarantineStep, PTL DEF QuarantineUntilDrained, Spec

-----------------------------------------------------------------------------
(* No BROKEN agent is forgotten.                                           *)

\* A step that releases nobody, breaks no agent and loses no item, but those of agents
\* that are given up, loses track of nothing.
LEMMA TrackedQuiet ==
    ASSUME TypeOK, SlotInv, Tracked, UNCHANGED agentOf, abandoned \subseteq abandoned',
           \A b \in Agents : IsBroken(b)' => IsBroken(b),
           \A t \in Tasks : agentOf[t] # NoAgent /\ pc'[t] # "running" => pc[t] # "running",
           \A i \in Pending : i \in Pending' \/ i.agent = NoAgent \/ i.agent \in abandoned'
    PROVE  Tracked'
<1> USE DEF SlotInv
<1>1. ASSUME NEW t \in Tasks, agentOf'[t] # NoAgent, pc'[t] # "running"
      PROVE  agentOf'[t] \in abandoned' \/ \E i \in Pending' : i.by = t
  <2>1. CASE agentOf[t] \in abandoned
    BY <2>1
  <2>2. ASSUME NEW i \in Pending, i.by = t
        PROVE  agentOf'[t] \in abandoned' \/ \E j \in Pending' : j.by = t
    <3>1. i.agent # NoAgent /\ agentOf[t] = i.agent
      BY <2>2 DEF ItemsSettle, Settles
    <3>2. QED
      BY <2>2, <3>1
  <2>3. QED
    BY <1>1, <2>1, <2>2 DEF Tracked
<1>2. ASSUME NEW a \in Agents, IsBroken(a)', Held(a)' = {}
      PROVE  a \in abandoned' \/ \E i \in Pending' : i.agent = a
  <2>1. Held(a) = {} /\ a # NoAgent
    BY <1>2, RegistryAssumption DEF Held
  <2>2. QED
    BY <1>2, <2>1 DEF Tracked
<1>3. QED
  BY <1>1, <1>2 DEF Tracked

\* A reservation is made on an agent that is not BROKEN, and its task runs.
LEMMA TrackedReserve ==
    ASSUME TypeInv, SlotInv, Tracked, NEW t \in Tasks, NEW a \in Agents, SelectAgent(t, a)
    PROVE  Tracked'
<1> USE DEF TypeInv, TypeOK, SlotInv, Goto
<1>1. /\ pc[t] = "selecting" /\ agentOf[t] = NoAgent /\ a \in Available /\ a \in cards
      /\ Put(a, Tracking(Occupied(entry[a]), t))
      /\ cards' = cards /\ agentOf' = [agentOf EXCEPT ![t] = a]
      /\ pc' = [pc EXCEPT ![t] = "running"]
      /\ UNCHANGED <<queue, worker, abandoned>>
  BY WaitingHoldsNone DEF SelectAgent, Available, recoveryVars
<1>2. /\ \A b \in Agents : b # a => Held(b)' = Held(b)
      /\ \A b \in Agents : IsBroken(b)' <=> IsBroken(b)
      /\ ~IsBroken(a)
  BY <1>1, ReserveEffect
<1>3. Pending' = Pending
  BY <1>1 DEF Pending
<1>4. QED
  BY <1>1, <1>2, <1>3 DEF Tracked

\* A finished task needs no item; what it leaves on a BROKEN agent is another task.
LEMMA TrackedGiveBack ==
    ASSUME TypeInv, SlotInv, Tracked, NEW t \in Tasks, GiveBack(t),
           Goto(t, "returned") \/ Goto(t, "raised")
    PROVE  Tracked'
<1> USE DEF TypeInv, TypeOK, SlotInv, Goto
<1>0. PICK a \in Agents : agentOf[t] = a
  BY DEF GiveBack, HoldersKnown
<1>1. /\ a \in cards
      /\ Put(a, NotTracking(Released(entry[a])))
      /\ cards' = cards /\ agentOf' = [agentOf EXCEPT ![t] = NoAgent]
      /\ \A u \in Tasks : u # t => pc'[u] = pc[u]
      /\ UNCHANGED <<queue, worker, abandoned>>
  BY <1>0, RegistryAssumption DEF GiveBack, RunningUnchanged, HoldersKnown, recoveryVars
<1>2. /\ \A b \in Agents : Held(b)' = Held(b) \ {t}
      /\ \A b \in Agents : b # a => (IsBroken(b)' <=> IsBroken(b))
      /\ IsBroken(a)' <=> IsBroken(a) /\ Held(a) # {t}
  BY <1>0, <1>1, ReleaseEffect
<1>3. Pending' = Pending
  BY <1>1 DEF Pending
<1>4. ASSUME NEW b \in Agents, IsBroken(b)', Held(b)' = {}
      PROVE  IsBroken(b) /\ Held(b) = {}
  <2>1. t \in Held(a) /\ (b # a => t \notin Held(b))
    BY <1>0 DEF Held
  <2>2. QED
    BY <1>2, <1>4, <2>1
<1>5. QED
  BY <1>1, <1>3, <1>4 DEF Tracked

\* A failed task queues its item.
LEMMA TrackedHandOver ==
    ASSUME TypeInv, SlotInv, Tracked, NEW t \in Tasks, NEW r, NEW id, HandOver(t, r, id),
           Goto(t, "timedOut") \/ Goto(t, "raised")
    PROVE  Tracked'
<1> USE DEF TypeInv, TypeOK, SlotInv, Goto
<1>0. PICK a \in Agents : agentOf[t] = a
  BY DEF HandOver, HoldersKnown
<1> DEFINE item == [agent |-> a, by |-> t]
<1>1. /\ a \in cards
      /\ Put(a, NotTracking(Broken(entry[a], r, id)))
      /\ UNCHANGED <<cards, agentOf, worker, abandoned>>
      /\ \A u \in Tasks : u # t => pc'[u] = pc[u]
      /\ queue' = Append(queue, item)
  BY <1>0, RegistryAssumption
  DEF HandOver, Leave, RunningUnchanged, HoldersKnown, slotVars, recoveryVars
<1>2. /\ \A b \in Agents : Held(b)' = Held(b)
      /\ \A b \in Agents : IsBroken(b)' <=> IsBroken(b) \/ b = a
  BY <1>1, BreakEffect
<1>3. item \in Item /\ item.by = t /\ t \in Held(a)
  BY <1>0 DEF Item, Held
<1>4. Pending' = Pending \cup {item}
  BY <1>1, <1>3, PutItem
<1>5. QED
  BY <1>1, <1>2, <1>3, <1>4 DEF Tracked

\* The recovery settles one item: the task it stood for, or the agent that nothing held,
\* needs it no more.
LEMMA TrackedRecovered ==
    ASSUME TypeInv, SlotInv, Tracked, worker.at # "idle", Recovered
    PROVE  Tracked'
<1> USE DEF TypeInv, TypeOK, SlotInv
<1>0. PICK i \in Item : i = worker.item
  BY DEF Worker
<1>1. Settles(i) /\ i.agent # NoAgent /\ i.agent \in Agents
  BY <1>0, SlotRecovered DEF Pending, ItemsSettle, NoItemTwice, RegistryTypeOK
<1>2. /\ agentOf' = [t \in Tasks |-> IF t = i.by THEN NoAgent ELSE agentOf[t]]
      /\ UNCHANGED <<pc, abandoned>>
      /\ Pending' = Pending \ {i}
  BY <1>0, SlotRecovered DEF Recovered, WorkerUnchanged
<1>3. ASSUME NEW t \in Tasks, agentOf'[t] # NoAgent, pc'[t] # "running"
      PROVE  agentOf'[t] \in abandoned' \/ \E j \in Pending' : j.by = t
  BY <1>2, <1>3 DEF Tracked
<1>4. ASSUME NEW a \in Agents, IsBroken(a)', Held(a)' = {}
      PROVE  IsBroken(a) /\ Held(a) = {} /\ a # i.agent
  <2>1. CASE i.by \in Tasks
    <3>1. /\ Held(a)' = Held(a) \ {i.by}
          /\ IsBroken(a)' <=> IsBroken(a) /\ ~(a = i.agent /\ Held(a) = {i.by})
      BY <1>0, <2>1, SlotRecovered
    <3>2. agentOf[i.by] = i.agent
      BY <1>1, <2>1 DEF Settles
    <3>3. QED
      BY <1>4, <2>1, <3>1, <3>2 DEF Held
  <2>2. CASE i.by \notin Tasks
    BY <1>0, <1>4, <2>2, SlotRecovered
  <2>3. QED
    BY <2>1, <2>2
<1>5. QED
  BY <1>2, <1>3, <1>4 DEF Tracked

\* The worker drops the items of agents it gives up, and those that name no agent.
LEMMA TrackedRecovery ==
    ASSUME TypeInv, SlotInv, Tracked, Recovery
    PROVE  Tracked'
<1> USE DEF TypeInv, TypeOK, SlotInv, WorkerUnchanged, slotVars, recoveryVars
<1>1. CASE GiveUp \/ SkipUnknown
  <2>1. /\ TakeItem /\ UNCHANGED <<worker, cards, entry, agentOf, pc>>
        /\ abandoned \subseteq abandoned'
    BY <1>1 DEF GiveUp, SkipUnknown
  <2>2. Head(queue).agent = NoAgent \/ Head(queue).agent \in abandoned'
    <3>1. Head(queue) \in Pending
      BY <2>1, TailItems DEF TakeItem, Pending
    <3>2. Head(queue).agent # NoAgent => Head(queue).agent \in cards
      BY <3>1 DEF ItemsSettle, Settles, IsBroken
    <3>3. QED
      BY <1>1, <3>2 DEF GiveUp, SkipUnknown
  <2>3. \A i \in Pending : i \in Pending' \/ i = Head(queue)
    <3>1. \A p \in DOMAIN queue :
              queue[p] = Head(queue) \/ \E o \in DOMAIN queue' : queue'[o] = queue[p]
      BY <2>1, TailItems DEF TakeItem
    <3>2. QED
      BY <2>1, <3>1, PendingWhere
  <2>4. \A b \in Agents : IsBroken(b)' => IsBroken(b)
    BY <2>1 DEF IsBroken
  <2>5. QED
    BY <2>1, <2>2, <2>3, <2>4, TrackedQuiet
<1>2. ASSUME UNCHANGED <<cards, entry, agentOf, pc, abandoned>>, Pending' = Pending
      PROVE  Tracked'
  BY <1>2, TrackedQuiet DEF IsBroken
<1>3. CASE Attempt
  <2>1. /\ TakeItem /\ UNCHANGED <<cards, entry, agentOf, pc, abandoned>>
        /\ worker'.at # "idle" /\ worker'.item = Head(queue)
    BY <1>3 DEF Attempt
  <2>2. QED
    BY <1>2, <2>1, AttemptItem
<1>4. CASE CancelFailed
  <2>1. /\ UNCHANGED <<cards, entry, agentOf, pc, abandoned, queue>>
        /\ worker.at # "idle" /\ worker'.at # "idle" /\ worker'.item = worker.item
    BY <1>4 DEF CancelFailed, Worker
  <2>2. QED
    BY <1>2, <2>1 DEF Pending
<1>5. CASE FetchFails
  <2>1. /\ UNCHANGED <<cards, agentOf, pc, abandoned, queue>>
        /\ worker.at # "idle" /\ worker'.at # "idle" /\ worker'.item = worker.item
    BY <1>5 DEF FetchFails, Worker
  <2>2. Pending' = Pending
    BY <2>1 DEF Pending
  <2>3. PICK a \in cards : a = worker.item.agent /\ IsBroken(a)
    BY <2>1 DEF Pending, NoItemTwice, ItemsSettle, Settles, IsBroken
  <2>4. CASE Put(a, Broken(entry[a], "OFFLINE", NoTask))
    <3>1. \A b \in Agents : IsBroken(b)' <=> IsBroken(b)
      BY <2>1, <2>3, <2>4, BreakEffect
    <3>2. QED
      BY <2>1, <2>2, <3>1, TrackedQuiet
  <2>5. CASE UNCHANGED entry
    BY <1>2, <2>1, <2>2, <2>5
  <2>6. QED
    BY <1>5, <2>3, <2>4, <2>5 DEF FetchFails
<1>6. CASE Requeue
  BY <1>2, <1>6, RequeueItem DEF Requeue
<1>7. QED
  BY <1>1, <1>3, <1>4, <1>5, <1>6, TrackedRecovered
  DEF Recovery, CancelAccepted, FetchSucceeds

\* Every step keeps track of every task that failed and of every BROKEN agent.
LEMMA TrackedStep ==
    TypeInv /\ StatusMatchesSlots /\ SlotInv /\ Tracked /\ [Next]_vars => Tracked'
<1> SUFFICES ASSUME TypeInv, StatusMatchesSlots, SlotInv, Tracked, [Next]_vars
             PROVE  Tracked'
  OBVIOUS
<1> USE DEF TypeInv, registryVars, requestVars, slotVars, recoveryVars
<1>1. ASSUME UNCHANGED <<cards, entry, agentOf, worker, abandoned>>,
             \A i \in Pending : i \in Pending',
             \A t \in Tasks : pc'[t] = pc[t] \/ agentOf[t] = NoAgent
      PROVE  Tracked'
  BY <1>1, TrackedQuiet DEF IsBroken
<1>2. ASSUME NEW t \in Tasks,
             \/ Submit(t) \/ AcquireLock(t) \/ SelectNone(t) \/ SelectError(t)
             \/ Retry(t) \/ WaitTimeout(t) \/ StatusUpdate(t)
      PROVE  Tracked'
  <2>1. \A u \in Tasks : pc'[u] = pc[u] \/ agentOf[u] = NoAgent
    BY <1>2, WaitingHoldsNone
    DEF Submit, AcquireLock, SelectNone, SelectError, Retry, WaitTimeout, StatusUpdate,
        Goto, TypeOK
  <2>2. UNCHANGED <<cards, entry, agentOf, worker, abandoned>>
    BY <1>2 DEF Submit, AcquireLock, SelectNone, SelectError, Retry, WaitTimeout, StatusUpdate
  <2>3. \A i \in Pending : i \in Pending'
    <3>1. CASE SelectError(t)
      <4>1. NoItem \in Item
        BY DEF NoItem, Item
      <4>2. QED
        BY <2>2, <3>1, <4>1, PutItem DEF SelectError
    <3>2. CASE UNCHANGED queue
      BY <2>2, <3>2 DEF Pending
    <3>3. QED
      BY <1>2, <3>1, <3>2 DEF Submit, AcquireLock, SelectNone, Retry, WaitTimeout, StatusUpdate
  <2>4. QED
    BY <1>1, <2>1, <2>2, <2>3
<1>3. ASSUME NEW t \in Tasks, Request(t)
      PROVE  Tracked'
  <2>1. EndRun(t) => Tracked'
    BY EndRunKinds, TrackedGiveBack, TrackedHandOver
  <2>2. QED
    BY <1>2, <1>3, <2>1, TrackedReserve DEF Request, Select
<1>4. ASSUME NEW a \in Agents, Discover(a)
      PROVE  Tracked'
  <2>1. \A b \in Agents : IsBroken(b)' <=> IsBroken(b)
    BY <1>4, DiscoverEffect DEF SlotInv
  <2>2. UNCHANGED <<agentOf, abandoned, pc>> /\ Pending' = Pending
    BY <1>4 DEF Discover, Pending
  <2>3. QED
    BY <2>1, <2>2, TrackedQuiet
<1>5. ASSUME NEW a \in Agents, ProbeFailed(a), entry[a].status = "AVAILABLE"
      PROVE  Tracked'
  <2>1. /\ \A b \in Agents : IsBroken(b)' <=> IsBroken(b) \/ b = a
        /\ Pending' = Pending \cup {[agent |-> a, by |-> NoTask]}
        /\ \A b \in Agents : Held(b)' = Held(b)
    BY <1>5, SlotProbeFailed
  <2>2. UNCHANGED <<agentOf, abandoned, pc>>
    BY <1>5 DEF ProbeFailed
  <2>3. [agent |-> a, by |-> NoTask].agent = a
    OBVIOUS
  <2>4. \A i \in Pending : i \in Pending'
    BY <2>1
  <2>5. ASSUME NEW b \in Agents, IsBroken(b)', Held(b)' = {}
        PROVE  b \in abandoned' \/ \E i \in Pending' : i.agent = b
    <3>1. CASE b = a
      BY <2>1, <2>3, <3>1
    <3>2. CASE b # a
      BY <2>1, <2>2, <2>4, <2>5, <3>2 DEF Tracked
    <3>3. QED
      BY <3>1, <3>2
  <2>6. QED
    BY <2>2, <2>4, <2>5 DEF Tracked
<1>6. ASSUME UNCHANGED <<cards, entry, agentOf, worker, abandoned, queue, pc>>
      PROVE  Tracked'
  BY <1>1, <1>6 DEF Pending
<1>7. ASSUME NEW a \in Agents, Environment(a)
      PROVE  Tracked'
  BY <1>4, <1>5, <1>6, <1>7
  DEF Environment, ProbeAnswered, ProbeFailed, GoOffline, GoOnline
<1>8. CASE StartHealthCheck \/ UNCHANGED vars
  BY <1>6, <1>8 DEF StartHealthCheck, vars
<1>9. QED
  BY <1>3, <1>7, <1>8, TrackedRecovery DEF Next

\* An agent marked BROKEN is used again, or given up after 24 hours, but never forgotten:
\* an item for it is pending or a task still runs on it.
THEOREM BrokenNotForgotten == Spec => []BrokenIsTracked
<1>1. Init => Tracked
  BY RegistryAssumption DEF Init, RegistryInit, Tracked, IsBroken
<1>2. TypeInv /\ SlotInv /\ Tracked => BrokenIsTracked
  <2> SUFFICES ASSUME TypeInv, SlotInv, Tracked, NEW a \in cards, IsBroken(a),
                      Running(a) = {}
               PROVE  a \in abandoned \/ \E i \in Pending : i.agent = a
    BY DEF BrokenIsTracked
  <2>1. a \in Agents /\ a # NoAgent
    BY RegistryAssumption DEF TypeInv, TypeOK, RegistryTypeOK
  <2>2. ASSUME NEW t \in Held(a)
        PROVE  a \in abandoned \/ \E i \in Pending : i.agent = a
    <3>1. t \in Tasks /\ agentOf[t] = a /\ pc[t] # "running"
      BY <2>2 DEF Held, Running
    <3>2. \A i \in Pending : i.by = t => i.agent = a
      BY <3>1 DEF SlotInv, ItemsSettle, Settles
    <3>3. QED
      BY <2>1, <3>1, <3>2 DEF Tracked
  <2>3. QED
    BY <2>1, <2>2 DEF Tracked
<1>3. QED
  BY DispatchInvariant, TrackedStep, <1>1, <1>2, PTL DEF Spec

=============================================================================
