---------------------------- MODULE AgentRegistry ----------------------------
(***************************************************************************)
(* The orchestrator's registry of remote agents (orchestrator/models.py,   *)
(* class AgentRegistry).  The code keeps five dictionaries keyed by agent; *)
(* here they are one entry record per agent.  Every method holds the       *)
(* registry's asyncio lock and awaits nothing while it does, so a call,    *)
(* and a run of consecutive calls, is one atomic step of the event loop;   *)
(* the methods are therefore operators on entries, which the actions of    *)
(* the modules that extend this one apply.                                 *)
(***************************************************************************)
EXTENDS Integers, FiniteSets

CONSTANTS
    Agents,     \* agent ids the discovery may register
    Tasks,      \* task ids (internal ids and A2A ids are identified)
    MaxSlots,   \* OrchestratorConfig.MAX_SLOTS_PER_AGENT
    NoAgent,    \* agent_id is None
    NoTask      \* no task id

ASSUME RegistryAssumption ==
    /\ MaxSlots \in Nat \ {0}
    /\ NoAgent \notin Agents
    /\ NoTask \notin Tasks
    /\ IsFiniteSet(Tasks)

VARIABLES
    cards,      \* the agents whose card is registered
    entry       \* what the registry keeps of each agent

Status == {"AVAILABLE", "BUSY", "BROKEN"}
Reason == {"None", "OFFLINE", "TASK_STUCK"}

Entry == [status : Status, slots : Nat, reason : Reason,
          stuck : Tasks \cup {NoTask}, tasks : SUBSET Tasks]

RegistryTypeOK ==
    /\ cards \in SUBSET Agents
    /\ entry \in [Agents -> Entry]

\* An agent nothing runs on: what register() stores.
Fresh == [status |-> "AVAILABLE", slots |-> 0, reason |-> "None",
          stuck |-> NoTask, tasks |-> {}]

RegistryInit ==
    /\ cards = {}
    /\ entry = [a \in Agents |-> Fresh]

-----------------------------------------------------------------------------
\* update_status(BUSY): one more slot is taken.
Occupied(e) == [e EXCEPT !.status = "BUSY", !.slots = @ + 1]

\* Seeded faults: the count is not clamped at 0; the status returns to AVAILABLE
\* while slots are still taken; it does not return with the last slot.
ReleasedUnclamped(e) == IF e.slots = 1 THEN Fresh ELSE [e EXCEPT !.slots = @ - 1]
ReleasedEarly(e) == [Fresh EXCEPT !.slots = IF e.slots = 0 THEN 0 ELSE e.slots - 1]
ReleasedKept(e) == [e EXCEPT !.slots = IF @ = 0 THEN 0 ELSE @ - 1]

\* update_status(AVAILABLE): one slot is given back; the last one clears the entry.
Released(e) == IF e.slots <= 1 THEN Fresh ELSE [e EXCEPT !.slots = @ - 1]

\* update_status(BROKEN, reason, id): a missing id leaves the recorded one.
Broken(e, reason, id) ==
    [e EXCEPT !.status = "BROKEN", !.reason = reason,
              !.stuck = IF id = NoTask THEN @ ELSE id]

\* set_current_task(id) and set_current_task(None).
Tracking(e, t)   == [e EXCEPT !.tasks = @ \cup {t}]
NotTracking(e)   == [e EXCEPT !.tasks = {}]

\* An update of an agent without a card is ignored.
Put(a, e) == entry' = IF a \in cards THEN [entry EXCEPT ![a] = e] ELSE entry

Register(a) ==
    /\ cards' = cards \cup {a}
    /\ entry' = IF a \in cards THEN entry ELSE [entry EXCEPT ![a] = Fresh]

-----------------------------------------------------------------------------
\* Seeded fault: one slot too many.
AvailableOneMore ==
    {a \in cards : entry[a].status # "BROKEN" /\ entry[a].slots <= MaxSlots}

\* get_available_agents(): not BROKEN and a slot is free.
Available == {a \in cards : entry[a].status # "BROKEN" /\ entry[a].slots < MaxSlots}

IsBroken(a) == a \in cards /\ entry[a].status = "BROKEN"
=============================================================================
