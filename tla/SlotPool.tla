------------------------------- MODULE SlotPool -------------------------------
(***************************************************************************)
(* What the dispatcher promises about agents and their slots, without its  *)
(* lock, its model call, its recovery queue and its probes: a task takes a *)
(* slot of an open agent and keeps it until it is released; the failure of *)
(* a task closes its agent, which opens again with nothing left on it.     *)
(***************************************************************************)
EXTENDS Naturals, FiniteSets

CONSTANTS Agents, Tasks, MaxSlots

VARIABLES
    open,      \* agents that take tasks
    working,   \* the tasks that run on each agent
    stuck      \* the tasks that failed on each agent and still hold a slot

vars == <<open, working, stuck>>

Holders(a) == working[a] \cup stuck[a]

TypeOK ==
    /\ open \in SUBSET Agents
    /\ working \in [Agents -> SUBSET Tasks]
    /\ stuck \in [Agents -> SUBSET Tasks]

Init ==
    /\ open = {}
    /\ working = [a \in Agents |-> {}]
    /\ stuck = [a \in Agents |-> {}]

Open(a) ==
    /\ a \notin open
    /\ Holders(a) = {}
    /\ open' = open \cup {a}
    /\ UNCHANGED <<working, stuck>>

Close(a) ==
    /\ a \in open
    /\ Holders(a) = {}
    /\ open' = open \ {a}
    /\ UNCHANGED <<working, stuck>>

Take(a, t) ==
    /\ a \in open
    /\ \A b \in Agents : t \notin Holders(b)
    /\ Cardinality(Holders(a)) < MaxSlots
    /\ working' = [working EXCEPT ![a] = @ \cup {t}]
    /\ UNCHANGED <<open, stuck>>

Fail(a, t) ==
    /\ t \in working[a]
    /\ working' = [working EXCEPT ![a] = @ \ {t}]
    /\ stuck' = [stuck EXCEPT ![a] = @ \cup {t}]
    /\ open' = open \ {a}

\* The slot of a task that has ended or has been recovered; the last one opens the agent.
Release(a, t) ==
    /\ t \in Holders(a)
    /\ working' = [working EXCEPT ![a] = @ \ {t}]
    /\ stuck' = [stuck EXCEPT ![a] = @ \ {t}]
    /\ open' = IF Holders(a) = {t} THEN open \cup {a} ELSE open

Next ==
    \E a \in Agents :
        \/ Open(a) \/ Close(a)
        \/ \E t \in Tasks : Take(a, t) \/ Fail(a, t) \/ Release(a, t)

Spec == Init /\ [][Next]_vars
=============================================================================
