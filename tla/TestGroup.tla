------------------------------ MODULE TestGroup ------------------------------
(***************************************************************************)
(* What a test group promises to the request that started it, whatever     *)
(* becomes of its agents, its workers and the dispatcher: it reports every *)
(* test once, in any order, and when it has ended no test is missing.      *)
(***************************************************************************)
EXTENDS Naturals

CONSTANT Tests

VARIABLES
    stage,      \* "idle", "running" or "ended"
    reported    \* how many results each test has

vars == <<stage, reported>>

Init ==
    /\ stage = "idle"
    /\ reported = [x \in Tests |-> 0]

Start ==
    /\ stage = "idle"
    /\ stage' = "running"
    /\ UNCHANGED reported

Report(x) ==
    /\ stage = "running"
    /\ reported[x] = 0
    /\ reported' = [reported EXCEPT ![x] = 1]
    /\ UNCHANGED stage

End ==
    /\ stage = "running"
    /\ \A x \in Tests : reported[x] = 1
    /\ stage' = "ended"
    /\ UNCHANGED reported

Next == Start \/ End \/ \E x \in Tests : Report(x)

Spec == Init /\ [][Next]_vars
=============================================================================
