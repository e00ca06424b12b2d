---------------------------- MODULE MCTestCycle ----------------------------
(* Model values for TestExecution and TestCycle, which share no state: the  *)
(* initial state chooses which of the two levels a behaviour is about.      *)
EXTENDS TestExecution, TestCycle, TLC

VARIABLE level

BothInit == TestInit /\ CycleInit /\ level \in {"group", "cycle"}

BothNext ==
    \/ level = "group" /\ TestNext /\ UNCHANGED <<level, cycleVars>>
    \/ level = "cycle" /\ CycleNext /\ UNCHANGED <<level, allVars>>

BothSpec == BothInit /\ [][BothNext]_<<level, allVars, cycleVars>>
=============================================================================
