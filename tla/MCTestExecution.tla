-------------------------- MODULE MCTestExecution --------------------------
(* Model values for TestExecution.  No symmetry: FreshId and SetToSeq choose. *)
EXTENDS TestExecution, TLC
=============================================================================
