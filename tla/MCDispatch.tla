----------------------------- MODULE MCDispatch -----------------------------
(* Model values for Dispatch: agents and tasks are interchangeable. *)
EXTENDS Dispatch, TLC

Symmetric == Permutations(Agents) \cup Permutations(Tasks)
=============================================================================
