-------------------------- MODULE MCAgentExecutor --------------------------
(* Model values for AgentExecutor: requests are interchangeable. *)
EXTENDS AgentExecutor, TLC

Symmetric == Permutations(Requests)
=============================================================================
