------------------------------ MODULE MCRagSync ------------------------------
(* Issues and syncs are interchangeable.                                   *)
EXTENDS RagSync, TLC

Symmetric == Permutations(Issues) \cup Permutations(Syncs)
=============================================================================
