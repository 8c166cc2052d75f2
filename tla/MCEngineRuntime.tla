-------------------------- MODULE MCEngineRuntime --------------------------
(***************************************************************************)
(* One execution, which two callers may invoke and cancel at once; nothing *)
(* in the runtime relates two executions.                                  *)
(***************************************************************************)
EXTENDS EngineRuntime, TLC

Symmetry == Permutations(Callers) \cup Permutations(Handles)
=============================================================================
