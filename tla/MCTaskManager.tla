--------------------------- MODULE MCTaskManager ---------------------------
(***************************************************************************)
(* Two callers race on a step of one task while the user acts and the      *)
(* process crashes.  Callers and checks are interchangeable.               *)
(***************************************************************************)
EXTENDS TaskManager, TLC

Symmetry == Permutations(Callers) \cup Permutations(Steps) \cup Permutations(Checks)
=============================================================================
