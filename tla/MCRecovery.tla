----------------------------- MODULE MCRecovery -----------------------------
(***************************************************************************)
(* Small instances of Recovery.  Execution ids are numbers, in the order in *)
(* which a pass goes through them.                                         *)
(***************************************************************************)
EXTENDS Recovery, TLC

Symmetry == Permutations(Callers) \cup Permutations(Steps)
=============================================================================
