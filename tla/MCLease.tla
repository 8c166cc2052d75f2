------------------------------ MODULE MCLease ------------------------------
(***************************************************************************)
(* Processes that start, own, refresh, release and crash while the clock   *)
(* runs past the stale time.  Instances are interchangeable.               *)
(***************************************************************************)
EXTENDS Lease, TLC

Symmetry == Permutations(Instances)
=============================================================================
