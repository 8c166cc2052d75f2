---------------------------- MODULE MCSupervisor ----------------------------
(***************************************************************************)
(* Two launches on one data directory; a request, and the same one under   *)
(* another key.                                                            *)
(***************************************************************************)
EXTENDS Desktop

MCRequests == {[key |-> "k1", task |-> "t", contract |-> "c1", form |-> "plain"],
               [key |-> "k2", task |-> "t", contract |-> "c1", form |-> "plain"]}
=============================================================================
