---------------------------- MODULE MCCollection ----------------------------
(***************************************************************************)
(* Three results with two possible payloads in two scopes; the first is     *)
(* also collected without a verification, the second in the other scope.   *)
(***************************************************************************)
EXTENDS Collection

MCExecutions == 1..3

Request(e, s, v) == [exec |-> e, scope |-> s, verified |-> v]

MCRequests == {Request(1, "s1", TRUE), Request(1, "s1", FALSE), Request(2, "s1", TRUE),
               Request(2, "s2", TRUE), Request(3, "s2", TRUE)}
=============================================================================
