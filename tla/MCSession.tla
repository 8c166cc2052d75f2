----------------------------- MODULE MCSession -----------------------------
(***************************************************************************)
(* Two sessions on one pool and one that streams; responses stand for the  *)
(* rows of the classifier that the properties tell apart.                  *)
(***************************************************************************)
EXTENDS Session, Conformance

MCUsages == {[write |-> 2, read |-> 0], [write |-> 1, read |-> 0], [write |-> 1, read |-> 1]}

Response(status, code, scope) ==
    [failed |-> FALSE, status |-> status, code |-> code, scope |-> scope]
MCResponses ==
    {Response(200, "", ""), Response(402, "insufficient_balance", "key"), Response(429, "", "")}

MCObservations ==
    [scenario : {"seen"}, phase : {"pre_output", "mid_stream"}, status : {401}, code : {"quota"},
     scope : {"key", "provider", "unknown"}, transport : {""}, partial : BOOLEAN,
     terminal : {TRUE}, decision : PolicyDecisions]
=============================================================================
