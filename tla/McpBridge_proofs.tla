-------------------------- MODULE McpBridge_proofs --------------------------
(***************************************************************************)
(* Proofs about McpBridge: a call whose replay is forbidden reaches the    *)
(* server at most once, for any servers, callers, executions, operations   *)
(* and restarts; what the preflight accepts is safe, for every schema and  *)
(* every grant of scopes; the files of registry and manager open again and *)
(* give the memory that wrote them; and no secret of the broker reaches    *)
(* the journal, because redaction, longest secret first, leaves words only *)
(* of an answer that repeats one.                                          *)
(***************************************************************************)
EXTENDS McpBridge, FiniteSetTheorems, SequenceTheorems, WellFoundedInduction, TLAPS

-----------------------------------------------------------------------------
(* Calls and records. *)

Jobs == [at : {"viewed", "planned", "begun", "sent"}, op : Operations, tool : Tools,
         args : Arguments, policy : Policies]

States == {"absent", "started", "failed", "completed"}

\* A record of the journal, with whatever else it holds.
IsRecord(r) ==
  /\ {"state", "policy", "result", "error"} \subseteq DOMAIN r
  /\ r.state \in States /\ r.policy \in Policies \cup {"none"}

BridgeTyped ==
  /\ exec \in [Executions -> {Idle} \cup Jobs]
  /\ DOMAIN journal = Operations /\ \A o \in Operations : IsRecord(journal[o])
  /\ sends \in [Operations -> Nat]

\* The executions that have begun an operation and may still send it, or have
\* sent it and know of no end.
InHand(e, o) == (At(e, "begun") \/ At(e, "sent")) /\ exec[e].op = o

\* Before its first record nobody has an operation in hand and nothing was
\* sent.  A forbidden one is in one hand at most, and nothing was sent yet as
\* long as that hand may send it.
Alone(o) ==
  /\ journal[o].state = "absent" => sends[o] = 0 /\ \A e \in Executions : ~InHand(e, o)
  /\ journal[o].policy = "forbidden" =>
       /\ sends[o] <= 1
       /\ \A e \in Executions : At(e, "begun") /\ exec[e].op = o => sends[o] = 0
       /\ \A e, f \in Executions : InHand(e, o) /\ InHand(f, o) => e = f

SendInv == BridgeTyped /\ \A o \in Operations : Alone(o)

LEMMA SendInit == BridgeInit => SendInv
<1>. SUFFICES ASSUME BridgeInit PROVE SendInv
  OBVIOUS
<1>1. BridgeTyped
  BY DEF BridgeInit, BridgeTyped, IsRecord, NoRecord, States
<1>2. \A o \in Operations : Alone(o)
  BY DEF BridgeInit, Alone, InHand, At, Idle, NoRecord
<1>. QED  BY <1>1, <1>2 DEF SendInv

\* A call that goes on keeps what it carries.
LEMMA CallGoesOn ==
  ASSUME SendInv, NEW e \in Executions, exec[e] # Idle,
         NEW place \in {"planned", "begun", "sent"}, GoTo(e, place)
  PROVE  /\ exec' \in [Executions -> {Idle} \cup Jobs]
         /\ exec[e] \in Jobs /\ exec'[e] = [exec[e] EXCEPT !.at = place]
         /\ exec'[e].at = place /\ exec'[e].op = exec[e].op
         /\ \A f \in Executions \ {e} : exec'[f] = exec[f]
<1>1. exec[e] \in Jobs
  BY DEF SendInv, BridgeTyped
<1>2. [exec[e] EXCEPT !.at = place] \in Jobs
  BY <1>1 DEF Jobs
<1>3. /\ exec' = [exec EXCEPT ![e] = [exec[e] EXCEPT !.at = place]]
      /\ exec \in [Executions -> {Idle} \cup Jobs]
  BY DEF GoTo, SendInv, BridgeTyped
<1>4. exec'[e] = [exec[e] EXCEPT !.at = place] /\ exec' \in [Executions -> {Idle} \cup Jobs]
  BY <1>2, <1>3
<1>5. exec'[e].at = place /\ exec'[e].op = exec[e].op
  BY <1>1, <1>4 DEF Jobs
<1>6. \A f \in Executions \ {e} : exec'[f] = exec[f]
  BY <1>3
<1>. QED  BY <1>1, <1>4, <1>5, <1>6

\* A call that returns leaves the others alone.
LEMMA CallReturns ==
  ASSUME SendInv, NEW e \in Executions, Return(e)
  PROVE  /\ exec' \in [Executions -> {Idle} \cup Jobs] /\ exec'[e] = Idle
         /\ \A f \in Executions \ {e} : exec'[f] = exec[f]
BY DEF SendInv, BridgeTyped, Return

\* Neither a new call nor one that gives up has anything in hand: what was
\* held before is all that is held.
LEMMA OthersHold ==
  ASSUME SendInv, NEW e \in Executions, exec'[e].at \in {"idle", "viewed", "planned"},
         \A f \in Executions \ {e} : exec'[f] = exec[f]
  PROVE  \A f \in Executions, o \in Operations :
           /\ InHand(f, o)' => InHand(f, o)
           /\ At(f, "begun")' => At(f, "begun") /\ exec'[f] = exec[f]
BY DEF InHand, At

\* A record that changes its outcome only.
LEMMA OutcomeChanges ==
  ASSUME SendInv, NEW o \in Operations, NEW rec, Record(o, rec),
         IsRecord(rec), rec.policy = journal[o].policy, rec.state # "absent"
  PROVE  /\ DOMAIN journal' = Operations /\ \A p \in Operations : IsRecord(journal'[p])
         /\ journal'[o].state # "absent"
         /\ \A p \in Operations : journal'[p].policy = journal[p].policy
         /\ \A p \in Operations \ {o} : journal'[p] = journal[p]
BY DEF SendInv, BridgeTyped, Record

\* A call comes to its end, with an outcome of its operation or without.
LEMMA CallEnds ==
  ASSUME SendInv, NEW e \in Executions, Return(e), UNCHANGED sends,
         DOMAIN journal' = Operations, \A p \in Operations : IsRecord(journal'[p]),
         \A p \in Operations : journal'[p].policy = journal[p].policy,
         \A p \in Operations : journal'[p].state = "absent" => journal[p].state = "absent"
  PROVE  SendInv'
<1>1. /\ exec' \in [Executions -> {Idle} \cup Jobs] /\ exec'[e].at = "idle"
      /\ \A f \in Executions \ {e} : exec'[f] = exec[f]
  BY CallReturns DEF Idle
<1>2. \A f \in Executions, o \in Operations :
         /\ InHand(f, o)' => InHand(f, o)
         /\ At(f, "begun")' => At(f, "begun") /\ exec'[f] = exec[f]
  BY <1>1, OthersHold
<1>3. BridgeTyped'
  BY <1>1 DEF SendInv, BridgeTyped
<1>4. ASSUME NEW o \in Operations PROVE Alone(o)'
  BY <1>2 DEF SendInv, Alone
<1>. QED  BY <1>3, <1>4 DEF SendInv

LEMMA SendStep == SendInv /\ [BridgeNext]_vars => SendInv'
<1>. SUFFICES ASSUME SendInv, [BridgeNext]_vars PROVE SendInv'
  OBVIOUS
<1>0. ASSUME NEW e \in Executions, exec[e] # Idle
      PROVE  exec[e] \in Jobs /\ exec[e].op \in Operations /\ exec[e].policy \in Policies
  BY <1>0 DEF SendInv, BridgeTyped, Jobs
<1>1. CASE UNCHANGED bridgeVars
  BY <1>1 DEF bridgeVars, SendInv, BridgeTyped, Alone, InHand, At
<1>2. ASSUME NEW e \in Executions, NEW op \in Operations, NEW tool \in Tools,
             NEW args \in Arguments, NEW policy \in Policies, Execute(e, op, tool, args, policy)
      PROVE  SendInv'
  <2>1. /\ exec' = [exec EXCEPT ![e] = Viewed(op, tool, args, policy)]
        /\ Viewed(op, tool, args, policy) \in Jobs
        /\ Viewed(op, tool, args, policy).at = "viewed"
    BY <1>2 DEF Execute, Viewed, Jobs
  <2>2. /\ exec' \in [Executions -> {Idle} \cup Jobs] /\ exec'[e].at = "viewed"
        /\ \A f \in Executions \ {e} : exec'[f] = exec[f]
    BY <2>1 DEF SendInv, BridgeTyped
  <2>3. \A f \in Executions, o \in Operations :
           /\ InHand(f, o)' => InHand(f, o)
           /\ At(f, "begun")' => At(f, "begun") /\ exec'[f] = exec[f]
    BY <2>2, OthersHold
  <2>4. UNCHANGED <<journal, sends>>
    BY <1>2 DEF Execute
  <2>. QED  BY <2>2, <2>3, <2>4 DEF SendInv, BridgeTyped, Alone
<1>3. ASSUME NEW e \in Executions, EffectivePolicy(e) PROVE SendInv'
  <2>1. UNCHANGED <<journal, sends>> /\ exec[e] # Idle
    BY <1>3 DEF EffectivePolicy, At, Idle
  <2>2. CASE Return(e)
    BY <2>1, <2>2, CallEnds DEF SendInv, BridgeTyped
  <2>3. CASE GoTo(e, "planned")
    <3>1. /\ exec' \in [Executions -> {Idle} \cup Jobs] /\ exec'[e].at = "planned"
          /\ \A f \in Executions \ {e} : exec'[f] = exec[f]
      BY <2>1, <2>3, CallGoesOn
    <3>2. \A f \in Executions, o \in Operations :
             /\ InHand(f, o)' => InHand(f, o)
             /\ At(f, "begun")' => At(f, "begun") /\ exec'[f] = exec[f]
      BY <3>1, OthersHold
    <3>. QED  BY <2>1, <3>1, <3>2 DEF SendInv, BridgeTyped, Alone
  <2>. QED  BY <1>3, <2>2, <2>3 DEF EffectivePolicy
<1>4. ASSUME NEW e \in Executions, Begin(e) PROVE SendInv'
  <2>1. UNCHANGED sends /\ exec[e] # Idle /\ exec[e].at = "planned"
    BY <1>4 DEF Begin, At, Idle
  <2>0. PICK o \in Operations : o = exec[e].op
    BY <1>0, <2>1
  <2>2. exec[e] \in Jobs /\ exec[e].policy \in Policies
    BY <1>0, <2>1
  <2>3. CASE Return(e) /\ UNCHANGED journal
    BY <2>1, <2>3, CallEnds DEF SendInv, BridgeTyped
  <2>4. CASE /\ ~Completed(o) /\ ~Ambiguous(exec[e])
             /\ GoTo(e, "begun") /\ Record(o, Started(exec[e]))
    <3>1. /\ exec' \in [Executions -> {Idle} \cup Jobs]
          /\ exec'[e].at = "begun" /\ exec'[e].op = o
          /\ \A f \in Executions \ {e} : exec'[f] = exec[f]
      BY <2>0, <2>1, <2>4, CallGoesOn
    <3>2. /\ IsRecord(Started(exec[e])) /\ Started(exec[e]).state = "started"
          /\ Started(exec[e]).policy = exec[e].policy
      BY <2>0, <2>2 DEF IsRecord, Started, States
    <3>3. /\ DOMAIN journal' = Operations /\ journal'[o] = Started(exec[e])
          /\ \A p \in Operations \ {o} : journal'[p] = journal[p]
      BY <2>0, <2>2, <2>4 DEF Record, SendInv, BridgeTyped
    <3>4. BridgeTyped'
      BY <2>1, <3>1, <3>2, <3>3 DEF SendInv, BridgeTyped
    <3>5. ASSUME NEW p \in Operations \ {o} PROVE Alone(p)'
      BY <2>1, <3>1, <3>3 DEF SendInv, Alone, InHand, At
    <3>6. Alone(o)'
      <4>1. journal[o].state \in States /\ journal[o].policy \in Policies \cup {"none"}
        BY <2>0, <2>2 DEF SendInv, BridgeTyped, IsRecord
      <4>2. CASE journal[o].state = "absent"
        BY <2>1, <2>0, <2>2, <3>1, <3>2, <3>3, <4>2 DEF SendInv, Alone, InHand, At
      <4>3. CASE journal[o].state # "absent"
        <5>1. exec[e].policy # "forbidden"
          BY <2>0, <2>4, <4>1, <4>3 DEF Completed, Ambiguous, States
        <5>. QED  BY <2>0, <2>2, <3>2, <3>3, <5>1 DEF Alone
      <4>. QED  BY <4>2, <4>3
    <3>. QED  BY <2>0, <2>2, <3>4, <3>5, <3>6 DEF SendInv
  <2>. QED  BY <1>4, <2>0, <2>3, <2>4 DEF Begin
<1>5. ASSUME NEW e \in Executions, Send(e) PROVE SendInv'
  <2>1. UNCHANGED journal /\ exec[e] # Idle /\ exec[e].at = "begun" /\ GoTo(e, "sent")
    BY <1>5 DEF Send, At, Idle
  <2>2. PICK o \in Operations : o = exec[e].op
    BY <1>0, <2>1
  <2>3. /\ exec' \in [Executions -> {Idle} \cup Jobs]
        /\ exec'[e].at = "sent" /\ exec'[e].op = o
        /\ \A f \in Executions \ {e} : exec'[f] = exec[f]
    BY <2>1, <2>2, CallGoesOn
  <2>4. /\ sends' \in [Operations -> Nat] /\ sends'[o] = sends[o] + 1
        /\ \A p \in Operations \ {o} : sends'[p] = sends[p]
    BY <1>5, <2>2 DEF Send, SendInv, BridgeTyped
  <2>5. InHand(e, o) /\ journal[o].state # "absent"
    BY <2>1, <2>2 DEF SendInv, Alone, InHand, At
  <2>6. BridgeTyped'
    BY <2>1, <2>3, <2>4 DEF SendInv, BridgeTyped
  <2>7. ASSUME NEW p \in Operations \ {o} PROVE Alone(p)'
    BY <2>1, <2>3, <2>4 DEF SendInv, Alone, InHand, At
  <2>8. Alone(o)'
    BY <2>1, <2>2, <2>3, <2>4, <2>5 DEF SendInv, Alone, InHand, At
  <2>. QED  BY <2>2, <2>6, <2>7, <2>8 DEF SendInv
<1>6. ASSUME NEW e \in Executions, exec[e].at \in {"begun", "sent"}, Return(e), UNCHANGED sends,
             NEW rec, Record(exec[e].op, rec),
             IsRecord(journal[exec[e].op]) =>
                /\ IsRecord(rec) /\ rec.state # "absent" /\ rec.policy = journal[exec[e].op].policy
      PROVE  SendInv'
  <2>1. exec[e].op \in Operations
    BY <1>0, <1>6 DEF Idle
  <2>2. IsRecord(journal[exec[e].op])
    BY <2>1 DEF SendInv, BridgeTyped
  <2>3. /\ DOMAIN journal' = Operations /\ \A p \in Operations : IsRecord(journal'[p])
        /\ journal'[exec[e].op].state # "absent"
        /\ \A p \in Operations : journal'[p].policy = journal[p].policy
        /\ \A p \in Operations \ {exec[e].op} : journal'[p] = journal[p]
    BY <1>6, <2>1, <2>2, OutcomeChanges
  <2>. QED  BY <1>6, <2>3, CallEnds
<1>7. ASSUME NEW o, NEW st \in {"failed", "completed"}, NEW rec, IsRecord(journal[o]),
             \/ \E text : rec = [journal[o] EXCEPT !.state = st, !.error = text]
             \/ \E text : rec = [journal[o] EXCEPT !.state = st, !.result = text, !.error = None]
      PROVE  IsRecord(rec) /\ rec.state # "absent" /\ rec.policy = journal[o].policy
  BY <1>7 DEF IsRecord, States
<1>8. ASSUME NEW e \in Executions, BreakOff(e) PROVE SendInv'
  <2>1. CASE \E text : Fail(exec[e].op, text)
    <3>1. PICK text : Fail(exec[e].op, text)
      BY <2>1
    <3>. QED  BY <1>6, <1>7, <1>8, <3>1 DEF BreakOff, Fail, At
  <2>2. CASE UNCHANGED journal
    BY <1>8, <2>2, CallEnds DEF BreakOff, SendInv, BridgeTyped
  <2>. QED  BY <1>8, <2>1, <2>2 DEF BreakOff
<1>9. ASSUME NEW e \in Executions, ToolFails(e) PROVE SendInv'
  <2>1. PICK text : Fail(exec[e].op, text)
    BY <1>9 DEF ToolFails
  <2>. QED  BY <1>6, <1>7, <1>9, <2>1 DEF ToolFails, Fail, At
<1>10. ASSUME NEW e \in Executions, NEW text, Complete(e, text) PROVE SendInv'
  <2>1. PICK result : Record(exec[e].op, [journal[exec[e].op] EXCEPT !.state = "completed",
                                                                     !.result = result, !.error = None])
    BY <1>10 DEF Complete
  <2>. QED  BY <1>6, <1>7, <1>10, <2>1 DEF Complete, At
<1>11. CASE Crash
  <2>1. exec' = [e \in Executions |-> Idle] /\ UNCHANGED <<journal, sends>>
    BY <1>11 DEF Crash
  <2>2. \A f \in Executions, o \in Operations : ~InHand(f, o)' /\ ~At(f, "begun")'
    BY <2>1 DEF InHand, At, Idle
  <2>. QED  BY <2>1, <2>2 DEF SendInv, BridgeTyped, Alone
<1>. QED
  BY <1>1, <1>2, <1>3, <1>4, <1>5, <1>8, <1>9, <1>10, <1>11
     DEF BridgeNext, ExecStep, vars, bridgeVars

\* A forbidden operation reaches the server at most once, for any executions
\* that share its identity, any answers and any number of restarts (Bridge.Execute
\* over Journal.Begin, Complete and Fail).
THEOREM ForbiddenCallIsSentOnce == Spec => []ForbiddenSentOnce
<1>1. SendInv => ForbiddenSentOnce
  BY DEF SendInv, Alone, ForbiddenSentOnce
<1>. QED  BY <1>1, SendInit, SendStep, PTL DEF Spec

-----------------------------------------------------------------------------
(* The preflight. *)

IsSchema(schema) ==
  \A f \in DOMAIN schema.fields : schema.fields[f].reference \in BOOLEAN

Kinds == {"string", "number", "malformed", "reference", "object", "array"}

LEMMA KindsOfValues == \A v \in Values : v.kind \in Kinds
<1>1. \A v \in Leaves : v.kind \in Kinds
  BY DEF Leaves, Text, Number, Malformed, Reference, Kinds
<1>2. ASSUME NEW S PROVE \A v \in Around(S) : v.kind \in Kinds
  BY DEF Around, Kinds
<1>. QED  BY <1>1, <1>2 DEF Values

\* For every schema and every grant: what the preflight accepts the broker can
\* resolve when the call is sent, from granted scopes only, into fields that ask for
\* a secret and, only where the schema allows unknown fields (AllowUnknown), into
\* undeclared ones; no sensitive declared field is shown (ValidateToolArguments, PlanArguments, ResolveArguments,
\* redactedArguments; AcceptedIsSafe).
THEOREM PreflightIsSafe ==
  ASSUME NEW schema, IsSchema(schema), NEW scopes \in SUBSET Scopes, NEW args \in ArgumentMaps
  PROVE  AcceptedIsSafe(schema, scopes, args)
<1>. SUFFICES ASSUME Accepts(schema, scopes, args)
              PROVE  /\ Resolves(scopes, args)
                     /\ \A f \in DOMAIN args :
                          ResolveArguments(args)[f] # args[f] =>
                            /\ Leaf(args[f]).scope \in scopes
                            /\ IF f \in DOMAIN schema.fields THEN schema.fields[f].reference ELSE schema.unknown
                     /\ \A f \in DOMAIN schema.fields \cap DOMAIN args :
                          schema.fields[f].sensitive => RedactedArguments(schema, args)[f] # args[f]
  BY DEF AcceptedIsSafe
<1>1. \A f \in DOMAIN args : args[f] \in Values
  BY DEF ArgumentMaps
<1>2. \A f \in DOMAIN args : IsReference(args[f]) => Authorized(scopes, Leaf(args[f]))
  BY DEF Accepts, PlanArguments, CollectReferences, IsReference
<1>3. Resolves(scopes, args)
  BY <1>2 DEF Accepts, WellFormed, Resolves
<1>4. ASSUME NEW f \in DOMAIN args, ResolveArguments(args)[f] # args[f]
      PROVE  /\ Leaf(args[f]).scope \in scopes
             /\ IF f \in DOMAIN schema.fields THEN schema.fields[f].reference ELSE schema.unknown
  <2>1. IsReference(args[f])
    BY <1>4 DEF ResolveArguments
  <2>2. Leaf(args[f]).scope \in scopes
    BY <1>2, <2>1 DEF Authorized
  <2>3. ASSUME f \in DOMAIN schema.fields PROVE schema.fields[f].reference
    BY <2>1, <2>3 DEF Accepts, ValidateToolArguments, ValidateField, IsReference, IsSchema
  <2>4. ASSUME f \notin DOMAIN schema.fields PROVE schema.unknown
    BY <2>4 DEF Accepts, ValidateToolArguments
  <2>. QED  BY <2>2, <2>3, <2>4
<1>5. ASSUME NEW f \in DOMAIN schema.fields \cap DOMAIN args, schema.fields[f].sensitive
      PROVE  RedactedArguments(schema, args)[f] # args[f]
  <2>1. RedactedArguments(schema, args)[f] = [kind |-> "hidden"]
    BY <1>5 DEF RedactedArguments, Hides
  <2>2. args[f].kind # "hidden"
    BY <1>1, KindsOfValues DEF Kinds
  <2>. QED  BY <2>1, <2>2
<1>. QED  BY <1>3, <1>4, <1>5
-----------------------------------------------------------------------------
(* Replay: what load makes of a file. *)

\* The first of the numbers for which something is so.
LEMMA FirstOf ==
  ASSUME NEW T \in SUBSET Nat, T # {}
  PROVE  \E x \in T : \A y \in T : ~(y < x)
<1>1. PICK x \in T : \A y \in T : ~(<<y, x>> \in OpToRel(<, Nat))
  BY NatLessThanWellFounded, WFMin
<1>. QED  BY <1>1 DEF OpToRel

\* Two replays that go on alike are the same: no first line tells them apart.
LEMMA OneReplay ==
  ASSUME NEW n \in Nat, NEW g, NEW h, g[0] = h[0],
         \A k \in 1..n : g[k - 1] = h[k - 1] => g[k] = h[k]
  PROVE  \A k \in 0..n : g[k] = h[k]
<1>. DEFINE Apart == {k \in 0..n : g[k] # h[k]}
<1>1. ASSUME Apart # {} PROVE FALSE
  <2>1. Apart \in SUBSET Nat
    OBVIOUS
  <2>2. PICK x \in Apart : \A y \in Apart : ~(y < x)
    BY <1>1, <2>1, FirstOf
  <2>3. x \in 1..n /\ x - 1 \in 0..n /\ x - 1 < x
    OBVIOUS
  <2>4. g[x - 1] = h[x - 1]
    BY <2>2, <2>3
  <2>. QED  BY <2>3, <2>4
<1>. QED  BY <1>1

\* g is what step makes of base along the first n lines of a file.
Steps(g, R, step, base, file, n) ==
  /\ g \in [0..n -> R] /\ g[0] = base
  /\ \A k \in 1..n : g[k] = step[<<g[k - 1], file[k]>>]

\* Every file has a replay: no first line is in its way.
LEMMA ReplayExists ==
  ASSUME NEW R, NEW E, NEW base \in R, NEW step \in [R \X E -> R], NEW file \in Seq(E)
  PROVE  \E g : Steps(g, R, step, base, file, Len(file))
<1>. DEFINE Stuck == {n \in 0..Len(file) : ~\E g : Steps(g, R, step, base, file, n)}
<1>1. ASSUME Stuck # {} PROVE FALSE
  <2>1. Stuck \in SUBSET Nat
    OBVIOUS
  <2>2. PICK x \in Stuck : \A y \in Stuck : ~(y < x)
    BY <1>1, <2>1, FirstOf
  <2>3. x \in 0..Len(file) /\ ~\E g : Steps(g, R, step, base, file, x)
    OBVIOUS
  <2>4. CASE x = 0
    <3>1. Steps([k \in 0..0 |-> base], R, step, base, file, 0)
      BY DEF Steps
    <3>. QED  BY <2>3, <2>4, <3>1
  <2>5. CASE x # 0
    <3>1. x - 1 \in 0..Len(file) /\ x - 1 < x /\ x \in 1..Len(file)
      BY <2>3, <2>5
    <3>2. PICK g : Steps(g, R, step, base, file, x - 1)
      BY <2>2, <3>1
    <3>3. file[x] \in E /\ g[x - 1] \in R
      BY <3>1, <3>2 DEF Steps
    <3>. DEFINE next == step[<<g[x - 1], file[x]>>]
                h == [k \in 0..x |-> IF k = x THEN next ELSE g[k]]
    <3>4. next \in R
      BY <3>3
    <3>5. Steps(h, R, step, base, file, x)
      <4>1. \A k \in 0..(x - 1) : h[k] = g[k] /\ k # x
        BY <3>1
      <4>2. h \in [0..x -> R] /\ h[0] = base
        BY <3>1, <3>2, <3>4, <4>1 DEF Steps
      <4>3. h[x] = step[<<h[x - 1], file[x]>>]
        <5>1. x \in 0..x /\ x - 1 \in 0..(x - 1)
          BY <3>1
        <5>2. h[x] = next /\ h[x - 1] = g[x - 1]
          BY <4>1, <5>1
        <5>. QED  BY <5>2
      <4>4. \A k \in 1..(x - 1) : h[k] = step[<<h[k - 1], file[k]>>]
        <5>1. \A k \in 1..(x - 1) : k \in 0..(x - 1) /\ k - 1 \in 0..(x - 1)
          BY <3>1
        <5>. HIDE DEF h
        <5>. QED  BY <3>2, <4>1, <5>1 DEF Steps
      <4>5. \A k \in 1..x : k = x \/ k \in 1..(x - 1)
        BY <3>1
      <4>. HIDE DEF h
      <4>. QED  BY <4>2, <4>3, <4>4, <4>5 DEF Steps
    <3>. QED  BY <2>3, <3>5
  <2>. QED  BY <2>4, <2>5
<1>2. Len(file) \in 0..Len(file)
  OBVIOUS
<1>. QED  BY <1>1, <1>2

-----------------------------------------------------------------------------
(* The files of the registry and of the manager. *)

Registries == [contract : Contracts \cup {None}, schema : Schemas \cup {None}]

RegistryEvents ==
  [kind : {"registered"}, value : Contracts] \cup [kind : {"discovered"}, value : Schemas]

Approvals == [schema : Schemas, tools : SUBSET Tools]

Observations == [binding : Bindings, status : Statuses]

Managers ==
  [binding : Bindings \cup {None}, enabled : BOOLEAN, approval : Approvals \cup {None},
   health : Observations \cup {None}]

ManagerEvents ==
  [kind : {"bound"}, value : Bindings]
    \cup [kind : {"rebound"}, value : Bindings, previous : Bindings]
    \cup [kind : {"enabled", "disabled"}]
    \cup [kind : {"approved"}, value : Approvals]
    \cup [kind : {"health"}, value : Observations]

LEMMA RegistryAfterTypes ==
  ASSUME NEW r \in Registries, NEW ev \in RegistryEvents
  PROVE  RegistryAfter(r, ev) \in Registries
BY DEF Registries, RegistryEvents, RegistryAfter

LEMMA ManagerAfterTypes ==
  ASSUME NEW m \in Managers, NEW ev \in ManagerEvents
  PROVE  ManagerAfter(m, ev) \in Managers
<1>1. CASE ev.kind = "bound" /\ ev.value \in Bindings
  BY <1>1 DEF Managers, ManagerAfter
<1>2. CASE ev.kind = "rebound" /\ ev.value \in Bindings
  BY <1>2 DEF Managers, ManagerAfter
<1>3. CASE ev.kind \in {"enabled", "disabled"}
  BY <1>3 DEF Managers, ManagerAfter
<1>4. CASE ev.kind = "approved" /\ ev.value \in Approvals
  BY <1>4 DEF Managers, ManagerAfter
<1>5. CASE ev.kind = "health" /\ ev.value \in Observations
  BY <1>5 DEF Managers, ManagerAfter
<1>. QED  BY <1>1, <1>2, <1>3, <1>4, <1>5 DEF ManagerEvents

\* RegistryReplay is the function its definition asks for.
LEMMA RegistryReplays ==
  ASSUME NEW file \in Seq(RegistryEvents)
  PROVE  LET g == RegistryReplay(file)
         IN  /\ g \in [0..Len(file) -> Registries] /\ g[0] = Unregistered
             /\ \A k \in 1..Len(file) : g[k] = RegistryAfter(g[k - 1], file[k])
<1>. DEFINE step == [p \in Registries \X RegistryEvents |-> RegistryAfter(p[1], p[2])]
            Solves(g) == g = [k \in 0..Len(file) |->
                                IF k = 0 THEN Unregistered ELSE RegistryAfter(g[k - 1], file[k])]
<1>1. step \in [Registries \X RegistryEvents -> Registries] /\ Unregistered \in Registries
  BY RegistryAfterTypes DEF Registries, Unregistered
<1>2. PICK g : Steps(g, Registries, step, Unregistered, file, Len(file))
  BY <1>1, ReplayExists
<1>3. \A k \in 1..Len(file) : k - 1 \in 0..Len(file) /\ file[k] \in RegistryEvents
  OBVIOUS
<1>4. \A k \in 1..Len(file) : g[k] = RegistryAfter(g[k - 1], file[k])
  BY <1>2, <1>3 DEF Steps
<1>5. Solves(g)
  BY <1>2, <1>4 DEF Steps
<1>6. RegistryReplay(file) = CHOOSE h : Solves(h)
  BY Zenon DEF RegistryReplay
<1>7. Solves(RegistryReplay(file))
  BY <1>5, <1>6
<1>. DEFINE f == RegistryReplay(file)
<1>8. /\ DOMAIN f = 0..Len(file) /\ f[0] = Unregistered
      /\ \A k \in 1..Len(file) : f[k] = RegistryAfter(f[k - 1], file[k])
      /\ f = [k \in 0..Len(file) |-> f[k]]
  BY <1>7
<1>. HIDE DEF f, Solves
<1>9. \A k \in 0..Len(file) : f[k] = g[k]
  <2>1. \A k \in 1..Len(file) : f[k - 1] = g[k - 1] => f[k] = g[k]
    BY <1>4, <1>8
  <2>2. f[0] = g[0] /\ Len(file) \in Nat
    BY <1>2, <1>8 DEF Steps
  <2>. QED  BY <2>1, <2>2, OneReplay
<1>10. f \in [0..Len(file) -> Registries]
  BY <1>2, <1>8, <1>9 DEF Steps
<1>. QED  BY <1>8, <1>10 DEF f

LEMMA ManagerReplays ==
  ASSUME NEW file \in Seq(ManagerEvents)
  PROVE  LET g == ManagerReplay(file)
         IN  /\ g \in [0..Len(file) -> Managers] /\ g[0] = Unbound
             /\ \A k \in 1..Len(file) : g[k] = ManagerAfter(g[k - 1], file[k])
<1>. DEFINE step == [p \in Managers \X ManagerEvents |-> ManagerAfter(p[1], p[2])]
            Solves(g) == g = [k \in 0..Len(file) |->
                                IF k = 0 THEN Unbound ELSE ManagerAfter(g[k - 1], file[k])]
<1>1. step \in [Managers \X ManagerEvents -> Managers] /\ Unbound \in Managers
  BY ManagerAfterTypes DEF Managers, Unbound
<1>2. PICK g : Steps(g, Managers, step, Unbound, file, Len(file))
  BY <1>1, ReplayExists
<1>3. \A k \in 1..Len(file) : k - 1 \in 0..Len(file) /\ file[k] \in ManagerEvents
  OBVIOUS
<1>4. \A k \in 1..Len(file) : g[k] = ManagerAfter(g[k - 1], file[k])
  BY <1>2, <1>3 DEF Steps
<1>5. Solves(g)
  BY <1>2, <1>4 DEF Steps
<1>6. ManagerReplay(file) = CHOOSE h : Solves(h)
  BY Zenon DEF ManagerReplay
<1>7. Solves(ManagerReplay(file))
  BY <1>5, <1>6
<1>. DEFINE f == ManagerReplay(file)
<1>8. /\ DOMAIN f = 0..Len(file) /\ f[0] = Unbound
      /\ \A k \in 1..Len(file) : f[k] = ManagerAfter(f[k - 1], file[k])
      /\ f = [k \in 0..Len(file) |-> f[k]]
  BY <1>7
<1>. HIDE DEF f, Solves
<1>9. \A k \in 0..Len(file) : f[k] = g[k]
  <2>1. \A k \in 1..Len(file) : f[k - 1] = g[k - 1] => f[k] = g[k]
    BY <1>4, <1>8
  <2>2. f[0] = g[0] /\ Len(file) \in Nat
    BY <1>2, <1>8 DEF Steps
  <2>. QED  BY <2>1, <2>2, OneReplay
<1>10. f \in [0..Len(file) -> Managers]
  BY <1>2, <1>8, <1>9 DEF Steps
<1>. QED  BY <1>8, <1>10 DEF f

\* A line more changes nothing of what the lines before it made.
RegistryGrown(file, longer, ev) ==
  /\ longer \in Seq(RegistryEvents) /\ Len(longer) = Len(file) + 1
  /\ longer[Len(longer)] = ev /\ \A k \in 1..Len(file) : longer[k] = file[k]
  /\ \A k \in 0..Len(file) : RegistryReplay(longer)[k] = RegistryReplay(file)[k]
  /\ RegistryReplay(longer)[Len(longer)] = RegistryAfter(RegistryReplay(file)[Len(file)], ev)

LEMMA RegistryGrows ==
  ASSUME NEW file \in Seq(RegistryEvents), NEW ev \in RegistryEvents,
         NEW longer, longer = Append(file, ev)
  PROVE  RegistryGrown(file, longer, ev)
<1>1. /\ longer \in Seq(RegistryEvents) /\ Len(longer) = Len(file) + 1 /\ Len(file) \in Nat
      /\ longer[Len(longer)] = ev /\ \A k \in 1..Len(file) : longer[k] = file[k]
  OBVIOUS
<1>. DEFINE g == RegistryReplay(longer)
            h == RegistryReplay(file)
<1>2. g[0] = Unregistered /\ \A k \in 1..Len(longer) : g[k] = RegistryAfter(g[k - 1], longer[k])
  BY <1>1, RegistryReplays
<1>3. h[0] = Unregistered /\ \A k \in 1..Len(file) : h[k] = RegistryAfter(h[k - 1], file[k])
  BY RegistryReplays
<1>. HIDE DEF g, h
<1>4. \A k \in 1..Len(file) : g[k - 1] = h[k - 1] => g[k] = h[k]
  BY <1>1, <1>2, <1>3
<1>5. \A k \in 0..Len(file) : g[k] = h[k]
  <2>1. g[0] = h[0] /\ Len(file) \in Nat
    BY <1>1, <1>2, <1>3
  <2>. QED  BY <1>4, <2>1, OneReplay
<1>6. g[Len(longer)] = RegistryAfter(h[Len(file)], ev)
  BY <1>1, <1>2, <1>5
<1>. QED  BY <1>1, <1>5, <1>6 DEF RegistryGrown, g, h

\* A line more changes nothing of what the lines before it made.
ManagerGrown(file, longer, ev) ==
  /\ longer \in Seq(ManagerEvents) /\ Len(longer) = Len(file) + 1
  /\ longer[Len(longer)] = ev /\ \A k \in 1..Len(file) : longer[k] = file[k]
  /\ \A k \in 0..Len(file) : ManagerReplay(longer)[k] = ManagerReplay(file)[k]
  /\ ManagerReplay(longer)[Len(longer)] = ManagerAfter(ManagerReplay(file)[Len(file)], ev)

LEMMA ManagerGrows ==
  ASSUME NEW file \in Seq(ManagerEvents), NEW ev \in ManagerEvents,
         NEW longer, longer = Append(file, ev)
  PROVE  ManagerGrown(file, longer, ev)
<1>1. /\ longer \in Seq(ManagerEvents) /\ Len(longer) = Len(file) + 1 /\ Len(file) \in Nat
      /\ longer[Len(longer)] = ev /\ \A k \in 1..Len(file) : longer[k] = file[k]
  OBVIOUS
<1>. DEFINE g == ManagerReplay(longer)
            h == ManagerReplay(file)
<1>2. g[0] = Unbound /\ \A k \in 1..Len(longer) : g[k] = ManagerAfter(g[k - 1], longer[k])
  BY <1>1, ManagerReplays
<1>3. h[0] = Unbound /\ \A k \in 1..Len(file) : h[k] = ManagerAfter(h[k - 1], file[k])
  BY ManagerReplays
<1>. HIDE DEF g, h
<1>4. \A k \in 1..Len(file) : g[k - 1] = h[k - 1] => g[k] = h[k]
  BY <1>1, <1>2, <1>3
<1>5. \A k \in 0..Len(file) : g[k] = h[k]
  <2>1. g[0] = h[0] /\ Len(file) \in Nat
    BY <1>1, <1>2, <1>3
  <2>. QED  BY <1>4, <2>1, OneReplay
<1>6. g[Len(longer)] = ManagerAfter(h[Len(file)], ev)
  BY <1>1, <1>2, <1>5
<1>. QED  BY <1>1, <1>5, <1>6 DEF ManagerGrown, g, h

\* What load accepted of the manager's file it accepts when the registry has
\* gone on.
LEMMA AcceptsStays ==
  ASSUME NEW r \in Registries, NEW ev \in RegistryEvents, RegistryAccepts(r, ev),
         NEW m, NEW e \in ManagerEvents, ManagerAccepts(r, m, e)
  PROVE  ManagerAccepts(RegistryAfter(r, ev), m, e)
<1>1. r.contract # None /\ ev.kind = "discovered" /\ r.schema = None
  BY DEF ManagerAccepts, RegistryAccepts, RegistryEvents
<1>2. RegistryAfter(r, ev).contract = r.contract
  BY <1>1 DEF RegistryAfter, Registries
<1>3. e.kind # "approved"
  BY <1>1 DEF ManagerAccepts
<1>. QED  BY <1>1, <1>2, <1>3 DEF ManagerAccepts, ManagerEvents

\* What a caller holds while it has no lock.
Held == {Free} \cup [at : {"listed"}, value : Schemas] \cup [at : {"checking"}, value : Bindings]

\* The package is registered before anything else is known of the server.
PackageFirst ==
  /\ \A c \in Callers : caller[c].at = "listed" => registry.contract # None
  /\ registry.schema # None => registry.contract # None
  /\ manager.binding # None => registry.contract # None

FileInv ==
  /\ registryFile \in Seq(RegistryEvents) /\ registry \in Registries
  /\ managerFile \in Seq(ManagerEvents) /\ manager \in Managers
  /\ caller \in [Callers -> Held]
  /\ Reopens
  /\ PackageFirst

LEMMA FileInit == BridgeInit => FileInv
<1>. SUFFICES ASSUME BridgeInit PROVE FileInv
  OBVIOUS
<1>1. /\ registryFile = <<>> /\ managerFile = <<>> /\ caller = [c \in Callers |-> Free]
      /\ registry = Unregistered /\ manager = Unbound
  BY DEF BridgeInit, Init
<1>2. /\ registryFile \in Seq(RegistryEvents) /\ managerFile \in Seq(ManagerEvents)
      /\ Len(registryFile) = 0 /\ Len(managerFile) = 0
  BY <1>1
<1>3. RegistryReplay(registryFile)[0] = Unregistered /\ ManagerReplay(managerFile)[0] = Unbound
  BY <1>2, RegistryReplays, ManagerReplays
<1>4. Reopens
  BY <1>1, <1>2, <1>3 DEF Reopens, RegistryOpens, ManagerOpens, LoadedRegistry, LoadedManager
<1>. QED
  BY <1>1, <1>2, <1>4 DEF FileInv, Registries, Managers, Unregistered, Unbound, Held, Free, PackageFirst

\* An event of the registry that load accepts.
LEMMA RegistryRecorded ==
  ASSUME FileInv, NEW ev \in RegistryEvents, RecordRegistry(ev), RegistryAccepts(registry, ev),
         UNCHANGED <<managerFile, manager>>
  PROVE  /\ registryFile' \in Seq(RegistryEvents) /\ registry' \in Registries
         /\ Reopens'
         /\ registry'.contract # None
<1>. DEFINE n == Len(registryFile)
<1>1. /\ registryFile \in Seq(RegistryEvents) /\ registry \in Registries /\ n \in Nat
      /\ managerFile \in Seq(ManagerEvents) /\ registry = RegistryReplay(registryFile)[n]
      /\ RegistryOpens /\ ManagerOpens /\ LoadedManager = manager
  BY DEF FileInv, Reopens, LoadedRegistry
<1>2. registryFile' = Append(registryFile, ev) /\ registry' = RegistryAfter(registry, ev)
  BY DEF RecordRegistry
<1>3. /\ registryFile' \in Seq(RegistryEvents) /\ Len(registryFile') = n + 1
      /\ registryFile'[n + 1] = ev /\ \A k \in 1..n : registryFile'[k] = registryFile[k]
      /\ \A k \in 0..n : RegistryReplay(registryFile')[k] = RegistryReplay(registryFile)[k]
      /\ RegistryReplay(registryFile')[n + 1] = registry'
  <2>1. registryFile \in Seq(RegistryEvents)
    BY <1>1
  <2>2. RegistryGrown(registryFile, registryFile', ev)
    BY <1>2, <2>1, RegistryGrows
  <2>. QED  BY <1>1, <1>2, <2>2 DEF RegistryGrown
<1>4. registry' \in Registries
  BY <1>1, <1>2, RegistryAfterTypes
<1>5. LoadedRegistry' = registry'
  BY <1>3 DEF LoadedRegistry
<1>6. RegistryOpens'
  <2>. SUFFICES ASSUME NEW k \in 1..(n + 1)
                PROVE  RegistryAccepts(RegistryReplay(registryFile')[k - 1], registryFile'[k])
    BY <1>3 DEF RegistryOpens
  <2>1. CASE k = n + 1
    BY <1>1, <1>3, <2>1
  <2>2. CASE k \in 1..n
    BY <1>1, <1>3, <2>2 DEF RegistryOpens
  <2>. QED  BY <1>1, <2>1, <2>2
<1>7. ManagerOpens'
  <2>. SUFFICES ASSUME NEW k \in 1..Len(managerFile)
                PROVE  ManagerAccepts(registry', ManagerReplay(managerFile)[k - 1], managerFile[k])
    BY <1>5 DEF ManagerOpens
  <2>1. ManagerAccepts(registry, ManagerReplay(managerFile)[k - 1], managerFile[k])
    BY <1>1 DEF ManagerOpens, LoadedRegistry
  <2>2. managerFile[k] \in ManagerEvents
    BY <1>1
  <2>. QED  BY <1>1, <1>2, <2>1, <2>2, AcceptsStays
<1>8. LoadedManager' = manager'
  BY <1>1 DEF LoadedManager
<1>9. registry'.contract # None
  BY <1>1, <1>2, McpAssumption DEF RegistryAfter, Registries, RegistryEvents, RegistryAccepts
<1>. QED  BY <1>3, <1>4, <1>5, <1>6, <1>7, <1>8, <1>9 DEF Reopens

\* An event of the manager that load accepts.
LEMMA ManagerRecorded ==
  ASSUME FileInv, NEW ev \in ManagerEvents, RecordManager(ev),
         ManagerAccepts(registry, manager, ev), UNCHANGED <<registryFile, registry>>
  PROVE  managerFile' \in Seq(ManagerEvents) /\ manager' \in Managers /\ Reopens'
<1>. DEFINE n == Len(managerFile)
<1>1. /\ managerFile \in Seq(ManagerEvents) /\ manager \in Managers /\ n \in Nat
      /\ manager = ManagerReplay(managerFile)[n] /\ LoadedRegistry = registry
      /\ RegistryOpens /\ ManagerOpens
  BY DEF FileInv, Reopens, LoadedManager
<1>2. managerFile' = Append(managerFile, ev) /\ manager' = ManagerAfter(manager, ev)
  BY DEF RecordManager
<1>3. /\ managerFile' \in Seq(ManagerEvents) /\ Len(managerFile') = n + 1
      /\ managerFile'[n + 1] = ev /\ \A k \in 1..n : managerFile'[k] = managerFile[k]
      /\ \A k \in 0..n : ManagerReplay(managerFile')[k] = ManagerReplay(managerFile)[k]
      /\ ManagerReplay(managerFile')[n + 1] = manager'
  <2>1. managerFile \in Seq(ManagerEvents)
    BY <1>1
  <2>2. ManagerGrown(managerFile, managerFile', ev)
    BY <1>2, <2>1, ManagerGrows
  <2>. QED  BY <1>1, <1>2, <2>2 DEF ManagerGrown
<1>4. manager' \in Managers
  BY <1>1, <1>2, ManagerAfterTypes
<1>5. LoadedManager' = manager' /\ LoadedRegistry' = registry'
  BY <1>1, <1>3 DEF LoadedManager, LoadedRegistry
<1>6. RegistryOpens'
  BY <1>1 DEF RegistryOpens
<1>7. ManagerOpens'
  <2>. SUFFICES ASSUME NEW k \in 1..(n + 1)
                PROVE  ManagerAccepts(registry, ManagerReplay(managerFile')[k - 1], managerFile'[k])
    BY <1>3, <1>5 DEF ManagerOpens
  <2>1. CASE k = n + 1
    BY <1>1, <1>3, <2>1
  <2>2. CASE k \in 1..n
    BY <1>1, <1>3, <2>2 DEF ManagerOpens
  <2>. QED  BY <1>1, <2>1, <2>2
<1>. QED  BY <1>3, <1>4, <1>5, <1>6, <1>7 DEF Reopens

\* A caller that asks, checks or is done keeps the files as they are.
LEMMA OnlyCaller ==
  ASSUME FileInv, UNCHANGED <<registryFile, registry, managerFile, manager>>,
         caller' \in [Callers -> Held], PackageFirst'
  PROVE  FileInv'
BY DEF FileInv, Reopens, RegistryOpens, ManagerOpens, LoadedRegistry, LoadedManager

LEMMA FileStep == FileInv /\ [BridgeNext]_vars => FileInv'
<1>. SUFFICES ASSUME FileInv, [BridgeNext]_vars PROVE FileInv'
  OBVIOUS
<1>0. /\ registry \in Registries /\ manager \in Managers /\ caller \in [Callers -> Held]
      /\ PackageFirst
      /\ None \notin Contracts /\ None \notin Bindings /\ None \notin Schemas
  BY McpAssumption DEF FileInv
<1>1. CASE UNCHANGED serverVars
  BY <1>0, <1>1, OnlyCaller DEF serverVars, PackageFirst
<1>2. ASSUME NEW k \in Contracts, Register(k) PROVE FileInv'
  <2>. DEFINE ev == [kind |-> "registered", value |-> k]
  <2>1. ev \in RegistryEvents /\ RegistryAccepts(registry, ev) /\ RecordRegistry(ev)
        /\ UNCHANGED <<managerFile, manager, caller>>
    BY <1>2 DEF Register, RegistryEvents, RegistryAccepts
  <2>. HIDE DEF ev
  <2>. QED  BY <1>0, <2>1, RegistryRecorded DEF FileInv, PackageFirst
<1>3. ASSUME NEW c \in Callers, NEW k \in Contracts, NEW s \in Schemas,
             Discover(c, k, s) \/ Revalidate(c, k, s)
      PROVE  FileInv'
  <2>1. /\ registry.contract # None
        /\ caller' = [caller EXCEPT ![c] = [at |-> "listed", value |-> s]]
        /\ UNCHANGED <<registryFile, registry, managerFile, manager>>
    BY <1>3 DEF Discover, Revalidate, BindingMatches, Ask
  <2>2. caller' \in [Callers -> Held] /\ PackageFirst'
    BY <1>0, <2>1 DEF Held, PackageFirst
  <2>. QED  BY <2>1, <2>2, OnlyCaller
<1>4. ASSUME NEW c \in Callers, Released(c)
      PROVE  /\ caller' \in [Callers -> Held]
             /\ \A d \in Callers : caller'[d].at = "listed" => caller[d].at = "listed"
  BY <1>0, <1>4 DEF Released, Held, Free
<1>5. ASSUME NEW c \in Callers, StoreDiscovery(c) PROVE FileInv'
  <2>. DEFINE ev == [kind |-> "discovered", value |-> caller[c].value]
  <2>1. /\ caller[c] \in [at : {"listed"}, value : Schemas] /\ registry.contract # None
        /\ Released(c) /\ UNCHANGED <<managerFile, manager>>
    BY <1>0, <1>5 DEF StoreDiscovery, Held, Free, PackageFirst
  <2>2. CASE registry.schema = None /\ RecordRegistry(ev)
    <3>1. ev \in RegistryEvents /\ RegistryAccepts(registry, ev)
      BY <2>1, <2>2 DEF RegistryEvents, RegistryAccepts
    <3>. HIDE DEF ev
    <3>2. /\ registryFile' \in Seq(RegistryEvents) /\ registry' \in Registries
          /\ Reopens' /\ registry'.contract # None
      BY <2>1, <2>2, <3>1, RegistryRecorded
    <3>. QED  BY <1>0, <1>4, <2>1, <3>2 DEF FileInv, PackageFirst
  <2>3. CASE UNCHANGED <<registryFile, registry>>
    <3>1. PackageFirst'
      BY <1>0, <1>4, <2>1, <2>3 DEF PackageFirst
    <3>. QED  BY <1>4, <2>1, <2>3, <3>1, OnlyCaller
  <2>. QED  BY <1>5, <2>2, <2>3 DEF StoreDiscovery
<1>6. ASSUME NEW ev \in ManagerEvents, RecordManager(ev), ManagerAccepts(registry, manager, ev),
             UNCHANGED <<registryFile, registry>>, caller' \in [Callers -> Held],
             \A d \in Callers : caller'[d].at = "listed" => caller[d].at = "listed"
      PROVE  FileInv'
  <2>1. PackageFirst'
    BY <1>0, <1>6 DEF PackageFirst, ManagerAccepts
  <2>2. managerFile' \in Seq(ManagerEvents) /\ manager' \in Managers /\ Reopens'
    BY <1>6, ManagerRecorded
  <2>. QED  BY <1>6, <2>1, <2>2 DEF FileInv
<1>7. ASSUME NEW ev \in ManagerEvents, RecordManager(ev), ManagerAccepts(registry, manager, ev),
             UNCHANGED <<registryFile, registry, caller>>
      PROVE  FileInv'
  BY <1>0, <1>6, <1>7
<1>8. ASSUME NEW c \in Callers, StartCheck(c) PROVE FileInv'
  <2>1. /\ caller' = [caller EXCEPT ![c] = [at |-> "checking", value |-> manager.binding]]
        /\ manager.binding \in Bindings
        /\ UNCHANGED <<registryFile, registry, managerFile, manager>>
    BY <1>0, <1>8 DEF StartCheck, Managers
  <2>2. caller' \in [Callers -> Held] /\ PackageFirst'
    BY <1>0, <2>1 DEF Held, PackageFirst
  <2>. QED  BY <2>1, <2>2, OnlyCaller
<1>9. ASSUME NEW b \in Bindings, Bind(b) PROVE FileInv'
  <2>. DEFINE ev == [kind |-> "bound", value |-> b]
  <2>1. ev \in ManagerEvents /\ ManagerAccepts(registry, manager, ev)
    BY <1>9 DEF Bind, ValidBinding, ManagerEvents, ManagerAccepts
  <2>2. RecordManager(ev) /\ UNCHANGED <<registryFile, registry, caller>>
    BY <1>9 DEF Bind
  <2>. HIDE DEF ev
  <2>. QED  BY <1>7, <2>1, <2>2
<1>10. ASSUME NEW b \in Bindings, Rebind(b) PROVE FileInv'
  <2>. DEFINE ev == [kind |-> "rebound", value |-> b, previous |-> manager.binding]
  <2>1. manager.binding \in Bindings /\ manager.binding # None
    BY <1>0, <1>10 DEF Rebind, Managers
  <2>2. ev \in ManagerEvents /\ ManagerAccepts(registry, manager, ev)
    BY <1>10, <2>1 DEF Rebind, ValidBinding, ManagerEvents, ManagerAccepts
  <2>3. RecordManager(ev) /\ UNCHANGED <<registryFile, registry, caller>>
    BY <1>10 DEF Rebind
  <2>. HIDE DEF ev
  <2>. QED  BY <1>7, <2>2, <2>3
<1>11. ASSUME NEW on \in BOOLEAN, SetEnabled(on) PROVE FileInv'
  <2>. DEFINE ev == [kind |-> IF on THEN "enabled" ELSE "disabled"]
  <2>1. ev \in ManagerEvents
    BY DEF ManagerEvents
  <2>2. ManagerAccepts(registry, manager, ev)
    BY <1>11 DEF SetEnabled, ManagerAccepts
  <2>3. RecordManager(ev) /\ UNCHANGED <<registryFile, registry, caller>>
    BY <1>11 DEF SetEnabled
  <2>. HIDE DEF ev
  <2>. QED  BY <1>7, <2>1, <2>2, <2>3
<1>12. ASSUME NEW s \in Schemas, NEW granted \in SUBSET ToolsOf[s], ApproveTools(s, granted)
       PROVE  FileInv'
  <2>. DEFINE ev == [kind |-> "approved", value |-> Approval(s, granted)]
  <2>1. granted \subseteq Tools
    BY McpAssumption
  <2>2. Approval(s, granted) \in Approvals
    BY <2>1 DEF Approvals, Approval
  <2>3. ev \in [kind : {"approved"}, value : Approvals]
    BY <2>2
  <2>4. ev \in ManagerEvents
    BY <2>3 DEF ManagerEvents
  <2>5. registry.schema = s /\ registry.schema # None /\ registry.contract # None
    BY <1>0, <1>12 DEF ApproveTools, PackageFirst
  <2>6. ManagerAccepts(registry, manager, ev)
    BY <1>12, <2>5 DEF ManagerAccepts, Approval
  <2>7. RecordManager(ev) /\ UNCHANGED <<registryFile, registry, caller>>
    BY <1>12 DEF ApproveTools
  <2>. HIDE DEF ev
  <2>. QED  BY <1>7, <2>4, <2>6, <2>7
<1>13. ASSUME NEW c \in Callers, NEW status \in Statuses, FinishCheck(c, status) PROVE FileInv'
  <2>. DEFINE ev == [kind |-> "health", value |-> Observation(caller[c].value, status)]
  <2>1. /\ caller[c] \in [at : {"checking"}, value : Bindings]
        /\ Released(c) /\ UNCHANGED <<registryFile, registry>>
    BY <1>0, <1>13 DEF FinishCheck, Held, Free
  <2>2. CASE manager.binding = caller[c].value /\ RecordManager(ev)
    <3>1. Observation(caller[c].value, status) \in Observations
      BY <2>1 DEF Observations, Observation
    <3>2. ev \in [kind : {"health"}, value : Observations]
      BY <3>1
    <3>3. ev \in ManagerEvents
      BY <3>2 DEF ManagerEvents
    <3>4. ManagerAccepts(registry, manager, ev)
      BY <1>0, <2>1, <2>2 DEF ManagerAccepts, Observation, PackageFirst
    <3>. HIDE DEF ev
    <3>. QED  BY <1>4, <1>6, <2>1, <2>2, <3>3, <3>4
  <2>3. CASE UNCHANGED <<managerFile, manager>>
    <3>1. PackageFirst'
      BY <1>0, <1>4, <2>1, <2>3 DEF PackageFirst
    <3>. QED  BY <1>4, <2>1, <2>3, <3>1, OnlyCaller
  <2>. QED  BY <1>13, <2>2, <2>3 DEF FinishCheck
<1>14. CASE Crash
  <2>1. /\ UNCHANGED <<registryFile, registry, managerFile, manager>>
        /\ caller' = [c \in Callers |-> Free]
    BY <1>14 DEF Crash, Reopen, FileInv, Reopens
  <2>2. caller' \in [Callers -> Held] /\ PackageFirst'
    BY <1>0, <2>1 DEF Held, Free, PackageFirst
  <2>. QED  BY <2>1, <2>2, OnlyCaller
<1>15. ASSUME NEW e \in Executions, ExecStep(e) PROVE UNCHANGED serverVars
  BY <1>15 DEF ExecStep, Execute, EffectivePolicy, Begin, Send, BreakOff, ToolFails, Complete
<1>. QED
  BY <1>1, <1>2, <1>3, <1>5, <1>8, <1>9, <1>10, <1>11, <1>12, <1>13, <1>14, <1>15
     DEF BridgeNext, ServerStep, vars

\* However discoveries, rebindings, approvals and health checks overlap, both
\* files can be opened after every line, and opening them gives what was in
\* memory (Registry.load and Manager.load over what the operations append).
THEOREM FilesReopen == Spec => []Reopens
<1>1. FileInv => Reopens
  BY DEF FileInv
<1>. QED  BY <1>1, FileInit, FileStep, PTL DEF Spec

-----------------------------------------------------------------------------
(* Redaction: one secret in one text. *)

\* The letters of secrets, and the words of texts that hold no secret.
Letters == UNION {ToSet(e.value) : e \in Entries}
Words == {"answer", "error", "before", "after", Marker}
Chars == Letters \cup Words

Hidden == Seq(Letters) \ {<<>>}

\* What is written around a secret has no letter of any.
SecretsApart == Letters \cap Words = {}

\* f is what redaction makes of the rest of a text from each place on.
Walks(f, text, s) ==
  f = [i \in 1..Len(text) + 1 |->
         IF i > Len(text) THEN <<>>
         ELSE IF StandsAt(s, text, i) THEN <<Marker>> \o f[i + Len(s)]
         ELSE <<text[i]>> \o f[i + 1]]

\* No last place tells two walks apart.
LEMMA OneWalk ==
  ASSUME NEW text \in Seq(Chars), NEW s \in Hidden, NEW f, Walks(f, text, s)
  PROVE  Redacted(text, s) = f[1]
<1>. DEFINE n == Len(text)
            g == CHOOSE h : Walks(h, text, s)
            Apart == {k \in 0..n : g[n + 1 - k] # f[n + 1 - k]}
<1>1. Redacted(text, s) = g[1]
  BY DEF Redacted, Walks
<1>2. n \in Nat /\ Len(s) \in Nat /\ Len(s) >= 1
  BY EmptySeq, LenProperties DEF Hidden
<1>3. Walks(g, text, s)
  OBVIOUS
<1>. HIDE DEF g, n
<1>4. ASSUME NEW h, Walks(h, text, s), NEW i \in 1..(n + 1)
      PROVE  h[i] = IF i > n THEN <<>>
                    ELSE IF StandsAt(s, text, i) THEN <<Marker>> \o h[i + Len(s)]
                    ELSE <<text[i]>> \o h[i + 1]
  BY <1>4 DEF Walks, n
<1>5. ASSUME Apart # {} PROVE FALSE
  <2>0. Apart \in SUBSET Nat
    BY <1>2
  <2>1. PICK x \in Apart : \A y \in Apart : ~(y < x)
    BY <2>0, <1>5, FirstOf
  <2>. DEFINE i == n + 1 - x
  <2>2. x \in 0..n /\ i \in 1..(n + 1) /\ g[i] # f[i]
    BY <1>2
  <2>3. \A j \in 1..(n + 1) : j > i => g[j] = f[j]
    <3>1. SUFFICES ASSUME NEW j \in 1..(n + 1), j > i, g[j] # f[j] PROVE FALSE
      OBVIOUS
    <3>2. n + 1 - j \in 0..n /\ n + 1 - (n + 1 - j) = j /\ n + 1 - j < x
      BY <1>2, <2>2, <3>1
    <3>. QED  BY <2>1, <3>1, <3>2
  <2>. HIDE DEF i, Apart
  <2>4. i <= n
    <3>1. ASSUME i > n PROVE g[i] = <<>> /\ f[i] = <<>>
      BY <1>3, <1>4, <2>2, <3>1
    <3>. QED  BY <1>2, <2>2, <3>1
  <2>5. i + 1 \in 1..(n + 1) /\ i + 1 > i
    BY <1>2, <2>2, <2>4
  <2>6. StandsAt(s, text, i) => i + Len(s) \in 1..(n + 1) /\ i + Len(s) > i
    BY <1>2, <2>2 DEF StandsAt, n
  <2>7. ~(i > n)
    BY <1>2, <2>2, <2>4
  <2>8. CASE StandsAt(s, text, i)
    <3>1. g[i + Len(s)] = f[i + Len(s)]
      BY <2>3, <2>6, <2>8
    <3>2. g[i] = <<Marker>> \o g[i + Len(s)] /\ f[i] = <<Marker>> \o f[i + Len(s)]
      BY <1>3, <1>4, <2>2, <2>7, <2>8
    <3>. QED  BY <2>2, <3>1, <3>2
  <2>9. CASE ~StandsAt(s, text, i)
    <3>1. g[i + 1] = f[i + 1]
      BY <2>3, <2>5
    <3>2. g[i] = <<text[i]>> \o g[i + 1] /\ f[i] = <<text[i]>> \o f[i + 1]
      BY <1>3, <1>4, <2>2, <2>7, <2>9
    <3>. QED  BY <2>2, <3>1, <3>2
  <2>. QED  BY <2>8, <2>9
<1>6. 1 = n + 1 - n /\ n \in 0..n
  BY <1>2
<1>7. g[1] = f[1]
  BY <1>5, <1>6
<1>. QED  BY <1>1, <1>7

\* A text is left as it is when the secret does not occur in it.
LEMMA NothingToRedact ==
  ASSUME NEW text \in Seq(Chars), NEW s \in Hidden, ~Occurs(s, text)
  PROVE  Redacted(text, s) = text
<1>. DEFINE n == Len(text)
            f == [i \in 1..Len(text) + 1 |-> SubSeq(text, i, n)]
<1>1. n \in Nat /\ DOMAIN text = 1..n
  BY LenProperties
<1>2. ASSUME NEW i \in 1..n PROVE f[i] = <<text[i]>> \o f[i + 1] /\ ~StandsAt(s, text, i)
  <2>1. SubSeq(text, i, n) = <<text[i]>> \o SubSeq(text, i + 1, n)
    BY <1>1, SubSeqRecursiveFirst
  <2>2. f[i] = SubSeq(text, i, n) /\ f[i + 1] = SubSeq(text, i + 1, n)
    BY <1>1
  <2>. QED  BY <1>1, <2>1, <2>2 DEF Occurs
<1>3. f[n + 1] = <<>>
  <2>1. SubSeq(text, n + 1, n) = <<>>
    BY <1>1, SubSeqEmpty
  <2>. QED  BY <1>1, <2>1
<1>4. \A i \in 1..(n + 1) : i \in 1..n \/ (i = n + 1 /\ i > n)
  BY <1>1
<1>5. f[1] = text
  BY <1>1, SubSeqFull
<1>6. f = [i \in 1..Len(text) + 1 |-> f[i]]
  OBVIOUS
<1>. HIDE DEF f
<1>7. \A i \in 1..(n + 1) :
        f[i] = IF i > Len(text) THEN <<>>
               ELSE IF StandsAt(s, text, i) THEN <<Marker>> \o f[i + Len(s)]
               ELSE <<text[i]>> \o f[i + 1]
  <2>. SUFFICES ASSUME NEW i \in 1..(n + 1)
                PROVE  f[i] = IF i > Len(text) THEN <<>>
                              ELSE IF StandsAt(s, text, i) THEN <<Marker>> \o f[i + Len(s)]
                              ELSE <<text[i]>> \o f[i + 1]
    OBVIOUS
  <2>1. CASE i = n + 1
    <3>1. i > Len(text)
      BY <1>1, <2>1
    <3>. QED  BY <1>3, <2>1, <3>1
  <2>2. CASE i \in 1..n
    <3>1. ~(i > Len(text))
      BY <1>1, <2>2
    <3>. QED  BY <1>2, <2>2, <3>1
  <2>. QED  BY <1>4, <2>1, <2>2
<1>8. Walks(f, text, s)
  BY <1>6, <1>7 DEF Walks
<1>. QED  BY <1>5, <1>8, OneWalk

\* What stands at a place, letter by letter.
LEMMA StandsLetterByLetter ==
  ASSUME NEW text \in Seq(Chars), NEW s \in Hidden, NEW i \in Nat \ {0}
  PROVE  StandsAt(s, text, i) <=>
           i + Len(s) - 1 <= Len(text) /\ \A j \in 1..Len(s) : text[i + j - 1] = s[j]
<1>1. /\ Len(text) \in Nat /\ Len(s) \in Nat /\ Len(s) >= 1
      /\ s \in Seq(Chars)
      /\ \A j \in 1..Len(text) : text[j] \in Chars
  BY EmptySeq, LenProperties, ElementOfSeq, SeqMonotonic DEF Hidden, Chars
<1>2. ASSUME i + Len(s) - 1 <= Len(text)
      PROVE  SubSeq(text, i, i + Len(s) - 1) = s <=> \A j \in 1..Len(s) : text[i + j - 1] = s[j]
  <2>. DEFINE last == i + Len(s) - 1
  <2>1. last \in Int /\ last - i + 1 = Len(s) /\ i <= last /\ i \in Int
    BY <1>1
  <2>2. \A j \in i..last : text[j] \in Chars
    BY <1>1, <1>2
  <2>. HIDE DEF last
  <2>3. /\ SubSeq(text, i, last) \in Seq(Chars)
        /\ Len(SubSeq(text, i, last)) = last - i + 1
        /\ \A j \in 1..(last - i + 1) : SubSeq(text, i, last)[j] = text[i + j - 1]
    BY <2>1, <2>2, SubSeqProperties
  <2>4. SubSeq(text, i, last) = s <=> \A j \in 1..Len(s) : SubSeq(text, i, last)[j] = s[j]
    BY <1>1, <2>1, <2>3, SeqEqual
  <2>. QED  BY <2>1, <2>3, <2>4 DEF last
<1>. QED  BY <1>2 DEF StandsAt

LEMMA WordsAreText == \A w \in Seq(Words) : w \in Seq(Chars)
<1>. SUFFICES ASSUME NEW w \in Seq(Words) PROVE w \in Seq(Chars)
  OBVIOUS
<1>1. Words \subseteq Chars
  BY DEF Chars
<1>2. Len(w) \in Nat /\ w \in [1..Len(w) -> Words]
  BY LenProperties
<1>3. w \in [1..Len(w) -> Chars]
  BY <1>1, <1>2
<1>. QED  BY <1>2, <1>3, SeqDef

\* A text without letters of secrets holds none.
LEMMA WordsHoldNone ==
  ASSUME SecretsApart, NEW text \in Seq(Words), NEW s \in Hidden
  PROVE  ~Occurs(s, text)
<1>. SUFFICES ASSUME NEW i \in DOMAIN text, StandsAt(s, text, i) PROVE FALSE
  BY DEF Occurs
<1>1. /\ text \in Seq(Chars) /\ i \in 1..Len(text) /\ i \in Nat \ {0}
      /\ 1 \in 1..Len(s) /\ text[i] \in Words /\ s[1] \in Letters
  <2>1. i \in 1..Len(text) /\ Len(text) \in Nat
    BY LenProperties
  <2>2. Len(s) \in Nat /\ Len(s) >= 1
    BY EmptySeq, LenProperties DEF Hidden
  <2>3. text[i] \in Words /\ s[1] \in Letters
    BY <2>1, <2>2, ElementOfSeq DEF Hidden
  <2>. QED  BY <2>1, <2>2, <2>3, WordsAreText
<1>2. text[i + 1 - 1] = s[1]
  BY <1>1, StandsLetterByLetter
<1>. QED  BY <1>1, <1>2 DEF SecretsApart

\* Text is a secret in a frame of words.
Framed(text, b, s, tail) ==
  /\ text \in Seq(Chars) /\ b \in Words /\ s \in Hidden /\ tail \in Seq(Words)
  /\ Len(text) = 1 + Len(s) + Len(tail)
  /\ text[1] = b
  /\ \A j \in 1..Len(s) : text[1 + j] = s[j]
  /\ \A j \in 1..Len(tail) : text[1 + Len(s) + j] = tail[j]

LEMMA FramedLengths ==
  ASSUME NEW text, NEW b, NEW s, NEW tail, Framed(text, b, s, tail)
  PROVE  /\ Len(text) \in Nat /\ Len(s) \in Nat /\ Len(s) >= 1 /\ Len(tail) \in Nat
         /\ DOMAIN text = 1..Len(text)
         /\ \A j \in 1..Len(s) : s[j] \in Letters
         /\ \A j \in 1..Len(tail) : tail[j] \in Words
BY EmptySeq, LenProperties, ElementOfSeq DEF Framed, Hidden

\* What occurs in a framed secret is shorter, or is it.
LEMMA OccursInside ==
  ASSUME SecretsApart, NEW text, NEW b, NEW s, NEW tail, Framed(text, b, s, tail),
         NEW t \in Hidden, NEW i \in DOMAIN text, StandsAt(t, text, i)
  PROVE  /\ Len(t) <= Len(s)
         /\ Len(t) = Len(s) => i = 2 /\ t = s
<1>1. /\ Len(text) \in Nat /\ Len(s) \in Nat /\ Len(s) >= 1 /\ Len(tail) \in Nat
      /\ i \in 1..Len(text) /\ i \in Nat \ {0} /\ text \in Seq(Chars)
      /\ Len(text) = 1 + Len(s) + Len(tail)
      /\ \A j \in 1..Len(tail) : text[1 + Len(s) + j] \in Words
      /\ text[1] \in Words
  BY FramedLengths DEF Framed
<1>2. Len(t) \in Nat /\ Len(t) >= 1 /\ \A j \in 1..Len(t) : t[j] \in Letters
  BY EmptySeq, LenProperties, ElementOfSeq DEF Hidden
<1>3. i + Len(t) - 1 <= Len(text) /\ \A j \in 1..Len(t) : text[i + j - 1] = t[j]
  BY <1>1, StandsLetterByLetter
<1>4. \A j \in 1..Len(t) : text[i + j - 1] \notin Words
  BY <1>2, <1>3 DEF SecretsApart
<1>5. i # 1
  <2>1. 1 \in 1..Len(t) /\ 1 + 1 - 1 = 1
    BY <1>2
  <2>. QED  BY <1>1, <1>4, <2>1
<1>6. i + Len(t) - 1 <= 1 + Len(s)
  <2>1. SUFFICES ASSUME i + Len(t) - 1 > 1 + Len(s) PROVE FALSE
    BY <1>1, <1>2
  <2>. DEFINE j == i + Len(t) - 1 - (1 + Len(s))
  <2>2. j \in 1..Len(tail) /\ 1 + Len(s) + j = i + Len(t) - 1 /\ Len(t) \in 1..Len(t)
    BY <1>1, <1>2, <1>3, <2>1
  <2>3. text[1 + Len(s) + j] \in Words
    BY <1>1, <2>2
  <2>4. text[i + Len(t) - 1] \notin Words
    BY <1>4, <2>2
  <2>. QED  BY <2>2, <2>3, <2>4
<1>7. Len(t) <= Len(s)
  BY <1>1, <1>2, <1>5, <1>6
<1>8. ASSUME Len(t) = Len(s) PROVE i = 2 /\ t = s
  <2>1. i = 2
    BY <1>1, <1>2, <1>5, <1>6, <1>8
  <2>2. \A j \in 1..Len(t) : t[j] = s[j]
    <3>1. SUFFICES ASSUME NEW j \in 1..Len(t) PROVE t[j] = s[j]
      OBVIOUS
    <3>2. i + j - 1 = 1 + j
      BY <2>1
    <3>3. text[i + j - 1] = t[j] /\ text[1 + j] = s[j]
      BY <1>3, <1>8 DEF Framed
    <3>. QED  BY <3>2, <3>3
  <2>3. t \in Seq(Letters) /\ s \in Seq(Letters)
    BY DEF Framed, Hidden
  <2>. QED  BY <1>8, <2>1, <2>2, <2>3, SeqEqual
<1>. QED  BY <1>7, <1>8

\* What is left of it.
Cleaned(b, tail) == <<b>> \o (<<Marker>> \o tail)

\* In a text that a frame and a secret are, the secret gives way as a whole.
LEMMA SecretGivesWay ==
  ASSUME SecretsApart, NEW text, NEW b, NEW s, NEW tail, Framed(text, b, s, tail)
  PROVE  Redacted(text, s) = Cleaned(b, tail)
<1>. DEFINE n == Len(text)
            f == [i \in 1..Len(text) + 1 |->
                    IF i = 1 THEN <<b>> \o (<<Marker>> \o tail)
                    ELSE IF i = 2 THEN <<Marker>> \o tail
                    ELSE SubSeq(text, i, n)]
<1>1. /\ n \in Nat /\ Len(s) \in Nat /\ Len(s) >= 1 /\ Len(tail) \in Nat
      /\ DOMAIN text = 1..n /\ text \in Seq(Chars) /\ s \in Hidden
      /\ n = 1 + Len(s) + Len(tail)
  BY FramedLengths DEF Framed
<1>2. StandsAt(s, text, 2)
  <2>1. \A j \in 1..Len(s) : 2 + j - 1 = 1 + j
    OBVIOUS
  <2>2. 2 + Len(s) - 1 <= Len(text) /\ \A j \in 1..Len(s) : text[2 + j - 1] = s[j]
    BY <1>1, <2>1 DEF Framed
  <2>3. 2 \in Nat \ {0}
    OBVIOUS
  <2>. QED  BY <1>1, <2>2, <2>3, StandsLetterByLetter
<1>3. \A i \in 1..n : i # 2 => ~StandsAt(s, text, i)
  <2>1. s \in Hidden
    BY <1>1
  <2>. QED  BY <1>1, <2>1, OccursInside
<1>4. /\ \A i \in 3..(n + 1) : f[i] = SubSeq(text, i, n)
      /\ f[1] = <<b>> \o (<<Marker>> \o tail)
      /\ f[2] = <<Marker>> \o tail
      /\ f = [i \in 1..Len(text) + 1 |-> f[i]]
  BY <1>1
<1>. HIDE DEF f
<1>5. f[2 + Len(s)] = tail
  <2>1. 2 + Len(s) \in 3..(n + 1)
    BY <1>1
  <2>2. \A i \in (2 + Len(s))..n : text[i] \in Chars
    BY <1>1, ElementOfSeq
  <2>. DEFINE m == 2 + Len(s)
              rest == SubSeq(text, m, n)
  <2>3. m \in Int /\ n \in Int /\ n - m + 1 = Len(tail) /\ (m <= n \/ Len(tail) = 0)
    BY <1>1
  <2>4. \A i \in m..n : text[i] \in Chars
    BY <2>2
  <2>5. f[2 + Len(s)] = rest
    BY <1>4, <2>1
  <2>6. \A j \in 1..Len(tail) : text[m + j - 1] = tail[j]
    <3>1. \A j \in 1..Len(tail) : m + j - 1 = 1 + Len(s) + j
      BY <1>1
    <3>. QED  BY <3>1 DEF Framed
  <2>7. tail \in Seq(Chars)
    BY WordsAreText DEF Framed
  <2>. HIDE DEF m, n
  <2>8. /\ rest \in Seq(Chars)
        /\ Len(rest) = (IF m <= n THEN n - m + 1 ELSE 0)
        /\ \A j \in 1..(n - m + 1) : rest[j] = text[m + j - 1]
    BY <2>3, <2>4, SubSeqProperties
  <2>9. Len(rest) = Len(tail)
    BY <2>3, <2>8
  <2>10. \A j \in 1..Len(rest) : rest[j] = tail[j]
    BY <2>3, <2>6, <2>8, <2>9
  <2>. HIDE DEF rest
  <2>11. rest = tail
    BY <2>7, <2>8, <2>9, <2>10, SeqEqual
  <2>. QED  BY <2>5, <2>11
<1>6. ASSUME NEW i \in 1..(n + 1)
      PROVE  f[i] = IF i > Len(text) THEN <<>>
                    ELSE IF StandsAt(s, text, i) THEN <<Marker>> \o f[i + Len(s)]
                    ELSE <<text[i]>> \o f[i + 1]
  <2>1. CASE i = 1
    <3>1. ~(i > Len(text)) /\ ~StandsAt(s, text, i) /\ text[i] = b /\ i + 1 = 2
      BY <1>1, <1>3, <2>1 DEF Framed
    <3>. QED  BY <1>4, <2>1, <3>1
  <2>2. CASE i = 2
    <3>1. ~(i > Len(text)) /\ StandsAt(s, text, i)
      BY <1>1, <1>2, <2>2
    <3>. QED  BY <1>4, <1>5, <2>2, <3>1
  <2>3. CASE i \in 3..n
    <3>1. ~(i > Len(text)) /\ ~StandsAt(s, text, i)
      BY <1>1, <1>3, <2>3
    <3>2. f[i] = SubSeq(text, i, n) /\ f[i + 1] = SubSeq(text, i + 1, n)
      <4>1. i \in 3..(n + 1) /\ i + 1 \in 3..(n + 1)
        BY <1>1, <2>3
      <4>. QED  BY <1>4, <4>1
    <3>3. SubSeq(text, i, n) = <<text[i]>> \o SubSeq(text, i + 1, n)
      <4>1. i \in 1..Len(text) /\ n \in i..Len(text)
        BY <1>1, <2>3
      <4>. QED  BY <1>1, <4>1, SubSeqRecursiveFirst
    <3>. QED  BY <3>1, <3>2, <3>3
  <2>4. CASE i = n + 1
    <3>1. i > Len(text) /\ i \in 3..(n + 1)
      BY <1>1, <2>4
    <3>2. SubSeq(text, i, n) = <<>>
      BY <1>1, <2>4, SubSeqEmpty
    <3>. QED  BY <1>4, <3>1, <3>2
  <2>5. i = 1 \/ i = 2 \/ i \in 3..n \/ i = n + 1
    BY <1>1
  <2>. QED  BY <2>1, <2>2, <2>3, <2>4, <2>5
<1>7. Walks(f, text, s)
  BY <1>4, <1>6 DEF Walks
<1>. QED  BY <1>1, <1>4, <1>7, OneWalk DEF Cleaned

-----------------------------------------------------------------------------
(* Redaction: all secrets of a call. *)

\* All of S, the longest first.
Descends(order, S) ==
  /\ order \in [1..Cardinality(S) -> S]
  /\ \A s \in S : \E n \in DOMAIN order : order[n] = s
  /\ \A m, n \in DOMAIN order : m < n => Len(order[m]) >= Len(order[n])

\* Any set can be put into that order: no smallest one cannot.
LEMMA OrderExists ==
  ASSUME NEW S, IsFiniteSet(S), \A s \in S : Len(s) \in Nat
  PROVE  Descends(LongestFirst(S), S)
<1>. DEFINE Stuck == {n \in Nat : \E T \in SUBSET S :
                        Cardinality(T) = n /\ ~\E order : Descends(order, T)}
<1>1. ASSUME Stuck # {} PROVE FALSE
  <2>1. Stuck \in SUBSET Nat
    OBVIOUS
  <2>2. PICK x \in Stuck : \A y \in Stuck : ~(y < x)
    BY <1>1, <2>1, FirstOf
  <2>3. x \in Nat
    OBVIOUS
  <2>4. PICK T \in SUBSET S : Cardinality(T) = x /\ ~\E order : Descends(order, T)
    OBVIOUS
  <2>5. IsFiniteSet(T)
    BY FS_Subset
  <2>6. CASE T = {}
    <3>1. x = 0
      BY <2>4, <2>6, FS_EmptySet
    <3>2. Descends([i \in 1..0 |-> i], T)
      BY <2>4, <2>6, <3>1 DEF Descends
    <3>. QED  BY <2>4, <3>2
  <2>7. CASE T # {}
    <3>. DEFINE lengths == {Len(t) : t \in T}
    <3>1. lengths \in SUBSET Nat /\ lengths # {}
      BY <2>7
    <3>2. PICK least \in lengths : \A y \in lengths : ~(y < least)
      <4>. HIDE DEF lengths
      <4>. QED  BY <3>1, FirstOf
    <3>3. PICK s \in T : least = Len(s)
      OBVIOUS
    <3>4. \A t \in T : Len(t) >= Len(s)
      BY <3>2, <3>3
    <3>. DEFINE U == T \ {s}
    <3>5. IsFiniteSet(U) /\ Cardinality(U) = x - 1 /\ x - 1 \in Nat
      <4>1. IsFiniteSet(T \ {s}) /\ Cardinality(T \ {s}) = Cardinality(T) - 1
        BY <2>5, FS_RemoveElement
      <4>2. Cardinality(T \ {s}) \in Nat
        BY <4>1, FS_CardinalityType
      <4>. QED  BY <2>4, <4>1, <4>2
    <3>6. x - 1 < x /\ U \in SUBSET S
      BY <2>3
    <3>. HIDE DEF U
    <3>7. PICK order : Descends(order, U)
      <4>1. x - 1 \notin Stuck
        BY <2>2, <3>6
      <4>. QED  BY <3>5, <3>6, <4>1
    <3>. DEFINE longer == [i \in 1..x |-> IF i = x THEN s ELSE order[i]]
    <3>8. /\ \A i \in 1..(x - 1) : longer[i] = order[i] /\ order[i] \in U
          /\ longer[x] = s /\ x \in 1..x /\ DOMAIN longer = 1..x
          /\ DOMAIN order = 1..(x - 1)
          /\ \A i \in 1..x : i = x \/ i \in 1..(x - 1)
          /\ \A i \in 1..(x - 1) : i \in 1..x
      BY <2>3, <3>5, <3>7 DEF Descends
    <3>9. U \subseteq T /\ \A t \in T : t = s \/ t \in U
      BY DEF U
    <3>10. longer = [i \in 1..x |-> longer[i]]
      OBVIOUS
    <3>. HIDE DEF longer
    <3>11. longer \in [1..x -> T]
      BY <3>3, <3>8, <3>9, <3>10
    <3>12. \A t \in T : \E n \in 1..x : longer[n] = t
      BY <3>7, <3>8, <3>9 DEF Descends
    <3>13. ASSUME NEW m \in 1..x, NEW n \in 1..x, m < n PROVE Len(longer[m]) >= Len(longer[n])
      <4>1. m \in 1..(x - 1)
        BY <2>3, <3>13
      <4>2. CASE n = x
        BY <3>4, <3>8, <3>9, <4>1, <4>2
      <4>3. CASE n \in 1..(x - 1)
        BY <3>7, <3>8, <3>13, <4>1, <4>3 DEF Descends
      <4>. QED  BY <3>8, <4>2, <4>3
    <3>14. Descends(longer, T)
      BY <2>4, <3>8, <3>11, <3>12, <3>13 DEF Descends
    <3>. QED  BY <2>4, <3>14
  <2>. QED  BY <2>6, <2>7
<1>2. \E order : Descends(order, S)
  BY <1>1, FS_CardinalityType
<1>3. LongestFirst(S) = CHOOSE order : Descends(order, S)
  BY DEF LongestFirst, Descends
<1>. QED  BY <1>2, <1>3

\* What the passes over a text give, one secret after the other.
Passes(f, text, S) ==
  /\ DOMAIN f = 0..Cardinality(S) /\ f[0] = text
  /\ \A n \in 1..Cardinality(S) : f[n] = Redacted(f[n - 1], LongestFirst(S)[n])

LEMMA OnePassAfterOther ==
  ASSUME NEW text, NEW S, IsFiniteSet(S), NEW f, Passes(f, text, S)
  PROVE  RedactText(text, S) = f[Cardinality(S)]
<1>. DEFINE k == Cardinality(S)
            Is(h) == h = [n \in 0..Cardinality(S) |->
                            IF n = 0 THEN text ELSE Redacted(h[n - 1], LongestFirst(S)[n])]
            g == CHOOSE h : Is(h)
<1>1. RedactText(text, S) = g[k]
  BY DEF RedactText
<1>2. k \in Nat
  BY FS_CardinalityType
<1>. DEFINE w == [n \in 0..k |-> f[n]]
<1>3. Is(w)
  <2>1. /\ w[0] = text
        /\ \A n \in 1..k : w[n] = Redacted(w[n - 1], LongestFirst(S)[n])
    <3>1. \A n \in 1..k : n \in 0..k /\ n - 1 \in 0..k
      BY <1>2
    <3>2. 0 \in 0..k
      BY <1>2
    <3>. QED  BY <3>1, <3>2 DEF Passes
  <2>2. w = [n \in 0..k |-> w[n]]
    OBVIOUS
  <2>. HIDE DEF w
  <2>3. \A n \in 0..k : w[n] = IF n = 0 THEN text ELSE Redacted(w[n - 1], LongestFirst(S)[n])
    BY <1>2, <2>1
  <2>. QED  BY <2>2, <2>3
<1>4. Is(g)
  <2>. HIDE DEF w, Is
  <2>. QED  BY <1>3
<1>5. /\ g[0] = text
      /\ \A n \in 1..k : g[n] = Redacted(g[n - 1], LongestFirst(S)[n])
  <2>. HIDE DEF g
  <2>1. \A n \in 0..k : g[n] = IF n = 0 THEN text ELSE Redacted(g[n - 1], LongestFirst(S)[n])
    BY <1>4
  <2>. QED  BY <1>2, <2>1
<1>. HIDE DEF g
<1>6. \A n \in 1..k : g[n - 1] = f[n - 1] => g[n] = f[n]
  BY <1>5 DEF Passes
<1>7. g[0] = f[0]
  BY <1>5 DEF Passes
<1>. HIDE DEF k
<1>8. \A n \in 0..k : g[n] = f[n]
  BY <1>2, <1>6, <1>7, OneReplay
<1>9. k \in 0..k
  BY <1>2
<1>. QED  BY <1>1, <1>8, <1>9 DEF k

\* A text of words only stays.
LEMMA WordsStay ==
  ASSUME SecretsApart, NEW S \in SUBSET Hidden, IsFiniteSet(S), NEW text \in Seq(Words)
  PROVE  RedactText(text, S) = text
<1>. DEFINE k == Cardinality(S)
            f == [n \in 0..k |-> text]
<1>1. k \in Nat /\ \A s \in S : Len(s) \in Nat
  BY FS_CardinalityType, LenProperties DEF Hidden
<1>2. \A n \in 1..k : LongestFirst(S)[n] \in Hidden
  BY <1>1, OrderExists DEF Descends
<1>3. \A n \in 1..k : Redacted(text, LongestFirst(S)[n]) = text
  BY <1>2, WordsHoldNone, WordsAreText, NothingToRedact
<1>4. Passes(f, text, S)
  <2>1. \A n \in 1..k : n \in 0..k /\ n - 1 \in 0..k
    BY <1>1
  <2>2. 0 \in 0..k
    BY <1>1
  <2>. QED  BY <1>3, <2>1, <2>2 DEF Passes
<1>5. RedactText(text, S) = f[k]
  <2>. HIDE DEF f
  <2>. QED  BY <1>4, OnePassAfterOther
<1>. QED  BY <1>1, <1>5

\* Whatever other secrets there are, a framed one gives way as a whole.
LEMMA FramedGivesWay ==
  ASSUME SecretsApart, NEW S \in SUBSET Hidden, IsFiniteSet(S),
         NEW text, NEW b, NEW s \in S, NEW tail, Framed(text, b, s, tail)
  PROVE  /\ RedactText(text, S) = Cleaned(b, tail)
         /\ Cleaned(b, tail) \in Seq(Words)
<1>. DEFINE k == Cardinality(S)
            order == LongestFirst(S)
            clean == Cleaned(b, tail)
            Places == {n \in 1..k : order[n] = s}
<1>1. k \in Nat /\ \A t \in S : Len(t) \in Nat
  BY FS_CardinalityType, LenProperties DEF Hidden
<1>2. Descends(order, S)
  BY <1>1, OrderExists
<1>3. clean \in Seq(Words)
  <2>1. b \in Words /\ Marker \in Words /\ tail \in Seq(Words)
    BY DEF Framed, Words
  <2>2. <<b>> \in Seq(Words) /\ <<Marker>> \in Seq(Words)
    BY <2>1
  <2>3. <<Marker>> \o tail \in Seq(Words)
    BY <2>1, <2>2, ConcatProperties
  <2>. QED  BY <2>2, <2>3, ConcatProperties DEF Cleaned
<1>4. Places \in SUBSET Nat /\ Places # {}
  BY <1>1, <1>2 DEF Descends
<1>5. PICK p \in Places : \A y \in Places : ~(y < p)
  BY <1>4, FirstOf
<1>6. p \in 1..k /\ order[p] = s /\ p \in Nat /\ p >= 1
  BY <1>1
<1>. HIDE DEF clean, order, Places
<1>7. ASSUME NEW n \in 1..k, n < p PROVE Redacted(text, order[n]) = text
  <2>1. order[n] \in S /\ order[n] # s /\ Len(order[n]) >= Len(s)
    BY <1>2, <1>5, <1>6, <1>7 DEF Descends, Places
  <2>2. order[n] \in Hidden /\ text \in Seq(Chars) /\ Len(order[n]) \in Nat /\ Len(s) \in Nat
    BY <1>1, <2>1 DEF Framed
  <2>3. \A i \in DOMAIN text : ~StandsAt(order[n], text, i)
    <3>. SUFFICES ASSUME NEW i \in DOMAIN text, StandsAt(order[n], text, i) PROVE FALSE
      OBVIOUS
    <3>. DEFINE t == order[n]
    <3>1. t \in Hidden /\ StandsAt(t, text, i)
      BY <2>2
    <3>. HIDE DEF t
    <3>2. Len(t) <= Len(s) /\ (Len(t) = Len(s) => t = s)
      BY <3>1, OccursInside
    <3>. QED  BY <2>1, <2>2, <3>2 DEF t
  <2>4. ~Occurs(order[n], text)
    BY <2>3 DEF Occurs
  <2>. QED  BY <2>2, <2>4, NothingToRedact
<1>8. Redacted(text, s) = clean
  <2>1. Redacted(text, s) = Cleaned(b, tail)
    BY SecretGivesWay
  <2>. QED  BY <2>1 DEF clean
<1>9. \A n \in 1..k : Redacted(clean, order[n]) = clean
  <2>1. \A n \in 1..k : order[n] \in Hidden
    BY <1>2 DEF Descends
  <2>. QED  BY <1>3, <2>1, WordsHoldNone, WordsAreText, NothingToRedact
<1>. DEFINE f == [n \in 0..k |-> IF n < p THEN text ELSE clean]
<1>10. /\ DOMAIN f = 0..k /\ f[0] = text /\ f[k] = clean
       /\ \A n \in 1..k : f[n] = (IF n < p THEN text ELSE clean)
                          /\ f[n - 1] = (IF n - 1 < p THEN text ELSE clean)
  BY <1>1, <1>6
<1>. HIDE DEF f
<1>11. ASSUME NEW n \in 1..k PROVE f[n] = Redacted(f[n - 1], order[n])
  <2>1. CASE n < p
    <3>1. f[n] = text /\ f[n - 1] = text
      BY <1>6, <1>10, <2>1
    <3>. QED  BY <1>7, <2>1, <3>1
  <2>2. CASE n = p
    <3>1. f[n] = clean /\ f[n - 1] = text
      BY <1>6, <1>10, <2>2
    <3>. QED  BY <1>6, <1>8, <2>2, <3>1
  <2>3. CASE n > p
    <3>1. f[n] = clean /\ f[n - 1] = clean
      BY <1>6, <1>10, <2>3
    <3>. QED  BY <1>9, <3>1
  <2>. QED  BY <1>6, <2>1, <2>2, <2>3
<1>12. Passes(f, text, S)
  BY <1>10, <1>11 DEF Passes, order
<1>13. RedactText(text, S) = clean
  BY <1>10, <1>12, OnePassAfterOther
<1>. QED  BY <1>3, <1>13 DEF clean

\* The secrets of some entries: finitely many texts of letters.
LEMMA SecretsAreHidden ==
  ASSUME NEW entries \in SUBSET Entries
  PROVE  {e.value : e \in entries} \in SUBSET Hidden /\ IsFiniteSet({e.value : e \in entries})
<1>1. ASSUME NEW e \in Entries PROVE e.value \in Hidden
  <2>1. e.value \in Seq(STRING) /\ e.value # <<>>
    BY ArgumentAssumption
  <2>2. Len(e.value) \in Nat /\ e.value \in [1..Len(e.value) -> STRING]
    BY <2>1, LenProperties
  <2>3. \A i \in 1..Len(e.value) : e.value[i] \in Letters
    BY <2>2 DEF Letters, ToSet
  <2>4. e.value \in [1..Len(e.value) -> Letters]
    BY <2>2, <2>3
  <2>. QED  BY <2>1, <2>2, <2>4, SeqDef DEF Hidden
<1>2. IsFiniteSet(entries)
  BY ArgumentAssumption, FS_Subset
<1>. DEFINE value == [e \in entries |-> e.value]
            values == {e.value : e \in entries}
<1>3. value \in Surjection(entries, values)
  BY DEF Surjection
<1>4. IsFiniteSet(values)
  BY <1>2, <1>3, FS_Surjection DEF ExistsSurjection
<1>. QED  BY <1>1, <1>4

\* A secret between words is framed.
LEMMA FrameOf ==
  ASSUME NEW b \in Words, NEW s \in Hidden, NEW tail \in Seq(Words)
  PROVE  Framed((<<b>> \o s) \o tail, b, s, tail)
<1>1. <<b>> \in Seq(Words) /\ Len(<<b>>) = 1 /\ <<b>>[1] = b
  OBVIOUS
<1>2. <<b>> \in Seq(Chars) /\ tail \in Seq(Chars)
  BY <1>1, WordsAreText
<1>3. s \in Seq(Chars) /\ Len(s) \in Nat /\ Len(tail) \in Nat
  BY SeqMonotonic, LenProperties DEF Hidden, Chars
<1>. DEFINE front == <<b>> \o s
<1>4. /\ front \in Seq(Chars) /\ Len(front) = 1 + Len(s)
      /\ \A i \in 1..1 + Len(s) : front[i] = IF i <= 1 THEN <<b>>[i] ELSE s[i - 1]
  BY <1>1, <1>2, <1>3, ConcatProperties
<1>. HIDE DEF front
<1>. DEFINE text == front \o tail
<1>5. /\ text \in Seq(Chars) /\ Len(text) = 1 + Len(s) + Len(tail)
      /\ \A i \in 1..1 + Len(s) + Len(tail) :
           text[i] = IF i <= 1 + Len(s) THEN front[i] ELSE tail[i - (1 + Len(s))]
  <2>1. /\ text \in Seq(Chars) /\ Len(text) = Len(front) + Len(tail)
        /\ \A i \in 1..Len(front) + Len(tail) :
             text[i] = IF i <= Len(front) THEN front[i] ELSE tail[i - Len(front)]
    BY <1>2, <1>4, ConcatProperties
  <2>. HIDE DEF text
  <2>. QED  BY <1>4, <2>1
<1>. HIDE DEF text
<1>6. text[1] = b
  BY <1>1, <1>3, <1>4, <1>5
<1>7. ASSUME NEW j \in 1..Len(s) PROVE text[1 + j] = s[j]
  <2>1. 1 + j \in 1..1 + Len(s) /\ 1 + j \in 1..1 + Len(s) + Len(tail) /\ ~(1 + j <= 1)
        /\ 1 + j - 1 = j /\ 1 + j <= 1 + Len(s)
    BY <1>3
  <2>. QED  BY <1>4, <1>5, <2>1
<1>8. ASSUME NEW j \in 1..Len(tail) PROVE text[1 + Len(s) + j] = tail[j]
  <2>1. /\ 1 + Len(s) + j \in 1..1 + Len(s) + Len(tail)
        /\ ~(1 + Len(s) + j <= 1 + Len(s)) /\ 1 + Len(s) + j - (1 + Len(s)) = j
    BY <1>3
  <2>. QED  BY <1>5, <2>1
<1>9. Framed(text, b, s, tail)
  BY <1>5, <1>6, <1>7, <1>8 DEF Framed
<1>. QED  BY <1>9 DEF text, front

LEMMA ThreeWords ==
  ASSUME NEW x \in Words, NEW y \in Words, NEW z \in Words
  PROVE  <<x>> \o (<<y>> \o <<z>>) = <<x, y, z>>
<1>. DEFINE u == <<y>> \o <<z>>
            v == <<x>> \o u
<1>1. /\ <<x>> \in Seq(Words) /\ <<y>> \in Seq(Words) /\ <<z>> \in Seq(Words)
      /\ Len(<<x>>) = 1 /\ Len(<<y>>) = 1 /\ Len(<<z>>) = 1
      /\ <<x>>[1] = x /\ <<y>>[1] = y /\ <<z>>[1] = z
  OBVIOUS
<1>. DEFINE p == <<x>>
            q == <<y>>
            r == <<z>>
<1>. HIDE DEF p, q, r
<1>2. /\ q \o r \in Seq(Words) /\ Len(q \o r) = 2 /\ (q \o r)[1] = y /\ (q \o r)[2] = z
  <2>1. /\ q \in Seq(Words) /\ r \in Seq(Words) /\ Len(q) = 1 /\ Len(r) = 1
        /\ q[1] = y /\ r[1] = z
    BY <1>1 DEF q, r
  <2>2. /\ q \o r \in Seq(Words) /\ Len(q \o r) = Len(q) + Len(r)
        /\ \A i \in 1..(Len(q) + Len(r)) :
             (q \o r)[i] = IF i <= Len(q) THEN q[i] ELSE r[i - Len(q)]
    BY <2>1, ConcatProperties
  <2>3. 1 \in 1..2 /\ 2 \in 1..2 /\ 1 <= 1 /\ ~(2 <= 1) /\ 2 - 1 = 1 /\ 1 + 1 = 2
    OBVIOUS
  <2>. QED  BY <2>1, <2>2, <2>3
<1>. HIDE DEF u
<1>3. /\ v \in Seq(Words) /\ Len(v) = 3 /\ v[1] = x /\ v[2] = y /\ v[3] = z
  <2>1. /\ p \in Seq(Words) /\ Len(p) = 1 /\ p[1] = x /\ v = p \o u
        /\ u \in Seq(Words) /\ Len(u) = 2 /\ u[1] = y /\ u[2] = z
    BY <1>1, <1>2 DEF p, q, r, u, v
  <2>. HIDE DEF v
  <2>2. /\ p \o u \in Seq(Words) /\ Len(p \o u) = Len(p) + Len(u)
        /\ \A i \in 1..(Len(p) + Len(u)) :
             (p \o u)[i] = IF i <= Len(p) THEN p[i] ELSE u[i - Len(p)]
    BY <2>1, ConcatProperties
  <2>3. /\ 1 \in 1..3 /\ 2 \in 1..3 /\ 3 \in 1..3 /\ 1 <= 1 /\ ~(2 <= 1) /\ ~(3 <= 1)
        /\ 2 - 1 = 1 /\ 3 - 1 = 2 /\ 1 + 2 = 3
    OBVIOUS
  <2>. QED  BY <2>1, <2>2, <2>3
<1>. HIDE DEF v
<1>4. /\ <<x, y, z>> \in Seq(Words) /\ Len(<<x, y, z>>) = 3
      /\ <<x, y, z>>[1] = x /\ <<x, y, z>>[2] = y /\ <<x, y, z>>[3] = z
  OBVIOUS
<1>5. v = <<x, y, z>>
  BY <1>3, <1>4, SeqEqual
<1>. QED  BY <1>5 DEF u, v

\* An answer that repeats a secret between other text keeps nothing of it or of
\* any other secret of the call (Broker.RedactText; RedactsWhole).
LEMMA RedactionIsWhole ==
  ASSUME SecretsApart, NEW secrets \in SUBSET Hidden, IsFiniteSet(secrets)
  PROVE  RedactsWhole("before", "after", secrets)
<1>. SUFFICES ASSUME NEW s \in secrets
              PROVE  LET text == RedactText(<<"before">> \o s \o <<"after">>, secrets)
                     IN  text = <<"before", Marker, "after">> /\ ~\E t \in secrets : Occurs(t, text)
  BY DEF RedactsWhole
<1>. DEFINE b == "before"
            tail == <<"after">>
            answer == (<<b>> \o s) \o tail
<1>1. b \in Words /\ tail \in Seq(Words) /\ s \in Hidden
  BY DEF Words
<1>2. Cleaned(b, tail) = <<"before", Marker, "after">>
  <2>1. "before" \in Words /\ Marker \in Words /\ "after" \in Words
    BY DEF Words
  <2>. QED  BY <2>1, ThreeWords DEF Cleaned
<1>. HIDE DEF b, tail
<1>3. Framed(answer, b, s, tail)
  BY <1>1, FrameOf
<1>. HIDE DEF answer
<1>4. RedactText(answer, secrets) = Cleaned(b, tail) /\ Cleaned(b, tail) \in Seq(Words)
  BY <1>3, FramedGivesWay
<1>5. ~\E t \in secrets : Occurs(t, Cleaned(b, tail))
  BY <1>4, WordsHoldNone
<1>. QED  BY <1>2, <1>4, <1>5 DEF answer, b, tail

-----------------------------------------------------------------------------
(* Secrets stay inside. *)

\* A call in hand has passed the preflight: what it refers to, the broker holds.
Planned(e) ==
  At(e, "begun") \/ At(e, "sent") => PlanArguments(ToolScopes[exec[e].tool], exec[e].args)

\* A result and an error in the journal are made of words.
InWords(o) ==
  /\ journal[o].result = None \/ journal[o].result \in Seq(Words)
  /\ journal[o].error = None \/ journal[o].error \in Seq(Words)

SecretInv ==
  /\ SendInv
  /\ \A e \in Executions : Planned(e)
  /\ \A o \in Operations : InWords(o)

LEMMA SecretInit == BridgeInit => SecretInv
BY SendInit DEF BridgeInit, SecretInv, Planned, InWords, At, Idle, NoRecord

\* The secrets of a call that the broker has planned are some of its entries'.
LEMMA PlannedSecrets ==
  ASSUME NEW scopes, NEW args, PlanArguments(scopes, args)
  PROVE  SecretValues(args) \in SUBSET Hidden /\ IsFiniteSet(SecretValues(args))
<1>. DEFINE all == {e.value : e \in Entries}
<1>1. all \in SUBSET Hidden /\ IsFiniteSet(all)
  BY SecretsAreHidden
<1>2. ASSUME NEW r \in CollectReferences(args) PROVE SecretOf(r) \in all
  <2>1. \E e \in Entries : e.scope = r.scope /\ e.name = r.name
    BY DEF PlanArguments, Authorized, Holds
  <2>. QED  BY <2>1 DEF SecretOf
<1>3. SecretValues(args) \in SUBSET all
  BY <1>2 DEF SecretValues
<1>. HIDE DEF all
<1>. QED  BY <1>1, <1>3, FS_Subset

\* Whether or not the server repeats a secret of such a call, words are left.
LEMMA AnswerIsCleaned ==
  ASSUME SecretsApart, NEW scopes, NEW args, PlanArguments(scopes, args), NEW text \in Texts(args)
  PROVE  RedactText(text, SecretValues(args)) \in Seq(Words)
<1>. DEFINE secrets == SecretValues(args)
<1>1. secrets \in SUBSET Hidden /\ IsFiniteSet(secrets)
  BY PlannedSecrets
<1>2. Answer \in Seq(Words)
  BY DEF Answer, Words
<1>3. ASSUME NEW s \in secrets PROVE RedactText(Answer \o s, secrets) \in Seq(Words)
  <2>. DEFINE b == "answer"
              front == <<b>> \o s
  <2>1. b \in Words /\ s \in Hidden /\ <<>> \in Seq(Words)
    BY <1>1, EmptySeq DEF Words
  <2>. HIDE DEF b
  <2>2. <<b>> \in Seq(Chars) /\ s \in Seq(Chars)
    BY <2>1, SeqMonotonic DEF Hidden, Chars
  <2>3. front \in Seq(Chars)
    BY <2>2, ConcatProperties
  <2>. HIDE DEF front, secrets
  <2>4. front \o <<>> = front
    BY <2>3, ConcatEmptySeq
  <2>5. Framed(front, b, s, <<>>)
    BY <2>1, <2>4, FrameOf DEF front
  <2>6. RedactText(front, secrets) \in Seq(Words)
    BY <1>1, <2>5, FramedGivesWay
  <2>. QED  BY <2>6 DEF front, b, Answer
<1>. HIDE DEF secrets
<1>4. CASE text = Answer
  BY <1>1, <1>2, <1>4, WordsStay DEF secrets
<1>5. CASE \E s \in secrets : text = Answer \o s
  BY <1>3, <1>5 DEF secrets
<1>. QED  BY <1>4, <1>5 DEF Texts, secrets

\* A call that is not in hand any more, or not yet, has nothing to be planned.
LEMMA NotInHand ==
  ASSUME SecretInv, NEW e \in Executions, exec'[e].at \in {"idle", "viewed", "planned"},
         \A f \in Executions \ {e} : exec'[f] = exec[f]
  PROVE  \A f \in Executions : Planned(f)'
BY DEF SecretInv, Planned, At

\* One record changes, to a result and an error in words.
LEMMA RecordInWords ==
  ASSUME SecretInv, NEW o \in Operations, NEW rec, Record(o, rec),
         rec.result = None \/ rec.result \in Seq(Words),
         rec.error = None \/ rec.error \in Seq(Words)
  PROVE  \A p \in Operations : InWords(p)'
<1>1. DOMAIN journal = Operations /\ journal' = [journal EXCEPT ![o] = rec]
  BY DEF SecretInv, SendInv, BridgeTyped, Record
<1>2. \A p \in Operations : journal'[p] = IF p = o THEN rec ELSE journal[p]
  BY <1>1
<1>. QED  BY <1>2 DEF SecretInv, InWords

LEMMA SecretStep ==
  ASSUME SecretsApart
  PROVE  SecretInv /\ [BridgeNext]_vars => SecretInv'
<1>. SUFFICES ASSUME SecretInv, [BridgeNext]_vars PROVE SecretInv'
  OBVIOUS
<1>1. SendInv /\ SendInv'
  BY SendStep DEF SecretInv
<1>. DEFINE Goal == (\A e \in Executions : Planned(e)') /\ (\A o \in Operations : InWords(o)')
<1>2. ASSUME NEW e \in Executions, exec[e] # Idle
      PROVE  exec[e] \in Jobs /\ exec[e].op \in Operations
  BY <1>1, <1>2 DEF SendInv, BridgeTyped, Jobs
<1>3. ASSUME NEW e \in Executions, Return(e) PROVE \A f \in Executions : Planned(f)'
  BY <1>1, <1>3, CallReturns, NotInHand DEF Idle
<1>4. ASSUME UNCHANGED journal PROVE \A o \in Operations : InWords(o)'
  BY <1>4 DEF SecretInv, InWords
<1>5. ASSUME NEW e \in Executions, exec[e].at \in {"begun", "sent"},
             NEW text \in Seq(Words), Fail(exec[e].op, text)
      PROVE  \A o \in Operations : InWords(o)'
  <2>1. PICK op \in Operations : op = exec[e].op
    BY <1>2, <1>5 DEF Idle
  <2>2. {"result", "error"} \subseteq DOMAIN journal[op] /\ InWords(op)
    BY <1>1 DEF SecretInv, SendInv, BridgeTyped, IsRecord
  <2>. DEFINE rec == [journal[op] EXCEPT !.state = "failed", !.error = text]
  <2>3. rec.result = journal[op].result /\ rec.error = text
    BY <2>2
  <2>4. Record(op, rec)
    BY <1>5, <2>1 DEF Fail
  <2>. HIDE DEF rec
  <2>. QED  BY <2>2, <2>3, <2>4, RecordInWords DEF InWords
<1>6. ASSUME UNCHANGED bridgeVars PROVE Goal
  <2>1. UNCHANGED exec /\ UNCHANGED journal
    BY <1>6 DEF bridgeVars
  <2>2. ASSUME NEW f \in Executions PROVE Planned(f)'
    <3>1. Planned(f)
      BY DEF SecretInv
    <3>. QED  BY <2>1, <3>1 DEF Planned, At
  <2>. QED  BY <1>4, <2>1, <2>2
<1>7. ASSUME NEW e \in Executions, NEW op \in Operations, NEW tool \in Tools,
             NEW args \in Arguments, NEW policy \in Policies, Execute(e, op, tool, args, policy)
      PROVE  Goal
  <2>1. /\ exec' = [exec EXCEPT ![e] = Viewed(op, tool, args, policy)] /\ UNCHANGED journal
        /\ Viewed(op, tool, args, policy).at = "viewed"
    BY <1>7 DEF Execute, Viewed
  <2>2. exec'[e].at = "viewed" /\ \A f \in Executions \ {e} : exec'[f] = exec[f]
    BY <1>1, <2>1 DEF SendInv, BridgeTyped
  <2>. QED  BY <1>4, <2>1, <2>2, NotInHand
<1>8. ASSUME NEW e \in Executions, EffectivePolicy(e) PROVE Goal
  <2>1. UNCHANGED journal /\ exec[e] # Idle /\ (Return(e) \/ GoTo(e, "planned"))
    BY <1>8 DEF EffectivePolicy, At, Idle
  <2>2. CASE GoTo(e, "planned")
    <3>1. exec'[e].at = "planned" /\ \A f \in Executions \ {e} : exec'[f] = exec[f]
      BY <1>1, <2>1, <2>2, CallGoesOn
    <3>. QED  BY <1>4, <2>1, <3>1, NotInHand
  <2>. QED  BY <1>3, <1>4, <2>1, <2>2
<1>9. ASSUME NEW e \in Executions, NEW place \in {"begun", "sent"}, exec[e] # Idle, GoTo(e, place),
             PlanArguments(ToolScopes[exec[e].tool], exec[e].args)
      PROVE  \A f \in Executions : Planned(f)'
  <2>1. /\ exec[e] \in Jobs /\ exec'[e] = [exec[e] EXCEPT !.at = place]
        /\ \A f \in Executions \ {e} : exec'[f] = exec[f]
    BY <1>1, <1>9, CallGoesOn
  <2>2. exec'[e].tool = exec[e].tool /\ exec'[e].args = exec[e].args
    BY <2>1 DEF Jobs
  <2>. QED  BY <1>9, <2>1, <2>2 DEF SecretInv, Planned, At
<1>10. ASSUME NEW e \in Executions, Begin(e) PROVE Goal
  <2>1. exec[e] # Idle /\ exec[e].at = "planned"
    BY <1>10 DEF Begin, At, Idle
  <2>2. CASE Return(e) /\ UNCHANGED journal
    BY <1>3, <1>4, <2>2
  <2>3. CASE Preflight(exec[e]) /\ GoTo(e, "begun") /\ Record(exec[e].op, Started(exec[e]))
    <3>1. \A f \in Executions : Planned(f)'
      BY <1>9, <2>1, <2>3 DEF Preflight, Accepts
    <3>2. /\ exec[e].op \in Operations
          /\ Started(exec[e]).result = None /\ Started(exec[e]).error = None
      BY <1>2, <2>1 DEF Started
    <3>. QED  BY <2>3, <3>1, <3>2, RecordInWords
  <2>. QED  BY <1>10, <2>2, <2>3 DEF Begin
<1>11. ASSUME NEW e \in Executions, Send(e) PROVE Goal
  <2>1. exec[e] # Idle /\ GoTo(e, "sent") /\ UNCHANGED journal /\ At(e, "begun")
    BY <1>11 DEF Send, At, Idle
  <2>. QED  BY <1>4, <1>9, <2>1 DEF SecretInv, Planned
<1>12. ASSUME NEW e \in Executions, BreakOff(e) PROVE Goal
  <2>1. exec[e].at \in {"begun", "sent"} /\ Return(e)
    BY <1>12 DEF BreakOff, At
  <2>2. ASSUME NEW text \in Texts(exec[e].args), Fail(exec[e].op, Sanitized(e, text)) PROVE Goal
    <3>1. PlanArguments(ToolScopes[exec[e].tool], exec[e].args)
      BY <2>1 DEF SecretInv, Planned, At
    <3>2. Sanitized(e, text) \in Seq(Words)
      BY <3>1, AnswerIsCleaned DEF Sanitized
    <3>. QED  BY <1>3, <1>5, <2>1, <2>2, <3>2
  <2>. HIDE DEF Goal
  <2>3. CASE UNCHANGED journal
    BY <1>3, <1>4, <2>1, <2>3 DEF Goal
  <2>. QED  BY <1>12, <2>2, <2>3 DEF BreakOff
<1>13. ASSUME NEW e \in Executions, ToolFails(e) PROVE Goal
  <2>1. exec[e].at = "sent" /\ Return(e)
    BY <1>13 DEF ToolFails, At
  <2>2. PICK text \in Texts(exec[e].args) : Fail(exec[e].op, Sanitized(e, ToolError \o Sanitized(e, text)))
    BY <1>13 DEF ToolFails
  <2>. DEFINE secrets == SecretValues(exec[e].args)
              clean == Sanitized(e, text)
  <2>3. PlanArguments(ToolScopes[exec[e].tool], exec[e].args)
    BY <2>1 DEF SecretInv, Planned, At
  <2>4. clean \in Seq(Words) /\ secrets \in SUBSET Hidden /\ IsFiniteSet(secrets)
    BY <2>2, <2>3, AnswerIsCleaned, PlannedSecrets DEF Sanitized
  <2>5. Sanitized(e, ToolError \o clean) \in Seq(Words)
    <3>1. ToolError \in Seq(Words)
      BY DEF ToolError, Words
    <3>. HIDE DEF clean
    <3>2. ToolError \o clean \in Seq(Words)
      BY <2>4, <3>1, ConcatProperties
    <3>3. RedactText(ToolError \o clean, secrets) = ToolError \o clean
      <4>. HIDE DEF secrets
      <4>. QED  BY <2>4, <3>2, WordsStay
    <3>. QED  BY <3>2, <3>3 DEF Sanitized
  <2>. QED  BY <1>3, <1>5, <2>1, <2>2, <2>5
<1>14. ASSUME NEW e \in Executions, NEW text, Complete(e, text) PROVE Goal
  <2>. DEFINE clean == Sanitized(e, text)
  <2>1. At(e, "sent") /\ text \in Texts(exec[e].args) /\ Return(e)
    BY <1>14 DEF Complete
  <2>2. PICK op \in Operations : op = exec[e].op
    BY <1>2, <2>1 DEF At, Idle
  <2>3. PlanArguments(ToolScopes[exec[e].tool], exec[e].args)
    BY <2>1 DEF SecretInv, Planned
  <2>4. clean \in Seq(Words)
    BY <2>1, <2>3, AnswerIsCleaned DEF Sanitized
  <2>. DEFINE rec == [journal[op] EXCEPT !.state = "completed", !.result = clean, !.error = None]
  <2>5. Record(op, rec)
    BY <1>14, <2>2 DEF Complete
  <2>. HIDE DEF clean
  <2>6. rec.result = clean /\ rec.error = None
    BY <1>1 DEF SendInv, BridgeTyped, IsRecord
  <2>. HIDE DEF rec
  <2>. QED  BY <1>3, <2>1, <2>4, <2>5, <2>6, RecordInWords
<1>15. ASSUME Crash PROVE Goal
  <2>1. exec' = [e \in Executions |-> Idle] /\ UNCHANGED journal
    BY <1>15 DEF Crash
  <2>2. \A f \in Executions : Planned(f)'
    BY <2>1 DEF Planned, At, Idle
  <2>. QED  BY <1>4, <2>1, <2>2
<1>. HIDE DEF Goal
<1>16. Goal
  BY <1>6, <1>7, <1>8, <1>10, <1>11, <1>12, <1>13, <1>14, <1>15
     DEF BridgeNext, ExecStep, vars, bridgeVars
<1>. QED  BY <1>1, <1>16 DEF Goal, SecretInv

\* No secret of the broker reaches the journal's results or errors, though a server or
\* an adapter may repeat one it was given, for any servers, schemas, grants, calls,
\* entries and restarts; and whatever the preflight accepts is safe (Bridge.Execute over
\* Broker.PlanArguments, ResolveArguments and RedactText, and sanitizeError).  The words
\* around a secret, a server's own, the bridge's and the marker, have no letter of any.
THEOREM SecretsAreKept ==
  ASSUME SecretsApart
  PROVE  Spec => []SecretsStayInside
<1>1. ArgumentsAreGuarded
  <2>1. ASSUME NEW schema \in SchemaSamples PROVE IsSchema(schema)
    BY BridgeAssumption DEF SchemaSamples, IsSchema
  <2>2. \A schema \in SchemaSamples, scopes \in SUBSET Scopes, args \in ArgumentMaps :
          AcceptedIsSafe(schema, scopes, args)
    BY <2>1, PreflightIsSafe
  <2>3. \A entries \in SUBSET Entries : RedactsWhole("before", "after", {e.value : e \in entries})
    BY SecretsAreHidden, RedactionIsWhole
  <2>. QED  BY <2>2, <2>3 DEF ArgumentsAreGuarded
<1>2. SecretInv => SecretsStayInside
  <2>1. \A e \in Entries : e.value \in Hidden
    BY SecretsAreHidden
  <2>. QED  BY <1>1, <2>1, WordsHoldNone DEF SecretInv, InWords, SecretsStayInside
<1>3. SecretInv /\ [BridgeNext]_vars => SecretInv'
  BY SecretStep
<1>. QED  BY <1>2, <1>3, SecretInit, PTL DEF Spec

============================================================================
