------------------------ MODULE EngineRuntime_proofs ------------------------
(***************************************************************************)
(* Proofs about EngineRuntime, for any executions, callers, handles and    *)
(* bounds: its types; that the work of an execution is started once, and   *)
(* again only by a call that tied with the first; that a disposition is    *)
(* backed by what is durable; that a final disposition is final, and the   *)
(* timeline agrees with it; and that the runtime keeps the promise         *)
(* CanonicalCommit makes about its results.                                *)
(***************************************************************************)
EXTENDS EngineRuntime, FiniteSetTheorems, TLAPS

-----------------------------------------------------------------------------
(* How the operators on "call" move a caller. *)

CallsOK == call \in [Callers -> Calls \cup {Idle}]

\* A caller that is at a phase of a call is in a call.
LEMMA InCall ==
    ASSUME CallsOK, NEW c \in Callers, NEW p \in Phase, At(c, p)
    PROVE  /\ call[c] \in Calls
           /\ call[c].exec \in Executions
           /\ call[c].target \in Dispositions
           /\ call[c].answer \in Answers
<1>1. call[c] \in Calls
  BY DEF CallsOK, At, Phase, Idle
<1>. QED  BY <1>1 DEF Calls

\* Nobody but caller c has moved.
OthersStay(c) == \A d \in Callers \ {c} : call'[d] = call[d]

\* Every way a call moves keeps the calls well formed, and says where it is now.
LEMMA GotoMoves ==
    ASSUME CallsOK, NEW c \in Callers, call[c] \in Calls, NEW p \in Phase, Goto(c, p)
    PROVE  /\ CallsOK' /\ OthersStay(c)
           /\ call'[c] = [call[c] EXCEPT !.phase = p]
           /\ call'[c].phase = p
           /\ call'[c].exec = call[c].exec /\ call'[c].op = call[c].op
           /\ call'[c].target = call[c].target /\ call'[c].answer = call[c].answer
<1>1. [call[c] EXCEPT !.phase = p] \in Calls
  BY DEF Calls
<1>2. call'[c] = [call[c] EXCEPT !.phase = p]
  BY DEF CallsOK, Goto
<1>3. CallsOK' /\ OthersStay(c)
  BY <1>1 DEF CallsOK, Goto, OthersStay
<1>. QED  BY <1>2, <1>3 DEF Calls

LEMMA SetMoves ==
    ASSUME CallsOK, NEW c \in Callers, call[c] \in Calls, NEW t \in Outcomes, Set(c, t)
    PROVE  /\ CallsOK' /\ OthersStay(c)
           /\ call'[c].phase = "set" /\ call'[c].target = t
           /\ call'[c].exec = call[c].exec /\ call'[c].op = call[c].op
<1>1. [call[c] EXCEPT !.phase = "set", !.target = t] \in Calls
  BY DEF Calls, Phase, Dispositions
<1>2. call'[c] = [call[c] EXCEPT !.phase = "set", !.target = t]
  BY DEF CallsOK, Set
<1>3. CallsOK' /\ OthersStay(c)
  BY <1>1 DEF CallsOK, Set, OthersStay
<1>. QED  BY <1>2, <1>3 DEF Calls

LEMMA ReturnMoves ==
    ASSUME CallsOK, NEW c \in Callers, Return(c)
    PROVE  CallsOK' /\ OthersStay(c) /\ call'[c] = Idle /\ call'[c].phase = "idle"
BY DEF CallsOK, Return, OthersStay, Idle

LEMMA EnterMoves ==
    ASSUME CallsOK, NEW c \in Callers, NEW e \in Executions,
           NEW op \in {"start", "resume", "cancel"}, NEW p \in Phase, Enter(c, e, op, p)
    PROVE  /\ CallsOK' /\ OthersStay(c)
           /\ call'[c].phase = p /\ call'[c].exec = e /\ call'[c].op = op
<1>. DEFINE k == [phase |-> p, exec |-> e, op |-> op, target |-> "none", answer |-> NoAnswer]
<1>1. k \in Calls
  BY DEF Calls, NoAnswer, Answers, Dispositions, Outcomes
<1>2. CallsOK' /\ OthersStay(c) /\ call'[c] = k
  BY <1>1 DEF CallsOK, Enter, OthersStay
<1>. QED  BY <1>2

LEMMA AdapterMoves ==
    ASSUME CallsOK, NEW c \in Callers, AdapterReturns(c)
    PROVE  \E a \in Answers :
              /\ CallsOK' /\ OthersStay(c)
              /\ call'[c].phase = IF a.handle = NoHandle THEN AfterBinding(a) ELSE "bind"
              /\ call'[c].exec = call[c].exec /\ call'[c].op = call[c].op
              /\ call'[c].target = Outcome(a) /\ call'[c].answer = a
              /\ Outcome(a) \in Outcomes /\ AfterBinding(a) \in {"ledger", "set"}
<1>1. call[c] \in Calls
  BY InCall DEF AdapterReturns, Phase
<1>2. PICK a \in Answers :
          call' = [call EXCEPT ![c].answer = a, ![c].target = Outcome(a),
                               ![c].phase = IF a.handle = NoHandle THEN AfterBinding(a)
                                            ELSE "bind"]
  BY DEF AdapterReturns
<1>. DEFINE p == IF a.handle = NoHandle THEN AfterBinding(a) ELSE "bind"
            k == [call[c] EXCEPT !.answer = a, !.target = Outcome(a), !.phase = p]
<1>3. Outcome(a) \in Outcomes /\ AfterBinding(a) \in {"ledger", "set"}
  BY DEF Outcome, AfterBinding, Answers, Outcomes
<1>4. k \in Calls
  <2>1. p \in Phase /\ Outcome(a) \in Dispositions
    BY <1>3 DEF Phase, Dispositions
  <2>. QED  BY <1>1, <2>1 DEF Calls
<1>5. CallsOK' /\ OthersStay(c) /\ call'[c] = k
  BY <1>2, <1>4 DEF CallsOK, OthersStay
<1>6. /\ k.phase = p /\ k.exec = call[c].exec /\ k.op = call[c].op
      /\ k.target = Outcome(a) /\ k.answer = a
  BY <1>1 DEF Calls
<1>. QED  BY <1>3, <1>5, <1>6

LEMMA ReadMoves ==
    ASSUME CallsOK, disp \in [Executions -> Dispositions], NEW c \in Callers, ReadBack(c)
    PROVE  /\ CallsOK' /\ OthersStay(c)
           /\ call'[c].phase = "note" /\ call'[c].target = disp[call[c].exec]
           /\ call'[c].exec = call[c].exec /\ call'[c].op = call[c].op
<1>. DEFINE k == [call[c] EXCEPT !.phase = "note", !.target = disp[call[c].exec]]
<1>1. call[c] \in Calls /\ call[c].exec \in Executions
  BY InCall DEF ReadBack, Phase
<1>2. k \in Calls
  BY <1>1 DEF Calls, Phase
<1>3. CallsOK' /\ OthersStay(c) /\ call'[c] = k
  BY <1>2 DEF CallsOK, ReadBack, OthersStay
<1>. QED  BY <1>1, <1>3 DEF Calls

-----------------------------------------------------------------------------
(* Types. *)

StoreTypes ==
    /\ disp \in [Executions -> Dispositions]
    /\ binding \in [Executions -> Bindings \cup {NoBinding}]
    /\ moves \in SUBSET (Executions \X Outcomes)
    /\ started \in [Executions -> Bindings \cup {NoBinding, NotStarted}]
    /\ results \in SUBSET Executions
    /\ noted \in SUBSET (Executions \X Outcomes)
    /\ canon \in Seq(Executions)
    /\ starts \in [Executions -> Nat]
    /\ resumes \in [Executions -> Nat]
    /\ ties \in [Executions -> Nat]
    /\ crashes \in Nat
    /\ \A e \in Executions : \A d \in Outcomes : <<e, d>> \in moves => disp[e] \in Outcomes

\* A call knows what it set out to do: the disposition it means to set is an
\* outcome, and one that it reads back was set by somebody.
Carried(k, D) ==
    /\ k.phase \in {"bind", "ledger", "result", "set", "note"} => k.target \in Outcomes
    /\ k.phase = "read" => D[k.exec] \in Outcomes
    /\ k.phase = "bind" => k.answer.handle \in Handles

TypeInv == StoreTypes /\ CallsOK /\ \A c \in Callers : Carried(call[c], disp)

\* The types of the model follow.
LEMMA TypesImply == TypeInv => TypeOK
  BY DEF TypeInv, StoreTypes, CallsOK, TypeOK

\* Init establishes the types.
LEMMA TypeInit == Init => TypeInv
  BY RuntimeAssumption
     DEF Init, TypeInv, StoreTypes, CallsOK, Carried, Dispositions, Outcomes, Idle

\* What a step that moves one call has to show for the types.
LEMMA MoveTypes ==
    ASSUME TypeInv, NEW c \in Callers, CallsOK', OthersStay(c), StoreTypes',
           \A e \in Executions : disp[e] \in Outcomes => disp'[e] \in Outcomes,
           Carried(call'[c], disp')
    PROVE  TypeInv'
<1>1. ASSUME NEW d \in Callers, d # c PROVE Carried(call'[d], disp')
  <2>1. call'[d] = call[d] /\ Carried(call[d], disp)
    BY <1>1 DEF OthersStay, TypeInv
  <2>2. call[d].phase = "read" => call[d].exec \in Executions
    BY InCall DEF At, Phase, TypeInv
  <2>. QED  BY <2>1, <2>2 DEF Carried
<1>. QED  BY <1>1 DEF OthersStay, TypeInv

\* Every step keeps the types.
LEMMA TypeStep == TypeInv /\ [Next]_vars => TypeInv'
<1>. SUFFICES ASSUME TypeInv, [Next]_vars PROVE TypeInv'
  OBVIOUS
<1>0. CallsOK /\ StoreTypes /\ disp \in [Executions -> Dispositions]
  BY DEF TypeInv, StoreTypes
<1>1. ASSUME UNCHANGED <<stores, canon, adapter, crashes>>
      PROVE  /\ StoreTypes'
             /\ \A e \in Executions : disp[e] \in Outcomes => disp'[e] \in Outcomes
  BY <1>0, <1>1 DEF StoreTypes, stores, adapter
<1>2. ASSUME NEW c \in Callers, NEW e \in Executions, NEW op \in {"start", "resume"},
             EnterInvoke(c, e, op)
      PROVE  TypeInv'
  <2>1. PICK p \in {"begin", "probe", "result?"} : Enter(c, e, op, p)
    BY <1>2 DEF EnterInvoke
  <2>2. CallsOK' /\ OthersStay(c) /\ call'[c].phase = p
    BY <1>0, <2>1, EnterMoves DEF Phase
  <2>3. UNCHANGED <<stores, canon, adapter, crashes>>
    BY <1>2 DEF EnterInvoke
  <2>. QED  BY <1>1, <2>2, <2>3, MoveTypes DEF Carried
<1>3. ASSUME NEW c \in Callers, NEW e \in Executions, EnterCancel(c, e)
      PROVE  TypeInv'
  <2>1. CallsOK' /\ OthersStay(c) /\ call'[c].phase = "cancel"
    BY <1>0, <1>3, EnterMoves DEF EnterCancel, Phase
  <2>2. UNCHANGED <<stores, canon, adapter, crashes>>
    BY <1>3 DEF EnterCancel
  <2>. QED  BY <1>1, <2>1, <2>2, MoveTypes DEF Carried
<1>4. ASSUME NEW c \in Callers, Begin(c) PROVE TypeInv'
  <2>1. call[c] \in Calls /\ call[c].exec \in Executions
    BY <1>0, <1>4, InCall DEF Begin, Phase
  <2>2. disp' \in [Executions -> Dispositions]
        /\ \A e \in Executions : disp[e] \in Outcomes => disp'[e] \in Outcomes
    BY <1>0, <1>4, <2>1 DEF Begin, Dispositions, Outcomes
  <2>3. StoreTypes'
    <3>1. UNCHANGED <<moves, binding, started, results, noted, canon, starts, resumes, crashes>>
      BY <1>4 DEF Begin
    <3>2. ties' \in [Executions -> Nat]
      <4>1. ties[call[c].exec] + 1 \in Nat
        BY <1>0, <2>1 DEF StoreTypes
      <4>. QED  BY <1>0, <1>4, <4>1 DEF Begin, StoreTypes
    <3>. QED  BY <1>0, <2>2, <3>1, <3>2 DEF StoreTypes
  <2>4. CallsOK' /\ OthersStay(c) /\ call'[c].phase \in {"probe", "idle"}
    BY <1>0, <1>4, <2>1, GotoMoves, ReturnMoves DEF Begin, Phase, Idle
  <2>. QED  BY <2>2, <2>3, <2>4, MoveTypes DEF Carried
<1>5. ASSUME NEW c \in Callers,
             FindResult(c) \/ FindBinding(c) \/ Probe(c) \/ CancelAdapter(c)
      PROVE  TypeInv'
  <2>1. call[c] \in Calls
    BY <1>0, <1>5, InCall DEF FindResult, FindBinding, Probe, CancelAdapter, Phase
  <2>2. \/ \E t \in Outcomes : Set(c, t)
        \/ \E p \in {"binding?", "invoke"} : Goto(c, p)
        \/ Return(c)
    BY <1>5 DEF FindResult, FindBinding, Probe, CancelAdapter, Outcomes
  <2>3. /\ CallsOK' /\ OthersStay(c)
        /\ \/ call'[c].phase \in {"binding?", "invoke", "idle"}
           \/ call'[c].phase = "set" /\ call'[c].target \in Outcomes
    BY <1>0, <2>1, <2>2, GotoMoves, SetMoves, ReturnMoves DEF Phase, Idle
  <2>4. UNCHANGED <<stores, canon, adapter, crashes>>
    BY <1>5 DEF FindResult, FindBinding, Probe, CancelAdapter
  <2>. QED  BY <1>1, <2>3, <2>4, MoveTypes DEF Carried
<1>6. ASSUME NEW c \in Callers, CallAdapter(c) PROVE TypeInv'
  <2>1. call[c] \in Calls /\ call[c].exec \in Executions
    BY <1>0, <1>6, InCall DEF CallAdapter, Phase
  <2>2. StoreTypes' /\ disp' = disp
    <3>1. UNCHANGED <<disp, moves, binding, started, results, noted, canon, ties, crashes>>
      BY <1>6 DEF CallAdapter, stores
    <3>2. starts' \in [Executions -> Nat] /\ resumes' \in [Executions -> Nat]
      <4>1. starts[call[c].exec] + 1 \in Nat /\ resumes[call[c].exec] + 1 \in Nat
        BY <1>0, <2>1 DEF StoreTypes
      <4>. QED  BY <1>0, <1>6, <4>1 DEF CallAdapter, StoreTypes
    <3>. QED  BY <1>0, <3>1, <3>2 DEF StoreTypes
  <2>3. CallsOK' /\ OthersStay(c) /\ call'[c].phase = "working"
    BY <1>0, <1>6, <2>1, GotoMoves DEF CallAdapter, Phase
  <2>. QED  BY <2>2, <2>3, MoveTypes DEF Carried
<1>7. ASSUME NEW c \in Callers, AdapterReturns(c) PROVE TypeInv'
  <2>1. call[c] \in Calls
    BY <1>0, <1>7, InCall DEF AdapterReturns, Phase
  <2>2. /\ CallsOK' /\ OthersStay(c) /\ call'[c].target \in Outcomes
        /\ \/ call'[c].phase \in {"ledger", "set"}
           \/ call'[c].phase = "bind" /\ call'[c].answer.handle \in Handles
    BY <1>0, <1>7, <2>1, AdapterMoves DEF Answers
  <2>3. UNCHANGED <<stores, canon, adapter, crashes>>
    BY <1>7 DEF AdapterReturns
  <2>. QED  BY <1>1, <2>2, <2>3, MoveTypes DEF Carried
<1>8. ASSUME NEW c \in Callers,
             Bind(c) \/ EnsureExecution(c) \/ SaveResult(c)
      PROVE  TypeInv'
  <2>1. call[c] \in Calls /\ call[c].exec \in Executions /\ call[c].answer \in Answers
    BY <1>0, <1>8, InCall DEF Bind, EnsureExecution, SaveResult, Phase
  <2>2. call[c].target \in Outcomes
    BY <1>8 DEF Bind, EnsureExecution, SaveResult, At, Carried, TypeInv
  <2>3. StoreTypes' /\ disp' = disp
    <3>1. CASE Bind(c)
      <4>. DEFINE b == [handle |-> call[c].answer.handle, resumable |-> call[c].answer.resumable]
      <4>1. b \in Bindings \cup {NoBinding}
        <5>1. call[c].answer.handle \in Handles
          BY <3>1 DEF Bind, At, Carried, TypeInv
        <5>. QED  BY <2>1, <5>1 DEF Answers, Bindings
      <4>2. binding' = [binding EXCEPT ![call[c].exec] = b] \/ binding' = binding
        BY <3>1 DEF Bind
      <4>3. UNCHANGED <<disp, moves, started, results, noted, canon, adapter, crashes>>
        BY <3>1 DEF Bind
      <4>. QED  BY <1>0, <2>1, <4>1, <4>2, <4>3 DEF StoreTypes, adapter
    <3>2. CASE EnsureExecution(c)
      <4>. DEFINE h == [handle |-> call[c].answer.handle, resumable |-> call[c].answer.resumable]
      <4>1. h \in Bindings \cup {NoBinding, NotStarted}
        BY <2>1 DEF Answers, Bindings, NoBinding, NotStarted
      <4>2. started' = [started EXCEPT ![call[c].exec] = h] \/ started' = started
        BY <1>0, <3>2 DEF EnsureExecution, StartInLedger, StoreTypes
      <4>3. UNCHANGED <<disp, moves, binding, results, noted, canon, adapter, crashes>>
        BY <3>2 DEF EnsureExecution
      <4>. QED  BY <1>0, <2>1, <4>1, <4>2, <4>3 DEF StoreTypes, adapter
    <3>3. CASE SaveResult(c)
      BY <1>0, <2>1, <3>3 DEF SaveResult, StoreTypes, adapter
    <3>. QED  BY <1>8, <3>1, <3>2, <3>3
  <2>4. (\E p \in {"ledger", "set", "result"} : Goto(c, p)) \/ Return(c)
    BY <1>8 DEF Bind, EnsureExecution, SaveResult, AfterBinding
  <2>5. /\ CallsOK' /\ OthersStay(c)
        /\ \/ call'[c].phase = "idle"
           \/ call'[c].phase \notin {"read", "bind"} /\ call'[c].target \in Outcomes
    BY <1>0, <2>1, <2>2, <2>4, GotoMoves, ReturnMoves DEF Phase, Idle
  <2>. QED  BY <2>3, <2>5, MoveTypes DEF Carried
<1>9. ASSUME NEW c \in Callers, SetDisposition(c) PROVE TypeInv'
  <2>1. call[c] \in Calls /\ call[c].exec \in Executions
    BY <1>0, <1>9, InCall DEF SetDisposition, Phase
  <2>2. call[c].target \in Outcomes
    BY <1>9 DEF SetDisposition, At, Carried, TypeInv
  <2>3. StoreTypes' /\ \A e \in Executions : disp[e] \in Outcomes => disp'[e] \in Outcomes
    <3>. DEFINE e == call[c].exec
                d == call[c].target
    <3>1. UNCHANGED <<binding, started, results, noted, canon, adapter, crashes>>
      BY <1>9 DEF SetDisposition
    <3>2. CASE UNCHANGED <<disp, moves>>
      BY <1>0, <3>1, <3>2 DEF StoreTypes, adapter
    <3>3. CASE disp' = [disp EXCEPT ![e] = d] /\ moves' = moves \cup {<<e, d>>}
      <4>1. disp' \in [Executions -> Dispositions] /\ moves' \in SUBSET (Executions \X Outcomes)
        BY <1>0, <2>1, <2>2, <3>3 DEF StoreTypes, Dispositions
      <4>2. \A f \in Executions : disp'[f] = IF f = e THEN d ELSE disp[f]
        BY <1>0, <3>3 DEF StoreTypes
      <4>3. \A f \in Executions : \A x \in Outcomes :
               <<f, x>> \in moves' => disp'[f] \in Outcomes
        BY <1>0, <2>2, <3>3, <4>2 DEF StoreTypes
      <4>. QED  BY <1>0, <2>2, <3>1, <4>1, <4>2, <4>3 DEF StoreTypes, adapter
    <3>. QED  BY <1>9, <3>2, <3>3 DEF SetDisposition
  <2>4. Return(c) \/ (Goto(c, "read") /\ disp'[call[c].exec] \in Outcomes)
    BY <1>0, <1>9, <2>1, <2>2 DEF SetDisposition, StoreTypes
  <2>5. CallsOK' /\ OthersStay(c) /\ Carried(call'[c], disp')
    BY <1>0, <2>1, <2>4, GotoMoves, ReturnMoves DEF Phase, Idle, Calls, Carried
  <2>. QED  BY <2>3, <2>5, MoveTypes
<1>10. ASSUME NEW c \in Callers, ReadBack(c) PROVE TypeInv'
  <2>1. call[c] \in Calls /\ disp[call[c].exec] \in Outcomes
    BY <1>0, <1>10, InCall DEF ReadBack, Phase, At, Carried, TypeInv
  <2>2. CallsOK' /\ OthersStay(c) /\ call'[c].phase = "note" /\ call'[c].target \in Outcomes
    BY <1>0, <1>10, <2>1, ReadMoves DEF At
  <2>3. UNCHANGED <<stores, canon, adapter, crashes>>
    BY <1>10 DEF ReadBack
  <2>. QED  BY <1>1, <2>2, <2>3, MoveTypes DEF Carried
<1>11. ASSUME NEW c \in Callers, Note(c) PROVE TypeInv'
  <2>1. call[c].exec \in Executions /\ call[c].target \in Outcomes
    BY <1>0, <1>11, InCall DEF Note, Phase, At, Carried, TypeInv
  <2>2. StoreTypes' /\ disp' = disp
    BY <1>0, <1>11, <2>1 DEF Note, StoreTypes, adapter
  <2>3. CallsOK' /\ OthersStay(c) /\ call'[c].phase = "idle"
    BY <1>0, <1>11, ReturnMoves DEF Note
  <2>. QED  BY <2>2, <2>3, MoveTypes DEF Carried, Idle
<1>12. CASE Recover
  BY <1>12 DEF Recover, Canonical!Commit, TypeInv, StoreTypes, CallsOK, adapter
<1>13. CASE Crash
  BY <1>13 DEF Crash, TypeInv, StoreTypes, CallsOK, stores, adapter, Carried, Idle
<1>14. CASE UNCHANGED vars
  BY <1>14 DEF vars, TypeInv, StoreTypes, CallsOK, stores, adapter
<1>. QED
  BY <1>2, <1>3, <1>4, <1>5, <1>6, <1>7, <1>8, <1>9, <1>10, <1>11, <1>12, <1>13, <1>14
     DEF Next, InvokeStep

\* In every behaviour the variables keep their types, whatever the adapters
\* answer and wherever the process crashes.
THEOREM RuntimeTypeCorrect == Spec => []TypeOK
  BY TypeInit, TypeStep, TypesImply, PTL DEF Spec

-----------------------------------------------------------------------------
(* The work is started once. *)

\* The calls that have begun execution e and may still start it.
Starter(k, e) == k.phase \in {"probe", "invoke"} /\ k.op = "start" /\ k.exec = e
Starters(e) == {c \in Callers : Starter(call[c], e)}

\* Only who begins an execution starts it: there is one start, made or still to
\* come, for the first call that begins it and one for every tie.
Counted(e) ==
    /\ starts[e] + Cardinality(Starters(e)) <= 1 + ties[e]
    /\ disp[e] = "none" => starts[e] = 0 /\ Starters(e) = {}

StartInv == \A e \in Executions : Counted(e)

\* Callers are finitely many.
LEMMA StartersFinite ==
    ASSUME NEW e
    PROVE  IsFiniteSet(Starters(e)) /\ Cardinality(Starters(e)) \in Nat
BY RuntimeAssumption, FS_Subset, FS_CardinalityType DEF Starters

\* Nobody has begun anything at first.
LEMMA StartInit == Init => StartInv
<1>. SUFFICES ASSUME Init, NEW e \in Executions PROVE Counted(e)
  BY DEF StartInv
<1>1. Starters(e) = {}
  BY DEF Init, Starters, Starter, Idle
<1>. QED  BY <1>1, FS_EmptySet DEF Init, Counted

\* A step that neither begins nor starts an execution.
LEMMA StartFrame ==
    ASSUME StoreTypes, StartInv, NEW c \in Callers, OthersStay(c),
           starts' = starts, ties' = ties,
           \A e \in Executions : disp'[e] = "none" <=> disp[e] = "none",
           \A e \in Executions : Starter(call'[c], e) => Starter(call[c], e)
    PROVE  StartInv'
<1>. SUFFICES ASSUME NEW e \in Executions PROVE Counted(e)'
  BY DEF StartInv
<1>1. Starters(e)' \subseteq Starters(e)
  BY DEF OthersStay, Starters
<1>2. /\ Cardinality(Starters(e)) \in Nat /\ Cardinality(Starters(e)') \in Nat
      /\ Cardinality(Starters(e)') <= Cardinality(Starters(e))
  BY <1>1, StartersFinite, FS_Subset, FS_CardinalityType
<1>3. Counted(e) /\ starts[e] \in Nat /\ ties[e] \in Nat
  BY DEF StartInv, StoreTypes
<1>4. starts[e] + Cardinality(Starters(e)') <= 1 + ties[e]
  BY <1>2, <1>3 DEF Counted
<1>. QED  BY <1>1, <1>3, <1>4 DEF Counted

\* Every step keeps StartInv: Begin counts the call that begins or ties, and
\* CallAdapter turns it into a start.
LEMMA StartStep == TypeInv /\ StartInv /\ [Next]_vars => StartInv'
<1>. SUFFICES ASSUME TypeInv, StartInv, [Next]_vars PROVE StartInv'
  OBVIOUS
<1>0. CallsOK /\ StoreTypes /\ disp \in [Executions -> Dispositions]
      /\ starts \in [Executions -> Nat] /\ ties \in [Executions -> Nat]
  BY DEF TypeInv, StoreTypes
<1>1. ASSUME NEW c \in Callers, NEW e \in Executions, NEW op \in {"start", "resume"},
             EnterInvoke(c, e, op)
      PROVE  StartInv'
  <2>1. \/ op = "resume" /\ Enter(c, e, op, "probe")
        \/ \E p \in {"begin", "result?"} : Enter(c, e, op, p)
    BY <1>1 DEF EnterInvoke
  <2>2. OthersStay(c) /\ ~\E f \in Executions : Starter(call'[c], f)
    BY <1>0, <2>1, EnterMoves DEF Phase, Starter
  <2>3. UNCHANGED <<starts, ties, disp>>
    BY <1>1 DEF EnterInvoke, adapter, stores
  <2>. QED  BY <1>0, <2>2, <2>3, StartFrame
<1>2. ASSUME NEW c \in Callers, NEW e \in Executions, EnterCancel(c, e)
      PROVE  StartInv'
  <2>1. OthersStay(c) /\ ~\E f \in Executions : Starter(call'[c], f)
    BY <1>0, <1>2, EnterMoves DEF EnterCancel, Phase, Starter
  <2>2. UNCHANGED <<starts, ties, disp>>
    BY <1>2 DEF EnterCancel, adapter, stores
  <2>. QED  BY <1>0, <2>1, <2>2, StartFrame
<1>3. ASSUME NEW c \in Callers, Begin(c) PROVE StartInv'
  <2>0. PICK e \in Executions : e = call[c].exec
    BY <1>0, <1>3, InCall DEF Begin, Phase
  <2>1. call[c] \in Calls /\ e = call[c].exec /\ call[c].phase = "begin"
    BY <1>0, <1>3, <2>0, InCall DEF Begin, Phase, At
  <2>2. starts' = starts
    BY <1>3 DEF Begin
  <2>3. CASE Goto(c, "probe")
    <3>1. \/ disp[e] = "none" /\ disp' = [disp EXCEPT ![e] = "running"] /\ ties' = ties
          \/ disp[e] # "none" /\ ties' = [ties EXCEPT ![e] = @ + 1] /\ disp' = disp
      BY <1>0, <1>3, <2>1, <2>3, GotoMoves, ReturnMoves DEF Begin, Phase
    <3>2. OthersStay(c) /\ call'[c].exec = e
      BY <1>0, <2>1, <2>3, GotoMoves DEF Phase
    <3>3. ASSUME NEW f \in Executions, f # e PROVE Counted(f)'
      <4>1. Starters(f)' \subseteq Starters(f)
        BY <3>2, <3>3 DEF Starters, Starter, OthersStay
      <4>2. /\ Cardinality(Starters(f)) \in Nat /\ Cardinality(Starters(f)') \in Nat
            /\ Cardinality(Starters(f)') <= Cardinality(Starters(f))
        BY <4>1, StartersFinite, FS_Subset, FS_CardinalityType
      <4>3. disp'[f] = disp[f] /\ ties'[f] = ties[f] /\ ties[f] \in Nat /\ starts[f] \in Nat
        BY <1>0, <2>1, <3>1, <3>3
      <4>4. Counted(f)
        BY DEF StartInv
      <4>5. starts[f] + Cardinality(Starters(f)') <= 1 + ties[f]
        BY <4>2, <4>3, <4>4 DEF Counted
      <4>. QED  BY <2>2, <4>1, <4>3, <4>4, <4>5 DEF Counted
    <3>4. Counted(e)'
      <4>1. c \notin Starters(e) /\ Starters(e)' \subseteq Starters(e) \cup {c}
        BY <2>1, <3>2 DEF Starters, Starter, OthersStay
      <4>2. /\ Cardinality(Starters(e)) \in Nat /\ Cardinality(Starters(e)') \in Nat
            /\ Cardinality(Starters(e)') <= Cardinality(Starters(e)) + 1
        <5>1. /\ IsFiniteSet(Starters(e) \cup {c})
              /\ Cardinality(Starters(e) \cup {c}) = Cardinality(Starters(e)) + 1
          BY <4>1, StartersFinite, FS_AddElement
        <5>. QED  BY <4>1, <5>1, StartersFinite, FS_Subset, FS_CardinalityType
      <4>3. Counted(e) /\ ties[e] \in Nat /\ starts[e] \in Nat
        BY <1>0, <2>1 DEF StartInv
      <4>4. CASE disp[e] = "none"
        <5>1. starts[e] = 0 /\ Cardinality(Starters(e)) = 0
          BY <4>3, <4>4, FS_EmptySet DEF Counted
        <5>2. starts[e] + Cardinality(Starters(e)') <= 1 + ties[e]
          BY <4>2, <4>3, <5>1
        <5>3. ties'[e] = ties[e] /\ disp'[e] = "running"
          BY <1>0, <2>1, <3>1, <4>4
        <5>. QED  BY <2>2, <5>2, <5>3 DEF Counted
      <4>5. CASE disp[e] # "none"
        <5>1. ties'[e] = ties[e] + 1 /\ disp'[e] # "none"
          BY <1>0, <2>1, <3>1, <4>5
        <5>2. starts[e] + Cardinality(Starters(e)') <= 1 + (ties[e] + 1)
          BY <4>2, <4>3 DEF Counted
        <5>. QED  BY <2>2, <5>1, <5>2 DEF Counted
      <4>. QED  BY <4>4, <4>5
    <3>. QED  BY <3>3, <3>4 DEF StartInv
  <2>4. CASE Return(c) /\ UNCHANGED <<disp, ties>>
    <3>1. OthersStay(c) /\ call'[c].phase = "idle"
      BY <1>0, <2>4, ReturnMoves
    <3>. QED  BY <1>0, <2>2, <2>4, <3>1, StartFrame DEF Starter
  <2>. QED  BY <1>3, <2>3, <2>4 DEF Begin
<1>4. ASSUME NEW c \in Callers, Probe(c) PROVE StartInv'
  <2>1. call[c] \in Calls /\ call[c].phase = "probe"
    BY <1>0, <1>4, InCall DEF Probe, Phase, At
  <2>2. (\E t \in Outcomes : Set(c, t)) \/ Goto(c, "invoke")
    BY <1>4 DEF Probe, Outcomes
  <2>3. /\ OthersStay(c) /\ call'[c].op = call[c].op /\ call'[c].exec = call[c].exec
    BY <1>0, <2>1, <2>2, SetMoves, GotoMoves DEF Phase
  <2>4. UNCHANGED <<starts, ties, disp>>
    BY <1>4 DEF Probe, adapter, stores
  <2>. QED  BY <1>0, <2>1, <2>3, <2>4, StartFrame DEF Starter
<1>5. ASSUME NEW c \in Callers, CallAdapter(c) PROVE StartInv'
  <2>0. PICK e \in Executions : e = call[c].exec
    BY <1>0, <1>5, InCall DEF CallAdapter, Phase
  <2>1. call[c] \in Calls /\ e = call[c].exec /\ call[c].phase = "invoke"
    BY <1>0, <1>5, <2>0, InCall DEF CallAdapter, Phase, At
  <2>2. OthersStay(c) /\ call'[c].phase = "working" /\ UNCHANGED <<disp, ties>>
    BY <1>0, <1>5, <2>1, GotoMoves DEF CallAdapter, Phase, stores
  <2>3. CASE call[c].op = "start" /\ starts' = [starts EXCEPT ![call[c].exec] = @ + 1]
    <3>1. ASSUME NEW f \in Executions, f # e PROVE Counted(f)'
      <4>1. Starters(f)' = Starters(f)
        BY <2>1, <2>2, <3>1 DEF Starters, Starter, OthersStay
      <4>2. starts'[f] = starts[f] /\ Counted(f)
        BY <1>0, <2>1, <2>3, <3>1 DEF StartInv
      <4>3. ties'[f] = ties[f] /\ disp'[f] = disp[f]
        BY <2>2
      <4>. QED  BY <4>1, <4>2, <4>3 DEF Counted
    <3>2. Counted(e)'
      <4>1. c \in Starters(e) /\ Starters(e)' = Starters(e) \ {c}
        BY <2>1, <2>2, <2>3 DEF Starters, Starter, OthersStay
      <4>2. Cardinality(Starters(e)') = Cardinality(Starters(e)) - 1
        BY <4>1, StartersFinite, FS_RemoveElement
      <4>3. starts'[e] = starts[e] + 1 /\ starts[e] \in Nat /\ ties[e] \in Nat
        BY <1>0, <2>1, <2>3
      <4>4. Counted(e) /\ Cardinality(Starters(e)) \in Nat
        BY <2>1, StartersFinite DEF StartInv
      <4>5. starts'[e] + Cardinality(Starters(e)') <= 1 + ties[e]
        BY <4>2, <4>3, <4>4 DEF Counted
      <4>6. disp'[e] # "none" /\ ties'[e] = ties[e]
        BY <2>2, <4>1, <4>4 DEF Counted
      <4>. QED  BY <4>5, <4>6 DEF Counted
    <3>. QED  BY <3>1, <3>2 DEF StartInv
  <2>4. CASE starts' = starts
    BY <1>0, <2>2, <2>4, StartFrame DEF Starter
  <2>. QED  BY <1>5, <2>3, <2>4 DEF CallAdapter
<1>6. ASSUME NEW c \in Callers,
             \/ FindResult(c) \/ FindBinding(c) \/ CancelAdapter(c) \/ AdapterReturns(c)
             \/ Bind(c) \/ EnsureExecution(c) \/ SaveResult(c) \/ ReadBack(c) \/ Note(c)
             \/ SetDisposition(c)
      PROVE  StartInv'
  <2>1. /\ call[c] \in Calls /\ call[c].exec \in Executions
        /\ At(c, "set") => call[c].target \in Outcomes
    BY <1>0, <1>6, InCall
       DEF FindResult, FindBinding, CancelAdapter, AdapterReturns, Bind, EnsureExecution,
           SaveResult, ReadBack, Note, SetDisposition, Phase, Carried, TypeInv, At
  <2>2. OthersStay(c) /\ call'[c].phase \notin {"probe", "invoke"}
    <3>1. CASE AdapterReturns(c)
      BY <1>0, <3>1, AdapterMoves
    <3>2. CASE ReadBack(c)
      BY <1>0, <3>2, ReadMoves
    <3>3. CASE \/ \E t \in Outcomes : Set(c, t)
               \/ \E p \in Phase \ {"probe", "invoke"} : Goto(c, p)
               \/ Return(c)
      BY <1>0, <2>1, <3>3, SetMoves, GotoMoves, ReturnMoves
    <3>. QED
      BY <1>6, <3>1, <3>2, <3>3
         DEF FindResult, FindBinding, CancelAdapter, Bind, EnsureExecution, SaveResult,
             Note, SetDisposition, AfterBinding, Outcomes, Phase
  <2>3. starts' = starts /\ ties' = ties
    BY <1>6
       DEF FindResult, FindBinding, CancelAdapter, AdapterReturns, Bind, EnsureExecution,
           SaveResult, ReadBack, Note, SetDisposition, adapter
  <2>4. \A e \in Executions : disp'[e] = "none" <=> disp[e] = "none"
    <3>1. CASE SetDisposition(c)
      <4>1. Allowed(disp[call[c].exec], call[c].target) => disp[call[c].exec] # "none"
        BY <2>1, <3>1 DEF SetDisposition, Allowed, Outcomes
      <4>. QED  BY <1>0, <2>1, <3>1, <4>1 DEF SetDisposition, Outcomes
    <3>2. CASE disp' = disp
      BY <3>2
    <3>. QED
      BY <1>6, <3>1, <3>2
         DEF FindResult, FindBinding, CancelAdapter, AdapterReturns, Bind, EnsureExecution,
             SaveResult, ReadBack, Note, stores
  <2>. QED  BY <1>0, <2>2, <2>3, <2>4, StartFrame DEF Starter
<1>7. ASSUME UNCHANGED <<starts, ties, disp>>,
             \A e \in Executions : Starters(e)' \subseteq Starters(e)
      PROVE  StartInv'
  <2>. SUFFICES ASSUME NEW e \in Executions PROVE Counted(e)'
    BY DEF StartInv
  <2>1. /\ Cardinality(Starters(e)) \in Nat /\ Cardinality(Starters(e)') \in Nat
        /\ Cardinality(Starters(e)') <= Cardinality(Starters(e))
    BY <1>7, StartersFinite, FS_Subset, FS_CardinalityType
  <2>2. Counted(e) /\ starts[e] \in Nat /\ ties[e] \in Nat
    BY <1>0 DEF StartInv
  <2>3. starts[e] + Cardinality(Starters(e)') <= 1 + ties[e]
    BY <2>1, <2>2 DEF Counted
  <2>. QED  BY <1>7, <2>2, <2>3 DEF Counted
<1>8. CASE Recover \/ UNCHANGED vars
  BY <1>7, <1>8 DEF Recover, vars, stores, adapter, Starters
<1>9. CASE Crash
  BY <1>7, <1>9 DEF Crash, stores, adapter, Starters, Starter, Idle
<1>. QED
  BY <1>1, <1>2, <1>3, <1>4, <1>5, <1>6, <1>7, <1>8, <1>9 DEF Next, InvokeStep

\* The work of an execution is started once, and once more only for every call
\* that read the very clock reading of the first in BeginOnce, whatever else
\* races on it and wherever the process crashes (BeginOnce, handleExisting).
THEOREM WorkIsStartedOnce == Spec => []StartedOnce
<1>1. TypeInv /\ StartInv => StartedOnce
  <2>. SUFFICES ASSUME TypeInv, StartInv, NEW e \in Executions
                PROVE  starts[e] <= 1 + ties[e]
    BY DEF StartedOnce
  <2>1. Counted(e) /\ Cardinality(Starters(e)) \in Nat /\ starts[e] \in Nat /\ ties[e] \in Nat
    BY StartersFinite DEF StartInv, TypeInv, StoreTypes
  <2>. QED  BY <2>1 DEF Counted
<1>. QED  BY <1>1, TypeInit, TypeStep, StartInit, StartStep, PTL DEF Spec

-----------------------------------------------------------------------------
(* Dispositions are backed. *)

\* What a call found or did on its way to setting a disposition.
Backed(k) ==
    /\ k.phase = "bind" => k.target = Outcome(k.answer)
    /\ k.phase \in {"ledger", "set"} /\ k.target = "resume_required" => HasBinding(k.exec)
    /\ k.phase = "ledger" => k.target = k.answer.disposition
    /\ k.phase = "result" => k.target = "completed"
    /\ k.phase = "set" /\ k.target = "completed" => k.exec \in results

\* A disposition, and a call about to set one, have what backs it.
BackedInv == DispositionIsBacked /\ \A c \in Callers : Backed(call[c])

\* Nothing is set at first.
LEMMA BackedInit == Init => BackedInv
  BY DEF Init, BackedInv, DispositionIsBacked, Backed, Idle

\* A result and a binding stay.
LEMMA BackingStays ==
    ASSUME BackedInv, NEW c \in Callers, OthersStay(c),
           results \subseteq results',
           \A e \in Executions : HasBinding(e) => HasBinding(e)',
           Backed(call[c])' , DispositionIsBacked',
           \A d \in Callers : call[d].phase # "idle" => call[d].exec \in Executions
    PROVE  BackedInv'
<1>1. ASSUME NEW d \in Callers, d # c PROVE Backed(call[d])'
  <2>1. call'[d] = call[d] /\ Backed(call[d])
    BY <1>1 DEF OthersStay, BackedInv
  <2>. QED  BY <2>1 DEF Backed
<1>. QED  BY <1>1 DEF BackedInv

\* The backing of a disposition that does not change.
LEMMA BackingKept ==
    ASSUME BackedInv, disp' = disp, results \subseteq results',
           \A e \in Executions : HasBinding(e) => HasBinding(e)'
    PROVE  DispositionIsBacked'
BY DEF BackedInv, DispositionIsBacked

\* Every step keeps BackedInv.
LEMMA BackedStep == TypeInv /\ BackedInv /\ [Next]_vars => BackedInv'
<1>. SUFFICES ASSUME TypeInv, BackedInv, [Next]_vars PROVE BackedInv'
  OBVIOUS
<1>0. CallsOK /\ StoreTypes /\ disp \in [Executions -> Dispositions]
      /\ binding \in [Executions -> Bindings \cup {NoBinding}]
  BY DEF TypeInv, StoreTypes
<1>1. \A d \in Callers : call[d].phase # "idle" => call[d].exec \in Executions
  BY <1>0 DEF CallsOK, Calls, Idle
<1>2. ASSUME NEW c \in Callers, OthersStay(c), UNCHANGED stores, Backed(call[c])'
      PROVE  BackedInv'
  BY <1>1, <1>2, BackingStays, BackingKept DEF stores, HasBinding
<1>3. ASSUME NEW c \in Callers, NEW e \in Executions, NEW op \in {"start", "resume"},
             EnterInvoke(c, e, op)
      PROVE  BackedInv'
  <2>1. \E p \in {"begin", "probe", "result?"} : Enter(c, e, op, p)
    BY <1>3 DEF EnterInvoke
  <2>2. OthersStay(c) /\ call'[c].phase \in {"begin", "probe", "result?"}
    BY <1>0, <2>1, EnterMoves DEF Phase
  <2>. QED  BY <1>2, <1>3, <2>2 DEF EnterInvoke, Backed
<1>4. ASSUME NEW c \in Callers, NEW e \in Executions, EnterCancel(c, e)
      PROVE  BackedInv'
  <2>1. OthersStay(c) /\ call'[c].phase = "cancel"
    BY <1>0, <1>4, EnterMoves DEF EnterCancel, Phase
  <2>. QED  BY <1>2, <1>4, <2>1 DEF EnterCancel, Backed
<1>5. ASSUME NEW c \in Callers, Begin(c) PROVE BackedInv'
  <2>1. call[c] \in Calls /\ call[c].exec \in Executions
    BY <1>0, <1>5, InCall DEF Begin, Phase
  <2>2. OthersStay(c) /\ call'[c].phase \in {"probe", "idle"}
    BY <1>0, <1>5, <2>1, GotoMoves, ReturnMoves DEF Begin, Phase
  <2>3. binding' = binding /\ results' = results
    BY <1>5 DEF Begin
  <2>4. \A e \in Executions : disp'[e] = disp[e] \/ disp'[e] = "running"
    BY <1>0, <1>5, <2>1 DEF Begin
  <2>5. DispositionIsBacked'
    BY <2>3, <2>4 DEF BackedInv, DispositionIsBacked, HasBinding
  <2>. QED  BY <1>1, <2>2, <2>3, <2>5, BackingStays DEF Backed, HasBinding
<1>6. ASSUME NEW c \in Callers, FindResult(c) PROVE BackedInv'
  <2>1. call[c] \in Calls
    BY <1>0, <1>6, InCall DEF FindResult, Phase
  <2>2. CASE call[c].exec \in results /\ Set(c, "completed")
    BY <1>0, <1>2, <1>6, <2>1, <2>2, SetMoves DEF FindResult, Outcomes, Backed, stores
  <2>3. CASE Goto(c, "binding?")
    BY <1>0, <1>2, <1>6, <2>1, <2>3, GotoMoves DEF FindResult, Phase, Backed
  <2>. QED  BY <1>6, <2>2, <2>3 DEF FindResult
<1>7. ASSUME NEW c \in Callers, FindBinding(c) PROVE BackedInv'
  <2>1. call[c] \in Calls
    BY <1>0, <1>7, InCall DEF FindBinding, Phase
  <2>2. CASE HasBinding(call[c].exec) /\ Set(c, "resume_required")
    BY <1>0, <1>2, <1>7, <2>1, <2>2, SetMoves
       DEF FindBinding, Outcomes, Backed, stores, HasBinding
  <2>3. CASE Set(c, "input_required")
    BY <1>0, <1>2, <1>7, <2>1, <2>3, SetMoves DEF FindBinding, Outcomes, Backed
  <2>. QED  BY <1>7, <2>2, <2>3 DEF FindBinding
<1>8. ASSUME NEW c \in Callers, Probe(c) \/ CancelAdapter(c) PROVE BackedInv'
  <2>1. call[c] \in Calls
    BY <1>0, <1>8, InCall DEF Probe, CancelAdapter, Phase
  <2>2. \/ \E t \in Outcomes \ {"completed", "resume_required"} : Set(c, t)
        \/ Goto(c, "invoke") \/ Return(c)
    BY <1>8 DEF Probe, CancelAdapter, Outcomes
  <2>3. OthersStay(c) /\ Backed(call[c])'
    BY <1>0, <2>1, <2>2, SetMoves, GotoMoves, ReturnMoves DEF Phase, Backed
  <2>. QED  BY <1>2, <1>8, <2>3 DEF Probe, CancelAdapter
<1>9. ASSUME NEW c \in Callers, CallAdapter(c) PROVE BackedInv'
  <2>1. call[c] \in Calls
    BY <1>0, <1>9, InCall DEF CallAdapter, Phase
  <2>2. OthersStay(c) /\ call'[c].phase = "working"
    BY <1>0, <1>9, <2>1, GotoMoves DEF CallAdapter, Phase
  <2>. QED  BY <1>2, <1>9, <2>2 DEF CallAdapter, Backed
<1>10. ASSUME NEW c \in Callers, AdapterReturns(c) PROVE BackedInv'
  <2>1. PICK a \in Answers :
           /\ OthersStay(c)
           /\ call'[c].phase = IF a.handle = NoHandle THEN AfterBinding(a) ELSE "bind"
           /\ call'[c].target = Outcome(a) /\ call'[c].answer = a
    BY <1>0, <1>10, AdapterMoves
  <2>2. CASE a.handle = NoHandle
    <3>1. \/ AfterBinding(a) = "ledger" /\ Outcome(a) = "completed" /\ a.disposition = "completed"
          \/ AfterBinding(a) = "set" /\ Outcome(a) \notin {"completed", "resume_required"}
      BY <2>2 DEF AfterBinding, Outcome, Answers, Outcomes
    <3>. QED  BY <1>2, <1>10, <2>1, <2>2, <3>1 DEF AdapterReturns, Backed
  <2>3. CASE a.handle # NoHandle
    BY <1>2, <1>10, <2>1, <2>3 DEF AdapterReturns, Backed
  <2>. QED  BY <2>2, <2>3
<1>11. ASSUME NEW c \in Callers, Bind(c) PROVE BackedInv'
  <2>. DEFINE e == call[c].exec
              a == call[c].answer
              b == [handle |-> a.handle, resumable |-> a.resumable]
  <2>1. call[c] \in Calls /\ e \in Executions /\ a \in Answers /\ call[c].phase = "bind"
    BY <1>0, <1>11, InCall DEF Bind, Phase, At
  <2>2. disp' = disp /\ results' = results
    BY <1>11 DEF Bind
  <2>3. CASE Return(c) /\ binding' = binding
    <3>1. OthersStay(c) /\ call'[c].phase = "idle"
      BY <1>0, <2>3, ReturnMoves
    <3>. QED  BY <1>2, <1>11, <2>3, <3>1 DEF Bind, stores, Backed
  <2>4. CASE /\ binding[e] \in {NoBinding, b}
             /\ binding' = [binding EXCEPT ![e] = b] /\ Goto(c, AfterBinding(a))
    <3>1. \A f \in Executions : binding'[f] = IF f = e THEN b ELSE binding[f]
      BY <1>0, <2>1, <2>4
    <3>2. \A f \in Executions : HasBinding(f) => HasBinding(f)'
      BY <2>4, <3>1 DEF HasBinding
    <3>3. AfterBinding(a) \in {"ledger", "set"} /\ call[c].target = Outcome(a)
      BY <2>1 DEF AfterBinding, BackedInv, Backed
    <3>4. /\ OthersStay(c) /\ call'[c].phase = AfterBinding(a) /\ call'[c].exec = e
          /\ call'[c].target = Outcome(a) /\ call'[c].answer = a
      BY <1>0, <2>1, <2>4, <3>3, GotoMoves DEF Phase
    <3>5. \/ AfterBinding(a) = "ledger" /\ Outcome(a) = "completed" /\ a.disposition = "completed"
          \/ /\ AfterBinding(a) = "ledger" /\ Outcome(a) = "resume_required"
             /\ a.disposition = "resume_required" /\ a.resumable /\ a.handle # NoHandle
          \/ AfterBinding(a) = "set" /\ Outcome(a) \notin {"completed", "resume_required"}
      BY <2>1 DEF AfterBinding, Outcome, Answers, Outcomes
    <3>6. Outcome(a) = "resume_required" => HasBinding(call[c].exec)'
      <4>1. Outcome(a) = "resume_required" => a.resumable /\ a.handle # NoHandle
        BY <3>5
      <4>2. binding'[e] = b /\ call'[c].exec = e
        BY <2>1, <3>1, <3>4
      <4>3. a.handle # NoHandle => b # NoBinding
        BY DEF NoBinding
      <4>. QED  BY <4>1, <4>2, <4>3 DEF HasBinding
    <3>7. Backed(call[c])'
      BY <3>4, <3>5, <3>6 DEF Backed
    <3>. QED  BY <1>1, <2>2, <3>2, <3>4, <3>7, BackingStays, BackingKept
  <2>. QED  BY <1>11, <2>3, <2>4 DEF Bind
<1>12. ASSUME NEW c \in Callers, EnsureExecution(c) PROVE BackedInv'
  <2>1. /\ call[c] \in Calls /\ call[c].phase = "ledger"
        /\ call[c].target = call[c].answer.disposition
        /\ call[c].target = "resume_required" => HasBinding(call[c].exec)
    BY <1>0, <1>12, InCall DEF EnsureExecution, Phase, At, BackedInv, Backed
  <2>2. disp' = disp /\ results' = results /\ binding' = binding
    BY <1>12 DEF EnsureExecution
  <2>3. OthersStay(c) /\ Backed(call[c])'
    <3>1. CASE Return(c)
      BY <1>0, <3>1, ReturnMoves DEF Backed
    <3>2. CASE call[c].answer.disposition = "completed" /\ Goto(c, "result")
      BY <1>0, <2>1, <3>2, GotoMoves DEF Backed, Phase
    <3>3. CASE call[c].answer.disposition # "completed" /\ Goto(c, "set")
      BY <1>0, <2>1, <2>2, <3>3, GotoMoves DEF Backed, Phase, HasBinding
    <3>. QED  BY <1>12, <3>1, <3>2, <3>3 DEF EnsureExecution
  <2>. QED  BY <1>1, <2>2, <2>3, BackingStays, BackingKept DEF HasBinding
<1>13. ASSUME NEW c \in Callers, SaveResult(c) PROVE BackedInv'
  <2>1. /\ call[c] \in Calls /\ call[c].phase = "result" /\ call[c].target = "completed"
    BY <1>0, <1>13, InCall DEF SaveResult, Phase, At, BackedInv, Backed
  <2>2. disp' = disp /\ results \subseteq results' /\ binding' = binding
    BY <1>13 DEF SaveResult
  <2>3. OthersStay(c) /\ Backed(call[c])'
    <3>1. CASE Return(c)
      BY <1>0, <3>1, ReturnMoves DEF Backed
    <3>2. CASE results' = results \cup {call[c].exec} /\ Goto(c, "set")
      BY <1>0, <2>1, <3>2, GotoMoves DEF Backed, Phase
    <3>. QED  BY <1>13, <3>1, <3>2 DEF SaveResult
  <2>. QED  BY <1>1, <2>2, <2>3, BackingStays, BackingKept DEF HasBinding
<1>14. ASSUME NEW c \in Callers, SetDisposition(c) PROVE BackedInv'
  <2>. DEFINE e == call[c].exec
              d == call[c].target
  <2>1. /\ call[c] \in Calls /\ e \in Executions /\ call[c].phase = "set"
        /\ d = "completed" => e \in results
        /\ d = "resume_required" => HasBinding(call[c].exec)
    BY <1>0, <1>14, InCall DEF SetDisposition, Phase, At, BackedInv, Backed
  <2>2. results' = results /\ binding' = binding
    BY <1>14 DEF SetDisposition
  <2>3. OthersStay(c) /\ call'[c].phase \in {"read", "idle"}
    BY <1>0, <1>14, <2>1, GotoMoves, ReturnMoves DEF SetDisposition, Phase
  <2>4. DispositionIsBacked'
    <3>1. \A f \in Executions : disp'[f] = disp[f] \/ (f = e /\ disp'[f] = d)
      BY <1>0, <1>14, <2>1 DEF SetDisposition
    <3>. QED  BY <2>1, <2>2, <3>1 DEF BackedInv, DispositionIsBacked, HasBinding
  <2>. QED  BY <1>1, <2>2, <2>3, <2>4, BackingStays DEF Backed, HasBinding
<1>15. ASSUME NEW c \in Callers, ReadBack(c) PROVE BackedInv'
  <2>1. OthersStay(c) /\ call'[c].phase = "note"
    BY <1>0, <1>15, ReadMoves
  <2>. QED  BY <1>2, <1>15, <2>1 DEF ReadBack, Backed
<1>16. ASSUME NEW c \in Callers, Note(c) PROVE BackedInv'
  <2>1. OthersStay(c) /\ call'[c].phase = "idle"
    BY <1>0, <1>16, ReturnMoves DEF Note
  <2>2. disp' = disp /\ results' = results /\ binding' = binding
    BY <1>16 DEF Note
  <2>. QED  BY <1>1, <2>1, <2>2, BackingStays, BackingKept DEF Backed, HasBinding
<1>17. CASE Recover
  BY <1>17 DEF Recover, Canonical!Commit, BackedInv, DispositionIsBacked, Backed, HasBinding
<1>18. CASE Crash
  BY <1>18 DEF Crash, BackedInv, DispositionIsBacked, Backed, HasBinding, stores, Idle
<1>19. CASE UNCHANGED vars
  BY <1>19 DEF vars, BackedInv, DispositionIsBacked, Backed, HasBinding, stores
<1>. QED
  BY <1>3, <1>4, <1>5, <1>6, <1>7, <1>8, <1>9, <1>10, <1>11, <1>12, <1>13, <1>14, <1>15,
     <1>16, <1>17, <1>18, <1>19 DEF Next, InvokeStep

\* An execution is completed only with its durable result, and to be resumed
\* only with a binding that can be, whatever calls race (persistOutcome,
\* handleExisting).
THEOREM DispositionsAreBacked == Spec => []DispositionIsBacked
<1>1. BackedInv => DispositionIsBacked
  BY DEF BackedInv
<1>. QED  BY <1>1, TypeInit, TypeStep, BackedInit, BackedStep, PTL DEF Spec

-----------------------------------------------------------------------------
(* A final disposition is final. *)

Final == Terminal \cup {"input_required"}

\* What was set is remembered; a final disposition on the timeline, and one
\* that a call has read, is the one in the store.
FinalInv ==
    /\ \A e \in Executions : disp[e] \in Outcomes => <<e, disp[e]>> \in moves
    /\ \A e \in Executions : \A d \in Final : <<e, d>> \in noted => d = disp[e]
    /\ \A c \in Callers :
          call[c].phase = "note" /\ call[c].target \in Final
          => disp[call[c].exec] = call[c].target

\* Nothing is set at first.
LEMMA FinalInit == Init => FinalInv
  BY DEF Init, FinalInv, Outcomes, Idle

\* allowedTransition leaves no final disposition.
LEMMA NoWayOut ==
    ASSUME NEW from \in Final, NEW to, Allowed(from, to)
    PROVE  to = from
BY DEF Allowed, Final, Terminal

\* No step changes a final disposition.
LEMMA FinalStays ==
    ASSUME TypeInv, FinalInv, [Next]_vars, NEW e \in Executions, disp[e] \in Final
    PROVE  disp'[e] = disp[e]
<1>0. CallsOK /\ StoreTypes /\ disp \in [Executions -> Dispositions]
  BY DEF TypeInv, StoreTypes
<1>1. ASSUME NEW c \in Callers, Begin(c) PROVE disp'[e] = disp[e]
  BY <1>0, <1>1 DEF Begin, Final, Terminal
<1>2. ASSUME NEW c \in Callers, SetDisposition(c) PROVE disp'[e] = disp[e]
  BY <1>0, <1>2, NoWayOut DEF SetDisposition
<1>3. CASE disp' = disp
  BY <1>3
<1>. QED
  BY <1>1, <1>2, <1>3
     DEF Next, InvokeStep, EnterInvoke, EnterCancel, FindResult, FindBinding, Probe,
         CallAdapter, AdapterReturns, Bind, EnsureExecution, SaveResult, ReadBack, Note,
         CancelAdapter, Recover, Crash, stores, vars

\* A call enters phase "note" only from "read", by reading the disposition.
LEMMA OnlyReadBackNotes ==
    ASSUME TypeInv, [Next]_vars, NEW d \in Callers, call'[d].phase = "note"
    PROVE  \/ call'[d] = call[d]
           \/ /\ call'[d].exec \in Executions
              /\ call'[d].target = disp[call'[d].exec] /\ disp' = disp
<1>0. CallsOK /\ StoreTypes /\ disp \in [Executions -> Dispositions]
  BY DEF TypeInv, StoreTypes
<1>1. ASSUME NEW c \in Callers, OthersStay(c), call'[c].phase # "note"
      PROVE  call'[d] = call[d]
  BY <1>1 DEF OthersStay
<1>2. ASSUME NEW c \in Callers, NEW e \in Executions,
             EnterCancel(c, e) \/ \E op \in {"start", "resume"} : EnterInvoke(c, e, op)
      PROVE  call'[d] = call[d]
  <2>1. \E op \in {"start", "resume", "cancel"} :
           \E p \in {"cancel", "begin", "probe", "result?"} : Enter(c, e, op, p)
    BY <1>2 DEF EnterInvoke, EnterCancel
  <2>2. OthersStay(c) /\ call'[c].phase # "note"
    BY <1>0, <2>1, EnterMoves DEF Phase
  <2>. QED  BY <1>1, <2>2
<1>3. ASSUME NEW c \in Callers, AdapterReturns(c) PROVE call'[d] = call[d]
  BY <1>0, <1>1, <1>3, AdapterMoves
<1>4. ASSUME NEW c \in Callers, ReadBack(c)
      PROVE  \/ call'[d] = call[d]
             \/ /\ call'[d].exec \in Executions
                /\ call'[d].target = disp[call'[d].exec] /\ disp' = disp
  <2>1. OthersStay(c) /\ call'[c].target = disp[call'[c].exec] /\ call'[c].exec \in Executions
    BY <1>0, <1>4, ReadMoves, InCall DEF ReadBack, Phase
  <2>. QED  BY <1>4, <2>1 DEF ReadBack, OthersStay, stores
<1>5. ASSUME NEW c \in Callers, call[c] \in Calls,
             \/ \E t \in Outcomes : Set(c, t)
             \/ \E p \in Phase \ {"note"} : Goto(c, p)
             \/ Return(c)
      PROVE  call'[d] = call[d]
  <2>1. OthersStay(c) /\ call'[c].phase # "note"
    BY <1>0, <1>5, SetMoves, GotoMoves, ReturnMoves
  <2>. QED  BY <1>1, <2>1
<1>6. ASSUME NEW c \in Callers,
             \/ Begin(c) \/ FindResult(c) \/ FindBinding(c) \/ Probe(c) \/ CallAdapter(c)
             \/ Bind(c) \/ EnsureExecution(c) \/ SaveResult(c) \/ SetDisposition(c)
             \/ Note(c) \/ CancelAdapter(c)
      PROVE  call'[d] = call[d]
  <2>1. call[c] \in Calls
    BY <1>0, <1>6, InCall
       DEF Begin, FindResult, FindBinding, Probe, CallAdapter, Bind, EnsureExecution,
           SaveResult, SetDisposition, Note, CancelAdapter, Phase
  <2>2. \/ \E t \in Outcomes : Set(c, t)
        \/ \E p \in Phase \ {"note"} : Goto(c, p)
        \/ Return(c)
    BY <1>6
       DEF Begin, FindResult, FindBinding, Probe, CallAdapter, Bind, EnsureExecution,
           SaveResult, SetDisposition, Note, CancelAdapter, Phase, Outcomes, AfterBinding
  <2>. QED  BY <1>5, <2>1, <2>2
<1>7. CASE Crash
  BY <1>7 DEF Crash, Idle
<1>8. CASE call' = call
  BY <1>8
<1>. QED
  BY <1>2, <1>3, <1>4, <1>6, <1>7, <1>8 DEF Next, InvokeStep, Recover, vars

\* Every step keeps FinalInv.
LEMMA FinalStep == TypeInv /\ FinalInv /\ [Next]_vars => FinalInv'
<1>. SUFFICES ASSUME TypeInv, FinalInv, [Next]_vars PROVE FinalInv'
  OBVIOUS
<1>0. CallsOK /\ StoreTypes /\ disp \in [Executions -> Dispositions]
  BY DEF TypeInv, StoreTypes
<1>1. \A e \in Executions : disp[e] \in Final => disp'[e] = disp[e]
  BY FinalStays
<1>2. \A e \in Executions : disp'[e] \in Outcomes => <<e, disp'[e]>> \in moves'
  <2>1. ASSUME NEW c \in Callers, Begin(c)
        PROVE  \A e \in Executions : disp'[e] \in Outcomes => <<e, disp'[e]>> \in moves'
    <3>1. moves' = moves
      BY <2>1 DEF Begin
    <3>2. \A e \in Executions : disp'[e] \in {disp[e], "running"}
      BY <1>0, <2>1 DEF Begin
    <3>. QED  BY <3>1, <3>2 DEF FinalInv, Outcomes
  <2>2. ASSUME NEW c \in Callers, SetDisposition(c)
        PROVE  \A e \in Executions : disp'[e] \in Outcomes => <<e, disp'[e]>> \in moves'
    BY <1>0, <2>2 DEF SetDisposition, FinalInv
  <2>3. CASE UNCHANGED <<disp, moves>>
    BY <2>3 DEF FinalInv
  <2>. QED
    BY <2>1, <2>2, <2>3
       DEF Next, InvokeStep, EnterInvoke, EnterCancel, FindResult, FindBinding, Probe,
           CallAdapter, AdapterReturns, Bind, EnsureExecution, SaveResult, ReadBack, Note,
           CancelAdapter, Recover, Crash, stores, vars
<1>3. ASSUME NEW e \in Executions, NEW d \in Final, <<e, d>> \in noted'
      PROVE  d = disp'[e]
  <2>1. CASE <<e, d>> \in noted
    BY <1>1, <1>3, <2>1 DEF FinalInv
  <2>2. CASE <<e, d>> \notin noted
    <3>1. PICK c \in Callers : Note(c)
      BY <1>3, <2>2
         DEF Next, InvokeStep, EnterInvoke, EnterCancel, Begin, FindResult, FindBinding,
             Probe, CallAdapter, AdapterReturns, Bind, EnsureExecution, SaveResult,
             SetDisposition, ReadBack, CancelAdapter, Recover, Crash, stores, vars
    <3>2. e = call[c].exec /\ d = call[c].target /\ call[c].phase = "note"
      BY <1>3, <2>2, <3>1 DEF Note, At
    <3>. QED  BY <1>1, <3>2 DEF FinalInv
  <2>. QED  BY <2>1, <2>2
<1>4. ASSUME NEW c \in Callers, call'[c].phase = "note", call'[c].target \in Final
      PROVE  disp'[call'[c].exec] = call'[c].target
  <2>1. CASE call'[c] = call[c]
    <3>1. disp[call[c].exec] = call[c].target /\ call[c].exec \in Executions
      BY <1>0, <1>4, <2>1, InCall DEF FinalInv, At, Phase
    <3>. QED  BY <1>1, <1>4, <2>1, <3>1
  <2>. QED  BY <1>4, <2>1, OnlyReadBackNotes
<1>. QED  BY <1>2, <1>3, <1>4 DEF FinalInv

\* A final disposition stays whichever calls are still in flight, and the
\* timeline never tells another story (allowedTransition, SetDispositionOnce,
\* and the read before the note).
THEOREM FinalDispositionsStay == Spec => FinalIsFinal
<1>1. TypeInv /\ FinalInv /\ FinalInv' /\ [Next]_vars =>
         [\A e \in Executions :
             disp[e] \in Terminal \cup {"input_required"}
             => /\ disp'[e] = disp[e]
                /\ \A d \in Terminal \cup {"input_required"} :
                      <<e, d>> \in noted' => d = disp[e]]_vars
  BY FinalStays DEF Final, FinalInv
<1>. QED
  BY <1>1, TypeInit, TypeStep, FinalInit, FinalStep, PTL DEF Spec, FinalIsFinal

-----------------------------------------------------------------------------
(* The runtime keeps its part of the promise about results. *)

CanonicalSpec == Canonical!Spec

\* Seen as results and the canonical session, every step of the runtime, a
\* crash included, produces one result, commits one, or does nothing
\* (SaveResult, Recover; docs/PROOF_0.12_SPEC.md).
THEOREM RuntimeImplementsCanonicalCommit == Spec => CanonicalSpec
<1>1. Init => Canonical!Init
  BY DEF Init, Canonical!Init
<1>2. TypeInv /\ [Next]_vars => [Canonical!Next]_<<results, canon>>
  <2>. SUFFICES ASSUME TypeInv, [Next]_vars
                PROVE  [Canonical!Next]_<<results, canon>>
    OBVIOUS
  <2>1. ASSUME NEW c \in Callers, SaveResult(c)
        PROVE  [Canonical!Next]_<<results, canon>>
    <3>1. call[c].exec \in Executions
      BY <2>1, InCall DEF TypeInv, SaveResult, Phase
    <3>2. CASE results' = results \cup {call[c].exec} /\ canon' = canon
      BY <3>1, <3>2 DEF Canonical!Next, Canonical!Produce
    <3>. QED  BY <2>1, <3>2 DEF SaveResult
  <2>2. CASE Recover
    BY <2>2 DEF Recover, Canonical!Next
  <2>3. CASE UNCHANGED <<results, canon>>
    BY <2>3
  <2>. QED
    BY <2>1, <2>2, <2>3
       DEF Next, InvokeStep, EnterInvoke, EnterCancel, Begin, FindResult, FindBinding,
           Probe, CallAdapter, AdapterReturns, Bind, EnsureExecution, SetDisposition,
           ReadBack, Note, CancelAdapter, Crash, stores, vars
<1>. QED
  BY <1>1, <1>2, TypeInit, TypeStep, PTL DEF Spec, CanonicalSpec, Canonical!Spec

=============================================================================
