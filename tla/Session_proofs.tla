---------------------------- MODULE Session_proofs ----------------------------
(***************************************************************************)
(* Proofs about Session, for any callers, keys, usages and responses.  A   *)
(* step of a session is one of the pool, of the Codex client, or of both   *)
(* (PoolMoves, CodexMoves), so what is true of these is proved on them     *)
(* alone; what relates a session to its request, or to its stream, is      *)
(* proved on the whole.  The last part is about Conformance, for any       *)
(* observations.                                                           *)
(***************************************************************************)
EXTENDS Session, Conformance, FiniteSetTheorems, SequenceTheorems, WellFoundedInduction, TLAPS

-----------------------------------------------------------------------------
(* What a step of a session is to the pool and to the Codex client. *)

PoolMove(c) == Admit(c) \/ Execute(c) \/ Take(c, request[c].outcome)
PoolMoves == \E c \in Callers : PoolMove(c)

CodexMove(c) == EngineRun(c) \/ BeginRun(c) \/ TakeRun(c)
CodexMoves == (\E c \in Callers : CodexMove(c)) \/ Server \/ ReadLoop

LEMMA TakeIsMove ==
    ASSUME NEW c \in Callers, NEW o, Take(c, o)
    PROVE  PoolMove(c)
BY DEF Take, PoolMove

LEMMA OrchestrateMovesPool ==
    ASSUME NEW s \in Callers, Orchestrate(s)
    PROVE  PoolMove(s) \/ UNCHANGED poolVars
<1>1. CASE RunWithFallback(s)
  BY <1>1 DEF RunWithFallback, PoolMove
<1>2. CASE Run(s)
  BY <1>2 DEF Run, PoolMove
<1>3. CASE RunEnds(s)
  BY <1>3 DEF RunEnds, PoolMove
<1>4. CASE PoolEnds(s)
  BY <1>4, TakeIsMove DEF PoolEnds
<1>5. CASE FallBack(s)
  BY <1>5 DEF FallBack
<1>6. CASE FallbackEnds(s)
  BY <1>6, TakeIsMove DEF FallbackEnds
<1>7. CASE BeginInterruptible(s) \/ NextKey(s) \/ \E class \in StreamClasses : StreamEnds(s, class)
  BY <1>7 DEF BeginInterruptible, NextKey, StreamEnds, StreamDone, StreamExhausted, StreamFails
<1>8. CASE Stage(s) \/ ContinueInFlight(s) \/ ContinuationEnds(s)
  BY <1>8 DEF Stage, ContinueInFlight, ContinuationEnds
<1>9. CASE \E delta \in Deltas(s) : Delta(s, delta)
  BY <1>9 DEF Delta
<1>. QED  BY <1>1, <1>2, <1>3, <1>4, <1>5, <1>6, <1>7, <1>8, <1>9 DEF Orchestrate

LEMMA StepMovesPool == [Next]_vars => PoolMoves \/ UNCHANGED poolVars
BY OrchestrateMovesPool DEF Next, PoolMoves, PoolMove, vars

LEMMA StepMovesCodex == [Next]_vars => CodexMoves \/ UNCHANGED codexVars
<1>. SUFFICES ASSUME [Next]_vars PROVE CodexMoves \/ UNCHANGED codexVars
  OBVIOUS
<1>1. ASSUME NEW s \in Callers, Orchestrate(s) PROVE CodexMove(s) \/ UNCHANGED codexVars
  <2>1. CASE RunWithFallback(s)
    BY <2>1 DEF RunWithFallback
  <2>2. CASE Run(s)
    BY <2>2 DEF Run, CodexMove
  <2>3. CASE RunEnds(s)
    BY <2>3 DEF RunEnds, CodexMove
  <2>4. CASE PoolEnds(s)
    BY <2>4 DEF PoolEnds
  <2>5. CASE FallBack(s) \/ ContinueInFlight(s)
    BY <2>5 DEF FallBack, ContinueInFlight, CodexMove
  <2>6. CASE FallbackEnds(s) \/ ContinuationEnds(s)
    BY <2>6 DEF FallbackEnds, ContinuationEnds, CodexMove
  <2>7. CASE BeginInterruptible(s) \/ NextKey(s) \/ \E class \in StreamClasses : StreamEnds(s, class)
    BY <2>7 DEF BeginInterruptible, NextKey, StreamEnds, StreamDone, StreamExhausted, StreamFails
  <2>8. CASE Stage(s)
    BY <2>8 DEF Stage
  <2>9. CASE \E delta \in Deltas(s) : Delta(s, delta)
    BY <2>9 DEF Delta
  <2>. QED  BY <1>1, <2>1, <2>2, <2>3, <2>4, <2>5, <2>6, <2>7, <2>8, <2>9 DEF Orchestrate
<1>2. CASE UNCHANGED vars
  BY <1>2 DEF vars
<1>. QED  BY <1>1, <1>2 DEF Next, CodexMoves, CodexMove

-----------------------------------------------------------------------------
(* The type of the pool. *)

\* A nonempty set of numbers has a least one.
LEMMA HasLeast ==
    ASSUME NEW S \in SUBSET Nat, S # {}
    PROVE  \E x \in S : \A y \in S : x <= y
<1>1. PICK x \in S : \A y \in S : ~(<<y, x>> \in OpToRel(<, Nat))
  BY NatLessThanWellFounded, WFMin
<1>2. \A y \in S : ~(y < x)
  BY <1>1 DEF OpToRel
<1>3. \A y \in S : x <= y
  BY <1>2
<1>. QED  BY <1>3

\* Where a key was asked, the caller knows which.
KeyKnown == \A c \in Callers :
    request[c].phase \in {"sent", "answered", "observe"} => request[c].index \in Keys

PoolTyped == PoolTypeOK /\ observed \in Seq(Usages \cup {NoUsage}) /\ KeyKnown

LEMMA ClassifyType == ASSUME NEW r PROVE Classify(r) \in Classes
BY DEF Classify, Classes

LEMMA NoRequestType ==
    /\ NoRequest \in Requests /\ NoRequest.asked = <<>>
    /\ NoRequest.phase = "idle" /\ NoRequest.outcome = "none"
<1>1. 0 \in 0..KeyCount /\ <<>> \in Seq([key : Keys, class : Classes])
  BY PoolAssumption
<1>. QED  BY <1>1 DEF NoRequest, Requests, Classes, Outcomes

Asked == Seq([key : Keys, class : Classes])

LEMMA FinishType ==
    ASSUME request \in [Callers -> Requests], NEW c \in Callers, NEW o \in Outcomes, Finish(c, o)
    PROVE  /\ request' \in [Callers -> Requests]
           /\ request'[c].phase = "done" /\ request'[c].outcome = o
           /\ request'[c].asked = request[c].asked
           /\ \A d \in Callers \ {c} : request'[d] = request[d]
<1>1. PICK q \in Asked : q = request[c].asked
  BY DEF Requests, Asked
<1>2. PICK x : x = [NoRequest EXCEPT !.phase = "done", !.outcome = o, !.asked = q]
  OBVIOUS
<1>3. x \in Requests /\ x.phase = "done" /\ x.outcome = o /\ x.asked = q
  BY <1>2, NoRequestType DEF Requests, Asked
<1>4. request' = [request EXCEPT ![c] = x]
  BY <1>1, <1>2 DEF Finish
<1>. QED  BY <1>1, <1>3, <1>4

\* A caller goes on to another place.
LEMMA PhaseType ==
    ASSUME request \in [Callers -> Requests], NEW c \in Callers, NEW p \in {"select", "observe"},
           request' = [request EXCEPT ![c].phase = p]
    PROVE  /\ request' \in [Callers -> Requests]
           /\ request'[c].phase = p /\ request'[c].index = request[c].index
           /\ request'[c].asked = request[c].asked /\ request'[c].class = request[c].class
           /\ \A d \in Callers \ {c} : request'[d] = request[d]
<1>1. PICK r \in Requests : r = request[c]
  OBVIOUS
<1>2. PICK x : x = [r EXCEPT !.phase = p]
  OBVIOUS
<1>3. /\ x \in Requests /\ x.phase = p /\ x.index = r.index
      /\ x.asked = r.asked /\ x.class = r.class
  BY <1>2 DEF Requests
<1>4. request' = [request EXCEPT ![c] = x]
  BY <1>1, <1>2
<1>. QED  BY <1>1, <1>3, <1>4

\* What the steps of Execute make of the caller's request; those of the others
\* stay.
Keeps(c) == \A d \in Callers \ {c} : request'[d] = request[d]

LEMMA AdmitEffect ==
    ASSUME PoolTyped, NEW c \in Callers, Admit(c)
    PROVE  /\ request' \in [Callers -> Requests] /\ Keeps(c)
           /\ request'[c].asked = request[c].asked
           /\ IF guard.blocked THEN request'[c].phase = "done" /\ request'[c].outcome = "blocked"
                               ELSE request'[c].phase = "select"
<1>1. CASE guard.blocked
  BY <1>1, FinishType DEF Admit, Outcomes, PoolTyped, PoolTypeOK, Keeps
<1>2. CASE ~guard.blocked
  BY <1>2, PhaseType DEF Admit, PoolTyped, PoolTypeOK, Keeps
<1>. QED  BY <1>1, <1>2

LEMMA SelectEffect ==
    ASSUME PoolTyped, NEW c \in Callers, Select(c)
    PROVE  /\ request' \in [Callers -> Requests] /\ Keeps(c)
           /\ request'[c].asked = request[c].asked
           /\ \/ request'[c].phase = "done" /\ request'[c].outcome = "unavailable"
              \/ request'[c].phase = "sent" /\ request'[c].index \in Keys
<1>. DEFINE usable == {k \in Keys : k > request[c].index /\ keyState[k] \in Usable}
<1>0. request \in [Callers -> Requests] /\ KeyCount \in Nat \ {0}
  BY PoolAssumption DEF PoolTyped, PoolTypeOK
<1>1. CASE usable = {}
  BY <1>0, <1>1, FinishType DEF Select, Outcomes, Keeps
<1>2. CASE usable # {}
  <2>1. PICK k : k = CHOOSE i \in usable : \A j \in usable : i <= j
    OBVIOUS
  <2>2. usable \in SUBSET Nat
    BY <1>0 DEF Keys
  <2>3. k \in Keys
    BY <1>2, <2>1, <2>2, HasLeast
  <2>4. request' = [request EXCEPT ![c].phase = "sent", ![c].index = k]
    BY <1>2, <2>1 DEF Select
  <2>5. PICK r \in Requests : r = request[c]
    BY <1>0
  <2>6. PICK x : x = [r EXCEPT !.phase = "sent", !.index = k]
    OBVIOUS
  <2>7. k \in 0..KeyCount
    BY <1>0, <2>3 DEF Keys
  <2>8. x \in Requests /\ x.phase = "sent" /\ x.index = k /\ x.asked = r.asked
    BY <2>6, <2>7 DEF Requests
  <2>9. request' = [request EXCEPT ![c] = x]
    BY <2>4, <2>5, <2>6
  <2>. QED  BY <1>0, <2>3, <2>5, <2>8, <2>9 DEF Keeps
<1>. QED  BY <1>1, <1>2

LEMMA AnswerEffect ==
    ASSUME PoolTyped, NEW c \in Callers, NEW r \in Responses, NEW u \in Usages,
           NEW decodes \in BOOLEAN, Answer(c, r, u, decodes)
    PROVE  /\ request' \in [Callers -> Requests] /\ Keeps(c)
           /\ request'[c].phase = "answered" /\ request'[c].index \in Keys
           /\ request'[c].asked = Append(request[c].asked,
                  [key |-> request[c].index, class |-> request'[c].class])
<1>0. request \in [Callers -> Requests]
  BY DEF PoolTyped, PoolTypeOK
<1>1. PICK class \in Classes, v \in Usages \cup {NoUsage} :
         request' = [request EXCEPT ![c].phase = "answered", ![c].class = class,
                       ![c].usage = v,
                       ![c].asked = Append(@, [key |-> request[c].index, class |-> class])]
  <2>1. (IF Classify(r) = "none" /\ ~decodes THEN "ambiguous" ELSE Classify(r)) \in Classes
    BY ClassifyType DEF Classes
  <2>. QED  BY <2>1 DEF Answer
<1>2. PICK z \in Requests : z = request[c]
  BY <1>0
<1>3. z.index \in Keys /\ z.asked \in Asked
  BY <1>2 DEF Answer, In, PoolTyped, KeyKnown, Requests, Asked
<1>4. PICK q : q = Append(z.asked, [key |-> z.index, class |-> class])
  OBVIOUS
<1>5. q \in Asked
  BY <1>3, <1>4 DEF Asked
<1>6. PICK x : x = [z EXCEPT !.phase = "answered", !.class = class, !.usage = v, !.asked = q]
  OBVIOUS
<1>7. x \in Requests /\ x.phase = "answered" /\ x.index = z.index /\ x.class = class /\ x.asked = q
  BY <1>5, <1>6 DEF Requests, Asked
<1>8. request' = [request EXCEPT ![c] = x]
  BY <1>1, <1>2, <1>4, <1>6
<1>. QED  BY <1>0, <1>2, <1>3, <1>4, <1>7, <1>8 DEF Keeps

LEMMA ApplyEffect ==
    ASSUME PoolTyped, NEW c \in Callers, Apply(c)
    PROVE  /\ request' \in [Callers -> Requests] /\ Keeps(c)
           /\ request'[c].asked = request[c].asked
           /\ \/ /\ request[c].class = "none"
                 /\ request'[c].phase = "observe" /\ request'[c].index = request[c].index
              \/ /\ request[c].class \in KeyScoped
                 /\ request'[c].phase = "select" /\ request'[c].index = request[c].index
              \/ /\ request[c].class \notin KeyScoped
                 /\ request'[c].phase = "done" /\ request'[c].outcome # "unavailable"
           /\ keyState' \in [Keys -> KeyStates] /\ activeAt' \in 0..KeyCount
<1>0. request \in [Callers -> Requests] /\ KeyKnown /\ KeyCount \in Nat \ {0}
  BY PoolAssumption DEF PoolTyped, PoolTypeOK
<1>. DEFINE r == request[c]
<1>1. CASE r.class \in KeyScoped \cup {"none"}
  <2>1. PICK p \in {"select", "observe"} : p = IF r.class = "none" THEN "observe" ELSE "select"
    OBVIOUS
  <2>2. SetState(r.index, StateFor(r.class)) /\ request' = [request EXCEPT ![c].phase = p]
    BY <1>1, <2>1 DEF Apply
  <2>3. r.index \in Keys /\ StateFor(r.class) \in KeyStates
    BY <1>0, <1>1 DEF Apply, In, KeyKnown, StateFor, KeyStates, KeyScoped
  <2>4. keyState' \in [Keys -> KeyStates] /\ activeAt' \in 0..KeyCount
    BY <2>2, <2>3 DEF SetState, PoolTyped, PoolTypeOK, KeyStates, Keys
  <2>5. /\ request' \in [Callers -> Requests] /\ Keeps(c)
        /\ request'[c].asked = r.asked /\ request'[c].phase = p /\ request'[c].index = r.index
    BY <1>0, <2>2, PhaseType DEF Keeps
  <2>. QED  BY <1>1, <2>1, <2>4, <2>5
<1>2. CASE r.class \notin KeyScoped \cup {"none"}
  <2>1. PICK o \in Outcomes : Finish(c, o) /\ o # "unavailable"
    BY <1>0, <1>2 DEF Apply, KeyScoped, Requests, Classes, Outcomes
  <2>2. UNCHANGED <<keyState, activeAt>>
    BY <1>2 DEF Apply
  <2>. QED  BY <1>0, <1>2, <2>1, <2>2, FinishType DEF PoolTyped, PoolTypeOK, Keeps
<1>. QED  BY <1>1, <1>2

LEMMA ObserveEffect ==
    ASSUME PoolTyped, NEW c \in Callers, ObserveUsage(c)
    PROVE  /\ request' \in [Callers -> Requests] /\ Keeps(c)
           /\ request'[c].asked = request[c].asked
           /\ request'[c].phase = "done" /\ request'[c].outcome = "ok"
BY FinishType DEF ObserveUsage, PoolTyped, PoolTypeOK, Outcomes, Keeps

LEMMA TakeEffect ==
    ASSUME PoolTyped, NEW c \in Callers, NEW o, Take(c, o)
    PROVE  /\ request' \in [Callers -> Requests] /\ Keeps(c)
           /\ request'[c] = NoRequest
BY NoRequestType DEF Take, PoolTyped, PoolTypeOK, Keeps

LEMMA PoolTypedInit == Init => PoolTyped
<1>. SUFFICES ASSUME Init PROVE PoolTyped
  OBVIOUS
<1>1. NoRequest \in Requests
  BY NoRequestType
<1>2. Cardinality(Callers) \in Nat
  BY PoolAssumption, FS_CardinalityType
<1>. QED  BY <1>1, <1>2, PoolAssumption
          DEF Init, PoolInit, PoolTyped, PoolTypeOK, KeyKnown, KeyStates, NoRequest

LEMMA PoolTypedStep == PoolTyped /\ [Next]_vars => PoolTyped'
<1>. SUFFICES ASSUME PoolTyped, PoolMoves \/ UNCHANGED poolVars PROVE PoolTyped'
  BY StepMovesPool
<1>0. /\ request \in [Callers -> Requests] /\ KeyKnown
      /\ KeyCount \in Nat \ {0} /\ Usages \subseteq [write : Nat, read : Nat]
  BY PoolAssumption DEF PoolTyped, PoolTypeOK
<1>1. ASSUME NEW c \in Callers, Admit(c) PROVE PoolTyped'
  BY <1>0, <1>1, AdmitEffect DEF Admit, PoolTyped, PoolTypeOK, KeyKnown, Keeps
<1>2. ASSUME NEW c \in Callers, Select(c) PROVE PoolTyped'
  BY <1>0, <1>2, SelectEffect DEF Select, PoolTyped, PoolTypeOK, KeyKnown, Keeps
<1>3. ASSUME NEW c \in Callers, NEW r \in Responses, NEW u \in Usages, NEW decodes \in BOOLEAN,
             Answer(c, r, u, decodes)
      PROVE  PoolTyped'
  <2>1. request' \in [Callers -> Requests] /\ Keeps(c) /\ request'[c].index \in Keys
    BY <1>3, AnswerEffect
  <2>2. KeyKnown'
    BY <1>0, <2>1 DEF KeyKnown, Keeps
  <2>. QED  BY <1>3, <2>1, <2>2 DEF Answer, PoolTyped, PoolTypeOK
<1>4. ASSUME NEW c \in Callers, Apply(c) PROVE PoolTyped'
  <2>1. request' \in [Callers -> Requests] /\ KeyKnown'
    BY <1>0, <1>4, ApplyEffect DEF Apply, In, KeyKnown, Keeps
  <2>. QED  BY <1>4, <2>1, ApplyEffect DEF Apply, PoolTyped, PoolTypeOK
<1>5. ASSUME NEW c \in Callers, ObserveUsage(c) PROVE PoolTyped'
  <2>2. request' \in [Callers -> Requests] /\ KeyKnown'
    BY <1>0, <1>5, ObserveEffect DEF KeyKnown, Keeps
  <2>3. guard' \in [consecutive : Nat, blocked : BOOLEAN]
    <3>1. guard \in [consecutive : Nat, blocked : BOOLEAN] /\ guard' = Observe(guard, request[c].usage)
      BY <1>5 DEF ObserveUsage, PoolTyped, PoolTypeOK
    <3>2. CASE guard.blocked \/ Extreme(request[c].usage)
      BY <3>1, <3>2 DEF Observe
    <3>3. CASE ~(guard.blocked \/ Extreme(request[c].usage))
      <4>1. PICK n \in Nat : n = IF LargeMiss(request[c].usage) THEN guard.consecutive + 1 ELSE 0
        BY <3>1
      <4>2. guard' = [consecutive |-> n, blocked |-> n >= ConsecutiveLimit]
        BY <3>1, <3>3, <4>1 DEF Observe
      <4>. QED  BY <4>1, <4>2
    <3>. QED  BY <3>2, <3>3
  <2>4. observed' \in Seq(Usages \cup {NoUsage})
    BY <1>0, <1>5 DEF ObserveUsage, PoolTyped, Requests
  <2>5. late' \in Nat /\ passed' \in 0..Cardinality(Callers)
    <3>. DEFINE F == {d \in Callers \ {c} : ~In(d, "idle") /\ ~In(d, "done")}
    <3>1. Cardinality(F) \in 0..Cardinality(Callers)
      BY PoolAssumption, FS_Subset, FS_CardinalityType
    <3>. HIDE DEF F
    <3>2. passed' \in {passed, Cardinality(F)} /\ late' \in {late, late + 1}
      BY <1>5 DEF ObserveUsage, F
    <3>. QED  BY <3>1, <3>2 DEF PoolTyped, PoolTypeOK
  <2>. QED  BY <1>5, <2>2, <2>3, <2>4, <2>5 DEF ObserveUsage, PoolTyped, PoolTypeOK
<1>6. ASSUME NEW c \in Callers, NEW o, Take(c, o) PROVE PoolTyped'
  <2>2. request' \in [Callers -> Requests] /\ KeyKnown'
    BY <1>0, <1>6, TakeEffect, NoRequestType DEF KeyKnown, Keeps
  <2>. QED  BY <1>6, <2>2 DEF Take, PoolTyped, PoolTypeOK
<1>7. CASE UNCHANGED poolVars
  BY <1>0, <1>7 DEF poolVars, PoolTyped, PoolTypeOK, KeyKnown
<1>. QED  BY <1>1, <1>2, <1>3, <1>4, <1>5, <1>6, <1>7 DEF PoolMoves, PoolMove, Execute

LEMMA PoolTypedAlways == Spec => []PoolTyped
BY PoolTypedInit, PoolTypedStep, PTL DEF Spec

-----------------------------------------------------------------------------
(* One engine at most. *)

\* Of the requests sent for a prompt, those not refused with evidence about
\* their key; until the walk over the keys ends there is none, and then there
\* is at most the last.
Unrefused(c) == {i \in DOMAIN request[c].asked : request[c].asked[i].class \notin KeyScoped}

Walking(c) ==
    \/ request[c].phase \in {"idle", "select", "sent"}
    \/ request[c].phase = "answered" /\ request[c].class \in KeyScoped
    \/ request[c].phase = "done" /\ request[c].outcome = "unavailable"

WalkInv ==
    \A c \in Callers :
        Unrefused(c) \subseteq {Len(request[c].asked)} /\ (Walking(c) => Unrefused(c) = {})

LEMMA WalkInit == Init => WalkInv
BY NoRequestType DEF Init, PoolInit, WalkInv, Unrefused

\* A caller whose list of requests stays, or who starts afresh.
LEMMA WalkKept ==
    ASSUME WalkInv, NEW c \in Callers, request'[c].asked = request[c].asked
    PROVE  /\ Unrefused(c)' = Unrefused(c)
           /\ Unrefused(c)' \subseteq {Len(request'[c].asked)}
BY DEF WalkInv, Unrefused

LEMMA WalkStep == PoolTyped /\ WalkInv /\ [Next]_vars => WalkInv'
<1>. SUFFICES ASSUME PoolTyped, WalkInv, PoolMoves \/ UNCHANGED poolVars PROVE WalkInv'
  BY StepMovesPool
<1>0. ASSUME NEW c \in Callers, Keeps(c),
             Unrefused(c)' \subseteq {Len(request'[c].asked)}, Walking(c)' => Unrefused(c)' = {}
      PROVE  WalkInv'
  BY <1>0 DEF WalkInv, Keeps, Unrefused, Walking
<1>1. ASSUME NEW c \in Callers, Admit(c) PROVE WalkInv'
  <2>1. Keeps(c) /\ request'[c].asked = request[c].asked
    BY <1>1, AdmitEffect
  <2>2. Unrefused(c) = {}
    BY <1>1 DEF Admit, In, WalkInv, Walking
  <2>. QED  BY <2>1, <2>2, WalkKept, <1>0
<1>2. ASSUME NEW c \in Callers, Select(c) PROVE WalkInv'
  <2>1. Keeps(c) /\ request'[c].asked = request[c].asked
    BY <1>2, SelectEffect
  <2>2. Unrefused(c) = {}
    BY <1>2 DEF Select, In, WalkInv, Walking
  <2>. QED  BY <2>1, <2>2, WalkKept, <1>0
<1>3. ASSUME NEW c \in Callers, NEW r \in Responses, NEW u \in Usages, NEW decodes \in BOOLEAN,
             Answer(c, r, u, decodes)
      PROVE  WalkInv'
  <2>1. /\ Keeps(c) /\ request'[c].phase = "answered"
        /\ request'[c].asked = Append(request[c].asked,
               [key |-> request[c].index, class |-> request'[c].class])
    BY <1>3, AnswerEffect
  <2>2. request[c].asked \in Asked
    BY DEF PoolTyped, PoolTypeOK, Requests, Asked
  <2>3. \A i \in DOMAIN request[c].asked : request[c].asked[i].class \in KeyScoped
    BY <1>3 DEF Answer, In, WalkInv, Walking, Unrefused
  <2>a. PICK e : e = [key |-> request[c].index, class |-> request'[c].class]
    OBVIOUS
  <2>b. PICK q \in Asked : q = request[c].asked
    BY <2>2
  <2>4. q = request[c].asked /\ e = [key |-> request[c].index, class |-> request'[c].class]
    BY <2>a, <2>b
  <2>5. /\ Len(request'[c].asked) = Len(q) + 1 /\ request'[c].asked[Len(q) + 1] = e
        /\ DOMAIN request'[c].asked = 1..Len(q) + 1
        /\ \A i \in 1..Len(q) : request'[c].asked[i] = q[i]
    BY <2>1, <2>4 DEF Asked
  <2>6. Unrefused(c)' \subseteq {Len(request'[c].asked)}
    BY <2>3, <2>4, <2>5 DEF Unrefused, Asked
  <2>7. Walking(c)' => Unrefused(c)' = {}
    BY <2>1, <2>3, <2>4, <2>5 DEF Unrefused, Asked, Walking
  <2>. QED  BY <2>1, <2>6, <2>7, <1>0
<1>4. ASSUME NEW c \in Callers, Apply(c) PROVE WalkInv'
  <2>1. Keeps(c) /\ request'[c].asked = request[c].asked
    BY <1>4, ApplyEffect
  <2>2. Walking(c)' => Walking(c)
    BY <1>4, ApplyEffect DEF Apply, In, Walking
  <2>. QED  BY <2>1, <2>2, WalkKept, <1>0 DEF WalkInv
<1>5. ASSUME NEW c \in Callers, ObserveUsage(c) PROVE WalkInv'
  <2>1. Keeps(c) /\ request'[c].asked = request[c].asked /\ ~Walking(c)'
    BY <1>5, ObserveEffect DEF Walking
  <2>. QED  BY <2>1, WalkKept, <1>0
<1>6. ASSUME NEW c \in Callers, NEW o, Take(c, o) PROVE WalkInv'
  <2>1. Keeps(c) /\ request'[c].asked = <<>>
    BY <1>6, TakeEffect, NoRequestType
  <2>2. Unrefused(c)' = {}
    BY <2>1 DEF Unrefused
  <2>. QED  BY <2>1, <2>2, <1>0
<1>7. CASE UNCHANGED poolVars
  BY <1>7 DEF poolVars, WalkInv, Unrefused, Walking
<1>. QED  BY <1>1, <1>2, <1>3, <1>4, <1>5, <1>6, <1>7 DEF PoolMoves, PoolMove, Execute

-----------------------------------------------------------------------------
(* The guard. *)

\* While it does not block, the counter is the number of large misses at the
\* end of what the guard was told, and there is no reason to block in it.
Reason(q, i) ==
    \/ Extreme(q[i])
    \/ i >= ConsecutiveLimit /\ \A j \in (i - ConsecutiveLimit + 1)..i : LargeMiss(q[j])

Counts(q, n) ==
    /\ n \in 0..Len(q)
    /\ \A j \in (Len(q) - n + 1)..Len(q) : LargeMiss(q[j])
    /\ n < Len(q) => ~LargeMiss(q[Len(q) - n])

GuardInv ==
    IF guard.blocked
    THEN \E i \in DOMAIN observed : Reason(observed, i)
    ELSE /\ \A i \in DOMAIN observed : ~Reason(observed, i)
         /\ guard.consecutive < ConsecutiveLimit
         /\ Counts(observed, guard.consecutive)

\* Told one more usage, the counter and the decision are as Observe has them.
LEMMA OneMore ==
    ASSUME NEW q \in Seq(Usages \cup {NoUsage}), NEW u \in Usages \cup {NoUsage},
           NEW n \in Nat, n < ConsecutiveLimit, Counts(q, n),
           \A i \in DOMAIN q : ~Reason(q, i), ~Extreme(u),
           NEW m \in Nat, m = IF LargeMiss(u) THEN n + 1 ELSE 0,
           NEW p, p = Append(q, u)
    PROVE  /\ Counts(p, m)
           /\ m >= ConsecutiveLimit => Reason(p, Len(p)) /\ Len(p) \in DOMAIN p
           /\ m < ConsecutiveLimit => \A i \in DOMAIN p : ~Reason(p, i)
<1>0. ConsecutiveLimit \in Nat \ {0}
  BY PoolAssumption
<1>1. p \in Seq(Usages \cup {NoUsage})
  OBVIOUS
<1>2. /\ Len(p) = Len(q) + 1 /\ p[Len(p)] = u /\ DOMAIN p = 1..Len(p) /\ DOMAIN q = 1..Len(q)
      /\ Len(q) \in Nat /\ \A i \in 1..Len(q) : p[i] = q[i]
  BY <1>1
<1>3. Counts(p, m)
  <2>1. CASE LargeMiss(u)
    <3>1. m = n + 1 /\ Len(p) - m = Len(q) - n
      BY <1>2, <2>1 DEF Counts
    <3>. QED  BY <1>2, <2>1, <3>1 DEF Counts
  <2>2. CASE ~LargeMiss(u)
    BY <1>2, <2>2 DEF Counts
  <2>. QED  BY <2>1, <2>2
<1>4. ASSUME m >= ConsecutiveLimit PROVE Reason(p, Len(p))
  <2>1. m = ConsecutiveLimit
    BY <1>0, <1>4
  <2>. QED  BY <1>2, <1>3, <2>1 DEF Counts, Reason
<1>5. ASSUME m < ConsecutiveLimit, NEW i \in DOMAIN p PROVE ~Reason(p, i)
  <2>1. CASE i = Len(p)
    <3>1. CASE m < Len(p)
      <4>1. ~LargeMiss(p[Len(p) - m]) /\ Len(p) - m \in (Len(p) - ConsecutiveLimit + 1)..Len(p)
        BY <1>0, <1>2, <1>3, <1>5, <3>1 DEF Counts
      <4>. QED  BY <1>2, <2>1, <4>1 DEF Reason
    <3>2. CASE m = Len(p)
      BY <1>0, <1>2, <1>5, <2>1, <3>2 DEF Reason
    <3>. QED  BY <1>2, <1>3, <3>1, <3>2 DEF Counts
  <2>2. CASE i \in 1..Len(q)
    <3>1. ~Reason(q, i) /\ p[i] = q[i]
      BY <1>2, <2>2
    <3>2. i >= ConsecutiveLimit => \A j \in (i - ConsecutiveLimit + 1)..i : p[j] = q[j]
      BY <1>0, <1>2, <2>2
    <3>. QED  BY <3>1, <3>2 DEF Reason
  <2>. QED  BY <1>2, <1>5, <2>1, <2>2
<1>. QED  BY <1>2, <1>3, <1>4, <1>5

LEMMA GuardInit == Init => GuardInv
<1>. SUFFICES ASSUME Init PROVE GuardInv
  OBVIOUS
<1>1. guard.blocked = FALSE /\ guard.consecutive = 0 /\ observed = <<>>
  BY DEF Init, PoolInit
<1>. QED  BY <1>1, PoolAssumption DEF GuardInv, Counts

LEMMA GuardStep == PoolTyped /\ GuardInv /\ [Next]_vars => GuardInv'
<1>. SUFFICES ASSUME PoolTyped, GuardInv, PoolMoves \/ UNCHANGED poolVars PROVE GuardInv'
  BY StepMovesPool
<1>1. CASE UNCHANGED <<guard, observed>>
  BY <1>1 DEF GuardInv, Counts
<1>2. ASSUME NEW c \in Callers, ObserveUsage(c) PROVE GuardInv'
  <2>1. /\ guard' = Observe(guard, request[c].usage)
        /\ IF guard.blocked THEN UNCHANGED observed
                            ELSE observed' = Append(observed, request[c].usage)
    BY <1>2 DEF ObserveUsage
  <2>2. PICK u \in Usages \cup {NoUsage} : u = request[c].usage
    BY DEF PoolTyped, PoolTypeOK, Requests
  <2>3. guard \in [consecutive : Nat, blocked : BOOLEAN] /\ observed \in Seq(Usages \cup {NoUsage})
    BY DEF PoolTyped, PoolTypeOK
  <2>4. CASE guard.blocked
    <3>1. guard'.blocked
      BY <2>1, <2>3, <2>4 DEF Observe
    <3>. QED  BY <2>1, <2>4, <3>1 DEF GuardInv
  <2>5. CASE ~guard.blocked /\ Extreme(u)
    <3>1. guard'.blocked
      BY <2>1, <2>2, <2>3, <2>5 DEF Observe
    <3>2. Len(observed') \in DOMAIN observed' /\ observed'[Len(observed')] = u
      BY <2>1, <2>2, <2>3, <2>5
    <3>. QED  BY <2>5, <3>1, <3>2 DEF GuardInv, Reason
  <2>6. CASE ~guard.blocked /\ ~Extreme(u)
    <3>1. PICK n \in Nat : n = guard.consecutive
      BY <2>3
    <3>2. PICK m \in Nat : m = IF LargeMiss(u) THEN n + 1 ELSE 0
      OBVIOUS
    <3>3. guard' = [consecutive |-> m, blocked |-> m >= ConsecutiveLimit]
      BY <2>1, <2>2, <2>6, <3>1, <3>2 DEF Observe
    <3>4. guard'.consecutive = m /\ (guard'.blocked <=> m >= ConsecutiveLimit)
      BY <3>3
    <3>5. n < ConsecutiveLimit /\ Counts(observed, n) /\ \A i \in DOMAIN observed : ~Reason(observed, i)
      BY <2>6, <3>1 DEF GuardInv
    <3>6. /\ Counts(observed', m)
          /\ m >= ConsecutiveLimit => Reason(observed', Len(observed')) /\ Len(observed') \in DOMAIN observed'
          /\ m < ConsecutiveLimit => \A i \in DOMAIN observed' : ~Reason(observed', i)
      BY <2>1, <2>2, <2>3, <2>6, <3>2, <3>5, OneMore
    <3>7. m >= ConsecutiveLimit \/ m < ConsecutiveLimit
      BY PoolAssumption
    <3>. QED  BY <3>4, <3>6, <3>7 DEF GuardInv, Counts, Reason
  <2>. QED  BY <2>4, <2>5, <2>6
<1>3. ASSUME NEW c \in Callers, PoolMove(c), ~ObserveUsage(c) PROVE UNCHANGED <<guard, observed>>
  BY <1>3 DEF PoolMove, Execute, Admit, Select, Answer, Apply, Take
<1>. QED  BY <1>1, <1>2, <1>3 DEF PoolMoves, poolVars

\* Once the guard blocks, every further success is that of a request that was
\* under way then, and each of these brings one at most.
InFlight == {c \in Callers : ~In(c, "idle") /\ ~In(c, "done")}

SpendInv == IF guard.blocked THEN late + Cardinality(InFlight) <= passed ELSE late = 0

LEMMA SpendStep == PoolTyped /\ SpendInv /\ [Next]_vars => SpendInv'
<1>. SUFFICES ASSUME PoolTyped, SpendInv, PoolMoves \/ UNCHANGED poolVars PROVE SpendInv'
  BY StepMovesPool
<1>0. /\ IsFiniteSet(Callers) /\ IsFiniteSet(InFlight)
      /\ Cardinality(InFlight) \in Nat /\ late \in Nat /\ passed \in Nat
  <2>1. IsFiniteSet(InFlight) /\ IsFiniteSet(Callers) /\ Cardinality(Callers) \in Nat
    BY PoolAssumption, FS_Subset, FS_CardinalityType DEF InFlight
  <2>. QED  BY <2>1, FS_CardinalityType DEF PoolTyped, PoolTypeOK
<1>1. ASSUME UNCHANGED <<guard, late, passed>>, guard.blocked => InFlight' \subseteq InFlight
      PROVE  SpendInv'
  <2>1. CASE guard.blocked
    <3>1. IsFiniteSet(InFlight') /\ Cardinality(InFlight') <= Cardinality(InFlight)
      BY <1>0, <1>1, <2>1, FS_Subset
    <3>2. Cardinality(InFlight') \in Nat
      BY <3>1, FS_CardinalityType
    <3>. QED  BY <1>0, <1>1, <2>1, <3>1, <3>2 DEF SpendInv
  <2>2. CASE ~guard.blocked
    BY <1>1, <2>2 DEF SpendInv
  <2>. QED  BY <2>1, <2>2
<1>2. ASSUME NEW c \in Callers, ObserveUsage(c) PROVE SpendInv'
  <2>1. Keeps(c) /\ request'[c].phase = "done" /\ request[c].phase = "observe"
    BY <1>2, ObserveEffect DEF ObserveUsage, In
  <2>2. InFlight' = InFlight \ {c} /\ c \in InFlight
    BY <2>1 DEF InFlight, In, Keeps
  <2>3. CASE guard.blocked
    <3>1. late' = late + 1 /\ passed' = passed /\ guard'.blocked
      BY <1>2, <2>3 DEF ObserveUsage, Observe, PoolTyped, PoolTypeOK
    <3>2. Cardinality(InFlight') = Cardinality(InFlight) - 1
      BY <1>0, <2>2, FS_RemoveElement
    <3>. QED  BY <1>0, <2>3, <3>1, <3>2 DEF SpendInv
  <2>4. CASE ~guard.blocked
    <3>1. /\ passed' = Cardinality({d \in Callers \ {c} : ~In(d, "idle") /\ ~In(d, "done")})
          /\ late' = late
      BY <1>2, <2>4 DEF ObserveUsage
    <3>2. {d \in Callers \ {c} : ~In(d, "idle") /\ ~In(d, "done")} = InFlight \ {c}
      BY DEF InFlight
    <3>3. passed' = Cardinality(InFlight') /\ Cardinality(InFlight') \in Nat /\ late' = 0
      BY <1>0, <2>2, <2>4, <3>1, <3>2, FS_Subset, FS_CardinalityType DEF SpendInv
    <3>. QED  BY <3>3 DEF SpendInv
  <2>. QED  BY <2>3, <2>4
<1>3. ASSUME NEW c \in Callers, Keeps(c), c \in InFlight' => c \in InFlight
      PROVE  InFlight' \subseteq InFlight
  BY <1>3 DEF InFlight, In, Keeps
<1>4. ASSUME NEW c \in Callers, Admit(c) PROVE SpendInv'
  BY <1>1, <1>3, <1>4, AdmitEffect DEF Admit, InFlight, In
<1>5. ASSUME NEW c \in Callers, Select(c) PROVE SpendInv'
  BY <1>1, <1>3, <1>5, SelectEffect DEF Select, InFlight, In
<1>6. ASSUME NEW c \in Callers, NEW r \in Responses, NEW u \in Usages, NEW decodes \in BOOLEAN,
             Answer(c, r, u, decodes)
      PROVE  SpendInv'
  <2>1. Keeps(c) /\ c \in InFlight
    BY <1>6, AnswerEffect DEF Answer, InFlight, In
  <2>. QED  BY <1>1, <1>3, <1>6, <2>1 DEF Answer
<1>7. ASSUME NEW c \in Callers, Apply(c) PROVE SpendInv'
  <2>1. Keeps(c) /\ c \in InFlight
    BY <1>7, ApplyEffect DEF Apply, InFlight, In
  <2>. QED  BY <1>1, <1>3, <1>7, <2>1 DEF Apply
<1>8. ASSUME NEW c \in Callers, NEW o, Take(c, o) PROVE SpendInv'
  <2>1. Keeps(c) /\ c \notin InFlight'
    BY <1>8, TakeEffect, NoRequestType DEF InFlight, In
  <2>. QED  BY <1>1, <1>3, <1>8, <2>1 DEF Take
<1>9. CASE UNCHANGED poolVars
  BY <1>1, <1>9 DEF poolVars, InFlight, In
<1>. QED  BY <1>2, <1>4, <1>5, <1>6, <1>7, <1>8, <1>9 DEF PoolMoves, PoolMove, Execute

\* However requests overlap, the guard blocks exactly when the usages say so,
\* and no more successes follow than requests were under way then
\* (Guard.Observe, and Pool.Execute that asks it before and tells it after).
THEOREM SpendingIsBounded == Spec => []BlockedSpendingIsBounded
<1>1. Init => SpendInv
  BY DEF Init, PoolInit, SpendInv
<1>2. PoolTyped /\ GuardInv /\ SpendInv => BlockedSpendingIsBounded
  <2>. SUFFICES ASSUME PoolTyped, GuardInv, SpendInv PROVE BlockedSpendingIsBounded
    OBVIOUS
  <2>1. GuardFollowsUsages
    BY DEF GuardInv, GuardFollowsUsages, Reason
  <2>2. Cardinality(InFlight) \in Nat /\ late \in Nat /\ passed \in Int
    <3>1. IsFiniteSet(InFlight) /\ Cardinality(Callers) \in Nat
      BY PoolAssumption, FS_Subset, FS_CardinalityType DEF InFlight
    <3>. QED  BY <3>1, FS_CardinalityType DEF PoolTyped, PoolTypeOK
  <2>. QED  BY <2>1, <2>2 DEF SpendInv, BlockedSpendingIsBounded
<1>. QED  BY <1>1, <1>2, PoolTypedAlways, GuardInit, GuardStep, SpendStep, PTL DEF Spec

-----------------------------------------------------------------------------
(* What a step of a session makes of it. *)

TextTokens == [n : Nat, stop : BOOLEAN, of : Nat]
Text == Seq(TextTokens)
SessionPhases == {"idle", "pool", "codex", "pool alone", "codex alone", "stream", "continue"}
Flights == [staged : BOOLEAN, confirmed : Text, unstable : Text]
SessionRecords == [phase : SessionPhases, users : Nat, replies : Nat, answer : Text, flight : Flights]
StreamRecords == [key : 0..KeyCount, visible : Text, pending : Text, count : Nat]

SessTyped ==
    /\ sess \in [Callers -> SessionRecords]
    /\ stream \in [Callers -> StreamRecords]
    /\ told \in [Callers -> Text]
    /\ shown \in [Callers -> Text]
    /\ dropped \in [Callers -> SUBSET TextTokens]
    /\ dead \in [Callers -> SUBSET Keys]

\* What stays of a session when only its phase changes.
Same(s) ==
    /\ sess'[s].users = sess[s].users /\ sess'[s].replies = sess[s].replies
    /\ sess'[s].answer = sess[s].answer /\ sess'[s].flight = sess[s].flight

LEMMA PhaseEffect ==
    ASSUME SessTyped, NEW s \in Callers, NEW p \in SessionPhases, ToPhase(s, p)
    PROVE  /\ sess' \in [Callers -> SessionRecords] /\ sess'[s].phase = p /\ Same(s)
           /\ \A d \in Callers \ {s} : sess'[d] = sess[d]
<1>1. PICK z \in SessionRecords : z = sess[s]
  BY DEF SessTyped
<1>2. PICK x : x = [z EXCEPT !.phase = p]
  OBVIOUS
<1>3. /\ x \in SessionRecords /\ x.phase = p /\ x.users = z.users /\ x.replies = z.replies
      /\ x.answer = z.answer /\ x.flight = z.flight
  BY <1>2 DEF SessionRecords
<1>4. sess' = [sess EXCEPT ![s] = x]
  BY <1>1, <1>2 DEF ToPhase
<1>. QED  BY <1>1, <1>3, <1>4 DEF SessTyped, Same

\* A prompt is asked on an engine.
LEMMA PromptEffect ==
    ASSUME SessTyped, NEW s \in Callers, NEW p \in SessionPhases,
           sess' = [sess EXCEPT ![s].phase = p, ![s].users = @ + 1]
    PROVE  /\ sess' \in [Callers -> SessionRecords] /\ sess'[s].phase = p
           /\ sess'[s].users = sess[s].users + 1 /\ sess'[s].replies = sess[s].replies
           /\ sess'[s].answer = sess[s].answer /\ sess'[s].flight = sess[s].flight
           /\ \A d \in Callers \ {s} : sess'[d] = sess[d]
<1>1. PICK z \in SessionRecords : z = sess[s]
  BY DEF SessTyped
<1>a. PICK n \in Nat : n = z.users + 1
  BY DEF SessionRecords
<1>2. PICK x : x = [z EXCEPT !.phase = p, !.users = n]
  OBVIOUS
<1>3. /\ x \in SessionRecords /\ x.phase = p /\ x.users = n /\ x.replies = z.replies
      /\ x.answer = z.answer /\ x.flight = z.flight
  BY <1>2 DEF SessionRecords
<1>4. sess' = [sess EXCEPT ![s] = x]
  BY <1>1, <1>2, <1>a
<1>. QED  BY <1>1, <1>a, <1>3, <1>4 DEF SessTyped

\* It is answered by a whole result.
LEMMA WholeEffect ==
    ASSUME SessTyped, NEW s \in Callers, CommitWhole(s)
    PROVE  /\ sess' \in [Callers -> SessionRecords] /\ sess'[s].phase = "idle"
           /\ sess'[s].users = sess[s].users /\ sess'[s].replies = sess[s].replies + 1
           /\ sess'[s].answer = sess[s].answer /\ sess'[s].flight = sess[s].flight
           /\ \A d \in Callers \ {s} : sess'[d] = sess[d]
<1>1. PICK z \in SessionRecords : z = sess[s]
  BY DEF SessTyped
<1>a. PICK n \in Nat : n = z.replies + 1
  BY DEF SessionRecords
<1>2. PICK x : x = [z EXCEPT !.phase = "idle", !.replies = n]
  OBVIOUS
<1>3. /\ x \in SessionRecords /\ x.phase = "idle" /\ x.users = z.users
      /\ x.replies = n /\ x.answer = z.answer /\ x.flight = z.flight
  BY <1>2 DEF SessionRecords, SessionPhases
<1>4. sess' = [sess EXCEPT ![s] = x]
  BY <1>1, <1>2, <1>a DEF CommitWhole
<1>. QED  BY <1>1, <1>a, <1>3, <1>4 DEF SessTyped

\* It is answered by a streamed text.
LEMMA CommitEffect ==
    ASSUME SessTyped, NEW s \in Callers, NEW text \in Text, Commit(s, text, NoFlight)
    PROVE  /\ sess' \in [Callers -> SessionRecords] /\ sess'[s].phase = "idle"
           /\ sess'[s].users = sess[s].users /\ sess'[s].replies = sess[s].replies + 1
           /\ sess'[s].answer = text /\ ~sess'[s].flight.staged
           /\ \A d \in Callers \ {s} : sess'[d] = sess[d]
<1>1. PICK z \in SessionRecords : z = sess[s]
  BY DEF SessTyped
<1>a. PICK n \in Nat : n = z.replies + 1
  BY DEF SessionRecords
<1>2. NoFlight \in Flights /\ ~NoFlight.staged
  BY DEF NoFlight, Flights, Text
<1>3. PICK x : x = [z EXCEPT !.phase = "idle", !.replies = n, !.answer = text, !.flight = NoFlight]
  OBVIOUS
<1>4. /\ x \in SessionRecords /\ x.phase = "idle" /\ x.users = z.users
      /\ x.replies = n /\ x.answer = text /\ x.flight = NoFlight
  BY <1>2, <1>3 DEF SessionRecords, SessionPhases
<1>5. sess' = [sess EXCEPT ![s] = x]
  BY <1>1, <1>3, <1>a DEF Commit
<1>. QED  BY <1>1, <1>a, <1>2, <1>4, <1>5 DEF SessTyped

\* lastSentenceBoundary is a place in the text.
LEMMA BoundaryType ==
    ASSUME NEW text \in Text
    PROVE  Boundary(text) \in 0..Len(text)
<1>. DEFINE stops == {i \in DOMAIN text : text[i].stop}
            S == {Len(text) - i : i \in stops}
<1>1. CASE stops = {}
  BY <1>1 DEF Boundary, Text
<1>2. CASE stops # {}
  <2>0. DOMAIN text = 1..Len(text) /\ Len(text) \in Nat
    BY DEF Text
  <2>1. S \in SUBSET Nat /\ S # {}
    BY <1>2, <2>0
  <2>2. PICK m \in S : \A n \in S : m <= n
    BY <2>1, HasLeast
  <2>3. PICK i \in stops : m = Len(text) - i
    BY <2>2
  <2>4. \A j \in stops : j <= i
    <3>. TAKE j \in stops
    <3>1. m <= Len(text) - j
      BY <2>2
    <3>. QED  BY <2>0, <2>3, <3>1
  <2>5. PICK b : b = CHOOSE i_1 \in stops : \A j \in stops : j <= i_1
    OBVIOUS
  <2>6. b \in stops
    BY <2>3, <2>4, <2>5
  <2>7. Boundary(text) = b
    BY <1>2, <2>5 DEF Boundary
  <2>. QED  BY <2>0, <2>6, <2>7
<1>. QED  BY <1>1, <1>2

\* The next key: what was not yet a sentence leaves the buffer.
LEMMA NextKeyEffect ==
    ASSUME SessTyped, NEW s \in Callers, NextKey(s)
    PROVE  /\ stream' \in [Callers -> StreamRecords]
           /\ stream'[s].visible = stream[s].visible /\ stream'[s].pending = <<>>
           /\ stream'[s].count = stream[s].count
           /\ \A d \in Callers \ {s} : stream'[d] = stream[d]
<1>. DEFINE keys == {k \in Keys : k > stream[s].key /\ k \notin dead[s]}
<1>1. PICK k : k = CHOOSE i \in keys : \A j \in keys : i <= j
  OBVIOUS
<1>2. k \in 0..KeyCount
  <2>1. keys \in SUBSET Nat /\ keys # {}
    BY PoolAssumption DEF Keys, NextKey
  <2>2. k \in keys
    BY <1>1, <2>1, HasLeast
  <2>. QED  BY <2>2, PoolAssumption DEF Keys
<1>3. PICK z \in StreamRecords : z = stream[s]
  BY DEF SessTyped
<1>4. PICK x : x = [z EXCEPT !.key = k, !.pending = <<>>]
  OBVIOUS
<1>5. x \in StreamRecords /\ x.visible = z.visible /\ x.pending = <<>> /\ x.count = z.count
  <2>1. <<>> \in Text
    BY DEF Text
  <2>. QED  BY <1>2, <1>4, <2>1 DEF StreamRecords
<1>6. stream' = [stream EXCEPT ![s] = x]
  <2>1. stream' = [stream EXCEPT ![s].key = k, ![s].pending = <<>>]
    BY <1>1 DEF NextKey
  <2>. QED  BY <1>3, <1>4, <2>1
<1>. QED  BY <1>3, <1>5, <1>6 DEF SessTyped

\* Texts joined: kept folded, so that what follows need not know what they hold.
Joined(s, t) == s \o t
FirstPart(t, c) == SubSeq(t, 1, c)
RestPart(t, c) == SubSeq(t, c + 1, Len(t))

LEMMA Joins ==
    ASSUME NEW S, NEW s \in Seq(S), NEW t \in Seq(S)
    PROVE  Joined(s, t) \in Seq(S)
BY DEF Joined

LEMMA JoinsAssociate ==
    ASSUME NEW S, NEW s \in Seq(S), NEW t \in Seq(S), NEW u \in Seq(S)
    PROVE  Joined(Joined(s, t), u) = Joined(s, Joined(t, u))
BY DEF Joined

\* A text is its first part followed by its second.
LEMMA Pieces ==
    ASSUME NEW S, NEW t \in Seq(S), NEW p \in Seq(S), NEW q \in Seq(S),
           Len(t) = Len(p) + Len(q), \A i \in 1..Len(p) : t[i] = p[i],
           \A i \in 1..Len(q) : t[Len(p) + i] = q[i]
    PROVE  Joined(p, q) = t
<1>1. PICK j \in Seq(S) : j = p \o q /\ Len(j) = Len(p) + Len(q)
  OBVIOUS
<1>2. \A i \in 1..Len(p) : j[i] = p[i]
  BY <1>1
<1>3. \A i \in 1..Len(q) : j[Len(p) + i] = q[i]
  BY <1>1
<1>4. \A i \in 1..Len(t) : j[i] = t[i]
  <2>. TAKE i \in 1..Len(t)
  <2>1. CASE i <= Len(p)
    BY <1>2, <2>1
  <2>2. CASE i > Len(p)
    <3>1. PICK k \in 1..Len(q) : i = Len(p) + k
      <4>1. Len(p) \in Nat /\ Len(q) \in Nat
        OBVIOUS
      <4>2. i - Len(p) \in 1..Len(q) /\ i = Len(p) + (i - Len(p))
        BY <4>1, <2>2
      <4>. QED BY <4>2
    <3>. QED BY <1>3, <3>1
  <2>. QED BY <2>1, <2>2
<1>5. j = t
  BY <1>1, <1>4
<1>. QED BY <1>1, <1>5 DEF Joined

\* Cutting it in two loses nothing.
LEMMA CutJoins ==
    ASSUME NEW S, NEW t \in Seq(S), NEW c \in 0..Len(t)
    PROVE  /\ FirstPart(t, c) \in Seq(S) /\ RestPart(t, c) \in Seq(S)
           /\ Joined(FirstPart(t, c), RestPart(t, c)) = t
<1>0. SubSeq(t, 1, c) \in Seq(S) /\ SubSeq(t, c + 1, Len(t)) \in Seq(S)
  OBVIOUS
<1>1. PICK p \in Seq(S) : p = SubSeq(t, 1, c)
  BY <1>0
<1>2. PICK q \in Seq(S) : q = SubSeq(t, c + 1, Len(t))
  BY <1>0
<1>3. Len(p) = c /\ \A i \in 1..c : t[i] = p[i]
  BY <1>1
<1>4. Len(q) = Len(t) - c /\ \A i \in 1..(Len(t) - c) : t[c + i] = q[i]
  BY <1>2
<1>5. Joined(p, q) = t
  <2>1. Len(t) = Len(p) + Len(q) /\ Len(p) = c
    BY <1>3, <1>4
  <2>2. \A i \in 1..Len(p) : t[i] = p[i]
    BY <1>3
  <2>3. \A i \in 1..Len(q) : t[Len(p) + i] = q[i]
    BY <1>4, <2>1
  <2>. QED BY <2>1, <2>2, <2>3, Pieces
<1>. QED BY <1>1, <1>2, <1>5 DEF FirstPart, RestPart

LEMMA Regroup ==
    ASSUME NEW S, NEW v \in Seq(S), NEW b \in Seq(S), NEW n \in Seq(S), 
           NEW p \in Seq(S), NEW q \in Seq(S), Joined(p, q) = Joined(b, n)
    PROVE  Joined(Joined(v, p), q) = Joined(Joined(v, b), n)
<1>3. Joined(Joined(v, p), q) = Joined(v, Joined(p, q))
  BY JoinsAssociate
<1>4. Joined(Joined(v, b), n) = Joined(v, Joined(b, n))
  BY JoinsAssociate
<1>. QED  BY <1>3, <1>4
\* A delta: the whole of what was streamed grows by its tokens.
Sayings == [stop : BOOLEAN, of : Nat]

\* A text whose first token has the number n + 1, and so on.
From(t, n) == \A i \in 1..Len(t) : t[i].n = n + i

LEMMA NumberedType ==
    ASSUME NEW n \in Nat, NEW delta \in Seq(Sayings)
    PROVE  /\ Numbered(n, delta) \in Text /\ Len(Numbered(n, delta)) = Len(delta)
           /\ Len(delta) \in Nat /\ From(Numbered(n, delta), n)
<1>1. DOMAIN delta = 1..Len(delta) /\ Len(delta) \in Nat /\ \A i \in 1..Len(delta) : delta[i] \in Sayings
  OBVIOUS
<1>2. \A i \in 1..Len(delta) :
        [n |-> n + i, stop |-> delta[i].stop, of |-> delta[i].of] \in TextTokens
  BY <1>1 DEF TextTokens, Sayings
<1>. QED  BY <1>1, <1>2 DEF Numbered, Text, From

\* What says an earlier token once more.
LEMMA AgainType ==
    ASSUME NEW x \in TextTokens
    PROVE  Again(x) \in Sayings
BY DEF Again, Original, Sayings, TextTokens

LEMMA FreshType == Fresh(TRUE) \in Sayings /\ Fresh(FALSE) \in Sayings
BY DEF Fresh, Sayings

LEMMA DeltasType ==
    ASSUME SessTyped, NEW s \in Callers, NEW delta \in Deltas(s)
    PROVE  delta \in Seq(Sayings)
<1>1. PICK v \in Text : v = stream[s].visible
  BY DEF SessTyped, StreamRecords
<1>2. ASSUME NEW x \in ToSet(v) PROVE <<Again(x)>> \in Seq(Sayings)
  <2>1. DOMAIN v = 1..Len(v) /\ \A i \in 1..Len(v) : v[i] \in TextTokens
    BY DEF Text
  <2>2. x \in TextTokens
    BY <2>1 DEF ToSet
  <2>3. PICK a \in Sayings : a = Again(x)
    BY <2>2, AgainType
  <2>. QED  BY <2>3
<1>3. PICK a \in Sayings, b \in Sayings : a = Fresh(FALSE) /\ b = Fresh(TRUE)
  BY FreshType
<1>4. <<a>> \in Seq(Sayings) /\ <<b, a>> \in Seq(Sayings)
  OBVIOUS
<1>. QED  BY <1>1, <1>2, <1>3, <1>4 DEF Deltas

LEMMA ContinuationsType ==
    ASSUME NEW s \in Callers, sess[s].flight.confirmed \in Text, NEW said \in Continuations(s)
    PROVE  said \in Seq(Sayings)
<1>. DEFINE new(k) == [i \in 1..k |-> Fresh(TRUE)]
            again(h, i, j) == [k \in 1..(j - i) |-> Again(h[i + k])]
<1>1. PICK h \in Text : h = sess[s].flight.confirmed
  OBVIOUS
<1>2. ASSUME NEW k \in Int, 0 <= k PROVE new(k) \in Seq(Sayings)
  <2>1. k \in Nat
    BY <1>2
  <2>2. PICK x \in Sayings : x = Fresh(TRUE)
    BY FreshType
  <2>3. [i \in 1..k |-> x] \in Seq(Sayings)
    BY <2>1
  <2>. QED  BY <2>2, <2>3
<1>3. ASSUME NEW i \in 0..Len(h), NEW j \in 0..Len(h) PROVE again(h, i, j) \in Seq(Sayings)
  <2>1. Len(h) \in Nat /\ \A k \in 1..Len(h) : h[k] \in TextTokens
    BY DEF Text
  <2>2. \A k \in 1..(j - i) : Again(h[i + k]) \in Sayings
    <3>. TAKE k \in 1..(j - i)
    <3>1. i + k \in 1..Len(h)
      BY <2>1
    <3>. QED  BY <2>1, <3>1, AgainType
  <2>3. PICK m \in Nat : 1..m = 1..(j - i)
    <3>1. CASE i <= j
      <4>1. j - i \in Nat
        BY <2>1, <3>1
      <4>. QED  BY <4>1
    <3>2. CASE j < i
      <4>1. 1..0 = 1..(j - i)
        BY <2>1, <3>2
      <4>. QED  BY <4>1
    <3>. QED  BY <2>1, <3>1, <3>2
  <2>4. again(h, i, j) = [k \in 1..m |-> Again(h[i + k])]
    BY <2>3
  <2>. QED  BY <2>2, <2>3, <2>4
<1>4. ASSUME NEW p \in Int, 0 <= p, NEW q \in Int, 0 <= q, NEW i \in 0..Len(h), NEW j \in 0..Len(h)
      PROVE  new(p) \o again(h, i, j) \o new(q) \in Seq(Sayings)
  <2>1. new(p) \in Seq(Sayings) /\ new(q) \in Seq(Sayings) /\ again(h, i, j) \in Seq(Sayings)
    BY <1>2, <1>3, <1>4
  <2>. HIDE DEF new, again
  <2>. QED  BY <2>1
<1>5. <<>> \in Seq(Sayings)
  OBVIOUS
<1>. DEFINE n == Len(run[s].text)
            c == sess[s].flight.confirmed
            phrase(p, q, i, j) == new(p) \o again(c, i, j) \o new(q)
            all == {phrase(p, q, i, j) :
                      p \in 0..(n - 1), q \in 0..n, i \in 0..Len(c), j \in 0..Len(c)}
<1>6. Continuations(s) = IF n = 0 THEN {<<>>} ELSE all
  BY DEF Continuations
<1>7. ASSUME said \in all PROVE said \in Seq(Sayings)
  <2>. HIDE DEF n, c, phrase
  <2>1. PICK p \in 0..(n - 1), q \in 0..n, i \in 0..Len(c), j \in 0..Len(c) :
              said = phrase(p, q, i, j)
    BY <1>7
  <2>2. p \in Int /\ 0 <= p /\ q \in Int /\ 0 <= q
    OBVIOUS
  <2>3. c = h
    BY <1>1 DEF c
  <2>. HIDE DEF new, again
  <2>. QED  BY <1>4, <2>1, <2>2, <2>3 DEF phrase
<1>. HIDE DEF all, n
<1>. QED  BY <1>5, <1>6, <1>7

LEMMA TextGrows ==
    ASSUME NEW v \in Text, NEW b \in Text, NEW new \in Text,
           NEW c \in 0..Len(Joined(b, new))
    PROVE  /\ RestPart(Joined(b, new), c) \in Text /\ Joined(v, FirstPart(Joined(b, new), c)) \in Text
           /\ Joined(Joined(v, FirstPart(Joined(b, new), c)), RestPart(Joined(b, new), c))
                  = Joined(Joined(v, b), new)
<1>1. PICK t \in Text : t = Joined(b, new)
  BY Joins DEF Text
<1>2. PICK p \in Text : p = FirstPart(t, c)
  BY <1>1, CutJoins DEF Text
<1>3. PICK q \in Text : q = RestPart(t, c)
  BY <1>1, CutJoins DEF Text
<1>4. Joined(p, q) = Joined(b, new)
  BY <1>1, <1>2, <1>3, CutJoins DEF Text
<1>5. Joined(v, p) \in Text /\ Joined(Joined(v, p), q) = Joined(Joined(v, b), new)
  BY <1>4, Joins, Regroup DEF Text
<1>. QED  BY <1>1, <1>2, <1>3, <1>5

LEMMA DeltaEffect ==
    ASSUME SessTyped, NEW s \in Callers, NEW delta \in Seq(Sayings), Delta(s, delta),
           NEW new, new = Numbered(stream[s].count, delta)
    PROVE  /\ stream' \in [Callers -> StreamRecords]
           /\ Joined(stream'[s].visible, stream'[s].pending)
                  = Joined(Joined(stream[s].visible, stream[s].pending), new)
           /\ stream'[s].count = stream[s].count + Len(delta)
           /\ \A d \in Callers \ {s} : stream'[d] = stream[d]
           /\ told' \in [Callers -> Text] /\ told'[s] = Joined(told[s], new)
           /\ \A d \in Callers \ {s} : told'[d] = told[d]
<1>1. PICK z \in StreamRecords : z = stream[s]
  BY DEF SessTyped
<1>2. z.visible \in Text /\ z.pending \in Text /\ z.count \in Nat
  BY DEF StreamRecords
<1>3. new \in Text /\ Len(delta) \in Nat
  BY <1>1, <1>2, NumberedType
<1>4. PICK text \in Text : text = Joined(z.pending, new)
  BY <1>2, <1>3, Joins DEF Text
<1>5. PICK cut \in 0..Len(text) : cut = Boundary(text)
  BY <1>4, BoundaryType
<1>6. PICK m \in Nat : m = z.count + Len(delta)
  BY <1>2, <1>3
<1>7. PICK v, q : v = Joined(z.visible, FirstPart(text, cut)) /\ q = RestPart(text, cut)
  OBVIOUS
<1>8. v \in Text /\ q \in Text /\ Joined(v, q) = Joined(Joined(z.visible, z.pending), new)
  BY <1>2, <1>3, <1>4, <1>5, <1>7, TextGrows
<1>9. PICK x : x = [z EXCEPT !.count = m, !.visible = v, !.pending = q]
  OBVIOUS
<1>10. x \in StreamRecords /\ x.visible = v /\ x.pending = q /\ x.count = m
  BY <1>8, <1>9 DEF StreamRecords
<1>11. stream' = [stream EXCEPT ![s] = x]
  <2>1. stream' = [stream EXCEPT ![s].count = m, ![s].visible = v, ![s].pending = q]
    BY <1>1, <1>4, <1>5, <1>6, <1>7 DEF Delta, Joined, FirstPart, RestPart
  <2>. QED  BY <1>1, <1>9, <2>1
<1>12. PICK w \in Text : w = Joined(told[s], new)
  BY <1>3, Joins DEF SessTyped, Text
<1>13. told' = [told EXCEPT ![s] = w]
  BY <1>12 DEF Delta, Joined
<1>. QED  BY <1>1, <1>6, <1>8, <1>10, <1>11, <1>12, <1>13 DEF SessTyped

\* What a joined text holds.
LEMMA JoinedElements ==
    ASSUME NEW s \in Text, NEW t \in Text
    PROVE  /\ Joined(s, t) \in Text /\ Len(Joined(s, t)) = Len(s) + Len(t)
           /\ Len(s) \in Nat /\ Len(t) \in Nat
           /\ \A i \in 1..Len(s) : Joined(s, t)[i] = s[i]
           /\ \A i \in 1..Len(t) : Joined(s, t)[Len(s) + i] = t[i]
           /\ \A i \in 1..Len(Joined(s, t)) :
                 \/ i \in 1..Len(s)
                 \/ i - Len(s) \in 1..Len(t) /\ i = Len(s) + (i - Len(s))
<1>1. PICK j : j = s \o t
  OBVIOUS
<1>2. j \in Text /\ Len(j) = Len(s) + Len(t) /\ Len(s) \in Nat /\ Len(t) \in Nat
  BY <1>1 DEF Text
<1>3. \A i \in 1..Len(s) : j[i] = s[i]
  BY <1>1 DEF Text
<1>4. \A i \in 1..Len(t) : j[Len(s) + i] = t[i]
  BY <1>1 DEF Text
<1>5. \A i \in 1..(Len(s) + Len(t)) :
        \/ i \in 1..Len(s)
        \/ i - Len(s) \in 1..Len(t) /\ i = Len(s) + (i - Len(s))
  BY <1>2
<1>. QED  BY <1>1, <1>2, <1>3, <1>4, <1>5 DEF Joined

\* Tokens in the order in which they were produced, the last no later than m.
Rising(w, m) ==
    \A i \in 1..Len(w) : w[i].n \in 1..m /\ \A j \in 1..Len(w) : j < i => w[j].n < w[i].n

LEMMA SetOfText ==
    ASSUME NEW w \in Text
    PROVE  \A x : x \in ToSet(w) <=> \E i \in 1..Len(w) : x = w[i]
<1>1. DOMAIN w = 1..Len(w)
  BY DEF Text
<1>. QED  BY <1>1 DEF ToSet

LEMMA NumbersOfText ==
    ASSUME NEW w \in Text
    PROVE  \A x \in ToSet(w) : x.n \in Nat
<1>1. \A i \in 1..Len(w) : w[i] \in TextTokens
  BY DEF Text
<1>2. \A x \in TextTokens : x.n \in Nat
  BY DEF TextTokens
<1>. QED  BY <1>1, <1>2, SetOfText

LEMMA JoinedSet ==
    ASSUME NEW v \in Text, NEW b \in Text
    PROVE  ToSet(Joined(v, b)) = ToSet(v) \cup ToSet(b)
<1>1. PICK j \in Text : j = Joined(v, b)
  BY JoinedElements
<1>2. PICK l \in Nat, k \in Nat : l = Len(v) /\ k = Len(b)
  BY JoinedElements
<1>3. /\ Len(j) = l + k /\ \A i \in 1..l : j[i] = v[i]
      /\ \A i \in 1..k : j[l + i] = b[i]
  BY <1>1, <1>2, JoinedElements
<1>4. ASSUME NEW x \in ToSet(v) PROVE x \in ToSet(j)
  <2>1. PICK i \in 1..l : x = v[i]
    BY <1>2, SetOfText
  <2>2. i \in 1..(l + k)
    OBVIOUS
  <2>. QED  BY <1>3, <2>1, <2>2, SetOfText
<1>5. ASSUME NEW x \in ToSet(b) PROVE x \in ToSet(j)
  <2>1. PICK i \in 1..k : x = b[i]
    BY <1>2, SetOfText
  <2>2. l + i \in 1..(l + k)
    OBVIOUS
  <2>. QED  BY <1>3, <2>1, <2>2, SetOfText
<1>6. ASSUME NEW x \in ToSet(j) PROVE x \in ToSet(v) \cup ToSet(b)
  <2>1. PICK i \in 1..(l + k) : x = j[i]
    BY <1>3, SetOfText
  <2>2. CASE i <= l
    <3>1. i \in 1..l
      BY <2>2
    <3>. QED  BY <1>2, <1>3, <2>1, <3>1, SetOfText
  <2>3. CASE i > l
    <3>1. i - l \in 1..k /\ i = l + (i - l)
      BY <2>3
    <3>2. x = b[i - l]
      BY <1>3, <2>1, <3>1
    <3>. QED  BY <1>2, <3>1, <3>2, SetOfText
  <2>. QED  BY <2>2, <2>3
<1>. QED  BY <1>1, <1>4, <1>5, <1>6

LEMMA RisingGrows ==
    ASSUME NEW w \in Text, NEW m \in Nat, NEW c \in Nat, NEW t \in Text, Rising(w, m),
           From(t, m + c)
    PROVE  /\ Rising(Joined(w, t), m + c + Len(t))
           /\ ToSet(Joined(w, t)) = ToSet(w) \cup ToSet(t)
           /\ \A x \in ToSet(t) : x.n > m
<1>2. PICK k \in Nat : k = Len(t)
  BY DEF Text
<1>3. Len(t) = k /\ \A i \in 1..k : t[i].n = m + c + i
  BY <1>2 DEF From
<1>4. PICK j \in Text : j = Joined(w, t)
  BY JoinedElements
<1>5. PICK l \in Nat : l = Len(w)
  BY JoinedElements
<1>a. /\ Len(j) = Len(w) + Len(t) /\ \A i \in 1..Len(w) : j[i] = w[i]
      /\ \A i \in 1..Len(t) : j[Len(w) + i] = t[i]
  BY <1>4, JoinedElements
<1>6. /\ Len(j) = l + k /\ \A i \in 1..l : j[i] = w[i]
      /\ \A i \in 1..k : j[l + i] = t[i]
  BY <1>3, <1>5, <1>a
<1>7. \A i \in 1..(l + k) : i \in 1..l \/ (i - l \in 1..k /\ i = l + (i - l))
  OBVIOUS
<1>8. \A i \in 1..l : j[i].n \in 1..m /\ \A h \in 1..l : h < i => j[h].n < j[i].n
  BY <1>5, <1>6 DEF Rising
<1>9. \A i \in 1..(l + k) : i > l => j[i].n = m + c + (i - l)
  <2>. SUFFICES ASSUME NEW i \in 1..(l + k), i > l PROVE j[i].n = m + c + (i - l)
    OBVIOUS
  <2>1. PICK e \in 1..k : e = i - l /\ i = l + e
    BY <1>7
  <2>2. j[l + e] = t[e] /\ t[e].n = m + c + e
    BY <1>3, <1>6
  <2>. QED  BY <2>1, <2>2
<1>10. Rising(j, m + c + k)
  <2>. SUFFICES ASSUME NEW i \in 1..(l + k)
                PROVE  /\ j[i].n \in 1..(m + c + k)
                       /\ \A h \in 1..(l + k) : h < i => j[h].n < j[i].n
    BY <1>6 DEF Rising
  <2>1. CASE i <= l
    <3>1. i \in 1..l /\ \A h \in 1..(l + k) : h < i => h \in 1..l
      BY <2>1
    <3>2. j[i].n \in 1..m /\ \A h \in 1..l : h < i => j[h].n < j[i].n
      BY <1>8, <3>1
    <3>. QED  BY <3>1, <3>2
  <2>2. CASE i > l
    <3>1. j[i].n = m + c + (i - l)
      BY <1>9, <2>2
    <3>3. \A h \in 1..(l + k) : h > l => j[h].n = m + c + (h - l)
      BY <1>9
    <3>4. j[i].n \in 1..(m + c + k)
      BY <2>2, <3>1
    <3>5. ASSUME NEW h \in 1..(l + k), h < i PROVE j[h].n < j[i].n
      <4>1. CASE h <= l
        <5>1. j[h].n \in 1..m
          BY <1>8, <4>1
        <5>. QED  BY <2>2, <3>1, <5>1
      <4>2. CASE h > l
        BY <2>2, <3>1, <3>3, <3>5, <4>2
      <4>. QED  BY <4>1, <4>2
    <3>. QED  BY <3>4, <3>5
  <2>. QED  BY <2>1, <2>2
<1>11. \A x \in ToSet(t) : x.n > m
  <2>. SUFFICES ASSUME NEW x, x \in ToSet(t) PROVE x.n > m
    OBVIOUS
  <2>1. PICK i \in 1..k : x = t[i]
    BY <1>2, SetOfText
  <2>. QED  BY <1>3, <2>1
<1>. QED  BY <1>2, <1>4, <1>10, <1>11, JoinedSet

LEMMA RisingParts ==
    ASSUME NEW v \in Text, NEW b \in Text, NEW m \in Nat, Rising(Joined(v, b), m)
    PROVE  /\ Rising(v, m) /\ ToSet(v) \cap ToSet(b) = {}
           /\ ToSet(v) \subseteq ToSet(Joined(v, b)) /\ ToSet(b) \subseteq ToSet(Joined(v, b))
           /\ ToSet(b) \subseteq TextTokens
           /\ \A x \in ToSet(b) : x.n \in 1..m
<1>1. PICK j \in Text : j = Joined(v, b)
  BY JoinedElements
<1>2. PICK l \in Nat : l = Len(v)
  BY JoinedElements
<1>3. PICK k \in Nat : k = Len(b)
  BY JoinedElements
<1>4. /\ Len(j) = l + k /\ \A i \in 1..l : j[i] = v[i]
      /\ \A i \in 1..k : j[l + i] = b[i]
  BY <1>1, <1>2, <1>3, JoinedElements
<1>5. \A i \in 1..(l + k) : j[i].n \in 1..m /\ \A h \in 1..(l + k) : h < i => j[h].n < j[i].n
  BY <1>1, <1>4 DEF Rising
<1>6. Rising(v, m)
  BY <1>2, <1>4, <1>5 DEF Rising
<1>7. ToSet(v) \cap ToSet(b) = {}
  <2>. SUFFICES ASSUME NEW x, x \in ToSet(v), x \in ToSet(b) PROVE FALSE
    OBVIOUS
  <2>1. PICK i \in 1..l : x = v[i]
    BY <1>2, SetOfText
  <2>2. PICK h \in 1..k : x = b[h]
    BY <1>3, SetOfText
  <2>3. i \in 1..(l + k) /\ l + h \in 1..(l + k) /\ i < l + h
    OBVIOUS
  <2>4. j[i].n < j[l + h].n /\ j[i].n \in 1..m
    BY <1>5, <2>3
  <2>5. j[i] = x /\ j[l + h] = x
    BY <1>4, <2>1, <2>2
  <2>. QED  BY <2>4, <2>5
<1>8. ToSet(v) \subseteq ToSet(j) /\ ToSet(b) \subseteq ToSet(j)
  <2>1. ASSUME NEW x, x \in ToSet(v) PROVE x \in ToSet(j)
    <3>1. PICK i \in 1..l : x = v[i]
      BY <1>2, <2>1, SetOfText
    <3>2. i \in 1..(l + k)
      OBVIOUS
    <3>. QED  BY <1>4, <3>1, <3>2, SetOfText
  <2>2. ASSUME NEW x, x \in ToSet(b) PROVE x \in ToSet(j)
    <3>1. PICK i \in 1..k : x = b[i]
      BY <1>3, <2>2, SetOfText
    <3>2. l + i \in 1..(l + k)
      OBVIOUS
    <3>. QED  BY <1>4, <3>1, <3>2, SetOfText
  <2>. QED  BY <2>1, <2>2
<1>9. \A x \in ToSet(b) : x.n \in 1..m
  <2>. SUFFICES ASSUME NEW x, x \in ToSet(b) PROVE x.n \in 1..m
    OBVIOUS
  <2>1. PICK i \in 1..k : x = b[i]
    BY <1>3, SetOfText
  <2>2. l + i \in 1..(l + k)
    OBVIOUS
  <2>. QED  BY <1>4, <1>5, <2>1, <2>2
<1>10. ToSet(b) \subseteq TextTokens
  BY SetOfText DEF Text
<1>. QED  BY <1>1, <1>6, <1>7, <1>8, <1>9, <1>10

\* A text x that holds all that was told of an answer, w, without what was cut
\* off, d; n tokens were told.
Holds(x, d, w, n) ==
    /\ Len(w) = n /\ Rising(w, n) /\ Rising(x, n)
    /\ d \subseteq ToSet(w) /\ ToSet(x) = ToSet(w) \ d

\* An answer of which h was shown before a switch of engines, when n tokens
\* were told (AnswerKeepsConfirmed).
Repeated(w, h, n) ==
    LET text == SubSeq(w, n + 1, Len(w))
    IN  IF Repeats(text, h) THEN {text[i] : i \in DOMAIN h} ELSE {}
Good(a, h, d, w, n) ==
    /\ IsPrefix(h, a)
    /\ \A i, j \in DOMAIN a : i < j => a[i].n < a[j].n
    /\ ToSet(a) = ToSet(w) \ (d \cup Repeated(w, h, n))

LEMMA RisingIsOrdered ==
    ASSUME NEW a \in Text, NEW m, Rising(a, m)
    PROVE  \A i, j \in DOMAIN a : i < j => a[i].n < a[j].n
BY DEF Rising, Text

LEMMA HoldsGrows ==
    ASSUME NEW x \in Text, NEW d, NEW w \in Text, NEW n \in Nat, Holds(x, d, w, n),
           NEW t \in Text, From(t, n)
    PROVE  Holds(Joined(x, t), d, Joined(w, t), n + Len(t))
<1>1. From(t, n + 0) /\ n + 0 + Len(t) = n + Len(t) /\ Rising(x, n) /\ Rising(w, n)
  BY DEF Holds, Text
<1>2. Rising(Joined(x, t), n + 0 + Len(t)) /\ ToSet(Joined(x, t)) = ToSet(x) \cup ToSet(t)
  BY <1>1, RisingGrows
<1>3. /\ Rising(Joined(w, t), n + 0 + Len(t)) /\ ToSet(Joined(w, t)) = ToSet(w) \cup ToSet(t)
      /\ \A y \in ToSet(t) : y.n > n
  BY <1>1, RisingGrows
<1>4. \A y \in ToSet(w) : y.n <= n
  <2>1. Rising(w, n)
    BY <1>1
  <2>. QED  BY <2>1, SetOfText DEF Rising
<1>5. ToSet(t) \cap ToSet(w) = {}
  <2>1. \A y \in ToSet(t) : y.n \in Nat
    BY NumbersOfText
  <2>. QED  BY <1>3, <1>4, <2>1
<1>6. Len(Joined(w, t)) = n + Len(t)
  BY JoinedElements DEF Holds
<1>7. Rising(Joined(x, t), n + Len(t)) /\ Rising(Joined(w, t), n + Len(t))
  BY <1>1, <1>2, <1>3
<1>. QED  BY <1>2, <1>3, <1>5, <1>6, <1>7 DEF Holds

LEMMA HoldsCut ==
    ASSUME NEW v \in Text, NEW b \in Text, NEW d, NEW w, NEW n \in Nat,
           Holds(Joined(v, b), d, w, n)
    PROVE  Holds(v, d \cup ToSet(b), w, n)
<1>1. /\ Rising(v, n) /\ ToSet(v) \cap ToSet(b) = {}
      /\ ToSet(b) \subseteq ToSet(Joined(v, b))
  BY RisingParts DEF Holds
<1>2. ToSet(Joined(v, b)) = ToSet(v) \cup ToSet(b)
  BY JoinedSet
<1>. QED  BY <1>1, <1>2 DEF Holds

\* An answer of which nothing was shown before a switch.
LEMMA HoldsIsGood ==
    ASSUME NEW x \in Text, NEW d, NEW w, NEW n \in Nat, Holds(x, d, w, n)
    PROVE  Good(x, <<>>, d, w, n)
<1>1. IsPrefix(<<>>, x)
  <2>1. SubSeq(x, 1, 0) = <<>> /\ SubSeq(<<>>, 1, 0) = <<>>
    OBVIOUS
  <2>. QED  BY <2>1 DEF IsPrefix, Text
<1>2. Repeated(w, <<>>, n) = {}
  BY DEF Repeated
<1>3. \A i, j \in DOMAIN x : i < j => x[i].n < x[j].n
  BY RisingIsOrdered DEF Holds
<1>. QED  BY <1>1, <1>2, <1>3 DEF Good, Holds

LEMMA RestOfJoin ==
    ASSUME NEW S, NEW h \in Seq(S), NEW e \in Seq(S)
    PROVE  SubSeq(h \o e, Len(h) + 1, Len(h) + Len(e)) = e
<1>0. h \o e \in Seq(S)
  OBVIOUS
<1>1. PICK t \in Seq(S) : t = h \o e
  BY <1>0
<1>2. Len(t) = Len(h) + Len(e) /\ Len(h) \in Nat /\ Len(e) \in Nat
  BY <1>1
<1>3. \A i \in 1..Len(e) : t[Len(h) + i] = e[i]
  BY <1>1
<1>4. SubSeq(t, Len(h) + 1, Len(t)) \in Seq(S)
  BY <1>2
<1>5. PICK q \in Seq(S) : q = SubSeq(t, Len(h) + 1, Len(t))
  BY <1>4
<1>6. Len(q) = Len(e) /\ \A i \in 1..Len(e) : q[i] = t[Len(h) + i]
  BY <1>2, <1>5
<1>7. q = e
  BY <1>3, <1>6
<1>. QED  BY <1>1, <1>2, <1>5, <1>7

\* Whatever the engine that goes on says, its text follows what was confirmed,
\* without a whole repetition of it at the beginning.
LEMMA ContinuationIsGood ==
    ASSUME NEW h \in Text, NEW d, NEW w \in Text, NEW n \in Nat, Holds(h, d, w, n),
           NEW t \in Text, From(t, n)
    PROVE  Merge(h, t) \in Text /\ Good(Merge(h, t), h, d, Joined(w, t), n)
<1>2. PICK m \in Nat : m = Len(t)
  BY DEF Text
<1>4. PICK l \in Nat : l = Len(h)
  BY DEF Text
<1>5. PICK c \in 0..m : c = IF Repeats(t, h) THEN l ELSE 0
  BY <1>2, <1>4 DEF Repeats
<1>6. PICK f \in Text : f = FirstPart(t, c)
  BY <1>2, CutJoins DEF Text
<1>7. PICK r \in Text : r = RestPart(t, c)
  BY <1>2, CutJoins DEF Text
<1>8. /\ Len(f) = c /\ \A i \in 1..c : f[i] = t[i]
  BY <1>2, <1>6 DEF FirstPart, Text
<1>9. From(r, n + c)
  <2>1. t \in Seq(TextTokens) /\ r = SubSeq(t, c + 1, m)
    BY <1>2, <1>7 DEF RestPart, Text
  <2>2. Len(r) = m - c
    BY <1>2, <2>1
  <2>3. \A i \in 1..(m - c) : r[i] = t[c + i]
    BY <1>2, <2>1
  <2>4. \A i \in 1..m : t[i].n = n + i
    BY <1>2 DEF From
  <2>5. \A i \in 1..(m - c) : c + i \in 1..m /\ n + (c + i) = n + c + i
    OBVIOUS
  <2>. QED  BY <2>2, <2>3, <2>4, <2>5 DEF From
<1>10. ToSet(t) = ToSet(f) \cup ToSet(r)
  <2>1. Joined(f, r) = t
    BY <1>2, <1>6, <1>7, CutJoins DEF Text
  <2>. QED  BY <2>1, JoinedSet
<1>12. PICK a \in Text : /\ a = Joined(h, r) /\ Len(a) = Len(h) + Len(r) /\ Len(r) \in Nat
                         /\ \A i \in 1..Len(h) : a[i] = h[i]
  BY JoinedElements
<1>13. Merge(h, t) = a
  <2>1. CASE Repeats(t, h)
    BY <1>2, <1>4, <1>5, <1>7, <1>12, <2>1 DEF Merge, RestPart, Joined
  <2>2. CASE ~Repeats(t, h)
    <3>1. r = t
      BY <1>2, <1>5, <1>7, <2>2 DEF RestPart, Text
    <3>. QED  BY <1>12, <2>2, <3>1 DEF Merge, Joined
  <2>. QED  BY <2>1, <2>2
<1>a. Rising(h, n) /\ Rising(w, n)
  BY DEF Holds
<1>b. c \in Nat
  OBVIOUS
<1>14. Rising(a, n + c + Len(r)) /\ ToSet(a) = ToSet(h) \cup ToSet(r)
  BY <1>9, <1>12, <1>a, <1>b, RisingGrows
<1>15. \A x \in ToSet(w) : x.n <= n
  BY <1>a, SetOfText DEF Rising
<1>16. \A x \in ToSet(f) : x.n > n /\ x.n <= n + c
  <2>. SUFFICES ASSUME NEW x, x \in ToSet(f) PROVE x.n > n /\ x.n <= n + c
    OBVIOUS
  <2>1. PICK i \in 1..c : x = t[i]
    BY <1>8, SetOfText
  <2>2. i \in 1..m
    OBVIOUS
  <2>3. x.n = n + i
    BY <1>2, <2>1, <2>2 DEF From
  <2>. QED  BY <2>3
<1>17. \A x \in ToSet(r) : x.n > n + c
  <2>. SUFFICES ASSUME NEW x, x \in ToSet(r) PROVE x.n > n + c
    OBVIOUS
  <2>1. PICK i \in 1..Len(r) : x = r[i]
    BY SetOfText
  <2>2. x.n = n + c + i
    BY <1>9, <2>1 DEF From
  <2>. QED  BY <2>2
<1>18. ToSet(Joined(w, t)) = ToSet(w) \cup ToSet(t)
  BY JoinedSet
<1>19. Repeated(Joined(w, t), h, n) = ToSet(f)
  <2>1. SubSeq(Joined(w, t), n + 1, Len(Joined(w, t))) = t
    <3>1. SubSeq(w \o t, Len(w) + 1, Len(w) + Len(t)) = t
      BY RestOfJoin DEF Text
    <3>2. Len(Joined(w, t)) = Len(w) + Len(t) /\ Len(w) = n
      BY JoinedElements DEF Holds
    <3>. QED  BY <3>1, <3>2 DEF Joined
  <2>2. CASE Repeats(t, h)
    <3>1. DOMAIN h = 1..c
      BY <1>4, <1>5, <2>2 DEF Text
    <3>2. \A x : x \in ToSet(f) <=> \E i \in 1..c : x = f[i]
      BY <1>8, SetOfText
    <3>3. ToSet(f) = {t[i] : i \in DOMAIN h}
      BY <1>8, <3>1, <3>2
    <3>. QED  BY <2>1, <2>2, <3>3 DEF Repeated
  <2>3. CASE ~Repeats(t, h)
    <3>1. \A x : x \notin ToSet(f)
      BY <1>5, <1>8, <2>3, SetOfText
    <3>. QED  BY <2>1, <2>3, <3>1 DEF Repeated
  <2>. QED  BY <2>2, <2>3
<1>20. ToSet(f) \cap ToSet(w) = {} /\ ToSet(r) \cap ToSet(w) = {} /\ ToSet(f) \cap ToSet(r) = {}
  <2>1. \A x \in ToSet(f) : x.n \in Nat
    BY NumbersOfText
  <2>2. \A x \in ToSet(r) : x.n \in Nat
    BY NumbersOfText
  <2>. QED  BY <1>15, <1>16, <1>17, <2>1, <2>2
<1>21. ToSet(a) = ToSet(Joined(w, t)) \ (d \cup Repeated(Joined(w, t), h, n))
  <2>1. ToSet(h) = ToSet(w) \ d /\ d \subseteq ToSet(w)
    BY DEF Holds
  <2>. QED  BY <1>10, <1>14, <1>18, <1>19, <1>20, <2>1
<1>22. IsPrefix(h, a)
  <2>1. \A i \in 1..l : a[i] = h[i]
    BY <1>4, <1>12
  <2>2. Len(a) = l + Len(r) /\ Len(r) \in Nat
    BY <1>4, <1>12
  <2>3. SubSeq(h, 1, l) = SubSeq(a, 1, l)
    BY <1>4, <2>1, <2>2 DEF Text
  <2>. QED  BY <1>4, <2>2, <2>3 DEF IsPrefix
<1>23. \A i, j \in DOMAIN a : i < j => a[i].n < a[j].n
  BY <1>14, RisingIsOrdered
<1>. QED  BY <1>12, <1>13, <1>21, <1>22, <1>23 DEF Good

-----------------------------------------------------------------------------
(* Streamed answers. *)

Busy(z) == IF z.phase \in {"idle", "continue"} THEN 0 ELSE 1
Held(z) == IF z.flight.staged THEN 1 ELSE 0

\* While an answer is streamed, and when it is staged, what is kept of it is all
\* that was told of it without what was cut off.
Kept(z, t, h, d, w) ==
    /\ z.replies + Busy(z) + Held(z) <= z.users
    /\ z.phase = "stream" =>
         /\ ~z.flight.staged /\ z.answer = <<>> /\ h = <<>>
         /\ Holds(Joined(t.visible, t.pending), d, w, t.count)
    /\ z.flight.staged =>
         z.answer = <<>> /\ z.flight.confirmed = h /\ Holds(h, d, w, t.count)
    /\ z.phase = "continue" => z.flight.staged
    /\ z.answer # <<>> => Good(z.answer, h, d, w, t.count)

KeptInv == \A s \in Callers : Kept(sess[s], stream[s], shown[s], dropped[s], told[s])

\* A session's step is judged by what becomes of that session.
Alone(s) ==
    /\ \A d \in Callers \ {s} : sess'[d] = sess[d] /\ stream'[d] = stream[d]
    /\ \A d \in Callers \ {s} : shown'[d] = shown[d] /\ dropped'[d] = dropped[d] /\ told'[d] = told[d]

LEMMA OthersKeep ==
    ASSUME KeptInv, NEW s \in Callers, Alone(s),
           Kept(sess'[s], stream'[s], shown'[s], dropped'[s], told'[s])
    PROVE  KeptInv'
<1>. SUFFICES ASSUME NEW d \in Callers PROVE Kept(sess'[d], stream'[d], shown'[d], dropped'[d], told'[d])
  BY DEF KeptInv
<1>1. CASE d = s
  BY <1>1
<1>2. CASE d # s
  BY <1>2 DEF KeptInv, Alone
<1>. QED  BY <1>1, <1>2

\* Whatever changes a session's phase and no more of its answer than a whole
\* reply.
LEMMA PhasesKeep ==
    ASSUME SessTyped, KeptInv, NEW s \in Callers, UNCHANGED <<stream, told, shown, dropped, dead>>,
           sess' \in [Callers -> SessionRecords], \A d \in Callers \ {s} : sess'[d] = sess[d],
           sess'[s].answer = sess[s].answer, sess'[s].flight = sess[s].flight,
           sess'[s].phase # "stream", sess'[s].phase = "continue" => sess[s].flight.staged,
           \/ sess'[s].phase \in {"idle", "continue"} /\ sess'[s].replies = sess[s].replies
                 /\ sess'[s].users = sess[s].users
           \/ sess'[s].phase = "idle" /\ Busy(sess[s]) = 1
                 /\ sess'[s].replies = sess[s].replies + 1 /\ sess'[s].users = sess[s].users
           \/ sess[s].phase = "pool" /\ sess'[s].replies = sess[s].replies
                 /\ sess'[s].users = sess[s].users
           \/ sess[s].phase = "idle" /\ sess'[s].replies = sess[s].replies
                 /\ sess'[s].users = sess[s].users + 1
    PROVE  SessTyped' /\ KeptInv'
<1>1. PICK z \in SessionRecords : z = sess[s]
  BY DEF SessTyped
<1>2. PICK y \in SessionRecords : y = sess'[s]
  OBVIOUS
<1>3. Kept(z, stream[s], shown[s], dropped[s], told[s])
  BY <1>1 DEF KeptInv
<1>4. y.replies + Busy(y) + Held(y) <= y.users
  <2>1. z.replies + Busy(z) + Held(z) <= z.users
    BY <1>3 DEF Kept
  <2>2. Held(y) = Held(z) /\ Held(z) \in {0, 1} /\ Busy(z) \in {0, 1} /\ Busy(y) \in {0, 1}
    BY <1>1, <1>2 DEF Held, Busy
  <2>3. z.replies \in Nat /\ z.users \in Nat /\ y.replies \in Nat /\ y.users \in Nat
    BY DEF SessionRecords
  <2>4. (y.phase \in {"idle", "continue"} => Busy(y) = 0) /\ (z.phase = "pool" => Busy(z) = 1)
    BY DEF Busy
  <2>. QED  BY <1>1, <1>2, <2>1, <2>2, <2>3, <2>4
<1>5. Kept(y, stream[s], shown[s], dropped[s], told[s])
  BY <1>1, <1>2, <1>3, <1>4 DEF Kept
<1>6. KeptInv'
  BY <1>2, <1>5, OthersKeep DEF Alone
<1>. QED  BY <1>6 DEF SessTyped

\* Stepping on to the next key cuts off what was not yet a sentence.
LEMMA NextKeyKeeps ==
    ASSUME SessTyped, KeptInv, NEW s \in Callers, NextKey(s)
    PROVE  SessTyped' /\ KeptInv'
<1>1. PICK t \in StreamRecords : t = stream[s]
  BY DEF SessTyped
<1>2. PICK u \in StreamRecords : u = stream'[s]
  BY NextKeyEffect
<1>3. /\ u.visible = t.visible /\ u.pending = <<>> /\ u.count = t.count
      /\ t.visible \in Text /\ t.pending \in Text /\ t.count \in Nat
  BY <1>1, <1>2, NextKeyEffect DEF StreamRecords
<1>4. /\ sess[s].phase = "stream" /\ UNCHANGED <<sess, dead, told, shown>>
      /\ dropped' = [dropped EXCEPT ![s] = dropped[s] \cup ToSet(t.pending)]
  BY <1>1 DEF NextKey, Doing
<1>5. PICK d : d = dropped[s]
  OBVIOUS
<1>6. d \in SUBSET TextTokens /\ dropped'[s] = d \cup ToSet(t.pending)
  BY <1>4, <1>5 DEF SessTyped
<1>7. Kept(sess[s], t, shown[s], d, told[s])
  BY <1>1, <1>5 DEF KeptInv
<1>8. /\ Holds(Joined(t.visible, t.pending), d, told[s], t.count)
      /\ ~sess[s].flight.staged /\ sess[s].answer = <<>> /\ shown[s] = <<>>
  BY <1>4, <1>7 DEF Kept
<1>9. Holds(t.visible, d \cup ToSet(t.pending), told[s], t.count)
  BY <1>3, <1>8, HoldsCut
<1>10. Joined(u.visible, u.pending) = t.visible
  <2>1. t.visible \o <<>> = t.visible
    BY <1>3, ConcatEmptySeq DEF Text
  <2>. QED  BY <1>3, <2>1 DEF Joined
<1>11. Kept(sess[s], u, shown[s], d \cup ToSet(t.pending), told[s])
  BY <1>3, <1>4, <1>7, <1>8, <1>9, <1>10 DEF Kept
<1>12. KeptInv'
  <2>1. Alone(s)
    BY <1>4, NextKeyEffect DEF Alone, SessTyped
  <2>2. Kept(sess'[s], stream'[s], shown'[s], dropped'[s], told'[s])
    BY <1>2, <1>4, <1>6, <1>11
  <2>. QED  BY <2>1, <2>2, OthersKeep
<1>13. dropped' \in [Callers -> SUBSET TextTokens]
  <2>1. d \cup ToSet(t.pending) \in SUBSET TextTokens
    BY <1>3, <1>6, SetOfText DEF Text
  <2>. QED  BY <1>4, <1>5, <2>1 DEF SessTyped
<1>. QED  BY <1>4, <1>12, <1>13, NextKeyEffect DEF SessTyped

\* A delta adds tokens that none was before.
LEMMA DeltaKeeps ==
    ASSUME SessTyped, KeptInv, NEW s \in Callers, NEW delta \in Deltas(s), Delta(s, delta)
    PROVE  SessTyped' /\ KeptInv'
<1>0. delta \in Seq(Sayings)
  BY DeltasType
<1>1. PICK t \in StreamRecords : t = stream[s]
  BY DEF SessTyped
<1>2. PICK new \in Text : new = Numbered(t.count, delta)
  BY <1>0, NumberedType DEF StreamRecords
<1>3. stream' \in [Callers -> StreamRecords] /\ told' \in [Callers -> Text]
  BY <1>0, <1>1, <1>2, DeltaEffect
<1>4. PICK u \in StreamRecords : u = stream'[s]
  BY <1>3
<1>5. PICK w \in Text : w = Joined(t.visible, t.pending)
  BY JoinedElements DEF StreamRecords
<1>6. /\ Joined(u.visible, u.pending) = Joined(w, new) /\ u.count = t.count + Len(delta)
      /\ \A d \in Callers \ {s} : stream'[d] = stream[d]
      /\ told'[s] = Joined(told[s], new) /\ \A d \in Callers \ {s} : told'[d] = told[d]
  BY <1>0, <1>1, <1>2, <1>4, <1>5, DeltaEffect
<1>7. sess[s].phase = "stream" /\ UNCHANGED <<sess, dead, shown, dropped>>
  BY DEF Delta, Doing
<1>8. Kept(sess[s], t, shown[s], dropped[s], told[s])
  BY <1>1 DEF KeptInv
<1>9. Holds(w, dropped[s], told[s], t.count) /\ t.count \in Nat /\ told[s] \in Text
  BY <1>5, <1>7, <1>8 DEF Kept, StreamRecords, SessTyped
<1>10. Holds(Joined(w, new), dropped[s], Joined(told[s], new), u.count)
  <2>1. From(new, t.count) /\ Len(new) = Len(delta)
    BY <1>0, <1>2, <1>9, NumberedType
  <2>. QED  BY <1>6, <1>9, <2>1, HoldsGrows
<1>11. Kept(sess[s], u, shown[s], dropped[s], told'[s])
  BY <1>6, <1>7, <1>8, <1>10 DEF Kept
<1>12. KeptInv'
  BY <1>4, <1>6, <1>7, <1>11, OthersKeep DEF Alone
<1>. QED  BY <1>3, <1>7, <1>12 DEF SessTyped

\* A stream begins with nothing shown.
LEMMA BeginKeeps ==
    ASSUME SessTyped, KeptInv, NEW s \in Callers, BeginInterruptible(s)
    PROVE  SessTyped' /\ KeptInv'
<1>1. PICK z \in SessionRecords : z = sess[s]
  BY DEF SessTyped
<1>2. PICK n \in Nat : n = z.users + 1
  BY DEF SessionRecords
<1>3. PICK y : y = [z EXCEPT !.phase = "stream", !.users = n, !.answer = <<>>]
  OBVIOUS
<1>4. /\ y \in SessionRecords /\ y.phase = "stream" /\ y.users = n /\ y.answer = <<>>
      /\ y.replies = z.replies /\ y.flight = z.flight
  <2>1. <<>> \in Text
    BY DEF Text
  <2>. QED  BY <1>3, <2>1 DEF SessionRecords, SessionPhases
<1>5. sess' = [sess EXCEPT ![s] = y]
  BY <1>1, <1>2, <1>3 DEF BeginInterruptible
<1>6. /\ z.phase = "idle" /\ ~z.flight.staged /\ UNCHANGED dead
      /\ stream' = [stream EXCEPT ![s] = NoStream] /\ shown' = [shown EXCEPT ![s] = <<>>]
      /\ dropped' = [dropped EXCEPT ![s] = {}] /\ told' = [told EXCEPT ![s] = <<>>]
  BY <1>1 DEF BeginInterruptible, Doing
<1>7. /\ NoStream \in StreamRecords /\ NoStream.count = 0
      /\ Joined(NoStream.visible, NoStream.pending) = <<>>
  <2>1. <<>> \in Text
    BY DEF Text
  <2>2. NoStream.visible = <<>> /\ NoStream.pending = <<>> /\ NoStream.count = 0 /\ NoStream.key = 0
    BY DEF NoStream
  <2>3. NoStream \in StreamRecords
    BY <2>1, PoolAssumption DEF NoStream, StreamRecords
  <2>4. <<>> \o <<>> = <<>>
    OBVIOUS
  <2>. QED  BY <2>2, <2>3, <2>4 DEF Joined
<1>8. Holds(<<>>, {}, <<>>, 0)
  BY DEF Holds, Rising, ToSet
<1>9. Kept(z, stream[s], shown[s], dropped[s], told[s])
  BY <1>1 DEF KeptInv
<1>10. y.replies + Busy(y) + Held(y) <= y.users
  <2>1. z.replies + 0 + 0 <= z.users
    BY <1>6, <1>9 DEF Kept, Busy, Held
  <2>2. Busy(y) = 1 /\ Held(y) = 0 /\ z.replies \in Nat /\ z.users \in Nat
    BY <1>4, <1>6 DEF Busy, Held, SessionRecords
  <2>. QED  BY <1>2, <1>4, <2>1, <2>2
<1>11. Kept(y, NoStream, <<>>, {}, <<>>)
  BY <1>4, <1>6, <1>7, <1>8, <1>10 DEF Kept
<1>12. KeptInv'
  <2>1. Alone(s)
    BY <1>5, <1>6 DEF Alone, SessTyped
  <2>2. Kept(sess'[s], stream'[s], shown'[s], dropped'[s], told'[s])
    BY <1>5, <1>6, <1>11 DEF SessTyped
  <2>. QED  BY <2>1, <2>2, OthersKeep
<1>13. <<>> \in Text
  BY DEF Text
<1>. QED  BY <1>4, <1>5, <1>6, <1>7, <1>12, <1>13 DEF SessTyped

\* What is staged was shown, and what was pending is cut off.
LEMMA StageKeeps ==
    ASSUME SessTyped, KeptInv, NEW s \in Callers, Stage(s)
    PROVE  SessTyped' /\ KeptInv'
<1>1. PICK z \in SessionRecords : z = sess[s]
  BY DEF SessTyped
<1>2. PICK t \in StreamRecords : t = stream[s]
  BY DEF SessTyped
<1>3. PICK f : f = [staged |-> TRUE, confirmed |-> t.visible, unstable |-> t.pending]
  OBVIOUS
<1>4. f \in Flights /\ f.staged /\ f.confirmed = t.visible
  BY <1>3 DEF Flights, StreamRecords
<1>5. PICK y : y = [z EXCEPT !.phase = "idle", !.flight = f]
  OBVIOUS
<1>6. /\ y \in SessionRecords /\ y.phase = "idle" /\ y.flight = f /\ y.answer = z.answer
      /\ y.replies = z.replies /\ y.users = z.users
  BY <1>4, <1>5 DEF SessionRecords, SessionPhases
<1>7. sess' = [sess EXCEPT ![s] = y]
  BY <1>1, <1>2, <1>3, <1>5 DEF Stage
<1>8. /\ z.phase = "stream" /\ UNCHANGED <<stream, dead, told>>
      /\ shown' = [shown EXCEPT ![s] = t.visible]
      /\ dropped' = [dropped EXCEPT ![s] = dropped[s] \cup ToSet(t.pending)]
  BY <1>1, <1>2 DEF Stage, Doing
<1>9. PICK d : d = dropped[s]
  OBVIOUS
<1>10. Kept(z, t, shown[s], d, told[s])
  BY <1>1, <1>2, <1>9 DEF KeptInv
<1>11. /\ Holds(Joined(t.visible, t.pending), d, told[s], t.count)
       /\ ~z.flight.staged /\ z.answer = <<>> /\ z.replies + 1 + 0 <= z.users
  BY <1>8, <1>10 DEF Kept, Busy, Held
<1>12. t.visible \in Text /\ t.pending \in Text /\ t.count \in Nat
  BY DEF StreamRecords
<1>14. Holds(t.visible, d \cup ToSet(t.pending), told[s], t.count)
  BY <1>11, <1>12, HoldsCut
<1>15. y.replies + Busy(y) + Held(y) <= y.users
  <2>1. Busy(y) = 0 /\ Held(y) = 1 /\ z.replies \in Nat /\ z.users \in Nat
    BY <1>4, <1>6 DEF Busy, Held, SessionRecords
  <2>. QED  BY <1>6, <1>11, <2>1
<1>16. Kept(y, t, t.visible, d \cup ToSet(t.pending), told[s])
  BY <1>4, <1>6, <1>11, <1>14, <1>15 DEF Kept
<1>17. KeptInv'
  <2>1. Alone(s)
    BY <1>7, <1>8 DEF Alone, SessTyped
  <2>2. Kept(sess'[s], stream'[s], shown'[s], dropped'[s], told'[s])
    BY <1>2, <1>7, <1>8, <1>9, <1>16 DEF SessTyped
  <2>. QED  BY <2>1, <2>2, OthersKeep
<1>18. dropped' \in [Callers -> SUBSET TextTokens]
  <2>1. d \in SUBSET TextTokens
    BY <1>9 DEF SessTyped
  <2>2. ASSUME NEW x \in ToSet(t.pending) PROVE x \in TextTokens
    <3>1. PICK i \in 1..Len(t.pending) : x = t.pending[i]
      BY <1>12, SetOfText
    <3>. QED  BY <1>12, <3>1 DEF Text
  <2>3. d \cup ToSet(t.pending) \in SUBSET TextTokens
    BY <2>1, <2>2
  <2>. QED  BY <1>8, <1>9, <2>3 DEF SessTyped
<1>. QED  BY <1>6, <1>7, <1>8, <1>12, <1>17, <1>18 DEF SessTyped

\* A stream that is done was never switched, or holds only what was kept.
LEMMA StreamDoneKeeps ==
    ASSUME SessTyped, KeptInv, NEW s \in Callers, StreamDone(s)
    PROVE  SessTyped' /\ KeptInv'
<1>1. PICK t \in StreamRecords : t = stream[s]
  BY DEF SessTyped
<1>2. t.visible \in Text /\ t.pending \in Text /\ t.count \in Nat
  BY DEF StreamRecords
<1>3. PICK w \in Text : w = Joined(t.visible, t.pending)
  BY <1>2, JoinedElements
<1>4. Commit(s, w, NoFlight) /\ sess[s].phase = "stream" /\ UNCHANGED <<stream, dead, told, shown, dropped>>
  BY <1>1, <1>3 DEF StreamDone, Joined, Doing
<1>5. PICK z \in SessionRecords : z = sess[s]
  BY DEF SessTyped
<1>6. PICK y \in SessionRecords : y = sess'[s]
  BY <1>4, CommitEffect
<1>7. /\ y.phase = "idle" /\ y.users = z.users /\ y.replies = z.replies + 1 /\ y.answer = w
      /\ ~y.flight.staged /\ \A d \in Callers \ {s} : sess'[d] = sess[d]
      /\ sess' \in [Callers -> SessionRecords]
  BY <1>4, <1>5, <1>6, CommitEffect
<1>8. Kept(z, t, shown[s], dropped[s], told[s])
  BY <1>1, <1>5 DEF KeptInv
<1>9. /\ shown[s] = <<>> /\ Holds(w, dropped[s], told[s], t.count)
      /\ z.replies + 1 + 0 <= z.users
  BY <1>3, <1>4, <1>5, <1>8 DEF Kept, Busy, Held
<1>10. Good(w, shown[s], dropped[s], told[s], t.count)
  BY <1>2, <1>9, HoldsIsGood
<1>11. y.replies + Busy(y) + Held(y) <= y.users
  <2>1. Busy(y) = 0 /\ Held(y) = 0 /\ z.replies \in Nat /\ z.users \in Nat
    BY <1>7 DEF Busy, Held, SessionRecords
  <2>. QED  BY <1>7, <1>9, <2>1
<1>12. Kept(y, t, shown[s], dropped[s], told[s])
  BY <1>7, <1>10, <1>11 DEF Kept
<1>13. KeptInv'
  BY <1>1, <1>4, <1>6, <1>7, <1>12, OthersKeep DEF Alone
<1>. QED  BY <1>4, <1>7, <1>13 DEF SessTyped

\* What Codex adds follows what was confirmed.
LEMMA ContinuationKeeps ==
    ASSUME SessTyped, KeptInv, NEW s \in Callers, ContinuationEnds(s), run[s].outcome = "ok"
    PROVE  SessTyped' /\ KeptInv'
<1>1. PICK z \in SessionRecords : z = sess[s]
  BY DEF SessTyped
<1>a. PICK t \in StreamRecords : t = stream[s]
  BY DEF SessTyped
<1>2. PICK h \in Text : h = z.flight.confirmed
  BY DEF SessionRecords, Flights
<1>3. PICK said \in Continuations(s) :
            /\ Commit(s, Merge(h, Numbered(t.count, said)), NoFlight)
            /\ told' = [told EXCEPT ![s] = told[s] \o Numbered(t.count, said)]
  BY <1>1, <1>2, <1>a DEF ContinuationEnds
<1>b. said \in Seq(Sayings) /\ t.count \in Nat /\ told[s] \in Text
  BY <1>1, <1>2, ContinuationsType DEF SessTyped, StreamRecords
<1>c. PICK text \in Text : text = Numbered(t.count, said) /\ From(text, t.count)
  BY <1>b, NumberedType
<1>4. z.phase = "continue" /\ UNCHANGED <<stream, dead, shown, dropped>>
  BY <1>1 DEF ContinuationEnds, Doing
<1>5. Kept(z, t, shown[s], dropped[s], told[s])
  BY <1>1, <1>a DEF KeptInv
<1>6. /\ z.flight.staged /\ h = shown[s] /\ Holds(h, dropped[s], told[s], t.count)
      /\ z.replies + 0 + 1 <= z.users
  BY <1>2, <1>4, <1>5 DEF Kept, Busy, Held
<1>7. PICK w \in Text : w = Merge(h, text)
  BY <1>6, <1>b, <1>c, ContinuationIsGood
<1>8. Good(w, shown[s], dropped[s], Joined(told[s], text), t.count)
  BY <1>6, <1>7, <1>b, <1>c, ContinuationIsGood
<1>d. PICK v \in Text : v = Joined(told[s], text)
  BY <1>b, <1>c, JoinedElements
<1>e. told' = [told EXCEPT ![s] = v]
  BY <1>3, <1>c, <1>d DEF Joined
<1>9. Commit(s, w, NoFlight)
  BY <1>3, <1>7, <1>c
<1>10. PICK y \in SessionRecords : y = sess'[s]
  BY <1>9, CommitEffect
<1>11. /\ y.phase = "idle" /\ y.users = z.users /\ y.replies = z.replies + 1 /\ y.answer = w
       /\ ~y.flight.staged /\ \A d \in Callers \ {s} : sess'[d] = sess[d]
       /\ sess' \in [Callers -> SessionRecords]
  BY <1>1, <1>9, <1>10, CommitEffect
<1>12. y.replies + Busy(y) + Held(y) <= y.users
  <2>1. Busy(y) = 0 /\ Held(y) = 0 /\ z.replies \in Nat /\ z.users \in Nat
    BY <1>11 DEF Busy, Held, SessionRecords
  <2>. QED  BY <1>6, <1>11, <2>1
<1>13. Kept(y, t, shown[s], dropped[s], v)
  BY <1>8, <1>11, <1>12, <1>d DEF Kept
<1>14. KeptInv'
  <2>1. Alone(s)
    BY <1>4, <1>11, <1>e DEF Alone, SessTyped
  <2>2. Kept(sess'[s], stream'[s], shown'[s], dropped'[s], told'[s])
    BY <1>4, <1>10, <1>13, <1>a, <1>e DEF SessTyped
  <2>. QED  BY <2>1, <2>2, OthersKeep
<1>. QED  BY <1>4, <1>11, <1>14, <1>e DEF SessTyped

LEMMA KeptInit == Init => SessTyped /\ KeptInv
<1>. SUFFICES ASSUME Init PROVE SessTyped /\ KeptInv
  OBVIOUS
<1>1. <<>> \in Text
  BY DEF Text
<1>2. NewSession \in SessionRecords /\ NoStream \in StreamRecords
  BY <1>1, PoolAssumption
     DEF NewSession, NoStream, NoFlight, SessionRecords, SessionPhases, StreamRecords, Flights
<1>3. SessTyped
  BY <1>1, <1>2 DEF Init, SessTyped
<1>4. Kept(NewSession, NoStream, <<>>, {}, <<>>)
  BY DEF Kept, NewSession, NoFlight, Busy, Held
<1>5. KeptInv
  BY <1>4 DEF Init, KeptInv
<1>. QED  BY <1>3, <1>5

LEMMA KeptStep == SessTyped /\ KeptInv /\ [Next]_vars => SessTyped' /\ KeptInv'
<1>. SUFFICES ASSUME SessTyped, KeptInv, [Next]_vars PROVE SessTyped' /\ KeptInv'
  OBVIOUS
<1>. DEFINE Quiet == UNCHANGED <<stream, told, shown, dropped, dead>>
<1>1. ASSUME NEW s \in Callers, RunWithFallback(s) PROVE SessTyped' /\ KeptInv'
  <2>1. /\ sess' = [sess EXCEPT ![s].phase = "pool", ![s].users = @ + 1]
        /\ sess[s].phase = "idle" /\ Quiet
    BY <1>1 DEF RunWithFallback, Doing
  <2>. QED  BY <2>1, PromptEffect, PhasesKeep DEF SessionPhases
<1>2. ASSUME NEW s \in Callers, Run(s) PROVE SessTyped' /\ KeptInv'
  <2>1. PICK p \in {"pool alone", "codex alone"} :
              sess' = [sess EXCEPT ![s].phase = p, ![s].users = @ + 1]
    BY <1>2 DEF Run
  <2>2. sess[s].phase = "idle" /\ Quiet /\ p \in SessionPhases
    BY <1>2 DEF Run, Doing, SessionPhases
  <2>. QED  BY <2>1, <2>2, PromptEffect, PhasesKeep
<1>3. ASSUME NEW s \in Callers, Quiet, ToPhase(s, "idle") PROVE SessTyped' /\ KeptInv'
  BY <1>3, PhaseEffect, PhasesKeep DEF SessionPhases, Same
<1>4. ASSUME NEW s \in Callers, Quiet, CommitWhole(s), Busy(sess[s]) = 1
      PROVE  SessTyped' /\ KeptInv'
  BY <1>4, WholeEffect, PhasesKeep
<1>5. ASSUME NEW s \in Callers, RunEnds(s) PROVE SessTyped' /\ KeptInv'
  <2>1. Quiet /\ Busy(sess[s]) = 1 /\ (CommitWhole(s) \/ ToPhase(s, "idle"))
    BY <1>5 DEF RunEnds, Doing, Busy
  <2>. QED  BY <1>3, <1>4, <2>1
<1>6. ASSUME NEW s \in Callers, PoolEnds(s) PROVE SessTyped' /\ KeptInv'
  <2>1. Quiet /\ Busy(sess[s]) = 1 /\ (CommitWhole(s) \/ ToPhase(s, "idle"))
    BY <1>6 DEF PoolEnds, Doing, Busy
  <2>. QED  BY <1>3, <1>4, <2>1
<1>7. ASSUME NEW s \in Callers, FallbackEnds(s) PROVE SessTyped' /\ KeptInv'
  <2>1. Quiet /\ Busy(sess[s]) = 1 /\ (CommitWhole(s) \/ ToPhase(s, "idle"))
    BY <1>7 DEF FallbackEnds, Doing, Busy
  <2>. QED  BY <1>3, <1>4, <2>1
<1>8. ASSUME NEW s \in Callers, FallBack(s) PROVE SessTyped' /\ KeptInv'
  <2>1. Quiet /\ sess[s].phase = "pool" /\ ToPhase(s, "codex")
    BY <1>8 DEF FallBack, Doing
  <2>. QED  BY <2>1, PhaseEffect, PhasesKeep DEF SessionPhases, Same
<1>9. ASSUME NEW s \in Callers, ContinueInFlight(s) PROVE SessTyped' /\ KeptInv'
  <2>1. Quiet /\ sess[s].flight.staged /\ ToPhase(s, "continue")
    BY <1>9 DEF ContinueInFlight
  <2>. QED  BY <2>1, PhaseEffect, PhasesKeep DEF SessionPhases, Same
<1>10. ASSUME NEW s \in Callers, ContinuationEnds(s) PROVE SessTyped' /\ KeptInv'
  <2>1. CASE run[s].outcome = "ok"
    BY <1>10, <2>1, ContinuationKeeps
  <2>2. CASE run[s].outcome # "ok"
    <3>1. Quiet /\ ToPhase(s, "idle")
      BY <1>10, <2>2 DEF ContinuationEnds
    <3>. QED  BY <1>3, <3>1
  <2>. QED  BY <2>1, <2>2
<1>11. ASSUME NEW s \in Callers, StreamExhausted(s) PROVE SessTyped' /\ KeptInv'
  <2>1. /\ UNCHANGED <<sess, stream, told, shown, dropped>>
        /\ dead' = [dead EXCEPT ![s] = dead[s] \cup {stream[s].key}] /\ stream[s].key \notin {0}
    BY <1>11 DEF StreamExhausted
  <2>2. dead[s] \cup {stream[s].key} \in SUBSET Keys
    BY <2>1, PoolAssumption DEF SessTyped, StreamRecords, Keys
  <2>3. dead' \in [Callers -> SUBSET Keys]
    BY <2>1, <2>2 DEF SessTyped
  <2>. QED  BY <2>1, <2>3 DEF SessTyped, KeptInv
<1>12. ASSUME NEW s \in Callers, NEW class, StreamEnds(s, class) PROVE SessTyped' /\ KeptInv'
  <2>1. ASSUME StreamFails(s) PROVE SessTyped' /\ KeptInv'
    BY <1>3, <2>1 DEF StreamFails
  <2>. QED  BY <1>11, <1>12, <2>1, StreamDoneKeeps DEF StreamEnds
<1>13. ASSUME NEW s \in Callers, Orchestrate(s) PROVE SessTyped' /\ KeptInv'
  <2>1. ASSUME NEW delta \in Deltas(s), Delta(s, delta)
        PROVE  SessTyped' /\ KeptInv'
    BY <2>1, DeltaKeeps
  <2>2. ASSUME NextKey(s) \/ BeginInterruptible(s) \/ Stage(s) PROVE SessTyped' /\ KeptInv'
    BY <2>2, NextKeyKeeps, BeginKeeps, StageKeeps
  <2>. QED  BY <1>1, <1>2, <1>5, <1>6, <1>7, <1>8, <1>9, <1>10, <1>12, <1>13, <2>1, <2>2
            DEF Orchestrate
<1>14. CASE UNCHANGED sessionVars
  BY <1>14 DEF SessTyped, KeptInv, sessionVars
<1>. QED  BY <1>13, <1>14 DEF Next, vars

\* Whatever sequence of keys, ends and engines an answer takes, and whatever they
\* repeat, what joins the transcript is what was delivered for it, each delivery
\* once and in order: first what was shown before a switch, nothing of a sentence
\* that was cut off or of a whole repetition with which the engine that went on
\* began, and everything else (continuity.Engine.Execute, BeginInterruptible,
\* ContinueInFlight and mergeContinuationOutput).
THEOREM AnswersKeepWhatWasShown == Spec => []AnswerKeepsConfirmed
<1>1. SessTyped /\ KeptInv => AnswerKeepsConfirmed
  <2>. SUFFICES ASSUME SessTyped, KeptInv, NEW s \in Callers
                PROVE  /\ sess[s].replies <= sess[s].users
                       /\ sess[s].answer # <<>> =>
                            Good(sess[s].answer, shown[s], dropped[s], told[s], stream[s].count)
    BY DEF AnswerKeepsConfirmed, Repetition, Good, Repeated
  <2>1. Kept(sess[s], stream[s], shown[s], dropped[s], told[s])
    BY DEF KeptInv
  <2>2. sess[s].replies \in Nat /\ sess[s].users \in Nat
    BY DEF SessTyped, SessionRecords
  <2>3. Busy(sess[s]) \in {0, 1} /\ Held(sess[s]) \in {0, 1}
    BY DEF Busy, Held
  <2>4. sess[s].replies + Busy(sess[s]) + Held(sess[s]) <= sess[s].users
    BY <2>1 DEF Kept
  <2>. QED  BY <2>1, <2>2, <2>3, <2>4 DEF Kept
<1>. QED  BY <1>1, KeptInit, KeptStep, PTL DEF Spec

-----------------------------------------------------------------------------
(* A prompt is carried out by one engine. *)

\* What Codex carries out, the pool has given up on.
FallInv == \A c \in Callers : Doing(c, "codex") => In(c, "done") /\ request[c].outcome = "unavailable"

\* Only FallBack brings a session there, and no session moves another.
LEMMA OwnSession ==
    ASSUME SessTyped, NEW s \in Callers, Orchestrate(s)
    PROVE  /\ \A d \in Callers \ {s} : sess'[d] = sess[d]
           /\ sess'[s].phase = "codex" => FallBack(s)
<1>. DEFINE Own == /\ \A d \in Callers \ {s} : sess'[d] = sess[d]
                   /\ sess'[s].phase = "codex" => FallBack(s)
<1>. SUFFICES Own
  OBVIOUS
<1>1. ASSUME NEW p \in SessionPhases, ToPhase(s, p), p # "codex" \/ FallBack(s) PROVE Own
  BY <1>1, PhaseEffect
<1>2. ASSUME CommitWhole(s) PROVE Own
  BY <1>2, WholeEffect
<1>3. ASSUME NEW p \in SessionPhases \ {"codex"},
             sess' = [sess EXCEPT ![s].phase = p, ![s].users = @ + 1]
      PROVE  Own
  BY <1>3, PromptEffect
<1>4. CASE RunWithFallback(s)
  <2>1. sess' = [sess EXCEPT ![s].phase = "pool", ![s].users = @ + 1]
    BY <1>4 DEF RunWithFallback
  <2>2. "pool" \in SessionPhases \ {"codex"}
    BY DEF SessionPhases
  <2>. QED  BY <1>3, <2>1, <2>2
<1>5. CASE Run(s)
  <2>1. PICK p \in {"pool alone", "codex alone"} :
              sess' = [sess EXCEPT ![s].phase = p, ![s].users = @ + 1]
    BY <1>5 DEF Run
  <2>. QED  BY <1>3, <2>1 DEF SessionPhases
<1>6. CASE RunEnds(s) \/ PoolEnds(s) \/ FallbackEnds(s)
  <2>1. CommitWhole(s) \/ ToPhase(s, "idle")
    BY <1>6 DEF RunEnds, PoolEnds, FallbackEnds
  <2>. QED  BY <1>1, <1>2, <2>1 DEF SessionPhases
<1>7. CASE FallBack(s)
  BY <1>1, <1>7 DEF FallBack, SessionPhases
<1>8. CASE BeginInterruptible(s)
  BY <1>8 DEF BeginInterruptible, SessTyped, SessionRecords
<1>9. CASE NextKey(s)
  BY <1>9 DEF NextKey, Doing
<1>10. ASSUME NEW class, StreamEnds(s, class) PROVE Own
  <2>1. CASE StreamDone(s)
    BY <2>1 DEF StreamDone, Commit, SessTyped, SessionRecords
  <2>2. CASE StreamExhausted(s)
    BY <2>2 DEF StreamExhausted, Doing
  <2>3. CASE StreamFails(s)
    BY <1>1, <2>3 DEF StreamFails, SessionPhases
  <2>. QED  BY <1>10, <2>1, <2>2, <2>3 DEF StreamEnds
<1>11. CASE Stage(s)
  BY <1>11 DEF Stage, SessTyped, SessionRecords
<1>12. CASE ContinueInFlight(s)
  BY <1>1, <1>12 DEF ContinueInFlight, SessionPhases
<1>13. CASE ContinuationEnds(s)
  <2>1. CASE run[s].outcome = "ok"
    <3>1. PICK text : Commit(s, text, NoFlight)
      BY <1>13, <2>1 DEF ContinuationEnds
    <3>. QED  BY <3>1 DEF Commit, SessTyped, SessionRecords
  <2>2. CASE run[s].outcome # "ok"
    BY <1>1, <1>13, <2>2 DEF ContinuationEnds, SessionPhases
  <2>. QED  BY <2>1, <2>2
<1>14. ASSUME NEW delta, Delta(s, delta) PROVE Own
  BY <1>14 DEF Delta, Doing
<1>. QED  BY <1>4, <1>5, <1>6, <1>7, <1>8, <1>9, <1>10, <1>11, <1>12, <1>13, <1>14 DEF Orchestrate

LEMMA OwnRequest ==
    ASSUME PoolTyped, NEW c \in Callers, PoolMove(c)
    PROVE  Keeps(c)
<1>1. ASSUME NEW r \in Responses, NEW u \in Usages, NEW decodes \in BOOLEAN, Answer(c, r, u, decodes)
      PROVE  Keeps(c)
  BY <1>1, AnswerEffect
<1>. QED  BY <1>1, AdmitEffect, SelectEffect, ApplyEffect, ObserveEffect, TakeEffect
          DEF PoolMove, Execute

LEMMA FallStep == PoolTyped /\ SessTyped /\ FallInv /\ [Next]_vars => FallInv'
<1>. SUFFICES ASSUME PoolTyped, SessTyped, FallInv, [Next]_vars, NEW c \in Callers,
                     sess'[c].phase = "codex"
              PROVE  request'[c].phase = "done" /\ request'[c].outcome = "unavailable"
  BY DEF FallInv, Doing, In
<1>0. ASSUME sess[c].phase = "codex", request'[c] = request[c]
      PROVE  request'[c].phase = "done" /\ request'[c].outcome = "unavailable"
  BY <1>0 DEF FallInv, Doing, In
<1>1. ASSUME NEW s \in Callers, Orchestrate(s)
      PROVE  request'[c].phase = "done" /\ request'[c].outcome = "unavailable"
  <2>1. CASE s = c
    <3>1. FallBack(c)
      BY <1>1, <2>1, OwnSession
    <3>. QED  BY <3>1 DEF FallBack, In, poolVars
  <2>2. CASE s # c
    <3>1. sess'[c] = sess[c]
      BY <1>1, <2>2, OwnSession
    <3>2. request'[c] = request[c]
      BY <1>1, <2>2, OrchestrateMovesPool, OwnRequest DEF Keeps, poolVars
    <3>. QED  BY <1>0, <3>1, <3>2
  <2>. QED  BY <2>1, <2>2
<1>2. ASSUME NEW s \in Callers, Execute(s), UNCHANGED sess
      PROVE  request'[c].phase = "done" /\ request'[c].outcome = "unavailable"
  <2>1. sess[c].phase = "codex"
    BY <1>2
  <2>2. s # c
    BY <1>2, <2>1 DEF FallInv, Doing, In, Execute, Select, Apply, ObserveUsage, Answer
  <2>3. request'[c] = request[c]
    BY <1>2, <2>2, OwnRequest DEF PoolMove, Keeps
  <2>. QED  BY <1>0, <2>1, <2>3
<1>3. CASE UNCHANGED <<sess, request>>
  BY <1>0, <1>3
<1>. QED  BY <1>1, <1>2, <1>3 DEF Next, vars, sessionVars, poolVars

\* However other sessions change the keys meanwhile, at most one engine carries
\* a prompt out: the pool's walk ends at the first request that was not refused
\* with evidence, and Codex has the prompt only when there was none
\* (RunWithFallback over Pool.Execute).
THEOREM PromptIsCarriedOutOnce == Spec => []CarriedOutOnce
<1>1. Init => FallInv
  BY DEF Init, FallInv, Doing, NewSession
<1>2. WalkInv /\ FallInv => CarriedOutOnce
  <2>. SUFFICES ASSUME WalkInv, FallInv, NEW c \in Callers
                PROVE  Cardinality(Unrefused(c)) + (IF Doing(c, "codex") THEN 1 ELSE 0) <= 1
    BY DEF CarriedOutOnce, Unrefused
  <2>1. CASE Unrefused(c) = {}
    BY <2>1, FS_EmptySet
  <2>2. CASE Unrefused(c) # {}
    <3>1. Unrefused(c) = {Len(request[c].asked)}
      BY <2>2 DEF WalkInv
    <3>2. Cardinality(Unrefused(c)) = 1
      BY <3>1, FS_Singleton
    <3>3. ~Doing(c, "codex")
      BY <2>2 DEF WalkInv, FallInv, Walking, In
    <3>. QED  BY <3>2, <3>3
  <2>. QED  BY <2>1, <2>2
<1>. QED  BY <1>1, <1>2, PoolTypedAlways, WalkInit, WalkStep, KeptInit, KeptStep, FallStep,
             PTL DEF Spec

-----------------------------------------------------------------------------
(* Whoever waits for an answer, and no one else, has a place for it. *)

Fields == {"phase", "id", "turn", "text", "outcome"}
Waits(c) == run[c].phase \in Waiting
Places == pending \cup DOMAIN answers

\* PendingIsAwaited, and that no id is waited for twice.
AwaitInv ==
    /\ run = [c \in Runners |-> run[c]] /\ \A c \in Runners : DOMAIN run[c] = Fields
    /\ nextID \in Nat
    /\ \A c \in Runners : Waits(c) => run[c].id \in Places /\ run[c].id \in 1..nextID
    /\ \A c, d \in Runners : Waits(c) /\ Waits(d) /\ run[c].id = run[d].id => c = d
    /\ \A id \in Places : \E c \in Runners : Waits(c) /\ run[c].id = id
    /\ pending \cap DOMAIN answers = {}

\* A runner's record changes; it stays a record.
LEMMA PhaseOfRun ==
    ASSUME NEW r, DOMAIN r = Fields, NEW p, NEW i, NEW t, NEW o
    PROVE  /\ DOMAIN [r EXCEPT !.phase = p] = Fields /\ [r EXCEPT !.phase = p].phase = p
           /\ DOMAIN [r EXCEPT !.phase = p, !.outcome = o] = Fields
           /\ [r EXCEPT !.phase = p, !.outcome = o].phase = p
           /\ DOMAIN [r EXCEPT !.phase = p, !.turn = t] = Fields
           /\ [r EXCEPT !.phase = p, !.turn = t].phase = p
           /\ DOMAIN [r EXCEPT !.phase = p, !.id = i] = Fields
           /\ [r EXCEPT !.phase = p, !.id = i].phase = p
           /\ [r EXCEPT !.phase = p, !.id = i].id = i
BY DEF Fields

\* A runner that does not wait does something else.
LEMMA NotWaiting ==
    ASSUME AwaitInv, NEW c \in Runners, ~Waits(c), nextID' \in Nat, nextID' >= nextID,
           UNCHANGED <<pending, answers>>,
           NEW x, DOMAIN x = Fields, x.phase \notin Waiting, run' = [run EXCEPT ![c] = x]
    PROVE  AwaitInv'
<1>1. run'[c] = x /\ \A d \in Runners \ {c} : run'[d] = run[d]
  BY DEF AwaitInv
<1>2. run' = [d \in Runners |-> run'[d]] /\ \A d \in Runners : DOMAIN run'[d] = Fields
  BY DEF AwaitInv
<1>3. \A d \in Runners : Waits(d)' <=> Waits(d)
  BY <1>1 DEF Waits
<1>4. \A d \in Runners : Waits(d) => run'[d] = run[d]
  BY <1>1
<1>5. Places' = Places
  BY DEF Places
<1>. QED  BY <1>2, <1>3, <1>4, <1>5 DEF AwaitInv

\* A runner stops waiting, and with it its place goes.
LEMMA WaitEnds ==
    ASSUME AwaitInv, NEW c \in Runners, Waits(c), UNCHANGED nextID,
           Places' = Places \ {run[c].id}, pending' \subseteq pending,
           DOMAIN answers' \subseteq DOMAIN answers,
           NEW x, DOMAIN x = Fields, x.phase \notin Waiting, run' = [run EXCEPT ![c] = x]
    PROVE  AwaitInv'
<1>1. run'[c] = x /\ \A d \in Runners \ {c} : run'[d] = run[d]
  BY DEF AwaitInv
<1>2. run' = [d \in Runners |-> run'[d]] /\ \A d \in Runners : DOMAIN run'[d] = Fields
  BY DEF AwaitInv
<1>3. \A d \in Runners : Waits(d)' <=> Waits(d) /\ d # c
  BY <1>1 DEF Waits
<1>4. \A d \in Runners : Waits(d) /\ d # c => run'[d] = run[d] /\ run[d].id # run[c].id
  BY <1>1 DEF AwaitInv
<1>. QED  BY <1>2, <1>3, <1>4 DEF AwaitInv

\* A runner begins to wait for a new id.
LEMMA WaitBegins ==
    ASSUME AwaitInv, NEW c \in Runners, ~Waits(c), nextID' = nextID + 1, UNCHANGED answers,
           pending' = pending \cup {nextID + 1},
           NEW x, DOMAIN x = Fields, x.phase \in Waiting, x.id = nextID + 1,
           run' = [run EXCEPT ![c] = x]
    PROVE  AwaitInv'
<1>1. run'[c] = x /\ \A d \in Runners \ {c} : run'[d] = run[d]
  BY DEF AwaitInv
<1>2. run' = [d \in Runners |-> run'[d]] /\ \A d \in Runners : DOMAIN run'[d] = Fields
  BY DEF AwaitInv
<1>3. \A d \in Runners : Waits(d)' <=> Waits(d) \/ d = c
  BY <1>1 DEF Waits
<1>4. nextID \in Nat /\ \A d \in Runners : Waits(d) => d # c /\ run'[d] = run[d] /\ run[d].id \in 1..nextID
  BY <1>1 DEF AwaitInv
<1>5. Places' = Places \cup {nextID + 1}
  BY DEF Places
<1>6. \A id \in Places : id \in 1..nextID
  BY DEF AwaitInv
<1>7. pending' \cap DOMAIN answers' = {}
  BY <1>4, <1>6 DEF AwaitInv, Places
<1>8. \A d \in Runners : Waits(d)' => run'[d].id \in Places' /\ run'[d].id \in 1..nextID'
  BY <1>1, <1>3, <1>4, <1>5 DEF AwaitInv
<1>9. \A d, e \in Runners : Waits(d)' /\ Waits(e)' /\ run'[d].id = run'[e].id => d = e
  BY <1>1, <1>3, <1>4 DEF AwaitInv
<1>10. \A id \in Places' : \E d \in Runners : Waits(d)' /\ run'[d].id = id
  BY <1>1, <1>3, <1>4, <1>5 DEF AwaitInv
<1>. QED  BY <1>2, <1>4, <1>7, <1>8, <1>9, <1>10 DEF AwaitInv

\* An answer changes its place.
LEMMA PlacesMove ==
    ASSUME AwaitInv, UNCHANGED <<nextID, run>>, Places' = Places, pending' \cap DOMAIN answers' = {}
    PROVE  AwaitInv'
BY DEF AwaitInv, Waits

LEMMA CallAwaits ==
    ASSUME AwaitInv, NEW c \in Runners, ~Waits(c), NEW method, NEW phase \in Waiting,
           Call(c, method, phase)
    PROVE  AwaitInv'
<1>1. nextID' = nextID + 1 /\ nextID \in Nat /\ UNCHANGED answers /\ DOMAIN run[c] = Fields
  BY DEF Call, AwaitInv
<1>2. CASE EndRun(c, "error") /\ UNCHANGED pending
  <2>1. PICK x : x = [run[c] EXCEPT !.phase = "done", !.outcome = "error"]
    OBVIOUS
  <2>2. DOMAIN x = Fields /\ x.phase = "done"
    BY <1>1, <2>1, PhaseOfRun
  <2>3. run' = [run EXCEPT ![c] = x]
    BY <1>2, <2>1 DEF EndRun
  <2>4. nextID' \in Nat /\ nextID' >= nextID /\ x.phase \notin Waiting /\ UNCHANGED <<pending, answers>>
    BY <1>1, <1>2, <2>2 DEF Waiting
  <2>. QED  BY <2>2, <2>3, <2>4, NotWaiting
<1>3. CASE /\ pending' = pending \cup {nextID + 1}
           /\ run' = [run EXCEPT ![c].phase = phase, ![c].id = nextID + 1]
  <2>1. PICK x : x = [run[c] EXCEPT !.phase = phase, !.id = nextID + 1]
    OBVIOUS
  <2>2. DOMAIN x = Fields /\ x.phase = phase /\ x.id = nextID + 1
    BY <1>1, <2>1, PhaseOfRun
  <2>3. run' = [run EXCEPT ![c] = x]
    BY <1>3, <2>1
  <2>. QED  BY <1>1, <1>3, <2>2, <2>3, WaitBegins
<1>. QED  BY <1>2, <1>3 DEF Call

\* A runner ends without an answer.
LEMMA EndAwaits ==
    ASSUME AwaitInv, NEW c \in Runners, EndRun(c, "error"), UNCHANGED nextID,
           \/ ~Waits(c) /\ UNCHANGED <<pending, answers>>
           \/ /\ Waits(c) /\ pending' = pending \ {run[c].id} /\ answers' = Drop(run[c].id)
    PROVE  AwaitInv'
<1>1. PICK x : x = [run[c] EXCEPT !.phase = "done", !.outcome = "error"]
  OBVIOUS
<1>2. DOMAIN x = Fields /\ x.phase = "done" /\ nextID \in Nat
  BY <1>1, PhaseOfRun DEF AwaitInv
<1>3. run' = [run EXCEPT ![c] = x]
  BY <1>1 DEF EndRun
<1>a. nextID' \in Nat /\ nextID' >= nextID /\ x.phase \notin Waiting
  BY <1>2 DEF Waiting
<1>4. CASE ~Waits(c) /\ UNCHANGED <<pending, answers>>
  BY <1>2, <1>3, <1>4, <1>a, NotWaiting
<1>5. CASE Waits(c) /\ pending' = pending \ {run[c].id} /\ answers' = Drop(run[c].id)
  <2>1. DOMAIN answers' = DOMAIN answers \ {run[c].id}
    BY <1>5 DEF Drop
  <2>. QED  BY <1>2, <1>3, <1>5, <2>1, WaitEnds DEF Waiting, Places
<1>. QED  BY <1>4, <1>5

LEMMA ReturnAwaits ==
    ASSUME AwaitInv, NEW c \in Runners, Return(c)
    PROVE  AwaitInv'
<1>1. /\ Waits(c) /\ run[c].id \in DOMAIN answers /\ UNCHANGED <<nextID, pending>>
      /\ answers' = Drop(run[c].id) /\ DOMAIN run[c] = Fields
  BY DEF Return, Waits, AwaitInv
<1>2. /\ DOMAIN answers' = DOMAIN answers \ {run[c].id} /\ run[c].id \notin pending
  BY <1>1 DEF Drop, AwaitInv
<1>3. PICK x : DOMAIN x = Fields /\ x.phase \notin Waiting /\ run' = [run EXCEPT ![c] = x]
  <2>1. CASE EndRun(c, "error")
    <3>1. PICK x : x = [run[c] EXCEPT !.phase = "done", !.outcome = "error"]
      OBVIOUS
    <3>2. DOMAIN x = Fields /\ x.phase = "done"
      BY <1>1, <3>1, PhaseOfRun
    <3>3. run' = [run EXCEPT ![c] = x]
      BY <2>1, <3>1 DEF EndRun
    <3>. QED  BY <3>2, <3>3 DEF Waiting
  <2>2. CASE run' = [run EXCEPT ![c].phase = "opened"]
    <3>1. PICK x : x = [run[c] EXCEPT !.phase = "opened"]
      OBVIOUS
    <3>2. DOMAIN x = Fields /\ x.phase = "opened" /\ run' = [run EXCEPT ![c] = x]
      BY <1>1, <2>2, <3>1, PhaseOfRun
    <3>. QED  BY <3>2 DEF Waiting
  <2>3. CASE run' = [run EXCEPT ![c].phase = "collect", ![c].turn = answers[run[c].id]]
    <3>1. PICK x : x = [run[c] EXCEPT !.phase = "collect", !.turn = answers[run[c].id]]
      OBVIOUS
    <3>2. DOMAIN x = Fields /\ x.phase = "collect"
      BY <1>1, <3>1, PhaseOfRun
    <3>3. run' = [run EXCEPT ![c] = x]
      BY <2>3, <3>1
    <3>. QED  BY <3>2, <3>3 DEF Waiting
  <2>. QED  BY <2>1, <2>2, <2>3 DEF Return
<1>. QED  BY <1>1, <1>2, <1>3, WaitEnds DEF Places

LEMMA CollectAwaits ==
    ASSUME AwaitInv, NEW c \in Runners, Collect(c)
    PROVE  AwaitInv'
<1>1. run[c].phase = "collect" /\ UNCHANGED <<nextID, pending, answers>> /\ DOMAIN run[c] = Fields
  BY DEF Collect, RunIn, rpcVars, AwaitInv
<1>2. PICK n, r : n = Head(notes) /\ r = run[c]
  OBVIOUS
<1>3. PICK x : x = Noted(r, n)
  OBVIOUS
<1>4. DOMAIN x = Fields /\ x.phase \in {"collect", "done"}
  <2>1. DOMAIN r = Fields /\ r.phase = "collect"
    BY <1>1, <1>2
  <2>2. PICK y : y = [r EXCEPT !.text = Append(@, n.turn)]
    OBVIOUS
  <2>3. DOMAIN y = Fields /\ y.phase = "collect"
    BY <2>1, <2>2 DEF Fields
  <2>. QED  BY <1>3, <2>1, <2>2, <2>3, PhaseOfRun DEF Noted
<1>5. run' = [run EXCEPT ![c] = x]
  BY <1>2, <1>3 DEF Collect
<1>6. nextID' \in Nat /\ nextID' >= nextID /\ ~Waits(c) /\ x.phase \notin Waiting
  BY <1>1, <1>4 DEF AwaitInv, Waits, Waiting
<1>. QED  BY <1>1, <1>4, <1>5, <1>6, NotWaiting

LEMMA ReadAwaits ==
    ASSUME AwaitInv, ReadLine
    PROVE  AwaitInv'
<1>1. UNCHANGED <<nextID, run>>
  BY DEF ReadLine
<1>2. PICK line : line = Head(lines)
  OBVIOUS
<1>3. CASE line.type = "reply" /\ line.id \in pending
  <2>1. /\ pending' = pending \ {line.id}
        /\ answers' = Put(line.id, line.value)
    BY <1>2, <1>3 DEF ReadLine
  <2>2. DOMAIN answers' = DOMAIN answers \cup {line.id}
    BY <2>1 DEF Put
  <2>. QED  BY <1>1, <1>3, <2>1, <2>2, PlacesMove DEF Places, AwaitInv
<1>4. CASE ~(line.type = "reply" /\ line.id \in pending)
  <2>1. pending' = pending /\ answers' = answers
    BY <1>2, <1>4 DEF ReadLine
  <2>. QED  BY <1>1, <2>1, PlacesMove DEF Places, AwaitInv
<1>. QED  BY <1>3, <1>4

LEMMA AwaitStep == AwaitInv /\ [Next]_vars => AwaitInv'
<1>. SUFFICES ASSUME AwaitInv, CodexMoves \/ UNCHANGED codexVars PROVE AwaitInv'
  BY StepMovesCodex
<1>1. ASSUME NEW c \in Callers, EngineRun(c) PROVE AwaitInv'
  <2>0. c \in Runners
    BY SessionAssumption
  <2>1. CASE OpenThread(c)
    <3>1. ~Waits(c) /\ "thread" \in Waiting
      BY <2>1 DEF OpenThread, RunIn, Waits, Waiting
    <3>. QED  BY <2>0, <2>1, <3>1, CallAwaits DEF OpenThread
  <2>2. CASE StartTurn(c)
    <3>1. ~Waits(c) /\ "turn" \in Waiting
      BY <2>2 DEF StartTurn, RunIn, Waits, Waiting
    <3>. QED  BY <2>0, <2>2, <3>1, CallAwaits DEF StartTurn
  <2>3. CASE GiveUp(c)
    BY <2>0, <2>3, EndAwaits DEF GiveUp, Waits
  <2>4. CASE CollectEnds(c)
    <3>1. ~Waits(c)
      BY <2>4 DEF CollectEnds, RunIn, Waits, Waiting
    <3>. QED  BY <2>0, <2>4, <3>1, EndAwaits DEF CollectEnds, rpcVars
  <2>. QED  BY <1>1, <2>0, <2>1, <2>2, <2>3, <2>4, ReturnAwaits, CollectAwaits DEF EngineRun
<1>2. ASSUME NEW c \in Callers, BeginRun(c) \/ TakeRun(c) PROVE AwaitInv'
  <2>0. c \in Runners /\ nextID \in Nat
    BY SessionAssumption DEF AwaitInv
  <2>1. ~Waits(c) /\ UNCHANGED <<nextID, pending, answers>>
    BY <1>2 DEF BeginRun, TakeRun, RunIn, Waits, Waiting, rpcVars
  <2>2. PICK x : x \in {NoRun, [NoRun EXCEPT !.phase = "start"]} /\ run' = [run EXCEPT ![c] = x]
    BY <1>2 DEF BeginRun, TakeRun
  <2>3. DOMAIN x = Fields /\ x.phase \in {"idle", "start"}
    BY <2>2 DEF NoRun, Fields
  <2>4. nextID' \in Nat /\ nextID' >= nextID /\ x.phase \notin Waiting
    BY <2>0, <2>1, <2>3 DEF Waiting
  <2>. QED  BY <2>0, <2>1, <2>2, <2>3, <2>4, NotWaiting
<1>3. CASE Server
  <2>1. UNCHANGED <<nextID, pending, answers, run>>
    BY <1>3 DEF Server, Serve, ServerExits, rpcVars
  <2>. QED  BY <2>1, PlacesMove DEF Places, AwaitInv
<1>4. CASE ReadLine
  BY <1>4, ReadAwaits
<1>5. CASE FailAll
  <2>1. UNCHANGED <<nextID, run>> /\ pending' = {} /\ DOMAIN answers' = DOMAIN answers \cup pending
    BY <1>5 DEF FailAll
  <2>. QED  BY <2>1, PlacesMove DEF Places
<1>6. CASE StopReading \/ UNCHANGED codexVars
  <2>1. UNCHANGED <<nextID, pending, answers, run>>
    BY <1>6 DEF StopReading, rpcVars, codexVars
  <2>. QED  BY <2>1, PlacesMove DEF Places, AwaitInv
<1>. QED  BY <1>1, <1>2, <1>3, <1>4, <1>5, <1>6 DEF CodexMoves, CodexMove, ReadLoop

LEMMA AwaitInit == Init => AwaitInv
<1>. SUFFICES ASSUME Init PROVE AwaitInv
  OBVIOUS
<1>1. /\ run = [c \in Runners |-> NoRun] /\ nextID = 0 /\ pending = {} /\ DOMAIN answers = {}
  BY DEF Init, CodexInit
<1>2. DOMAIN NoRun = Fields /\ NoRun.phase \notin Waiting
  BY DEF NoRun, Fields, Waiting
<1>3. Places = {} /\ \A c \in Runners : ~Waits(c)
  BY <1>1, <1>2 DEF Places, Waits
<1>. QED  BY <1>1, <1>2, <1>3 DEF AwaitInv

\* In every interleaving of calls, answers, timeouts and the server's end, a
\* call that waits has exactly one place, and no place is left behind
\* (Client.Call, removePending, readLoop and failAll).
THEOREM PlacesAreAwaited == Spec => []PendingIsAwaited
<1>1. AwaitInv => PendingIsAwaited
  BY DEF AwaitInv, PendingIsAwaited, Places, Waits
<1>. QED  BY <1>1, AwaitInit, AwaitStep, PTL DEF Spec

-----------------------------------------------------------------------------
(* The type of a session, with its bounds. *)

\* As long as a prompt may be asked, no session has asked all of them.
LEMMA RoomForPrompts ==
    ASSUME SessTyped, Prompts < MaxPrompts, NEW s \in Callers
    PROVE  sess[s].users < MaxPrompts
<1>. DEFINE asked == {p \in Callers \X (1..MaxPrompts) : p[2] <= sess[p[1]].users}
            f == [n \in 1..MaxPrompts |-> <<s, n>>]
<1>0. MaxPrompts \in Nat /\ sess[s].users \in Nat
  BY SessionAssumption DEF SessTyped, SessionRecords
<1>1. IsFiniteSet(asked)
  <2>1. IsFiniteSet(1..MaxPrompts)
    BY <1>0, FS_Interval
  <2>2. IsFiniteSet(Callers \X (1..MaxPrompts))
    BY <2>1, PoolAssumption, FS_Product
  <2>. QED  BY <2>2, FS_Subset
<1>2. Cardinality(1..MaxPrompts) = MaxPrompts
  <2>1. Cardinality(1..MaxPrompts) = IF 1 > MaxPrompts THEN 0 ELSE MaxPrompts - 1 + 1
    BY <1>0, FS_Interval
  <2>. QED  BY <1>0, <2>1
<1>3. ASSUME MaxPrompts <= sess[s].users PROVE FALSE
  <2>1. f \in Injection(1..MaxPrompts, asked)
    BY <1>0, <1>3 DEF Injection, IsInjective
  <2>2. Cardinality(1..MaxPrompts) <= Cardinality(asked)
    BY <1>1, <2>1, FS_Injection
  <2>3. Cardinality(asked) < MaxPrompts
    BY DEF Prompts
  <2>4. Cardinality(asked) \in Nat
    BY <1>1, FS_CardinalityType
  <2>. HIDE DEF asked
  <2>. QED  BY <1>0, <1>2, <2>2, <2>3, <2>4
<1>. QED  BY <1>0, <1>3

\* No session asks more than all the prompts, and what it has streamed rises,
\* within the bound.
BoundInv ==
    \A s \in Callers :
        /\ sess[s].users <= MaxPrompts
        /\ stream[s].count <= MaxTokens
        /\ Rising(Joined(stream[s].visible, stream[s].pending), stream[s].count)

LEMMA BoundInit == Init => BoundInv
<1>. SUFFICES ASSUME Init, NEW s \in Callers
              PROVE  /\ sess[s].users <= MaxPrompts /\ stream[s].count <= MaxTokens
                     /\ Rising(Joined(stream[s].visible, stream[s].pending), stream[s].count)
  BY DEF BoundInv
<1>1. sess[s].users = 0 /\ stream[s] = NoStream
  BY DEF Init, NewSession
<1>2. Len(Joined(<<>>, <<>>)) = 0
  BY DEF Joined
<1>3. Rising(Joined(<<>>, <<>>), 0)
  BY <1>2 DEF Rising
<1>. QED  BY <1>1, <1>3, SessionAssumption DEF NoStream

\* A session asks one more prompt, while there is room, or asks none.
LEMMA UsersMove ==
    ASSUME SessTyped, NEW s \in Callers, Orchestrate(s)
    PROVE  \/ sess'[s].users = sess[s].users
           \/ sess'[s].users = sess[s].users + 1 /\ Prompts < MaxPrompts
<1>. DEFINE Own == \/ sess'[s].users = sess[s].users
                   \/ sess'[s].users = sess[s].users + 1 /\ Prompts < MaxPrompts
<1>. SUFFICES Own
  OBVIOUS
<1>1. ASSUME NEW p \in SessionPhases, ToPhase(s, p) PROVE Own
  BY <1>1, PhaseEffect DEF Same
<1>2. ASSUME CommitWhole(s) PROVE Own
  BY <1>2, WholeEffect
<1>3. ASSUME NEW p \in SessionPhases, sess' = [sess EXCEPT ![s].phase = p, ![s].users = @ + 1],
             Prompts < MaxPrompts
      PROVE  Own
  BY <1>3, PromptEffect
<1>4. CASE RunWithFallback(s)
  <2>1. sess' = [sess EXCEPT ![s].phase = "pool", ![s].users = @ + 1] /\ Prompts < MaxPrompts
    BY <1>4 DEF RunWithFallback
  <2>2. "pool" \in SessionPhases
    BY DEF SessionPhases
  <2>. QED  BY <1>3, <2>1, <2>2
<1>5. CASE Run(s)
  <2>1. PICK p \in {"pool alone", "codex alone"} :
              sess' = [sess EXCEPT ![s].phase = p, ![s].users = @ + 1]
    BY <1>5 DEF Run
  <2>2. Prompts < MaxPrompts
    BY <1>5 DEF Run
  <2>. QED  BY <1>3, <2>1, <2>2 DEF SessionPhases
<1>6. CASE RunEnds(s) \/ PoolEnds(s) \/ FallbackEnds(s)
  <2>1. CommitWhole(s) \/ ToPhase(s, "idle")
    BY <1>6 DEF RunEnds, PoolEnds, FallbackEnds
  <2>. QED  BY <1>1, <1>2, <2>1 DEF SessionPhases
<1>7. CASE FallBack(s) \/ ContinueInFlight(s)
  <2>1. \E p \in SessionPhases : ToPhase(s, p)
    BY <1>7 DEF FallBack, ContinueInFlight, SessionPhases
  <2>. QED  BY <1>1, <2>1
<1>8. CASE BeginInterruptible(s)
  <2>1. PICK z \in SessionRecords : z = sess[s]
    BY DEF SessTyped
  <2>2. sess'[s] = [z EXCEPT !.phase = "stream", !.users = z.users + 1, !.answer = <<>>]
    BY <1>8, <2>1 DEF BeginInterruptible, SessTyped
  <2>3. sess'[s].users = z.users + 1
    BY <2>2 DEF SessionRecords
  <2>. QED  BY <1>8, <2>1, <2>3 DEF BeginInterruptible
<1>9. CASE NextKey(s) \/ StreamExhausted(s) \/ \E delta \in Deltas(s) : Delta(s, delta)
  <2>1. UNCHANGED sess
    BY <1>9 DEF NextKey, StreamExhausted, Delta
  <2>. QED  BY <2>1
<1>10. CASE StreamDone(s) \/ Stage(s) \/ (ContinuationEnds(s) /\ run[s].outcome = "ok")
  <2>1. ASSUME NEW text, Commit(s, text, NoFlight) PROVE Own
    <3>1. sess'[s].users = sess[s].users
      BY <2>1 DEF Commit, SessTyped, SessionRecords
    <3>. QED  BY <3>1
  <2>2. CASE StreamDone(s)
    <3>1. PICK text : Commit(s, text, NoFlight)
      BY <2>2 DEF StreamDone
    <3>. QED  BY <2>1, <3>1
  <2>3. CASE ContinuationEnds(s) /\ run[s].outcome = "ok"
    <3>1. PICK text : Commit(s, text, NoFlight)
      BY <2>3 DEF ContinuationEnds
    <3>. QED  BY <2>1, <3>1
  <2>4. CASE Stage(s)
    <3>1. PICK f : sess' = [sess EXCEPT ![s].phase = "idle", ![s].flight = f]
      BY <2>4 DEF Stage
    <3>2. sess'[s].users = sess[s].users
      BY <3>1 DEF SessTyped, SessionRecords
    <3>. QED  BY <3>2
  <2>. QED  BY <1>10, <2>2, <2>3, <2>4
<1>11. CASE StreamFails(s) \/ (ContinuationEnds(s) /\ run[s].outcome # "ok")
  BY <1>1, <1>11 DEF StreamFails, ContinuationEnds, SessionPhases
<1>12. CASE \E class \in StreamClasses : StreamEnds(s, class)
  BY <1>9, <1>10, <1>11, <1>12 DEF StreamEnds
<1>. QED  BY <1>4, <1>5, <1>6, <1>7, <1>8, <1>9, <1>10, <1>11, <1>12 DEF Orchestrate

\* The stream of a session begins anew, goes on within the bound, or stays.
LEMMA StreamsMove ==
    ASSUME SessTyped, BoundInv, NEW s \in Callers, Orchestrate(s)
    PROVE  /\ \A d \in Callers \ {s} : stream'[d] = stream[d]
           /\ \/ stream'[s] = stream[s]
              \/ stream'[s] = NoStream
              \/ sess'[s].phase = "stream" /\ stream'[s].count <= MaxTokens
<1>1. CASE NextKey(s)
  <2>1. sess'[s].phase = "stream" /\ stream'[s].count = stream[s].count
    BY <1>1, NextKeyEffect DEF NextKey, Doing
  <2>. QED  BY <1>1, <2>1, NextKeyEffect DEF BoundInv
<1>2. ASSUME NEW delta \in Deltas(s), Delta(s, delta)
      PROVE  /\ \A d \in Callers \ {s} : stream'[d] = stream[d]
             /\ sess'[s].phase = "stream" /\ stream'[s].count <= MaxTokens
  <2>1. /\ stream'[s].count = stream[s].count + Len(delta)
        /\ \A d \in Callers \ {s} : stream'[d] = stream[d]
    BY <1>2, DeltasType, DeltaEffect
  <2>2. sess'[s].phase = "stream" /\ stream[s].count + Len(delta) <= MaxTokens
    BY <1>2 DEF Delta, Doing
  <2>. QED  BY <2>1, <2>2
<1>3. CASE BeginInterruptible(s)
  BY <1>3 DEF BeginInterruptible, SessTyped
<1>4. CASE UNCHANGED stream
  BY <1>4
<1>5. ASSUME NEW class, StreamEnds(s, class) PROVE UNCHANGED stream
  BY <1>5 DEF StreamEnds, StreamDone, StreamExhausted, StreamFails
<1>6. Run(s) \/ RunEnds(s) \/ RunWithFallback(s) \/ PoolEnds(s) => UNCHANGED stream
  BY DEF Run, RunEnds, RunWithFallback, PoolEnds
<1>7. FallBack(s) \/ FallbackEnds(s) \/ Stage(s) \/ ContinueInFlight(s) \/ ContinuationEnds(s)
        => UNCHANGED stream
  BY DEF FallBack, FallbackEnds, Stage, ContinueInFlight, ContinuationEnds
<1>. QED  BY <1>1, <1>2, <1>3, <1>4, <1>5, <1>6, <1>7 DEF Orchestrate

LEMMA BoundStep == SessTyped /\ KeptInv /\ BoundInv /\ [Next]_vars => BoundInv'
<1>. SUFFICES ASSUME SessTyped, KeptInv, BoundInv, [Next]_vars PROVE BoundInv'
  OBVIOUS
<1>1. SessTyped' /\ KeptInv'
  BY KeptStep
<1>2. ASSUME NEW s \in Callers, Orchestrate(s), NEW d \in Callers
      PROVE  /\ sess'[d].users <= MaxPrompts /\ stream'[d].count <= MaxTokens
             /\ Rising(Joined(stream'[d].visible, stream'[d].pending), stream'[d].count)
  <2>0. /\ sess[d].users <= MaxPrompts /\ stream[d].count <= MaxTokens
        /\ Rising(Joined(stream[d].visible, stream[d].pending), stream[d].count)
    BY DEF BoundInv
  <2>1. CASE d # s
    <3>1. sess'[d] = sess[d] /\ stream'[d] = stream[d]
      BY <1>2, <2>1, OwnSession, StreamsMove
    <3>. QED  BY <2>0, <3>1
  <2>2. CASE d = s
    <3>1. sess'[s].users <= MaxPrompts
      <4>1. sess[s].users \in Nat /\ MaxPrompts \in Nat
        BY SessionAssumption DEF SessTyped, SessionRecords
      <4>2. Prompts < MaxPrompts => sess[s].users < MaxPrompts
        BY RoomForPrompts
      <4>. QED  BY <1>2, <2>0, <2>2, <4>1, <4>2, UsersMove
    <3>2. CASE stream'[s] = stream[s]
      BY <2>0, <2>2, <3>1, <3>2
    <3>3. CASE stream'[s] = NoStream
      <4>1. Len(Joined(<<>>, <<>>)) = 0
        BY DEF Joined
      <4>2. Rising(Joined(<<>>, <<>>), 0)
        BY <4>1 DEF Rising
      <4>. QED  BY <2>2, <3>1, <3>3, <4>2, SessionAssumption DEF NoStream
    <3>4. CASE sess'[s].phase = "stream" /\ stream'[s].count <= MaxTokens
      <4>1. Kept(sess'[s], stream'[s], shown'[s], dropped'[s], told'[s])
        BY <1>1 DEF KeptInv
      <4>2. Rising(Joined(stream'[s].visible, stream'[s].pending), stream'[s].count)
        BY <3>4, <4>1 DEF Kept, Holds
      <4>. QED  BY <2>2, <3>1, <3>4, <4>2
    <3>. QED  BY <1>2, <3>2, <3>3, <3>4, StreamsMove
  <2>. QED  BY <2>1, <2>2
<1>3. CASE UNCHANGED sessionVars
  BY <1>3 DEF BoundInv, sessionVars
<1>4. (\E s \in Callers : Orchestrate(s)) \/ UNCHANGED sessionVars
  BY DEF Next, vars
<1>. QED  BY <1>2, <1>3, <1>4 DEF BoundInv

-----------------------------------------------------------------------------
(* What is on its way between the Codex client and its server. *)

Calls == [id : Nat, method : Methods]
Lines == [type : {"reply"}, id : Nat, value : Nat] \cup [type : {"delta", "completed"}, turn : Nat]
RunPhases == {"idle", "start", "thread", "opened", "turn", "collect", "done"}

\* Requests and replies have ids that were given out.
WireTyped ==
    /\ inbox \in Seq(Calls) /\ \A q \in ToSet(inbox) : q.id \in 1..nextID
    /\ lines \in Seq(Lines) /\ \A l \in ToSet(lines) : l.type = "reply" => l.id \in 1..nextID
    /\ notes \in Seq(Lines) /\ Len(notes) <= NoteCap
    /\ turns \in Nat /\ thread \in 0..1 /\ timeouts \in 0..MaxTimeouts
    /\ closed \in BOOLEAN /\ reading \in BOOLEAN /\ eof \in BOOLEAN

\* No turn is asked for with this id, and no turn answers it.
ForThread(i) ==
    /\ \A q \in ToSet(inbox) : q.id = i => q.method # "turn/start"
    /\ \A l \in ToSet(lines) : l.type = "reply" /\ l.id = i => l.value = 1
    /\ i \in DOMAIN answers => answers[i] \in {0, 1}

RunnerOK(c) == run[c].phase \in RunPhases /\ (run[c].phase = "thread" => ForThread(run[c].id))

WireInv == WireTyped /\ \A c \in Runners : RunnerOK(c)

\* A step keeps the types and what ids of threads are for; a runner's step
\* changes that runner alone.
WireKept == WireTyped' /\ \A i \in 1..nextID : ForThread(i) => ForThread(i)'
RunnerKept(c) == (\A d \in Runners \ {c} : run'[d] = run[d]) /\ RunnerOK(c)'

LEMMA TakeFirst ==
    ASSUME NEW S, NEW s \in Seq(S), s # <<>>
    PROVE  /\ Tail(s) \in Seq(S) /\ ToSet(Tail(s)) \subseteq ToSet(s) /\ Len(Tail(s)) < Len(s)
           /\ Head(s) \in S /\ Head(s) \in ToSet(s)
<1>1. /\ Tail(s) \in Seq(S) /\ Len(Tail(s)) = Len(s) - 1 /\ Len(s) \in Nat \ {0} /\ Head(s) = s[1]
      /\ \A i \in 1..(Len(s) - 1) : Tail(s)[i] = s[i + 1]
  OBVIOUS
<1>2. DOMAIN s = 1..Len(s) /\ DOMAIN Tail(s) = 1..(Len(s) - 1)
  BY <1>1
<1>. QED  BY <1>1, <1>2 DEF ToSet

LEMMA AddLast ==
    ASSUME NEW S, NEW s \in Seq(S), NEW x \in S
    PROVE  /\ Append(s, x) \in Seq(S) /\ Len(Append(s, x)) = Len(s) + 1
           /\ ToSet(Append(s, x)) = ToSet(s) \cup {x}
<1>1. /\ Append(s, x) \in Seq(S) /\ Len(Append(s, x)) = Len(s) + 1 /\ Len(s) \in Nat
      /\ \A i \in 1..Len(s) : Append(s, x)[i] = s[i]
      /\ Append(s, x)[Len(s) + 1] = x
  OBVIOUS
<1>2. DOMAIN s = 1..Len(s) /\ DOMAIN Append(s, x) = 1..(Len(s) + 1)
  BY <1>1
<1>. QED  BY <1>1, <1>2 DEF ToSet

LEMMA AddThree ==
    ASSUME NEW S, NEW s \in Seq(S), NEW x \in S, NEW y \in S, NEW z \in S
    PROVE  /\ s \o <<x, y, z>> \in Seq(S)
           /\ ToSet(s \o <<x, y, z>>) = ToSet(s) \cup {x, y, z}
<1>1. s \o <<x, y, z>> = Append(Append(Append(s, x), y), z)
  OBVIOUS
<1>2. Append(s, x) \in Seq(S) /\ ToSet(Append(s, x)) = ToSet(s) \cup {x}
  BY AddLast
<1>3. PICK t \in Seq(S) : t = Append(s, x)
  BY <1>2
<1>4. Append(t, y) \in Seq(S) /\ ToSet(Append(t, y)) = ToSet(t) \cup {y}
  BY AddLast
<1>5. PICK u \in Seq(S) : u = Append(t, y)
  BY <1>4
<1>6. Append(u, z) \in Seq(S) /\ ToSet(Append(u, z)) = ToSet(u) \cup {z}
  BY AddLast
<1>. QED  BY <1>1, <1>2, <1>3, <1>4, <1>5, <1>6

\* The ids that somebody waits for, or has an answer for, were given out.
LEMMA PlacesGiven == AwaitInv => nextID \in Nat /\ pending \subseteq 1..nextID /\ DOMAIN answers \subseteq 1..nextID
BY DEF AwaitInv, Places

LEMMA CallKept ==
    ASSUME AwaitInv, WireTyped, NEW c \in Runners, NEW method \in Methods, NEW phase \in Waiting,
           phase = "thread" => method # "turn/start", Call(c, method, phase)
    PROVE  WireKept /\ RunnerKept(c)
<1>1. /\ nextID \in Nat /\ nextID' = nextID + 1 /\ DOMAIN answers \subseteq 1..nextID
      /\ UNCHANGED <<answers, lines, notes, closed, reading, eof, thread, turns, timeouts>>
  BY PlacesGiven DEF Call
<1>2. /\ run = [d \in Runners |-> run[d]] /\ DOMAIN run[c] = Fields
  BY DEF AwaitInv
<1>3. PICK q : q = [id |-> nextID + 1, method |-> method]
  OBVIOUS
<1>4. q \in Calls /\ q.id = nextID + 1 /\ q.method = method
  BY <1>1, <1>3 DEF Calls
<1>5. inbox' \in Seq(Calls) /\ ToSet(inbox') \subseteq ToSet(inbox) \cup {q}
  <2>1. inbox' = inbox \/ inbox' = Append(inbox, q)
    BY <1>3 DEF Call
  <2>2. Append(inbox, q) \in Seq(Calls) /\ ToSet(Append(inbox, q)) = ToSet(inbox) \cup {q}
    BY <1>4, AddLast DEF WireTyped
  <2>. QED  BY <2>1, <2>2 DEF WireTyped
<1>6. WireTyped'
  <2>1. \A p \in ToSet(inbox') : p.id \in 1..nextID'
    BY <1>1, <1>4, <1>5 DEF WireTyped
  <2>2. \A l \in ToSet(lines') : l.type = "reply" => l.id \in 1..nextID'
    BY <1>1 DEF WireTyped
  <2>. QED  BY <1>1, <1>5, <2>1, <2>2 DEF WireTyped
<1>7. \A i \in 1..nextID : ForThread(i) => ForThread(i)'
  BY <1>1, <1>4, <1>5 DEF ForThread
<1>8. RunnerKept(c)
  <2>1. CASE EndRun(c, "error")
    <3>1. PICK x : x = [run[c] EXCEPT !.phase = "done", !.outcome = "error"]
      OBVIOUS
    <3>2. x.phase = "done"
      BY <1>2, <3>1, PhaseOfRun
    <3>2a. run' = [run EXCEPT ![c] = x]
      BY <2>1, <3>1 DEF EndRun
    <3>3. run'[c].phase = "done" /\ \A d \in Runners \ {c} : run'[d] = run[d]
      BY <1>2, <3>2, <3>2a
    <3>. QED  BY <3>3 DEF RunnerKept, RunnerOK, RunPhases
  <2>2. CASE run' = [run EXCEPT ![c].phase = phase, ![c].id = nextID + 1]
    <3>1. PICK x : x = [run[c] EXCEPT !.phase = phase, !.id = nextID + 1]
      OBVIOUS
    <3>2. x.phase = phase /\ x.id = nextID + 1
      BY <1>2, <3>1, PhaseOfRun
    <3>3. run' = [run EXCEPT ![c] = x]
      BY <2>2, <3>1
    <3>4. run'[c].phase = phase /\ run'[c].id = nextID + 1 /\ \A d \in Runners \ {c} : run'[d] = run[d]
      BY <1>2, <3>2, <3>3
    <3>5. PICK i : i = nextID + 1
      OBVIOUS
    <3>6. phase = "thread" => ForThread(i)'
      <4>1. \A p \in ToSet(inbox) : p.id # i
        BY <1>1, <3>5 DEF WireTyped
      <4>2. \A l \in ToSet(lines) : l.type = "reply" => l.id # i
        BY <1>1, <3>5 DEF WireTyped
      <4>3. i \notin DOMAIN answers
        BY <1>1, <3>5
      <4>. QED  BY <1>1, <1>4, <1>5, <4>1, <4>2, <4>3 DEF ForThread
    <3>7. run'[c].phase = "thread" => ForThread(run[c].id)'
      BY <3>4, <3>5, <3>6 DEF ForThread
    <3>. QED  BY <3>4, <3>7 DEF RunnerKept, RunnerOK, RunPhases, Waiting
  <2>. QED  BY <2>1, <2>2 DEF Call
<1>. QED  BY <1>6, <1>7, <1>8 DEF WireKept

LEMMA RunnerMoves ==
    ASSUME AwaitInv, NEW c \in Runners, NEW x, x.phase \in RunPhases \ {"thread"},
           run' = [run EXCEPT ![c] = x]
    PROVE  RunnerKept(c)
<1>1. run'[c] = x /\ \A d \in Runners \ {c} : run'[d] = run[d]
  BY DEF AwaitInv
<1>. QED  BY <1>1 DEF RunnerKept, RunnerOK

LEMMA RunnerEnds ==
    ASSUME AwaitInv, NEW c \in Runners, EndRun(c, "error")
    PROVE  RunnerKept(c)
<1>1. PICK x : x = [run[c] EXCEPT !.phase = "done", !.outcome = "error"]
  OBVIOUS
<1>2. x.phase = "done"
  BY <1>1, PhaseOfRun DEF AwaitInv
<1>3. run' = [run EXCEPT ![c] = x]
  BY <1>1 DEF EndRun
<1>. QED  BY <1>2, <1>3, RunnerMoves DEF RunPhases

\* Nothing new comes on its way.
LEMMA NothingSent ==
    ASSUME WireTyped, UNCHANGED <<nextID, inbox, lines, closed, reading, eof, turns>>,
           notes' \in Seq(Lines), Len(notes') <= NoteCap, thread' \in 0..1, timeouts' \in 0..MaxTimeouts,
           \A i \in DOMAIN answers' : i \in DOMAIN answers /\ answers'[i] = answers[i]
    PROVE  WireKept
BY DEF WireKept, WireTyped, ForThread

LEMMA TimePasses ==
    ASSUME WireTyped, \/ UNCHANGED timeouts
                      \/ timeouts < MaxTimeouts /\ timeouts' = timeouts + 1
    PROVE  timeouts' \in 0..MaxTimeouts
BY CodexAssumption DEF WireTyped

LEMMA ReturnKept ==
    ASSUME AwaitInv, WireInv, NEW c \in Runners, Return(c)
    PROVE  WireKept /\ RunnerKept(c)
<1>1. /\ run[c].phase \in Waiting /\ run[c].id \in DOMAIN answers /\ answers' = Drop(run[c].id)
      /\ UNCHANGED <<nextID, pending, inbox, lines, notes, closed, reading, eof, turns, timeouts>>
      /\ DOMAIN run[c] = Fields
  BY DEF Return, AwaitInv
<1>2. PICK v : v = answers[run[c].id]
  OBVIOUS
<1>3. thread' \in 0..1
  <2>1. CASE UNCHANGED thread
    BY <2>1 DEF WireInv, WireTyped
  <2>2. CASE run[c].phase = "thread" /\ v # 0 /\ thread' = v
    <3>1. ForThread(run[c].id)
      BY <2>2 DEF WireInv, RunnerOK
    <3>2. v \in {0, 1}
      BY <1>1, <1>2, <3>1 DEF ForThread
    <3>. QED  BY <2>2, <3>2
  <2>. QED  BY <1>2, <2>1, <2>2 DEF Return, RunIn
<1>4. \A i \in DOMAIN answers' : i \in DOMAIN answers /\ answers'[i] = answers[i]
  BY <1>1 DEF Drop
<1>5. WireKept
  BY <1>1, <1>3, <1>4, NothingSent DEF WireInv, WireTyped
<1>6. RunnerKept(c)
  <2>1. CASE EndRun(c, "error")
    BY <2>1, RunnerEnds
  <2>2. CASE run' = [run EXCEPT ![c].phase = "opened"]
    <3>1. PICK x : x = [run[c] EXCEPT !.phase = "opened"]
      OBVIOUS
    <3>2. x.phase = "opened" /\ run' = [run EXCEPT ![c] = x]
      BY <1>1, <2>2, <3>1, PhaseOfRun
    <3>. QED  BY <3>2, RunnerMoves DEF RunPhases
  <2>3. CASE run' = [run EXCEPT ![c].phase = "collect", ![c].turn = v]
    <3>1. PICK x : x = [run[c] EXCEPT !.phase = "collect", !.turn = v]
      OBVIOUS
    <3>2. x.phase = "collect"
      BY <1>1, <3>1, PhaseOfRun
    <3>3. run' = [run EXCEPT ![c] = x]
      BY <2>3, <3>1
    <3>. QED  BY <3>2, <3>3, RunnerMoves DEF RunPhases
  <2>. QED  BY <1>2, <2>1, <2>2, <2>3 DEF Return
<1>. QED  BY <1>5, <1>6

LEMMA CollectKept ==
    ASSUME AwaitInv, WireTyped, NEW c \in Runners, Collect(c)
    PROVE  WireKept /\ RunnerKept(c)
<1>1. /\ run[c].phase = "collect" /\ notes # <<>> /\ notes' = Tail(notes) /\ DOMAIN run[c] = Fields
      /\ UNCHANGED <<nextID, answers, inbox, lines, closed, reading, eof, thread, turns, timeouts>>
  BY DEF Collect, RunIn, rpcVars, AwaitInv
<1>2. notes' \in Seq(Lines) /\ Len(notes') <= NoteCap
  <2>1. /\ Tail(notes) \in Seq(Lines) /\ Len(Tail(notes)) < Len(notes)
        /\ Len(notes) <= NoteCap /\ notes \in Seq(Lines)
    BY <1>1, TakeFirst DEF WireTyped
  <2>2. Len(notes) \in Nat /\ Len(Tail(notes)) \in Nat /\ NoteCap \in Nat
    BY <2>1, CodexAssumption
  <2>. QED  BY <1>1, <2>1, <2>2
<1>3. WireKept
  BY <1>1, <1>2, NothingSent DEF WireTyped
<1>4. PICK n, r : n = Head(notes) /\ r = run[c]
  OBVIOUS
<1>5. PICK x : x = Noted(r, n)
  OBVIOUS
<1>6. x.phase \in {"collect", "done"}
  <2>1. DOMAIN r = Fields /\ r.phase = "collect"
    BY <1>1, <1>4
  <2>2. PICK y : y = [r EXCEPT !.text = Append(@, n.turn)]
    OBVIOUS
  <2>3. y.phase = "collect"
    BY <2>1, <2>2 DEF Fields
  <2>. QED  BY <1>5, <2>1, <2>2, <2>3, PhaseOfRun DEF Noted
<1>7. run' = [run EXCEPT ![c] = x]
  BY <1>4, <1>5 DEF Collect
<1>. QED  BY <1>3, <1>6, <1>7, RunnerMoves DEF RunPhases

\* Whatever a runner does.
LEMMA RunnerKeeps ==
    ASSUME AwaitInv, WireInv, NEW c \in Runners, CodexMove(c)
    PROVE  WireKept /\ RunnerKept(c)
<1>0. WireTyped
  BY DEF WireInv
<1>1. CASE OpenThread(c)
  <2>1. PICK method \in {"thread/start", "thread/resume"} : Call(c, method, "thread")
    BY <1>1 DEF OpenThread
  <2>. QED  BY <1>0, <2>1, CallKept DEF Waiting, Methods
<1>2. CASE StartTurn(c)
  BY <1>0, <1>2, CallKept DEF StartTurn, Waiting, Methods
<1>3. CASE GiveUp(c)
  <2>1. /\ EndRun(c, "error") /\ answers' = Drop(run[c].id) /\ timeouts' \in 0..MaxTimeouts
        /\ UNCHANGED <<nextID, inbox, lines, notes, closed, reading, eof, thread, turns>>
    BY <1>0, <1>3, TimePasses DEF GiveUp
  <2>2. \A i \in DOMAIN answers' : i \in DOMAIN answers /\ answers'[i] = answers[i]
    BY <2>1 DEF Drop
  <2>. QED  BY <1>0, <2>1, <2>2, NothingSent, RunnerEnds DEF WireTyped
<1>4. CASE CollectEnds(c)
  <2>1. /\ EndRun(c, "error") /\ timeouts' \in 0..MaxTimeouts
        /\ UNCHANGED <<nextID, answers, inbox, lines, notes, closed, reading, eof, thread, turns>>
    BY <1>0, <1>4, TimePasses DEF CollectEnds, rpcVars
  <2>. QED  BY <1>0, <2>1, NothingSent, RunnerEnds DEF WireTyped
<1>5. CASE BeginRun(c) \/ TakeRun(c)
  <2>1. UNCHANGED <<nextID, answers, inbox, lines, notes, closed, reading, eof, thread, turns, timeouts>>
    BY <1>5 DEF BeginRun, TakeRun, rpcVars
  <2>2. PICK x : x \in {NoRun, [NoRun EXCEPT !.phase = "start"]} /\ run' = [run EXCEPT ![c] = x]
    BY <1>5 DEF BeginRun, TakeRun
  <2>3. x.phase \in {"idle", "start"}
    BY <2>2 DEF NoRun
  <2>. QED  BY <1>0, <2>1, <2>2, <2>3, NothingSent, RunnerMoves DEF WireTyped, RunPhases
<1>. QED  BY <1>0, <1>1, <1>2, <1>3, <1>4, <1>5, ReturnKept, CollectKept DEF CodexMove, EngineRun

LEMMA ServeKept ==
    ASSUME AwaitInv, WireTyped, Serve
    PROVE  WireKept
<1>1. PICK q : q = Head(inbox)
  OBVIOUS
<1>2. inbox # <<>> /\ inbox' = Tail(inbox)
      /\ UNCHANGED <<nextID, answers, notes, closed, reading, eof, thread, timeouts>>
  BY DEF Serve, rpcVars
<1>3. /\ q \in Calls /\ q \in ToSet(inbox) /\ q.id \in 1..nextID /\ q.method \in Methods
      /\ Tail(inbox) \in Seq(Calls) /\ ToSet(Tail(inbox)) \subseteq ToSet(inbox)
  <2>1. /\ Tail(inbox) \in Seq(Calls) /\ ToSet(Tail(inbox)) \subseteq ToSet(inbox)
        /\ Head(inbox) \in Calls /\ Head(inbox) \in ToSet(inbox)
    BY <1>2, TakeFirst DEF WireTyped
  <2>2. q.id \in 1..nextID
    BY <1>1, <2>1 DEF WireTyped
  <2>. QED  BY <1>1, <2>1, <2>2 DEF Calls
<1>4. CASE q.method = "turn/start"
  <2>1. PICK t : t = turns + 1
    OBVIOUS
  <2>2. PICK x, y, z : /\ x = [type |-> "reply", id |-> q.id, value |-> t]
                       /\ y = [type |-> "delta", turn |-> t] /\ z = [type |-> "completed", turn |-> t]
    OBVIOUS
  <2>3. turns' = t /\ lines' = lines \o <<x, y, z>>
    BY <1>1, <1>4, <2>1, <2>2 DEF Serve
  <2>4. t \in Nat /\ nextID \in Nat /\ q.id \in Nat
    BY <1>3, <2>1, PlacesGiven DEF WireTyped, Calls
  <2>5. x \in Lines /\ y \in Lines /\ z \in Lines
    BY <2>2, <2>4 DEF Lines
  <2>6. x.type = "reply" /\ x.id = q.id /\ y.type = "delta" /\ z.type = "completed"
    BY <2>2
  <2>7. lines' \in Seq(Lines) /\ ToSet(lines') = ToSet(lines) \cup {x, y, z}
    BY <2>3, <2>5, AddThree DEF WireTyped
  <2>8. WireTyped'
    <3>1. \A l \in ToSet(lines') : l.type = "reply" => l.id \in 1..nextID
      BY <1>3, <2>6, <2>7 DEF WireTyped
    <3>2. \A p \in ToSet(inbox') : p.id \in 1..nextID
      BY <1>2, <1>3 DEF WireTyped
    <3>. QED  BY <1>2, <1>3, <2>3, <2>4, <2>7, <3>1, <3>2 DEF WireTyped
  <2>9. ASSUME NEW i \in 1..nextID, ForThread(i) PROVE ForThread(i)'
    <3>1. i # q.id
      BY <1>3, <1>4, <2>9 DEF ForThread
    <3>. QED  BY <1>2, <1>3, <2>6, <2>7, <2>9, <3>1 DEF ForThread
  <2>. QED  BY <2>8, <2>9 DEF WireKept
<1>5. CASE q.method # "turn/start"
  <2>1. PICK x : x = [type |-> "reply", id |-> q.id, value |-> 1]
    OBVIOUS
  <2>2. lines' = Append(lines, x) /\ UNCHANGED turns
    BY <1>1, <1>5, <2>1 DEF Serve
  <2>3. x \in Lines
    <3>1. q.id \in Nat
      BY <1>3 DEF Calls
    <3>. QED  BY <2>1, <3>1 DEF Lines
  <2>4. x.type = "reply" /\ x.id = q.id /\ x.value = 1
    BY <2>1
  <2>5. lines' \in Seq(Lines) /\ ToSet(lines') = ToSet(lines) \cup {x}
    BY <2>2, <2>3, AddLast DEF WireTyped
  <2>6. WireTyped'
    <3>1. \A l \in ToSet(lines') : l.type = "reply" => l.id \in 1..nextID
      BY <1>3, <2>4, <2>5 DEF WireTyped
    <3>2. \A p \in ToSet(inbox') : p.id \in 1..nextID
      BY <1>2, <1>3 DEF WireTyped
    <3>. QED  BY <1>2, <1>3, <2>2, <2>5, <3>1, <3>2 DEF WireTyped
  <2>7. ASSUME NEW i \in 1..nextID, ForThread(i) PROVE ForThread(i)'
    BY <1>2, <1>3, <2>4, <2>5, <2>7 DEF ForThread
  <2>. QED  BY <2>6, <2>7 DEF WireKept
<1>. QED  BY <1>4, <1>5

LEMMA ExitKept ==
    ASSUME AwaitInv, WireTyped, ServerExits
    PROVE  WireKept
<1>1. /\ inbox' = <<>> /\ eof' = TRUE /\ closed' \in BOOLEAN
      /\ UNCHANGED <<nextID, answers, lines, notes, reading, thread, turns, timeouts>>
  BY DEF ServerExits, WireTyped, rpcVars
<1>2. inbox' \in Seq(Calls) /\ ToSet(inbox') = {}
  BY <1>1 DEF ToSet
<1>. QED  BY <1>1, <1>2 DEF WireKept, WireTyped, ForThread

LEMMA ReadKept ==
    ASSUME AwaitInv, WireTyped, ReadLine
    PROVE  WireKept
<1>1. PICK line : line = Head(lines)
  OBVIOUS
<1>2. lines # <<>> /\ lines' = Tail(lines)
      /\ UNCHANGED <<nextID, inbox, closed, reading, eof, thread, turns, timeouts>>
  BY DEF ReadLine
<1>3. /\ line \in Lines /\ line \in ToSet(lines)
      /\ Tail(lines) \in Seq(Lines) /\ ToSet(Tail(lines)) \subseteq ToSet(lines)
  BY <1>1, <1>2, TakeFirst DEF WireTyped
<1>4. notes' \in Seq(Lines) /\ Len(notes') <= NoteCap
  <2>1. notes' = notes \/ (Len(notes) < NoteCap /\ notes' = Append(notes, line))
    BY <1>1 DEF ReadLine
  <2>2. /\ Append(notes, line) \in Seq(Lines) /\ Len(Append(notes, line)) = Len(notes) + 1
        /\ notes \in Seq(Lines) /\ Len(notes) <= NoteCap
    BY <1>3, AddLast DEF WireTyped
  <2>3. Len(notes) \in Nat /\ NoteCap \in Nat
    BY <2>2, CodexAssumption
  <2>. QED  BY <2>1, <2>2, <2>3
<1>5. WireTyped'
  <2>1. \A l \in ToSet(lines') : l.type = "reply" => l.id \in 1..nextID
    BY <1>2, <1>3 DEF WireTyped
  <2>. QED  BY <1>2, <1>3, <1>4, <2>1 DEF WireTyped
<1>6. ASSUME NEW i \in 1..nextID, ForThread(i) PROVE ForThread(i)'
  <2>1. i \in DOMAIN answers' => answers'[i] \in {0, 1}
    <3>1. CASE answers' = answers
      BY <1>6, <3>1 DEF ForThread
    <3>2. CASE line.type = "reply" /\ answers' = Put(line.id, line.value)
      <4>1. line.id = i => line.value = 1
        BY <1>3, <1>6, <3>2 DEF ForThread
      <4>. QED  BY <1>6, <3>2, <4>1 DEF ForThread, Put
    <3>. QED  BY <1>1, <3>1, <3>2 DEF ReadLine
  <2>. QED  BY <1>2, <1>3, <1>6, <2>1 DEF ForThread
<1>. QED  BY <1>5, <1>6 DEF WireKept

LEMMA FailKept ==
    ASSUME AwaitInv, WireTyped, FailAll
    PROVE  WireKept
<1>1. /\ closed' = TRUE /\ reading' = FALSE
      /\ answers' = [id \in DOMAIN answers \cup pending |-> IF id \in pending THEN 0 ELSE answers[id]]
      /\ UNCHANGED <<nextID, inbox, lines, notes, eof, thread, turns, timeouts>>
  BY DEF FailAll
<1>2. WireTyped'
  BY <1>1 DEF WireTyped
<1>3. ASSUME NEW i \in 1..nextID, ForThread(i) PROVE ForThread(i)'
  BY <1>1, <1>3 DEF ForThread
<1>. QED  BY <1>2, <1>3 DEF WireKept

LEMMA WireStep == AwaitInv /\ WireInv /\ [Next]_vars => WireInv'
<1>. SUFFICES ASSUME AwaitInv, WireInv, CodexMoves \/ UNCHANGED codexVars PROVE WireInv'
  BY StepMovesCodex
<1>0. WireTyped /\ \A c \in Runners : RunnerOK(c)
  BY DEF WireInv
<1>1. \A c \in Runners : Waits(c) => run[c].id \in 1..nextID
  BY DEF AwaitInv
<1>2. ASSUME WireKept, NEW c \in Runners, run'[c] = run[c] PROVE RunnerOK(c)'
  <2>1. PICK r : r = run[c]
    OBVIOUS
  <2>2. r.phase \in RunPhases /\ (r.phase = "thread" => ForThread(r.id) /\ r.id \in 1..nextID)
    BY <1>0, <1>1, <2>1 DEF RunnerOK, Waits, Waiting
  <2>3. r.phase = "thread" => ForThread(r.id)'
    BY <1>2, <2>2 DEF WireKept
  <2>4. r.phase = "thread" => ForThread(run[c].id)'
    BY <1>2, <2>1, <2>3 DEF ForThread
  <2>. QED  BY <1>2, <2>1, <2>2, <2>4 DEF RunnerOK
<1>3. CASE \E c \in Callers : CodexMove(c)
  <2>1. PICK c \in Runners : CodexMove(c)
    BY <1>3, SessionAssumption
  <2>2. WireKept /\ RunnerKept(c)
    BY <2>1, RunnerKeeps
  <2>3. \A d \in Runners : RunnerOK(d)'
    BY <1>2, <2>2 DEF RunnerKept
  <2>. QED  BY <2>2, <2>3 DEF WireInv, WireKept
<1>4. CASE WireKept /\ UNCHANGED run
  BY <1>2, <1>4 DEF WireInv, WireKept
<1>5. CASE Serve
  BY <1>0, <1>4, <1>5, ServeKept DEF Serve
<1>6. CASE ServerExits
  BY <1>0, <1>4, <1>6, ExitKept DEF ServerExits
<1>7. CASE ReadLine
  BY <1>0, <1>4, <1>7, ReadKept DEF ReadLine
<1>8. CASE FailAll
  BY <1>0, <1>4, <1>8, FailKept DEF FailAll
<1>9. CASE StopReading \/ UNCHANGED codexVars
  <2>1. /\ UNCHANGED <<nextID, answers, inbox, lines, notes, closed, eof, thread, turns, timeouts, run>>
        /\ reading' \in BOOLEAN
    BY <1>0, <1>9 DEF StopReading, rpcVars, codexVars, WireTyped
  <2>2. WireKept
    BY <1>0, <2>1 DEF WireKept, WireTyped, ForThread
  <2>. QED  BY <1>4, <2>1, <2>2
<1>. QED  BY <1>3, <1>5, <1>6, <1>7, <1>8, <1>9 DEF CodexMoves, Server, ReadLoop

LEMMA WireInit == Init => WireInv
<1>. SUFFICES ASSUME Init PROVE WireInv
  OBVIOUS
<1>1. /\ inbox = <<>> /\ lines = <<>> /\ notes = <<>> /\ ToSet(<<>>) = {}
      /\ closed = FALSE /\ reading = TRUE /\ eof = FALSE /\ thread = 0 /\ turns = 0 /\ timeouts = 0
  BY DEF Init, CodexInit, ToSet
<1>3. WireTyped
  <2>1. 0 <= NoteCap /\ 0 \in Nat /\ 0 \in 0..1 /\ 0 \in 0..MaxTimeouts
    BY CodexAssumption
  <2>2. inbox \in Seq(Calls) /\ lines \in Seq(Lines) /\ notes \in Seq(Lines)
    BY <1>1
  <2>3. Len(notes) <= NoteCap /\ ToSet(inbox) = {} /\ ToSet(lines) = {}
    BY <1>1, <2>1
  <2>. QED  BY <1>1, <2>1, <2>2, <2>3 DEF WireTyped
<1>4. \A c \in Runners : RunnerOK(c)
  <2>1. \A c \in Runners : run[c].phase = "idle"
    BY DEF Init, CodexInit, NoRun
  <2>. QED  BY <2>1 DEF RunnerOK, RunPhases
<1>. QED  BY <1>3, <1>4 DEF WireInv

LEMMA CodexTyped == AwaitInv /\ WireInv => CodexTypeOK
<1>. SUFFICES ASSUME AwaitInv, WireInv PROVE CodexTypeOK
  OBVIOUS
<1>1. nextID \in Nat /\ pending \subseteq 1..nextID /\ DOMAIN answers \subseteq 1..nextID
  BY PlacesGiven
<1>2. \A i \in DOMAIN inbox : inbox[i] \in [id : 1..nextID, method : Methods]
  <2>. SUFFICES ASSUME NEW i \in DOMAIN inbox PROVE inbox[i] \in [id : 1..nextID, method : Methods]
    OBVIOUS
  <2>1. PICK q : q = inbox[i]
    OBVIOUS
  <2>2. q \in Calls
    BY <2>1 DEF WireInv, WireTyped
  <2>3. q \in ToSet(inbox)
    BY <2>1 DEF ToSet
  <2>4. q.id \in 1..nextID
    BY <2>3 DEF WireInv, WireTyped
  <2>. QED  BY <2>1, <2>2, <2>4 DEF Calls
<1>3. \A c \in Runners : run[c].phase \in RunPhases
  BY DEF WireInv, RunnerOK
<1>. QED  BY <1>1, <1>2, <1>3 DEF WireInv, WireTyped, CodexTypeOK, RunPhases

\* The whole state of a session keeps its type, whatever the sessions, the pool
\* and the Codex server do in between: no session answers or asks more than the
\* prompts there are, what it streams is numbered within the bound, and the
\* client's thread is the one the server opened, never the number of a turn,
\* because a reply finds the call of its own id (Orchestrator, Client.Call).
THEOREM SessionTypeCorrect == Spec => []TypeOK
<1>. DEFINE Typed == PoolTyped /\ SessTyped /\ KeptInv /\ BoundInv /\ AwaitInv /\ WireInv
<1>1. Typed => TypeOK
  <2>. SUFFICES ASSUME Typed PROVE TypeOK
    OBVIOUS
  <2>. USE DEF Typed
  <2>1. PoolTypeOK /\ CodexTypeOK
    BY CodexTyped DEF PoolTyped
  <2>2. ASSUME NEW s \in Callers
        PROVE  /\ sess[s].phase \in SessionPhases
               /\ sess[s].users \in 0..MaxPrompts /\ sess[s].replies \in 0..MaxPrompts
               /\ stream[s].key \in 0..KeyCount
               /\ ToSet(stream[s].visible \o stream[s].pending) \subseteq Tokens
               /\ dead[s] \subseteq Keys
    <3>1. PICK z \in SessionRecords : z = sess[s]
      BY DEF SessTyped
    <3>2. PICK t \in StreamRecords : t = stream[s]
      BY DEF SessTyped
    <3>3. /\ z.users <= MaxPrompts /\ t.count <= MaxTokens
          /\ Rising(Joined(t.visible, t.pending), t.count)
          /\ z.replies + Busy(z) + Held(z) <= z.users
      BY <3>1, <3>2 DEF BoundInv, KeptInv, Kept
    <3>4. /\ z.phase \in SessionPhases /\ z.users \in Nat /\ z.replies \in Nat
          /\ t.key \in 0..KeyCount /\ t.count \in Nat
          /\ t.visible \in Text /\ t.pending \in Text
      BY DEF SessionRecords, StreamRecords
    <3>5. z.users \in 0..MaxPrompts /\ z.replies \in 0..MaxPrompts
      <4>1. PICK b \in 0..1, h \in 0..1 : b = Busy(z) /\ h = Held(z)
        BY DEF Busy, Held
      <4>2. z.replies + b + h <= z.users
        BY <3>3, <4>1
      <4>. QED  BY <3>3, <3>4, <4>2, SessionAssumption
    <3>6. PICK w \in Text : w = Joined(t.visible, t.pending)
      <4>1. Joined(t.visible, t.pending) \in Text
        BY <3>4, Joins DEF Text
      <4>. QED  BY <4>1
    <3>7. ToSet(w) \subseteq Tokens
      <4>. SUFFICES ASSUME NEW x \in ToSet(w) PROVE x \in Tokens
        OBVIOUS
      <4>1. PICK i \in 1..Len(w) : x = w[i]
        BY SetOfText
      <4>2. x \in TextTokens
        BY <4>1 DEF Text
      <4>3. x.n \in 1..t.count
        BY <3>3, <3>6, <4>1 DEF Rising
      <4>4. x.n \in 1..MaxTokens
        BY <3>3, <3>4, <4>3, SessionAssumption
      <4>. QED  BY <4>2, <4>4 DEF TextTokens, Tokens
    <3>8. dead[s] \subseteq Keys
      BY DEF SessTyped
    <3>. QED  BY <3>1, <3>2, <3>4, <3>5, <3>6, <3>7, <3>8 DEF Joined
  <2>. QED  BY <2>1, <2>2 DEF TypeOK, SessionPhases
<1>2. Init => SessTyped /\ KeptInv /\ BoundInv /\ AwaitInv /\ WireInv
  BY KeptInit, BoundInit, AwaitInit, WireInit
<1>. QED  BY <1>1, <1>2, PoolTypedAlways, KeptStep, BoundStep, AwaitStep, WireStep, PTL DEF Spec

-----------------------------------------------------------------------------
(* What evidence decides (Conformance). *)

\* The first of s among some of its indices is at one of these.
LEMMA FirstIs ==
    ASSUME NEW s, NEW which \in SUBSET Nat, which # {}
    PROVE  \E i \in which : First(s, which) = s[i]
<1>. DEFINE i == CHOOSE i \in which : \A j \in which : i <= j
<1>1. i \in which
  BY HasLeast
<1>. QED  BY <1>1 DEF First

\* What may be decided of an observation: a replay or another key only for
\* one of the key's own scope, a replay for none with output; and one that the
\* key alone is to blame for, before any output, allows both.
LEMMA FitAllows ==
    ASSUME NEW o, DecisionFits(o)
    PROVE  /\ o.decision.replay => o.scope = "key" /\ ~o.partial
           /\ o.decision.rotate => o.scope = "key"
           /\ o.decision.class \in KeyScoped /\ o.phase = "pre_output" =>
                o.decision.rotate /\ o.decision.replay /\ ~o.partial
<1>. DEFINE d == o.decision
<1>1. ~(o.partial /\ d.replay)
  BY DEF DecisionFits
<1>2. CASE d.class \in KeyScoped
  <2>1. /\ o.scope = "key"
        /\ o.phase = "pre_output" => d.rotate /\ d.replay
    BY <1>2 DEF DecisionFits, KeyScoped
  <2>. QED  BY <1>1, <2>1
<1>3. CASE d.class \notin KeyScoped
  <2>1. ~d.rotate /\ ~d.replay
    BY <1>3 DEF DecisionFits
  <2>. QED  BY <1>3, <2>1
<1>. QED  BY <1>2, <1>3

\* A decision that rests on an observation of sealed evidence, while it may
\* be used, is backed by it.
LEMMA TrustIsBacked ==
    ASSUME NEW e, NEW o, NEW now, DecisionFits(o), e.sealed, now < e.until
    PROVE  Backed(Trusting(e, o), e, now, o)
<1>. DEFINE d == Trusting(e, o)
<1>1. /\ d.class = o.decision.class /\ d.replay = o.decision.replay
      /\ d.rotate = o.decision.rotate /\ d.trusted = TRUE
  BY DEF Trusting, Decided
<1>2. /\ d.replay => o.scope = "key" /\ ~o.partial
      /\ d.rotate => o.scope = "key"
  BY <1>1, FitAllows
<1>. QED  BY <1>1, <1>2 DEF Backed

\* A decision without evidence allows nothing.
LEMMA CautionIsBacked ==
    ASSUME NEW re, NEW e, NEW now, NEW o
    PROVE  ~Conservative(re).trusted /\ Backed(Conservative(re), e, now, o)
BY DEF Conservative, Decided, Cautious, Backed

\* Of four checks in a row, what passes has passed every one.
LEMMA PassesAll ==
    ASSUME NEW A \in BOOLEAN, NEW B \in BOOLEAN, NEW C \in BOOLEAN, NEW D \in BOOLEAN,
           "valid" = CASE A -> "invalid" [] B -> "invalid" [] C -> "tampered" [] D -> "expired"
                       [] OTHER -> "valid"
    PROVE  ~A /\ ~B /\ ~C /\ ~D
<1>1. ~A
  OBVIOUS
<1>2. ~B
  OBVIOUS
<1>3. ~C
  OBVIOUS
<1>4. ~D
  OBVIOUS
<1>. QED  BY <1>1, <1>2, <1>3, <1>4

LEMMA ValidBundle ==
    ASSUME NEW e, NEW now, ValidateBundle(e, now) = "valid"
    PROVE  /\ e.sealed /\ ~(now >= e.until)
           /\ \A i \in DOMAIN e.failures : ValidObservation(e.failures[i])
<1>. DEFINE A == e.id = "" \/ e.until <= e.from \/ e.identity = "" \/ ~e.complete
            B == \/ e.failures = <<>>
                 \/ \E i \in DOMAIN e.failures : ~ValidObservation(e.failures[i])
                 \/ \E i, j \in DOMAIN e.failures :
                       i # j /\ e.failures[i].scenario = e.failures[j].scenario
            C == ~e.sealed
            D == now >= e.until
<1>1. "valid" = CASE A -> "invalid" [] B -> "invalid" [] C -> "tampered" [] D -> "expired"
                  [] OTHER -> "valid"
  BY DEF ValidateBundle
<1>2. A \in BOOLEAN /\ B \in BOOLEAN /\ C \in BOOLEAN /\ D \in BOOLEAN
  OBVIOUS
<1>. HIDE DEF A, B, C, D
<1>3. ~A /\ ~B /\ ~C /\ ~D
  BY <1>1, <1>2, PassesAll
<1>. QED  BY <1>3 DEF B, C, D

LEMMA ValidFragment ==
    ASSUME NEW e, NEW now, ValidateFragment(e, now) = "valid"
    PROVE  e.sealed /\ ~(now >= e.until) /\ ValidObservation(e.failures[1])
<1>1. ~e.sealed => ValidateFragment(e, now) # "valid"
  BY DEF ValidateFragment
<1>2. ~ValidObservation(e.failures[1]) => ValidateFragment(e, now) # "valid"
  BY DEF ValidateFragment
<1>3. now >= e.until => ValidateFragment(e, now) # "valid"
  BY DEF ValidateFragment
<1>. QED  BY <1>1, <1>2, <1>3

\* d is what e, valid at that time, says of the failure seen.
SaysOf(d, e, seen, now) ==
    /\ ValidateBundle(e, now) = "valid"
    /\ \E j \in DOMAIN e.failures :
          SameFailure(e.failures[j], seen) /\ d = Trusting(e, e.failures[j])
Cautions(d) == \E re \in BOOLEAN : d = Conservative(re)

\* What a registry of bundles answers: nothing, or what one of its bundles of
\* the identity, valid at that time, says of the very failure.
LEMMA BundleDecides ==
    ASSUME NEW registry, DOMAIN registry \subseteq Nat, NEW identity, NEW seen, NEW now,
           \A i \in DOMAIN registry : DOMAIN registry[i].failures \subseteq Nat,
           NEW d, d = DecideByBundle(registry, identity, seen, now)
    PROVE  \/ Cautions(d)
           \/ \E i \in DOMAIN registry : /\ SameIdentity(registry[i].identity, identity)
                                         /\ SaysOf(d, registry[i], seen, now)
<1>. DEFINE here  == {i \in DOMAIN registry : SameIdentity(registry[i].identity, identity)}
            e     == First(registry, here)
            known == {i \in DOMAIN e.failures : SameFailure(e.failures[i], seen)}
<1>1. d = IF here = {} THEN Conservative(FALSE)
          ELSE IF ValidateBundle(e, now) # "valid" THEN Conservative(TRUE)
          ELSE IF known = {} THEN Conservative(FALSE)
          ELSE Trusting(e, First(e.failures, known))
  BY DEF DecideByBundle
<1>2. CASE here = {} \/ ValidateBundle(e, now) # "valid" \/ known = {}
  <2>1. d \in {Conservative(FALSE), Conservative(TRUE)}
    BY <1>1, <1>2
  <2>. QED  BY <2>1 DEF Cautions
<1>3. CASE here # {} /\ ValidateBundle(e, now) = "valid" /\ known # {}
  <2>1. PICK i \in here : e = registry[i]
    <3>1. here \in SUBSET Nat
      OBVIOUS
    <3>. QED  BY <1>3, <3>1, FirstIs
  <2>2. PICK j \in known : First(e.failures, known) = e.failures[j]
    <3>1. known \in SUBSET Nat
      BY <2>1
    <3>. QED  BY <1>3, <3>1, FirstIs
  <2>3. d = Trusting(e, First(e.failures, known))
    BY <1>1, <1>3
  <2>4. d = Trusting(registry[i], registry[i].failures[j])
    BY <2>1, <2>2, <2>3
  <2>5. SaysOf(d, registry[i], seen, now)
    BY <1>3, <2>1, <2>4 DEF SaysOf
  <2>. QED  BY <2>1, <2>5
<1>. QED  BY <1>2, <1>3

\* Whatever a registry of bundles holds, and whenever it is asked: it decides
\* nothing, or it has a bundle of this identity, sealed and not expired, with
\* this very failure, that backs the decision (EvidenceRegistry.Decide).
THEOREM BundlesDecideOnEvidence ==
    ASSUME NEW registry, DOMAIN registry \subseteq Nat,
           \A i \in DOMAIN registry :
              DOMAIN registry[i].failures \subseteq Nat /\ registry[i].until \in Nat,
           NEW identity, NEW seen, NEW now \in Nat,
           NEW d, d = DecideByBundle(registry, identity, seen, now)
    PROVE  \/ Cautions(d)
           \/ \E e \in Range(registry) : \E o \in Range(e.failures) :
                 /\ SameIdentity(e.identity, identity) /\ SameFailure(o, seen)
                 /\ d.trusted /\ Backed(d, e, now, o)
<1>1. CASE Cautions(d)
  BY <1>1
<1>2. CASE \E i \in DOMAIN registry : /\ SameIdentity(registry[i].identity, identity)
                                      /\ SaysOf(d, registry[i], seen, now)
  <2>1. PICK i \in DOMAIN registry : /\ SameIdentity(registry[i].identity, identity)
                                     /\ SaysOf(d, registry[i], seen, now)
    BY <1>2
  <2>. DEFINE e == registry[i]
  <2>2. ValidateBundle(e, now) = "valid"
    BY <2>1 DEF SaysOf
  <2>3. PICK j \in DOMAIN e.failures :
           SameFailure(e.failures[j], seen) /\ d = Trusting(e, e.failures[j])
    BY <2>1 DEF SaysOf
  <2>4. /\ e.sealed /\ ~(now >= e.until)
        /\ \A k \in DOMAIN e.failures : ValidObservation(e.failures[k])
    BY <2>2, ValidBundle
  <2>5. now < e.until
    <3>1. e.until \in Nat
      OBVIOUS
    <3>. QED  BY <2>4, <3>1
  <2>6. DecisionFits(e.failures[j])
    BY <2>4 DEF ValidObservation
  <2>7. d.trusted /\ Backed(d, e, now, e.failures[j])
    BY <2>3, <2>4, <2>5, <2>6, TrustIsBacked DEF Trusting, Decided
  <2>8. e \in Range(registry) /\ e.failures[j] \in Range(e.failures)
    BY DEF Range
  <2>. QED  BY <2>1, <2>3, <2>7, <2>8
<1>. QED  BY <1>1, <1>2, BundleDecides

-----------------------------------------------------------------------------
(* Bundles back what they decide. *)

FailureFields == {"scenario", "phase", "status", "code", "scope", "transport", "partial",
           "terminal", "decision"}
IsFailure(o) == o = [f \in FailureFields |-> o[f]]

\* Failures that differ in their name and decision alone are equal without.
LEMMA SameWithout ==
    ASSUME NEW o, NEW p, IsFailure(o), IsFailure(p), SameFailure(o, p)
    PROVE  [o EXCEPT !.scenario = "", !.decision = Cautious]
             = [p EXCEPT !.scenario = "", !.decision = Cautious]
<1>. DEFINE A == [o EXCEPT !.scenario = "", !.decision = Cautious]
            B == [p EXCEPT !.scenario = "", !.decision = Cautious]
<1>1. DOMAIN o = FailureFields /\ DOMAIN p = FailureFields
  BY DEF IsFailure
<1>2. \A f \in FailureFields \ {"scenario", "decision"} : o[f] = p[f]
  BY <1>1 DEF SameFailure
<1>3. A = [f \in FailureFields |-> IF f = "decision" THEN Cautious ELSE IF f = "scenario" THEN "" ELSE o[f]]
  BY <1>1 DEF FailureFields
<1>4. B = [f \in FailureFields |-> IF f = "decision" THEN Cautious ELSE IF f = "scenario" THEN "" ELSE p[f]]
  BY <1>1 DEF FailureFields
<1>. QED  BY <1>2, <1>3, <1>4

LEMMA ObservationShape ==
    ASSUME NEW o \in Observations \cup {Known}
    PROVE  IsFailure(o)
<1>1. CASE o \in Observations
  BY <1>1, ConformanceAssumption DEF IsFailure, FailureFields
<1>2. CASE o = Known
  BY <1>2 DEF IsFailure, FailureFields, Known
<1>. QED  BY <1>1, <1>2

LEMMA BundleShape ==
    ASSUME NEW e \in Bundles
    PROVE  /\ e.identity = "aero" /\ e.until \in Moments
           /\ DOMAIN e.failures \subseteq Nat
           /\ \A i \in DOMAIN e.failures : e.failures[i] \in Observations \cup {Known}
           /\ \E x : \A i \in DOMAIN e.failures : e.failures[i] \in {Known, x}
<1>1. /\ e.identity = "aero" /\ e.until \in Moments
      /\ e.failures \in {<<>>} \cup {<<o>> : o \in Observations} \cup {<<Known, o>> : o \in Observations}
  BY DEF Bundles, Evidence
<1>2. CASE e.failures = <<>>
  BY <1>1, <1>2
<1>3. CASE e.failures \in {<<o>> : o \in Observations}
  <2>1. PICK o \in Observations : e.failures = <<o>>
    BY <1>3
  <2>2. DOMAIN e.failures = {1} /\ e.failures[1] = o
    BY <2>1
  <2>3. \A i \in DOMAIN e.failures : e.failures[i] \in {Known, o}
    BY <2>2
  <2>4. \A i \in DOMAIN e.failures : e.failures[i] \in Observations \cup {Known}
    BY <2>2
  <2>. QED  BY <1>1, <2>2, <2>3, <2>4
<1>4. CASE e.failures \in {<<Known, o>> : o \in Observations}
  <2>1. PICK o \in Observations : e.failures = <<Known, o>>
    BY <1>4
  <2>. HIDE DEF Known
  <2>2. DOMAIN e.failures = 1..2 /\ e.failures[1] = Known /\ e.failures[2] = o
    BY <2>1
  <2>3. \A i \in 1..2 : i = 1 \/ i = 2
    OBVIOUS
  <2>. QED  BY <1>1, <2>2, <2>3
<1>. QED  BY <1>1, <1>2, <1>3, <1>4

\* What a registry holds that was loaded from the file of e, which may have
\* been changed: e, for the hash of what was changed is not that of the file.
LEMMA LoadedBundles ==
    ASSUME NEW e \in Bundles, NEW then,
           NEW registry \in {<<>>} \cup
               {AddBundle(<<>>, b, then) : b \in LoadEvidence(OnDisk(SaveEvidence({}, e, 0)), then)}
    PROVE  registry = <<>> \/ registry = <<e>>
<1>. DEFINE changed == [e EXCEPT !.sealed = FALSE, !.until = 2]
<1>1. OnDisk(SaveEvidence({}, e, 0)) \subseteq {e, changed}
  BY DEF SaveEvidence, OnDisk
<1>2. LoadEvidence(OnDisk(SaveEvidence({}, e, 0)), then) \subseteq {e}
  <2>1. changed.sealed = FALSE
    BY DEF Bundles, Evidence
  <2>2. ValidateBundle(changed, then) # "valid"
    <3>. HIDE DEF changed
    <3>. QED  BY <2>1, ValidBundle
  <2>. QED  BY <1>1, <2>2 DEF LoadEvidence
<1>3. AddBundle(<<>>, e, then) \in {<<>>, Append(<<>>, e)}
  BY DEF AddBundle
<1>4. Append(<<>>, e) = <<e>>
  OBVIOUS
<1>. QED  BY <1>2, <1>3, <1>4

LEMMA BundlesDoBack == BundlesBack
<1>. SUFFICES ASSUME NEW e \in Bundles, NEW then \in Moments, NEW now \in then..2,
                     NEW registry \in {<<>>} \cup
                        {AddBundle(<<>>, b, then) : b \in LoadEvidence(OnDisk(SaveEvidence({}, e, 0)), then)},
                     NEW i \in DOMAIN e.failures
              PROVE  /\ ~DecideByBundle(registry, "aero-2", e.failures[i], now).trusted
                     /\ \A seen \in {e.failures[i], [e.failures[i] EXCEPT !.terminal = ~@]} :
                           LET d == DecideByBundle(registry, "Aero", seen, now)
                           IN  \E o \in Range(e.failures) :
                                  /\ Backed(d, e, now, o)
                                  /\ d.trusted => [o EXCEPT !.scenario = "", !.decision = Cautious]
                                                    = [seen EXCEPT !.scenario = "", !.decision = Cautious]
  BY DEF BundlesBack
<1>1. registry = <<>> \/ registry = <<e>>
  BY LoadedBundles
<1>2. /\ e.identity = "aero" /\ e.until \in Nat /\ now \in Nat
      /\ DOMAIN e.failures \subseteq Nat
      /\ \A j \in DOMAIN e.failures : IsFailure(e.failures[j])
  BY BundleShape, ObservationShape DEF Moments
<1>3. /\ DOMAIN registry \subseteq Nat
      /\ \A j \in DOMAIN registry : registry[j] = e
  <2>1. CASE registry = <<>>
    BY <2>1
  <2>2. CASE registry = <<e>>
    BY <2>2
  <2>. QED  BY <1>1, <2>1, <2>2
<1>4. ~DecideByBundle(registry, "aero-2", e.failures[i], now).trusted
  <2>1. ~SameIdentity("aero", "aero-2")
    BY DEF SameIdentity, Canonical
  <2>2. Cautions(DecideByBundle(registry, "aero-2", e.failures[i], now))
    BY <1>2, <1>3, <2>1, BundleDecides
  <2>. QED  BY <2>2, CautionIsBacked DEF Cautions
<1>5. ASSUME NEW seen \in {e.failures[i], [e.failures[i] EXCEPT !.terminal = ~@]},
             NEW d, d = DecideByBundle(registry, "Aero", seen, now)
      PROVE  \E o \in Range(e.failures) :
                /\ Backed(d, e, now, o)
                /\ d.trusted => [o EXCEPT !.scenario = "", !.decision = Cautious]
                                  = [seen EXCEPT !.scenario = "", !.decision = Cautious]
  <2>1. Cautions(d) \/ SaysOf(d, e, seen, now)
    BY <1>2, <1>3, <1>5, BundleDecides
  <2>2. CASE Cautions(d)
    <3>1. ~d.trusted /\ Backed(d, e, now, e.failures[i])
      BY <2>2, CautionIsBacked DEF Cautions
    <3>2. e.failures[i] \in Range(e.failures)
      BY DEF Range
    <3>. QED  BY <3>1, <3>2
  <2>3. CASE SaysOf(d, e, seen, now)
    <3>1. PICK j \in DOMAIN e.failures :
             SameFailure(e.failures[j], seen) /\ d = Trusting(e, e.failures[j])
      BY <2>3 DEF SaysOf
    <3>2. e.sealed /\ now < e.until /\ DecisionFits(e.failures[j])
      <4>1. ValidateBundle(e, now) = "valid"
        BY <2>3 DEF SaysOf
      <4>2. /\ e.sealed /\ ~(now >= e.until)
            /\ \A k \in DOMAIN e.failures : ValidObservation(e.failures[k])
        BY <4>1, ValidBundle
      <4>3. DecisionFits(e.failures[j])
        BY <4>2 DEF ValidObservation
      <4>. QED  BY <1>2, <4>2, <4>3
    <3>3. Backed(d, e, now, e.failures[j])
      BY <3>1, <3>2, TrustIsBacked
    <3>4. IsFailure(seen)
      <4>1. IsFailure(e.failures[i])
        BY <1>2
      <4>2. CASE seen = [e.failures[i] EXCEPT !.terminal = ~@]
        BY <4>1, <4>2 DEF IsFailure
      <4>. QED  BY <4>1, <4>2
    <3>5. [e.failures[j] EXCEPT !.scenario = "", !.decision = Cautious]
            = [seen EXCEPT !.scenario = "", !.decision = Cautious]
      BY <1>2, <3>1, <3>4, SameWithout
    <3>6. e.failures[j] \in Range(e.failures)
      BY DEF Range
    <3>. QED  BY <3>3, <3>5, <3>6
  <2>. QED  BY <2>1, <2>2, <2>3
<1>. QED  BY <1>4, <1>5

-----------------------------------------------------------------------------
(* Fragments back what they decide. *)

\* What a registry of fragments answers to a response: nothing, or what one of
\* its fragments of the identity and endpoint, valid at that time and of this
\* very response, decides; and it does, whenever it holds such a one.
FreshOf(registry, identity, endpoint, answer, now) ==
    {i \in DOMAIN registry : /\ SameIdentity(registry[i].identity, identity)
                             /\ registry[i].endpoint = endpoint
                             /\ ExactResponse(registry[i], answer)
                             /\ ValidateFragment(registry[i], now) = "valid"}

LEMMA FragmentDecides ==
    ASSUME NEW registry, DOMAIN registry \subseteq Nat, NEW identity, NEW endpoint, NEW answer,
           ~answer.failed, NEW now,
           NEW d, d = DecideByFragment(registry, identity, endpoint, answer, now)
    PROVE  \/ /\ FreshOf(registry, identity, endpoint, answer, now) = {}
              /\ Cautions(d)
           \/ \E i \in FreshOf(registry, identity, endpoint, answer, now) :
                d = Trusting(registry[i], registry[i].failures[1])
<1>. DEFINE here  == {i \in DOMAIN registry : /\ SameIdentity(registry[i].identity, identity)
                                              /\ registry[i].endpoint = endpoint}
            exact == {i \in here : ExactResponse(registry[i], answer)}
            fresh == {i \in exact : ValidateFragment(registry[i], now) = "valid"}
            asks  == \/ \E i \in exact : ValidateFragment(registry[i], now) = "expired"
                     \/ \E i \in here : ValidateFragment(registry[i], now) \in {"invalid", "tampered"}
<1>1. d = IF fresh # {} THEN Trusting(First(registry, fresh), First(registry, fresh).failures[1])
          ELSE Conservative(asks)
  BY DEF DecideByFragment
<1>2. fresh = FreshOf(registry, identity, endpoint, answer, now)
  BY DEF FreshOf
<1>3. fresh \in SUBSET Nat /\ asks \in BOOLEAN
  OBVIOUS
<1>. HIDE DEF asks, fresh
<1>4. fresh = {} => Cautions(d)
  BY <1>1, <1>3 DEF Cautions
<1>5. ASSUME fresh # {} PROVE \E i \in fresh : d = Trusting(registry[i], registry[i].failures[1])
  <2>1. PICK i \in fresh : First(registry, fresh) = registry[i]
    BY <1>3, <1>5, FirstIs
  <2>. QED  BY <1>1, <1>5, <2>1
<1>. QED  BY <1>2, <1>4, <1>5

\* Likewise of a registry of fragments, whose fragment is of this endpoint too
\* and has this very response (FragmentRegistry.Decide).
THEOREM FragmentsDecideOnEvidence ==
    ASSUME NEW registry, DOMAIN registry \subseteq Nat,
           \A i \in DOMAIN registry : registry[i].until \in Nat,
           NEW identity, NEW endpoint, NEW answer, ~answer.failed, NEW now \in Nat,
           NEW d, d = DecideByFragment(registry, identity, endpoint, answer, now)
    PROVE  \/ Cautions(d)
           \/ \E e \in Range(registry) :
                 /\ SameIdentity(e.identity, identity) /\ e.endpoint = endpoint
                 /\ ExactResponse(e, answer)
                 /\ d.trusted /\ Backed(d, e, now, e.failures[1])
<1>1. CASE Cautions(d)
  BY <1>1
<1>2. CASE \E i \in FreshOf(registry, identity, endpoint, answer, now) :
              d = Trusting(registry[i], registry[i].failures[1])
  <2>1. PICK i \in FreshOf(registry, identity, endpoint, answer, now) :
           d = Trusting(registry[i], registry[i].failures[1])
    BY <1>2
  <2>. DEFINE e == registry[i]
  <2>2. /\ i \in DOMAIN registry /\ SameIdentity(e.identity, identity) /\ e.endpoint = endpoint
        /\ ExactResponse(e, answer) /\ ValidateFragment(e, now) = "valid"
    BY DEF FreshOf
  <2>3. e.sealed /\ ~(now >= e.until) /\ ValidObservation(e.failures[1])
    BY <2>2, ValidFragment
  <2>4. now < e.until
    <3>1. e.until \in Nat
      BY <2>2
    <3>. QED  BY <2>3, <3>1
  <2>5. DecisionFits(e.failures[1])
    BY <2>3 DEF ValidObservation
  <2>6. d.trusted /\ Backed(d, e, now, e.failures[1])
    BY <2>1, <2>3, <2>4, <2>5, TrustIsBacked DEF Trusting, Decided
  <2>7. e \in Range(registry)
    BY <2>2 DEF Range
  <2>. QED  BY <2>2, <2>6, <2>7
<1>. QED  BY ONLY <1>1, <1>2, FragmentDecides, DOMAIN registry \subseteq Nat, ~answer.failed,
                  d = DecideByFragment(registry, identity, endpoint, answer, now)

LEMMA FragmentShape ==
    ASSUME NEW e \in Fragments
    PROVE  /\ e.id = "f" /\ e.identity = "aero" /\ e.endpoint = "messages" /\ e.until \in Moments
           /\ e = [id |-> e.id, identity |-> e.identity, endpoint |-> e.endpoint, from |-> e.from,
                   until |-> e.until, complete |-> e.complete, sealed |-> e.sealed,
                   failures |-> e.failures, body |-> e.body]
BY DEF Fragments, Evidence

\* What a registry may hold to which e was added, and then what was loaded
\* from the file of f.
FragmentRegistries(e, f) ==
    {AddFragment(<<>>, e, 0)} \cup
    {AddFragment(AddFragment(<<>>, e, 0), x, 1) : x \in LoadFragment(OnDisk(SaveFragment({}, f, 0)), 1)}

LEMMA LoadedFragments ==
    ASSUME NEW e, NEW other \in Fragments, NEW f, f = [other EXCEPT !.id = "g"],
           NEW registry \in FragmentRegistries(e, f)
    PROVE  /\ registry \in {<<>>, <<e>>, <<f>>, <<e, f>>}
           /\ ValidateFragment(e, 0) = "valid" => registry \in {<<e>>, <<e, f>>}
<1>. DEFINE added == AddFragment(<<>>, e, 0)
            changed == [f EXCEPT !.sealed = FALSE, !.until = 2]
<1>1. OnDisk(SaveFragment({}, f, 0)) \subseteq {f, changed}
  BY DEF SaveFragment, OnDisk
<1>2. LoadFragment(OnDisk(SaveFragment({}, f, 0)), 1) \subseteq {f}
  <2>1. changed.sealed = FALSE
    BY DEF Fragments, Evidence
  <2>2. ValidateFragment(changed, 1) # "valid"
    <3>. HIDE DEF changed
    <3>. QED  BY <2>1, ValidFragment
  <2>. QED  BY <1>1, <2>2 DEF LoadFragment
<1>3. Range(<<>>) = {}
  BY DEF Range
<1>4. /\ added = <<>> \/ added = <<e>>
      /\ ValidateFragment(e, 0) = "valid" => added = <<e>>
  BY <1>3 DEF AddFragment
<1>5. \/ registry = added
      \/ \E x \in LoadFragment(OnDisk(SaveFragment({}, f, 0)), 1) : registry = AddFragment(added, x, 1)
  BY DEF FragmentRegistries
<1>. HIDE DEF added
<1>6. registry \in {added, Append(added, f)}
  <2>1. AddFragment(added, f, 1) \in {added, Append(added, f)}
    BY DEF AddFragment
  <2>. QED  BY <1>2, <1>5, <2>1
<1>7. Append(<<>>, f) = <<f>>
  OBVIOUS
<1>8. Append(<<e>>, f) = <<e, f>>
  <2>. DEFINE p == Append(<<e>>, f)
              q == <<e, f>>
  <2>1. p \in Seq({e, f}) /\ q \in Seq({e, f})
    OBVIOUS
  <2>2. Len(p) = 2 /\ Len(q) = 2
    OBVIOUS
  <2>3. p[1] = e /\ p[2] = f /\ q[1] = e /\ q[2] = f
    OBVIOUS
  <2>. HIDE DEF p, q
  <2>4. \A i \in 1..Len(p) : p[i] = q[i]
    <3>1. \A i \in 1..2 : i = 1 \/ i = 2
      OBVIOUS
    <3>. QED  BY <2>2, <2>3, <3>1
  <2>5. p = q
    BY <2>1, <2>2, <2>4, SeqEqual
  <2>. QED  BY <2>5 DEF p, q
<1>. QED  BY <1>4, <1>6, <1>7, <1>8

\* Everything that FragmentsBack speaks of, at one point.
FragmentCase(e, other, now, f, answer, registry, d, from) ==
    /\ e \in Fragments /\ other \in Fragments /\ now \in 1..2
    /\ f = [other EXCEPT !.id = "g"]
    /\ answer = [failed |-> FALSE, phase |-> e.failures[1].phase,
                 status |-> e.failures[1].status, body |-> e.body]
    /\ registry \in FragmentRegistries(e, f)
    /\ d = DecideByFragment(registry, "aero", "messages", answer, now)
    /\ from = IF d.evidence = f.id THEN f ELSE e

LEMMA FragmentBacks ==
    ASSUME NEW e, NEW other, NEW now, NEW f, NEW answer, NEW registry, NEW d, NEW from,
           FragmentCase(e, other, now, f, answer, registry, d, from)
    PROVE  /\ Backed(d, from, now, from.failures[1])
           /\ d.trusted => ExactResponse(from, answer)
           /\ ValidateFragment(e, 0) = "valid" /\ now < e.until => d.trusted
<1>0. /\ e \in Fragments /\ other \in Fragments /\ now \in 1..2
      /\ f = [other EXCEPT !.id = "g"]
      /\ answer = [failed |-> FALSE, phase |-> e.failures[1].phase,
                   status |-> e.failures[1].status, body |-> e.body]
      /\ registry \in FragmentRegistries(e, f)
      /\ d = DecideByFragment(registry, "aero", "messages", answer, now)
      /\ from = IF d.evidence = f.id THEN f ELSE e
  BY DEF FragmentCase
<1>1. /\ e.id = "f" /\ e.identity = "aero" /\ e.endpoint = "messages" /\ e.until \in Nat
      /\ f.id = "g" /\ f.identity = "aero" /\ f.endpoint = "messages" /\ f.until \in Nat
      /\ now \in Nat /\ ~answer.failed
  BY <1>0, FragmentShape DEF Moments
<1>2. /\ registry \in {<<>>, <<e>>, <<f>>, <<e, f>>}
      /\ ValidateFragment(e, 0) = "valid" => registry \in {<<e>>, <<e, f>>}
  BY <1>0, LoadedFragments
<1>3. /\ DOMAIN registry \subseteq Nat
      /\ \A i \in DOMAIN registry : registry[i] \in {e, f}
      /\ registry \in {<<e>>, <<e, f>>} => 1 \in DOMAIN registry /\ registry[1] = e
  <2>1. CASE registry = <<>>
    BY <2>1
  <2>2. CASE registry = <<e>> \/ registry = <<f>>
    BY <2>2
  <2>3. CASE registry = <<e, f>>
    <3>1. DOMAIN registry = 1..2 /\ registry[1] = e /\ registry[2] = f
      BY <2>3
    <3>2. \A i \in 1..2 : i = 1 \/ i = 2
      OBVIOUS
    <3>. QED  BY <3>1, <3>2
  <2>. QED  BY <1>2, <2>1, <2>2, <2>3
<1>. DEFINE fresh == FreshOf(registry, "aero", "messages", answer, now)
<1>4. \/ fresh = {} /\ Cautions(d)
      \/ \E i \in fresh : d = Trusting(registry[i], registry[i].failures[1])
  <2>1. DOMAIN registry \subseteq Nat /\ ~answer.failed
    BY <1>1, <1>3
  <2>2. d = DecideByFragment(registry, "aero", "messages", answer, now)
    BY <1>0
  <2>. QED  BY ONLY <2>1, <2>2, FragmentDecides
<1>. HIDE DEF fresh
<1>5. ASSUME fresh = {}
      PROVE  Backed(d, from, now, from.failures[1]) /\ ~d.trusted
  BY <1>4, <1>5, CautionIsBacked DEF Cautions
<1>6. ASSUME fresh # {}
      PROVE  /\ Backed(d, from, now, from.failures[1]) /\ d.trusted
             /\ ExactResponse(from, answer)
  <2>1. PICK i \in fresh : d = Trusting(registry[i], registry[i].failures[1])
    BY <1>4, <1>6
  <2>2. /\ registry[i] \in {e, f} /\ ExactResponse(registry[i], answer)
        /\ ValidateFragment(registry[i], now) = "valid"
    BY <1>3 DEF fresh, FreshOf
  <2>3. d.evidence = registry[i].id /\ d.trusted
    BY <2>1 DEF Trusting, Decided
  <2>4. from = registry[i]
    BY <1>0, <1>1, <2>2, <2>3
  <2>5. from.sealed /\ now < from.until /\ DecisionFits(from.failures[1])
    <3>1. from.sealed /\ ~(now >= from.until) /\ ValidObservation(from.failures[1])
      BY <2>2, <2>4, ValidFragment
    <3>2. DecisionFits(from.failures[1])
      BY <3>1 DEF ValidObservation
    <3>. QED  BY <1>1, <2>2, <2>4, <3>1, <3>2
  <2>6. Backed(d, from, now, from.failures[1])
    BY <2>1, <2>4, <2>5, TrustIsBacked
  <2>. QED  BY <2>2, <2>3, <2>4, <2>6
<1>7. ASSUME ValidateFragment(e, 0) = "valid", now < e.until PROVE fresh # {}
  <2>1. 1 \in DOMAIN registry /\ registry[1] = e
    BY <1>2, <1>3, <1>7
  <2>2. ValidateFragment(e, now) = "valid"
    <3>. DEFINE A == \/ e.id = "" \/ e.until <= e.from \/ e.identity = "" \/ ~e.complete
                     \/ ~ValidObservation(e.failures[1]) \/ e.body = ""
    <3>1. A => ValidateFragment(e, 0) # "valid"
      BY DEF ValidateFragment
    <3>2. ~A
      BY <1>7, <3>1
    <3>3. e.sealed
      BY <1>7, ValidFragment
    <3>4. ~(now >= e.until)
      BY <1>1, <1>7
    <3>. QED  BY <3>2, <3>3, <3>4 DEF ValidateFragment
  <2>3. ExactResponse(e, answer)
    BY <1>0 DEF ExactResponse
  <2>4. 1 \in fresh
    BY <1>1, <2>1, <2>2, <2>3 DEF fresh, FreshOf, SameIdentity
  <2>. QED  BY <2>4
<1>. QED  BY <1>5, <1>6, <1>7

LEMMA FragmentsDoBack == FragmentsBack
<1>. SUFFICES ASSUME NEW e \in Fragments, NEW other \in Fragments, NEW now \in 1..2
              PROVE  LET f        == [other EXCEPT !.id = "g"]
                         disk     == LoadFragment(OnDisk(SaveFragment({}, f, 0)), 1)
                         added    == AddFragment(<<>>, e, 0)
                         answer   == [failed |-> FALSE, phase |-> e.failures[1].phase,
                                      status |-> e.failures[1].status, body |-> e.body]
                     IN  \A registry \in {added} \cup {AddFragment(added, x, 1) : x \in disk} :
                             LET d    == DecideByFragment(registry, "aero", "messages", answer, now)
                                 from == IF d.evidence = f.id THEN f ELSE e
                             IN  /\ Backed(d, from, now, from.failures[1])
                                 /\ d.trusted => ExactResponse(from, answer)
                                 /\ ValidateFragment(e, 0) = "valid" /\ now < e.until => d.trusted
  BY DEF FragmentsBack
<1>. DEFINE f        == [other EXCEPT !.id = "g"]
            disk     == LoadFragment(OnDisk(SaveFragment({}, f, 0)), 1)
            added    == AddFragment(<<>>, e, 0)
            answer   == [failed |-> FALSE, phase |-> e.failures[1].phase,
                         status |-> e.failures[1].status, body |-> e.body]
<1>1. ASSUME NEW registry \in {added} \cup {AddFragment(added, x, 1) : x \in disk},
             NEW d, d = DecideByFragment(registry, "aero", "messages", answer, now),
             NEW from, from = IF d.evidence = f.id THEN f ELSE e
      PROVE  /\ Backed(d, from, now, from.failures[1])
             /\ d.trusted => ExactResponse(from, answer)
             /\ ValidateFragment(e, 0) = "valid" /\ now < e.until => d.trusted
  <2>1. FragmentCase(e, other, now, f, answer, registry, d, from)
    BY <1>1 DEF FragmentCase, FragmentRegistries
  <2>. HIDE DEF f, answer
  <2>. QED  BY ONLY <2>1, FragmentBacks
<1>. QED  BY <1>1

-----------------------------------------------------------------------------
(* Captures and the optimizer. *)

LEMMA CapturesDoBack == CapturesBack
<1>1. ASSUME NEW c \in Captures, NEW until \in Moments, NEW f \in NormalizeInvalidCredentialCapture(c, until)
      PROVE  ~c.realKey /\ c.retries = 0 /\ ValidateFragment(f, c.at) = "valid"
  BY <1>1 DEF NormalizeInvalidCredentialCapture, Bounded, Admissible
<1>2. ASSUME NEW c \in Captures, NEW until \in Moments, NEW f \in NormalizeUsageWindowLimitCapture(c, until)
      PROVE  ~Backed([Trusting(f, f.failures[1]) EXCEPT !.rotate = TRUE], f, c.at, f.failures[1])
  <2>1. \E o : o.scope = "unknown" /\ f = Fragment(c, "usage-window", until, o)
    BY <1>2 DEF NormalizeUsageWindowLimitCapture, Admissible, Before
  <2>2. f.failures[1].scope = "unknown"
    BY <2>1 DEF Fragment
  <2>3. [Trusting(f, f.failures[1]) EXCEPT !.rotate = TRUE].rotate = TRUE
    BY DEF Trusting, Decided
  <2>. QED  BY <2>2, <2>3 DEF Backed
<1>3. ASSUME NEW c \in Pairs, NEW e \in NormalizePairedScopeCapture(c)
      PROVE  ValidatePairedEvidence(e)
  <2>1. e.decision = Cautious
    BY <1>3 DEF NormalizePairedScopeCapture
  <2>. QED  BY <2>1 DEF ValidatePairedEvidence, Cautious
<1>. QED  BY <1>1, <1>2, <1>3 DEF CapturesBack

LEMMA OptimizerDoesBack == OptimizerBack
<1>. SUFFICES ASSUME NEW status \in {"verified", "experimental", "blocked"},
                     NEW correct \in BOOLEAN, NEW benefit \in BOOLEAN, NEW dated \in BOOLEAN,
                     NEW mode \in {"off", "on"}, NEW answer \in {"sent", "shorter", "failed"},
                     NEW evidence, evidence = [version |-> 1, dated |-> dated, status |-> status,
                                               correct |-> correct, benefit |-> benefit],
                     NEW one, one = ApplyOptimizer(evidence, [sent |-> answer], mode, 1, "sent"),
                     NEW two, two = ApplyOptimizer(evidence, [sent |-> answer], mode, 2, "sent")
              PROVE  /\ ~two.active
                     /\ one.sent \in {"sent", answer} \ {"failed"}
                     /\ one.sent # "sent" => mode = "on" /\ correct /\ benefit /\ one.active
  BY DEF OptimizerBack
<1>1. ~two.active
  BY DEF ApplyOptimizer
<1>2. [sent |-> answer]["sent"] = answer
  OBVIOUS
<1>3. one = IF /\ mode = "on" /\ dated /\ status = "verified" /\ correct /\ benefit
               /\ answer # "failed"
            THEN [sent |-> answer, active |-> TRUE] ELSE [sent |-> "sent", active |-> FALSE]
  BY <1>2 DEF ApplyOptimizer
<1>4. /\ one.sent \in {"sent", answer} \ {"failed"}
      /\ one.sent # "sent" => mode = "on" /\ correct /\ benefit /\ one.active
  BY <1>3
<1>. QED  BY <1>1, <1>4

-----------------------------------------------------------------------------
(* Profiles classify by evidence. *)

\* A profile blames a key, where the pool's own classifier does not, only by a
\* rule, which is one of its evidence's observations, of this very response.
LEMMA ProfileClassifies ==
    ASSUME NEW e, DOMAIN e.failures \subseteq Nat, NEW r,
           ClassifyBy(Rules(e), r) \in KeyScoped \ {Classify(r)}
    PROVE  \E i \in DOMAIN e.failures :
              /\ e.failures[i].phase = "pre_output"
              /\ e.failures[i].status = r.status /\ e.failures[i].code = r.code
              /\ e.failures[i].scope = r.scope /\ r.scope = "key"
              /\ e.failures[i].decision.class \in KeyScoped
<1>. DEFINE rules == Rules(e)
            fit == {i \in DOMAIN rules : /\ rules[i].status = r.status
                                         /\ rules[i].code = r.code /\ rules[i].scope = r.scope}
<1>1. \A i \in DOMAIN rules : /\ i \in DOMAIN e.failures
                              /\ e.failures[i].phase = "pre_output" /\ rules[i] = Rule(e.failures[i])
  BY DEF Rules
<1>. HIDE DEF rules
<1>2. ClassifyBy(rules, r) = IF r.failed \/ fit = {} \/ \E i \in DOMAIN rules : ~RuleFits(rules[i])
                             THEN Classify(r) ELSE First(rules, fit).class
  BY DEF ClassifyBy
<1>3. ClassifyBy(rules, r) \in KeyScoped \ {Classify(r)}
  BY DEF rules
<1>4. /\ fit # {} /\ \A i \in DOMAIN rules : RuleFits(rules[i])
      /\ First(rules, fit).class \in KeyScoped
  BY <1>2, <1>3
<1>5. fit \in SUBSET Nat
  BY <1>1
<1>6. PICK i \in fit : First(rules, fit) = rules[i]
  BY <1>4, <1>5, FirstIs
<1>7. RuleFits(rules[i]) /\ rules[i].class \in KeyScoped
  BY <1>4, <1>6
<1>8. rules[i].scope = "key"
  BY <1>7 DEF RuleFits, KeyScoped
<1>9. /\ rules[i].status = e.failures[i].status /\ rules[i].code = e.failures[i].code
      /\ rules[i].scope = e.failures[i].scope /\ rules[i].class = e.failures[i].decision.class
  <2>1. rules[i] = Rule(e.failures[i])
    BY <1>1
  <2>. QED  BY <2>1 DEF Rule
<1>10. /\ i \in DOMAIN e.failures /\ e.failures[i].phase = "pre_output"
       /\ rules[i].status = r.status /\ rules[i].code = r.code /\ rules[i].scope = r.scope
  BY <1>1
<1>. QED  BY <1>7, <1>8, <1>9, <1>10

\* Evidence that was valid stays so until it expires.
LEMMA ValidUntil ==
    ASSUME NEW e, NEW made, NEW asked, ValidateBundle(e, made) = "valid", ~(asked >= e.until)
    PROVE  ValidateBundle(e, asked) = "valid"
<1>. DEFINE A == e.id = "" \/ e.until <= e.from \/ e.identity = "" \/ ~e.complete
            B == \/ e.failures = <<>>
                 \/ \E i \in DOMAIN e.failures : ~ValidObservation(e.failures[i])
                 \/ \E i, j \in DOMAIN e.failures :
                       i # j /\ e.failures[i].scenario = e.failures[j].scenario
            C == ~e.sealed
            D(now) == now >= e.until
<1>1. \A now \in {made, asked} :
         ValidateBundle(e, now) = CASE A -> "invalid" [] B -> "invalid" [] C -> "tampered"
                                    [] D(now) -> "expired" [] OTHER -> "valid"
  BY DEF ValidateBundle
<1>2. A \in BOOLEAN /\ B \in BOOLEAN /\ C \in BOOLEAN /\ D(made) \in BOOLEAN /\ ~D(asked)
  OBVIOUS
<1>. HIDE DEF A, B, C, D
<1>3. ~A /\ ~B /\ ~C
  BY <1>1, <1>2, PassesAll
<1>. QED  BY <1>1, <1>2, <1>3

\* What a bundle that is valid when a profile is made of it says of one of its
\* failures later: the failure's decision, until it has expired, if no other of
\* its failures is the same; then nothing.
LEMMA BundleExpires ==
    ASSUME NEW e, DOMAIN e.failures \subseteq Nat, NEW made, NEW asked,
           ValidateBundle(e, made) = "valid",
           NEW i \in DOMAIN e.failures,
           \A j \in DOMAIN e.failures : SameFailure(e.failures[j], e.failures[i]) =>
              e.failures[j] = e.failures[i],
           e.failures[i].decision.rotate = TRUE
    PROVE  DecideByBundle(<<e>>, e.identity, e.failures[i], asked).rotate <=> ~(asked >= e.until)
<1>. DEFINE o == e.failures[i]
            d == DecideByBundle(<<e>>, e.identity, o, asked)
            here  == {k \in DOMAIN <<e>> : SameIdentity(<<e>>[k].identity, e.identity)}
            known == {k \in DOMAIN e.failures : SameFailure(e.failures[k], o)}
<1>1. here = {1} /\ First(<<e>>, here) = e
  <2>1. DOMAIN <<e>> = {1} /\ <<e>>[1] = e
    OBVIOUS
  <2>2. here = {1}
    BY <2>1 DEF SameIdentity
  <2>3. here \in SUBSET Nat
    BY <2>2
  <2>. HIDE DEF here
  <2>4. PICK k \in here : First(<<e>>, here) = <<e>>[k]
    BY <2>2, <2>3, FirstIs
  <2>. QED  BY <2>1, <2>2, <2>4
<1>2. i \in known /\ First(e.failures, known) = o
  <2>1. SameFailure(o, o)
    BY DEF SameFailure
  <2>2. i \in known /\ known \in SUBSET Nat
    BY <2>1
  <2>3. PICK k \in known : First(e.failures, known) = e.failures[k]
    <3>. HIDE DEF known
    <3>. QED  BY <2>2, FirstIs
  <2>. QED  BY <2>2, <2>3
<1>3. d = IF here = {} THEN Conservative(FALSE)
          ELSE IF ValidateBundle(e, asked) # "valid" THEN Conservative(TRUE)
          ELSE IF known = {} THEN Conservative(FALSE)
          ELSE Trusting(e, First(e.failures, known))
  BY <1>1 DEF DecideByBundle
<1>. HIDE DEF here, known, o
<1>4. CASE asked >= e.until
  <2>1. ValidateBundle(e, asked) # "valid"
    BY <1>4, ValidBundle
  <2>2. d = Conservative(TRUE)
    BY <1>1, <1>3, <2>1
  <2>3. d.rotate = FALSE
    <3>1. Conservative(TRUE).rotate = FALSE
      BY DEF Conservative, Decided, Cautious
    <3>. QED  BY <2>2, <3>1
  <2>. QED  BY <1>4, <2>3, Zenon DEF o
<1>5. CASE ~(asked >= e.until)
  <2>1. ValidateBundle(e, asked) = "valid"
    BY <1>5, ValidUntil
  <2>2. d = Trusting(e, o)
    BY <1>1, <1>2, <1>3, <2>1
  <2>3. d.rotate = TRUE
    BY <2>2 DEF Trusting, Decided, o
  <2>. QED  BY <1>5, <2>3, Zenon DEF o
<1>. QED  BY <1>4, <1>5

LEMMA ProfilesDoBack == ProfilesBack
<1>. SUFFICES ASSUME NEW e \in Bundles, NEW made \in Moments, NEW rules \in Profiles(e, made),
                     NEW asked \in made..2,
                     NEW status \in {401, 429}, NEW code \in {"quota", "busy"}, NEW scope \in {"key", "provider"},
                     NEW r, r = [failed |-> FALSE, status |-> status, code |-> code, scope |-> scope],
                     ClassifyBy(rules, r) \in KeyScoped \ {Classify(r)}
              PROVE  /\ e.sealed /\ made < e.until
                     /\ \E o \in Range(e.failures) :
                           /\ o.phase = "pre_output" /\ o.status = status /\ o.code = code
                           /\ o.scope = scope /\ scope = "key"
                           /\ o.decision.rotate /\ o.decision.replay /\ ~o.partial
                           /\ (DecideByBundle(<<e>>, e.identity, o, asked).rotate <=> asked < e.until)
  BY DEF ProfilesBack
<1>1. rules = Rules(e) /\ ValidateBundle(e, made) = "valid"
  BY DEF Profiles
<1>2. PICK i \in DOMAIN e.failures :
         /\ e.failures[i].phase = "pre_output"
         /\ e.failures[i].status = r.status /\ e.failures[i].code = r.code
         /\ e.failures[i].scope = r.scope /\ r.scope = "key"
         /\ e.failures[i].decision.class \in KeyScoped
  BY <1>1, BundleShape, ProfileClassifies
<1>. DEFINE o == e.failures[i]
<1>3. ValidObservation(o)
  BY <1>1, ValidBundle
<1>4. o.decision.rotate /\ o.decision.replay /\ ~o.partial
  BY <1>2, <1>3, FitAllows DEF ValidObservation
<1>5. o \in Range(e.failures)
  BY DEF Range
<1>6. e.sealed /\ made < e.until
  <2>1. e.sealed /\ ~(made >= e.until)
    BY <1>1, ValidBundle
  <2>2. e.until \in Nat /\ made \in Nat
    BY BundleShape DEF Moments
  <2>. QED  BY <2>1, <2>2
<1>7. \A j \in DOMAIN e.failures : SameFailure(e.failures[j], o) => e.failures[j] = o
  <2>1. PICK x : \A j \in DOMAIN e.failures : e.failures[j] \in {Known, x}
    BY BundleShape
  <2>2. o.scope = "key"
    BY <1>2
  <2>3. IsFailure(o)
    BY BundleShape, ObservationShape
  <2>4. ~SameFailure(Known, o)
    <3>1. "scope" \in DOMAIN Known \ {"scenario", "decision"} /\ Known["scope"] = "provider"
      BY DEF Known
    <3>2. o["scope"] = "key"
      BY <2>2
    <3>. QED  BY <3>1, <3>2 DEF SameFailure
  <2>5. o # Known
    <3>1. Known.scope = "provider"
      BY DEF Known
    <3>. HIDE DEF Known
    <3>. QED  BY <2>2, <3>1
  <2>. HIDE DEF Known, o
  <2>6. i \in DOMAIN e.failures /\ o = e.failures[i]
    BY DEF o
  <2>7. o = x
    BY <2>1, <2>5, <2>6
  <2>. QED  BY <2>1, <2>4, <2>7
<1>8. DecideByBundle(<<e>>, e.identity, o, asked).rotate <=> ~(asked >= e.until)
  <2>1. DOMAIN e.failures \subseteq Nat
    BY BundleShape
  <2>2. o.decision.rotate = TRUE
    <3>1. o \in Observations \cup {Known}
      BY BundleShape
    <3>2. ASSUME NEW p \in Observations PROVE p.decision.rotate \in BOOLEAN
      <4>1. p.decision \in PolicyDecisions \cup {Cautious}
        BY ConformanceAssumption
      <4>2. CASE p.decision \in PolicyDecisions
        BY <4>2 DEF PolicyDecisions
      <4>3. CASE p.decision = Cautious
        BY <4>3 DEF Cautious
      <4>. QED  BY <4>1, <4>2, <4>3
    <3>3. Known.decision.rotate \in BOOLEAN
      BY DEF Known
    <3>4. o.decision.rotate \in BOOLEAN
      BY <3>1, <3>2, <3>3
    <3>. QED  BY <1>4, <3>4
  <2>. QED  BY ONLY <1>1, <1>7, <2>1, <2>2, i \in DOMAIN e.failures, BundleExpires
<1>9. ~(asked >= e.until) <=> asked < e.until
  <2>1. e.until \in Nat /\ made \in Nat
    BY BundleShape DEF Moments
  <2>2. asked \in Nat
    BY <2>1
  <2>. QED  BY <2>1, <2>2
<1>. QED  BY <1>2, <1>4, <1>5, <1>6, <1>8, <1>9

-----------------------------------------------------------------------------
(* The pool takes a key out of use on an answer that blames it. *)

LEMMA OutOfUseOnBlame ==
    ASSUME NEW k \in Keys, [Next]_vars, keyState[k] \in Usable, keyState'[k] \notin Usable
    PROVE  BlamesKey(k)
<1>1. PICK c \in Callers : PoolMove(c)
  BY StepMovesPool DEF PoolMoves, poolVars
<1>2. keyState' # keyState
  OBVIOUS
<1>3. Apply(c)
  BY <1>1, <1>2 DEF PoolMove, Execute, Admit, Take, Select, Answer, ObserveUsage
<1>. DEFINE r == request[c]
<1>4. r.class \in KeyScoped \cup {"none"} /\ SetState(r.index, StateFor(r.class))
  BY <1>2, <1>3 DEF Apply
<1>5. keyState'[k] = IF k = r.index THEN StateFor(r.class)
                     ELSE IF keyState[k] = "active" THEN "ready" ELSE keyState[k]
  BY <1>4 DEF SetState
<1>6. r.index = k
  BY <1>5 DEF Usable
<1>7. r.class # "none"
  BY <1>5, <1>6 DEF StateFor, Usable
<1>8. In(c, "answered")
  BY <1>3 DEF Apply
<1>. QED  BY <1>4, <1>6, <1>7, <1>8 DEF BlamesKey

\* Nothing is replayed, moved to another key or continued but on evidence:
\* what the registries of bundles and of fragments, the profiles, the captures
\* and the optimizer give holds for whatever may have been observed
\* (Observations), and a key is taken out of use only on an answer that blames
\* it, however the callers of the pool interleave (Decide, ProviderProfile,
\* Normalize..., Pool.setState).  Evidence whose file was changed decides
\* nothing; and a profile, which decides on, is of evidence that was valid when
\* it was made, whatever of it has expired when it is asked.
THEOREM FailuresAreMetOnEvidence == Spec => ReplayIsEvidenced
<1>1. [Next]_vars =>
        [/\ BundlesBack /\ FragmentsBack /\ ProfilesBack /\ CapturesBack /\ OptimizerBack
         /\ \A k \in Keys : keyState[k] \in Usable /\ keyState'[k] \notin Usable => BlamesKey(k)]_poolVars
  BY BundlesDoBack, FragmentsDoBack, ProfilesDoBack, CapturesDoBack, OptimizerDoesBack, OutOfUseOnBlame
<1>. QED  BY <1>1, PTL DEF Spec, ReplayIsEvidenced
=============================================================================
