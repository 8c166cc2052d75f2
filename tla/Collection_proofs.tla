-------------------------- MODULE Collection_proofs --------------------------
(***************************************************************************)
(* Proofs about Collection, for any scopes, executions, payloads and       *)
(* requests: that it implements CandidateDecision, and that a receipt of a *)
(* decided scope binds the decision.  Both rest on DecisionInv: what is in *)
(* the store was accepted by it (Accepted), what a preparation names stays *)
(* what it was (Frozen), and recovery was only given what a preparation    *)
(* names (Ordered).                                                        *)
(***************************************************************************)
EXTENDS Collection, FiniteSetTheorems, WellFoundedInduction, TLAPS

-----------------------------------------------------------------------------
(* The operators. *)

\* A nonempty set of numbers has a least one.
LEMMA HasLeast ==
    ASSUME NEW S \in SUBSET Nat, S # {}
    PROVE  \E x \in S : \A y \in S : x <= y
<1>1. PICK x \in S : \A y \in S : ~(<<y, x>> \in OpToRel(<, Nat))
  BY NatLessThanWellFounded, WFMin
<1>2. \A y \in S : ~(y < x)
  BY <1>1 DEF OpToRel
<1>3. \A y \in S : x <= y
  BY <1>2
<1>. QED  BY <1>3

Assessments ==
    [cands : SUBSET Requests, state : Selecting \cup Reviewing, selected : Requests \cup {None}]
Preparations ==
    [cand : Requests \cup {None}, assessment : Assessments \cup {NoAssessment}, reviewed : BOOLEAN]

\* A request is its own identity, and never None.
LEMMA RequestIsCandidate ==
    ASSUME NEW r \in Requests
    PROVE  CandidateOf(r) = r /\ r # None
BY CollectionAssumption DEF CandidateOf, None

\* What the reconciler makes of a set of candidates that is not empty is of
\* use: it selects one of them, or asks for a review.
LEMMA ReconcileSelects ==
    ASSUME NEW C \in SUBSET Requests, C # {}
    PROVE  LET a == Reconcile(C)
           IN  /\ a \in Assessments
               /\ a.cands = C
               /\ a.state \in Selecting => a.selected \in C
               /\ a.state \in Reviewing => a.selected = None
<1>. DEFINE a == Reconcile(C)
            E == {c.exec : c \in C}
<1>1. PICK c \in C : \A d \in C : c.exec <= d.exec
  <2>1. E \in SUBSET Nat /\ E # {}
    BY CollectionAssumption
  <2>2. PICK x \in E : \A y \in E : x <= y
    BY <2>1, HasLeast
  <2>. QED  BY <2>2
<1>2. Select(C) \in C
  BY <1>1 DEF Select
<1>3. a.cands = C /\ a.state \in Selecting \cup Reviewing
      /\ a.selected = IF a.state \in Selecting THEN Select(C) ELSE None
  BY DEF Reconcile, Selecting, Reviewing
<1>4. Selecting \cap Reviewing = {}
  BY DEF Selecting, Reviewing
<1>5. a \in Assessments
  BY <1>2, <1>3 DEF Reconcile, Assessments
<1>. QED  BY <1>2, <1>3, <1>4, <1>5

\* When it selects one, all candidates are verified and say the same.
LEMMA ReconcileAgrees ==
    ASSUME NEW C, IsFiniteSet(C), Reconcile(C).state \in Selecting
    PROVE  \A c, d \in C : c.verified /\ payload[c.exec] = payload[d.exec]
<1>1. \A c \in C : c.verified
  BY DEF Reconcile, Selecting
<1>2. CASE Cardinality(C) = 1
  <2>1. PICK x : C = {x}
    BY <1>2, FS_Singleton
  <2>. QED  BY <1>1, <2>1
<1>3. CASE \A c, d \in C : payload[c.exec] = payload[d.exec]
  BY <1>1, <1>3
<1>4. CASE Cardinality(C) # 1 /\ ~\A c, d \in C : payload[c.exec] = payload[d.exec]
  BY <1>4 DEF Reconcile, Selecting
<1>. QED  BY <1>2, <1>3, <1>4

-----------------------------------------------------------------------------
(* What the store accepted. *)

Stores ==
    [cands : SUBSET Requests, assessments : SUBSET Assessments,
     resolutions : SUBSET [assessment : Assessments, selected : Requests],
     latest : [Scopes -> Assessments \cup {NoAssessment}],
     prep : [Scopes -> Preparations],
     commit : [Scopes -> BOOLEAN]]

\* An assessment is what the reconciler makes of its candidates, a review is
\* of an assessment that asked for one, there is one at most, and it chose one
\* of the candidates.
Accepted ==
    /\ store \in Stores
    /\ IsFiniteSet(store.cands)
    /\ \A a \in store.assessments :
          a.cands # {} /\ a.cands \subseteq store.cands /\ a = Reconcile(a.cands)
    /\ \A s \in Scopes : store.latest[s] \in store.assessments \cup {NoAssessment}
    /\ \A r \in store.resolutions :
          /\ r.assessment \in store.assessments
          /\ r.assessment.state \in Reviewing
          /\ r.selected \in r.assessment.cands
    /\ \A r, q \in store.resolutions : r.assessment = q.assessment => r = q

\* What a preparation names is current, and binds the operation it was made for.
Binds(s, a) ==
    /\ a # NoAssessment /\ Current(a, s)
    /\ a.state \in Selecting \/ HasResolution(a)
    /\ store.prep[s] = Bind(a)
    /\ store.prep[s].cand # None

Frozen == \A s \in Scopes : Prepared(s) => Binds(s, store.latest[s])

\* Recovery was given the results that were decided on, and no others.
Ordered ==
    /\ op \in {NoOp} \cup [scope : Scopes, at : {"start", "complete", "recover"}]
    /\ op # NoOp => Prepared(op.scope)
    /\ ledger \in [Executions -> {"none", "started", "completed"}]
    /\ \A e \in Executions :
          ledger[e] # "none" => \E s \in Scopes : Prepared(s) /\ store.prep[s].cand.exec = e

DecisionInv == Accepted /\ Frozen /\ Ordered

\* Nothing was collected at first.
LEMMA DecisionInit == Init => DecisionInv
<1>. SUFFICES ASSUME Init PROVE DecisionInv
  OBVIOUS
<1>1. NoPreparation \in Preparations
  BY DEF NoPreparation, Preparations
<1>2. store \in Stores
  BY <1>1 DEF Init, Stores
<1>3. Accepted
  BY <1>2, FS_EmptySet DEF Init, Accepted
<1>4. Frozen
  BY DEF Init, Frozen, Prepared
<1>5. Ordered
  BY DEF Init, Ordered, NoOp
<1>. QED  BY <1>3, <1>4, <1>5 DEF DecisionInv

\* The resolution of an assessment that was reviewed is the one in the store.
LEMMA OneResolution ==
    ASSUME Accepted, NEW r \in store.resolutions
    PROVE  HasResolution(r.assessment) /\ ResolutionOf(r.assessment) = r
BY DEF Accepted, HasResolution, ResolutionOf

\* The candidate that an assessment selects is one of its candidates.
LEMMA SelectedIsCandidate ==
    ASSUME Accepted, NEW a \in store.assessments, a.state \in Selecting \/ HasResolution(a)
    PROVE  /\ Selected(a) \in a.cands
           /\ a.state \in Reviewing <=> HasResolution(a)
<1>0. a.cands \in SUBSET Requests /\ a.cands # {} /\ a = Reconcile(a.cands)
  BY DEF Accepted, Stores
<1>1. a.state \in Selecting => a.selected \in a.cands /\ a.state \notin Reviewing
  BY <1>0, ReconcileSelects DEF Selecting, Reviewing
<1>2. HasResolution(a) => a.state \in Reviewing /\ a.state \notin Selecting
                          /\ ResolutionOf(a).selected \in a.cands
  <2>. SUFFICES ASSUME NEW r \in store.resolutions, r.assessment = a
                PROVE  a.state \in Reviewing /\ a.state \notin Selecting
                       /\ ResolutionOf(a).selected \in a.cands
    BY DEF HasResolution
  <2>. QED  BY OneResolution DEF Accepted, Selecting, Reviewing
<1>. QED  BY <1>1, <1>2 DEF Selected

\* A scope stays frozen while its candidates, its assessment and the reviews
\* of it stay.
LEMMA BindsStays ==
    ASSUME Accepted, Accepted', NEW s \in Scopes, NEW a, Binds(s, a),
           store'.prep[s] = store.prep[s], CandidatesFor(s)' = CandidatesFor(s),
           store.resolutions \subseteq store'.resolutions,
           \A r \in store'.resolutions : r.assessment = a => r \in store.resolutions
    PROVE  Binds(s, a)'
<1>1. Current(a, s)'
  BY DEF Binds, Current
<1>2. CASE HasResolution(a)
  <2>1. PICK r \in store.resolutions : r.assessment = a
    BY <1>2 DEF HasResolution
  <2>2. ResolutionOf(a) = r /\ ResolutionOf(a)' = r
    BY <2>1 DEF ResolutionOf, Accepted
  <2>3. HasResolution(a)'
    BY <2>1 DEF HasResolution
  <2>. QED  BY <1>1, <1>2, <2>2, <2>3 DEF Binds, Bind, Selected
<1>3. CASE ~HasResolution(a)
  <2>1. a.state \in Selecting
    BY <1>3 DEF Binds
  <2>. QED  BY <1>1, <2>1 DEF Binds, Bind, Selected
<1>. QED  BY <1>2, <1>3

\* Steps that leave the store alone, or only mark a commit.
LEMMA StoreKept ==
    ASSUME DecisionInv, payload' = payload, store' \in Stores,
           store'.cands = store.cands, store'.assessments = store.assessments,
           store'.resolutions = store.resolutions, store'.latest = store.latest,
           store'.prep = store.prep
    PROVE  Accepted' /\ Frozen' /\ \A s \in Scopes : Prepared(s)' <=> Prepared(s)
<1>1. Accepted /\ Frozen
  BY DEF DecisionInv
<1>2. \A C : Reconcile(C)' = Reconcile(C)
  BY DEF Reconcile, Select
<1>3. Accepted'
  BY <1>1, <1>2 DEF Accepted
<1>4. \A s \in Scopes : Prepared(s)' <=> Prepared(s)
  BY DEF Prepared
<1>5. \A s \in Scopes : CandidatesFor(s)' = CandidatesFor(s)
  BY DEF CandidatesFor
<1>6. Frozen'
  BY <1>1, <1>3, <1>4, <1>5, BindsStays DEF Frozen
<1>. QED  BY <1>3, <1>4, <1>6

\* Every step keeps DecisionInv: an operation that changes the store is for a
\* scope that is open, and leaves what the prepared ones rest on.
LEMMA DecisionStep == DecisionInv /\ [Next]_vars => DecisionInv'
<1>. SUFFICES ASSUME DecisionInv, [Next]_vars PROVE DecisionInv'
  OBVIOUS
<1>0. Accepted /\ Frozen /\ Ordered /\ store \in Stores
  BY DEF DecisionInv, Accepted
<1>1. ASSUME NEW c \in Requests, Collect(c) PROVE DecisionInv'
  <2>1. /\ store' = [store EXCEPT !.cands = @ \cup {c}]
        /\ UNCHANGED <<payload, current, op, ledger, canon, faults>>
        /\ ~Prepared(c.scope)
    BY <1>1, RequestIsCandidate DEF Collect, Open
  <2>2. /\ store'.cands = store.cands \cup {c} /\ store'.assessments = store.assessments
        /\ store'.resolutions = store.resolutions /\ store'.latest = store.latest
        /\ store'.prep = store.prep /\ store' \in Stores
    BY <1>0, <2>1 DEF Stores
  <2>3. \A C : Reconcile(C)' = Reconcile(C)
    BY <2>1 DEF Reconcile, Select
  <2>4. IsFiniteSet(store'.cands)
    BY <1>0, <2>2, FS_AddElement DEF Accepted
  <2>5. Accepted'
    BY <1>0, <2>2, <2>3, <2>4 DEF Accepted
  <2>6. \A s \in Scopes : Prepared(s)' <=> Prepared(s)
    BY <2>2 DEF Prepared
  <2>7. Frozen'
    <3>1. \A s \in Scopes : Prepared(s) => CandidatesFor(s)' = CandidatesFor(s)
      BY <2>1, <2>2 DEF CandidatesFor
    <3>. QED  BY <1>0, <2>2, <2>5, <2>6, <3>1, BindsStays DEF Frozen
  <2>8. Ordered'
    BY <1>0, <2>1, <2>2, <2>6 DEF Ordered
  <2>. QED  BY <2>5, <2>7, <2>8 DEF DecisionInv
<1>2. ASSUME NEW s \in Scopes, Assess(s) PROVE DecisionInv'
  <2>. DEFINE a == Reconcile(CandidatesFor(s))
  <2>1. /\ store' = [store EXCEPT !.assessments = @ \cup {a}, !.latest[s] = a]
        /\ UNCHANGED <<payload, current, op, ledger, canon, faults>>
        /\ ~Prepared(s) /\ CandidatesFor(s) # {}
    BY <1>2 DEF Assess, Open
  <2>2. a \in Assessments /\ a.cands = CandidatesFor(s)
    BY <1>0, <2>1, ReconcileSelects DEF CandidatesFor, Stores
  <2>3. PICK b : b = a
    OBVIOUS
  <2>4. /\ store'.cands = store.cands /\ store'.assessments = store.assessments \cup {b}
        /\ store'.resolutions = store.resolutions
        /\ store'.latest = [store.latest EXCEPT ![s] = b]
        /\ store'.prep = store.prep /\ store'.commit = store.commit
    BY <1>0, <2>1, <2>3 DEF Stores
  <2>5. store' \in Stores
    <3>1. DOMAIN store' = DOMAIN store /\ store' = [store EXCEPT !.assessments = @ \cup {b}, !.latest[s] = b]
      BY <2>1, <2>3
    <3>. HIDE DEF a
    <3>. QED  BY <1>0, <2>2, <2>3, <3>1 DEF Stores
  <2>6. \A C : Reconcile(C)' = Reconcile(C)
    BY <2>1 DEF Reconcile, Select
  <2>7. Accepted'
    <3>1. b.cands # {} /\ b.cands \subseteq store.cands /\ b = Reconcile(b.cands)
      BY <2>1, <2>2, <2>3 DEF CandidatesFor
    <3>2. \A t \in Scopes : store'.latest[t] \in store'.assessments \cup {NoAssessment}
      BY <1>0, <2>4 DEF Accepted, Stores
    <3>3. IsFiniteSet(store'.cands)
      BY <1>0, <2>4 DEF Accepted
    <3>. QED  BY <1>0, <2>4, <2>5, <2>6, <3>1, <3>2, <3>3 DEF Accepted
  <2>8. \A t \in Scopes : Prepared(t)' <=> Prepared(t)
    BY <2>4 DEF Prepared
  <2>9. Frozen'
    <3>1. \A t \in Scopes : Prepared(t) => store'.latest[t] = store.latest[t]
      BY <1>0, <2>1, <2>4 DEF Stores
    <3>2. \A t \in Scopes : CandidatesFor(t)' = CandidatesFor(t)
      BY <2>4 DEF CandidatesFor
    <3>. QED  BY <1>0, <2>4, <2>7, <2>8, <3>1, <3>2, BindsStays DEF Frozen
  <2>10. Ordered'
    BY <1>0, <2>1, <2>4, <2>8 DEF Ordered
  <2>. QED  BY <2>7, <2>9, <2>10 DEF DecisionInv
<1>3. ASSUME NEW a \in store.assessments, NEW c \in a.cands, ResolveReview(a, c)
      PROVE  DecisionInv'
  <2>. DEFINE r == Resolve(a, c)
  <2>1. /\ store' = [store EXCEPT !.resolutions = @ \cup {r}]
        /\ UNCHANGED <<payload, current, op, ledger, canon, faults>>
        /\ ~Prepared(ScopeOf(a)) /\ Current(a, ScopeOf(a)) /\ a.state \in Reviewing
        /\ ~HasResolution(a)
    BY <1>3 DEF ResolveReview, Open
  <2>2. r \in [assessment : Assessments, selected : Requests] /\ r.assessment = a /\ r.selected = c
    BY <1>0 DEF Resolve, Stores, Assessments
  <2>3. /\ store'.cands = store.cands /\ store'.assessments = store.assessments
        /\ store'.resolutions = store.resolutions \cup {r}
        /\ store'.latest = store.latest
        /\ store'.prep = store.prep /\ store' \in Stores
    BY <1>0, <2>1, <2>2 DEF Stores
  <2>4. \A C : Reconcile(C)' = Reconcile(C)
    BY <2>1 DEF Reconcile, Select
  <2>5. Accepted'
    <3>1. \A q \in store.resolutions : q.assessment # a
      BY <2>1 DEF HasResolution
    <3>. HIDE DEF r
    <3>2. \A q, p \in store'.resolutions : q.assessment = p.assessment => q = p
      BY <1>0, <2>2, <2>3, <3>1 DEF Accepted
    <3>3. IsFiniteSet(store'.cands)
      BY <1>0, <2>3 DEF Accepted
    <3>4. \A q \in store'.resolutions :
             /\ q.assessment \in store'.assessments
             /\ q.assessment.state \in Reviewing
             /\ q.selected \in q.assessment.cands
      BY <1>0, <2>1, <2>2, <2>3 DEF Accepted
    <3>. QED  BY <1>0, <2>3, <2>4, <3>2, <3>3, <3>4 DEF Accepted
  <2>6. \A t \in Scopes : Prepared(t)' <=> Prepared(t)
    BY <2>3 DEF Prepared
  <2>7. Frozen'
    <3>1. \A t \in Scopes : CandidatesFor(t)' = CandidatesFor(t)
      BY <2>3 DEF CandidatesFor
    <3>2. \A t \in Scopes : Prepared(t) => store.latest[t] # a
      <4>. SUFFICES ASSUME NEW t \in Scopes, Prepared(t), store.latest[t] = a PROVE FALSE
        OBVIOUS
      <4>1. Current(a, t)
        BY <1>0 DEF Frozen, Binds
      <4>2. PICK x \in a.cands : x \in CandidatesFor(t) /\ x \in CandidatesFor(ScopeOf(a))
        BY <2>1, <4>1 DEF Current
      <4>3. t = ScopeOf(a)
        BY <4>2 DEF CandidatesFor
      <4>. QED  BY <2>1, <4>3
    <3>. HIDE DEF r
    <3>. QED  BY <1>0, <2>2, <2>3, <2>5, <2>6, <3>1, <3>2, BindsStays DEF Frozen
  <2>8. Ordered'
    BY <1>0, <2>1, <2>3, <2>6 DEF Ordered
  <2>. QED  BY <2>5, <2>7, <2>8 DEF DecisionInv
<1>4. ASSUME NEW s \in Scopes, Prepare(s) PROVE DecisionInv'
  <2>. DEFINE a == store.latest[s]
  <2>1. /\ store' = [store EXCEPT !.prep[s] = Bind(a)]
        /\ op' = [scope |-> s, at |-> "start"]
        /\ UNCHANGED <<payload, current, ledger, canon, faults>>
        /\ ~Prepared(s) /\ ValidPreparation(Bind(a))
        /\ a # NoAssessment /\ Current(a, s) /\ (a.state \in Selecting \/ HasResolution(a))
    BY <1>4 DEF Prepare, Open, Resolvable
  <2>2. a \in store.assessments /\ a \in Assessments /\ Selected(a) \in Requests
    <3>1. a \in store.assessments
      BY <1>0, <2>1 DEF Accepted
    <3>. QED  BY <1>0, <2>1, <3>1, SelectedIsCandidate DEF Stores, Assessments
  <2>3. PICK b : b = Bind(a)
    OBVIOUS
  <2>4. b \in Preparations /\ b # NoPreparation /\ b.cand # None
    <3>1. b.cand \in Requests /\ b.cand # None
      BY <2>2, <2>3, RequestIsCandidate DEF Bind
    <3>. QED  BY <2>2, <2>3, <3>1 DEF Bind, Preparations, NoPreparation
  <2>5. /\ store'.cands = store.cands /\ store'.assessments = store.assessments
        /\ store'.resolutions = store.resolutions
        /\ store'.latest = store.latest
        /\ store'.prep = [store.prep EXCEPT ![s] = b]
        /\ store' \in Stores
    <3>1. store' = [store EXCEPT !.prep[s] = b]
      BY <2>1, <2>3
    <3>2. [store.prep EXCEPT ![s] = b] \in [Scopes -> Preparations]
      BY <1>0, <2>4 DEF Stores
    <3>. QED  BY <1>0, <3>1, <3>2 DEF Stores
  <2>6. \A C : Reconcile(C)' = Reconcile(C)
    BY <2>1 DEF Reconcile, Select
  <2>7. Accepted'
    BY <1>0, <2>5, <2>6 DEF Accepted
  <2>8. /\ store'.prep[s] = b /\ Prepared(s)'
        /\ \A t \in Scopes : t # s => /\ store'.prep[t] = store.prep[t]
                                      /\ Prepared(t)' <=> Prepared(t)
    BY <1>0, <2>4, <2>5 DEF Prepared, Stores
  <2>9. Frozen'
    <3>1. \A t \in Scopes : CandidatesFor(t)' = CandidatesFor(t)
      BY <2>5 DEF CandidatesFor
    <3>2. ASSUME NEW t \in Scopes, Prepared(t)', t # s PROVE Binds(t, store.latest[t])'
      BY <1>0, <2>5, <2>7, <2>8, <3>1, <3>2, BindsStays DEF Frozen
    <3>3. Binds(s, store.latest[s])'
      <4>1. HasResolution(a)' <=> HasResolution(a)
        BY <2>5 DEF HasResolution
      <4>2. Bind(a)' = Bind(a)
        BY <2>5 DEF Bind, Selected, ResolutionOf
      <4>3. Current(a, s)'
        BY <2>1, <3>1 DEF Current
      <4>. QED  BY <2>1, <2>3, <2>4, <2>5, <2>8, <4>1, <4>2, <4>3 DEF Binds
    <3>. QED  BY <3>2, <3>3 DEF Frozen
  <2>10. Ordered'
    <3>1. op' # NoOp /\ op'.scope = s
      BY <2>1 DEF NoOp
    <3>2. ASSUME NEW e \in Executions, ledger'[e] # "none"
          PROVE  \E t \in Scopes : Prepared(t)' /\ store'.prep[t].cand.exec = e
      <4>1. PICK t \in Scopes : Prepared(t) /\ store.prep[t].cand.exec = e
        BY <1>0, <2>1, <3>2 DEF Ordered
      <4>2. t # s
        BY <2>1, <4>1
      <4>. QED  BY <2>8, <4>1, <4>2
    <3>. QED  BY <1>0, <2>1, <2>8, <3>1, <3>2 DEF Ordered
  <2>. QED  BY <2>7, <2>9, <2>10 DEF DecisionInv
<1>5. ASSUME NEW s \in Scopes, Resume(s) PROVE DecisionInv'
  <2>1. /\ Prepared(s) /\ op' = [scope |-> s, at |-> "start"]
        /\ UNCHANGED <<payload, current, store, ledger, canon, faults>>
    BY <1>5 DEF Resume
  <2>2. Accepted' /\ Frozen' /\ \A t \in Scopes : Prepared(t)' <=> Prepared(t)
    BY <1>0, <2>1, StoreKept
  <2>3. Ordered'
    BY <1>0, <2>1, <2>2 DEF Ordered, NoOp
  <2>. QED  BY <2>2, <2>3 DEF DecisionInv
<1>6. ASSUME StartInLedger \/ CompleteInLedger PROVE DecisionInv'
  <2>1. /\ op \in [scope : Scopes, at : {"start", "complete", "recover"}] /\ op # NoOp
        /\ UNCHANGED <<payload, current, store, canon, faults>>
    BY <1>0, <1>6 DEF StartInLedger, CompleteInLedger, OpAt, NoOp, Ordered
  <2>2. /\ op' \in [scope : Scopes, at : {"start", "complete", "recover"}]
        /\ op'.scope = op.scope
    BY <2>1, <1>6 DEF StartInLedger, CompleteInLedger, OpTo
  <2>3. /\ ledger' \in [Executions -> {"none", "started", "completed"}]
        /\ \A e \in Executions : ledger'[e] # "none" => ledger[e] # "none" \/ e = Target
    BY <1>0, <1>6 DEF StartInLedger, CompleteInLedger, Ordered
  <2>4. Accepted' /\ Frozen' /\ \A t \in Scopes : Prepared(t)' <=> Prepared(t)
    BY <1>0, <2>1, StoreKept
  <2>5. Ordered'
    BY <1>0, <2>1, <2>2, <2>3, <2>4 DEF Ordered, Target
  <2>. QED  BY <2>4, <2>5 DEF DecisionInv
<1>7. ASSUME RecordCommit PROVE DecisionInv'
  <2>1. /\ store' = [store EXCEPT !.commit[op.scope] = TRUE] /\ op' = NoOp
        /\ UNCHANGED <<payload, current, ledger, canon, faults>>
    BY <1>7 DEF RecordCommit
  <2>2. /\ store'.cands = store.cands /\ store'.assessments = store.assessments
        /\ store'.resolutions = store.resolutions /\ store'.latest = store.latest
        /\ store'.prep = store.prep /\ store' \in Stores
    BY <1>0, <2>1 DEF Stores
  <2>3. Accepted' /\ Frozen' /\ \A t \in Scopes : Prepared(t)' <=> Prepared(t)
    BY <2>1, <2>2, StoreKept
  <2>4. Ordered'
    BY <1>0, <2>1, <2>2, <2>3 DEF Ordered, NoOp
  <2>. QED  BY <2>3, <2>4 DEF DecisionInv
<1>8. ASSUME \/ RecoverResult
             \/ BreakOff
             \/ \E s \in Scopes : GoStale(s)
             \/ UNCHANGED vars
      PROVE  DecisionInv'
  <2>1. /\ op' \in {op, NoOp}
        /\ UNCHANGED <<payload, store, ledger>>
    BY <1>8 DEF RecoverResult, BreakOff, GoStale, vars
  <2>2. Accepted' /\ Frozen' /\ \A t \in Scopes : Prepared(t)' <=> Prepared(t)
    BY <1>0, <2>1, StoreKept
  <2>3. Ordered'
    BY <1>0, <2>1, <2>2 DEF Ordered, NoOp
  <2>. QED  BY <2>2, <2>3 DEF DecisionInv
<1>. QED  BY <1>1, <1>2, <1>3, <1>4, <1>5, <1>6, <1>7, <1>8 DEF Next, CommitStep

LEMMA DecisionAlways == Spec => []DecisionInv
BY DecisionInit, DecisionStep, PTL DEF Spec

-----------------------------------------------------------------------------
(* The receipt. *)

\* What DecisionInv says of the latest assessment of a scope.
LEMMA LatestIsOfUse ==
    ASSUME DecisionInv, NEW s \in Scopes, Current(store.latest[s], s)
    PROVE  LET a == store.latest[s]
           IN  /\ a \in store.assessments
               /\ a.state \in Selecting => a.selected \in Requests
               /\ a.state \in Selecting \cup Reviewing
               /\ a.state \in Selecting => a.state \notin Reviewing
<1>. DEFINE a == store.latest[s]
<1>1. a \in store.assessments
  BY DEF DecisionInv, Accepted, Current, NoAssessment
<1>2. a.cands \in SUBSET Requests /\ a.cands # {} /\ a = Reconcile(a.cands) /\ a \in Assessments
  BY <1>1 DEF DecisionInv, Accepted, Stores
<1>3. a.state \in Selecting => a.selected \in a.cands
  BY <1>2, ReconcileSelects
<1>. QED  BY <1>1, <1>2, <1>3 DEF Assessments, Selecting, Reviewing

\* The receipt of a prepared scope can be made at any later time and binds the
\* decision, and a scope with a current assessment has a candidate to show or a
\* review to ask for (Store.Evidence, EffectiveState, ReviewRequest).
THEOREM ReceiptBindsTheDecision == Spec => []ReceiptBindsDecision
<1>1. DecisionInv => ReceiptBindsDecision
  <2>. SUFFICES ASSUME DecisionInv, NEW s \in Scopes
                PROVE  /\ Prepared(s) => ~EvidenceFails(s) /\ EffectiveState(s) = store.prep[s].cand
                       /\ Open(s) /\ Current(store.latest[s], s) =>
                              EffectiveState(s) # None \/ ReviewRequest(s) # {}
    BY DEF ReceiptBindsDecision
  <2>. DEFINE a == store.latest[s]
  <2>1. ASSUME Prepared(s) PROVE ~EvidenceFails(s) /\ EffectiveState(s) = store.prep[s].cand
    <3>1. Binds(s, a)
      BY <2>1 DEF DecisionInv, Frozen
    <3>2. a \in store.assessments /\ (a.state \in Selecting => a.state \notin Reviewing)
      BY <3>1, LatestIsOfUse DEF Binds
    <3>3. a.state \in Reviewing <=> HasResolution(a)
      BY <3>1, <3>2, SelectedIsCandidate DEF DecisionInv, Binds
    <3>4. ~EvidenceFails(s)
      <4>1. store.prep[s].reviewed = (a.state \in Reviewing) /\ store.prep[s].assessment = a
        <5>1. PICK p : p = store.prep[s]
          OBVIOUS
        <5>2. PICK b : b = a
          OBVIOUS
        <5>3. p = Bind(b)
          BY <3>1, <5>1, <5>2 DEF Binds
        <5>. QED  BY <5>1, <5>2, <5>3 DEF Bind
      <4>2. CandidatesFor(s) # {} /\ Current(a, s)
        BY <3>1 DEF Binds, Current
      <4>. QED  BY <3>3, <4>1, <4>2 DEF EvidenceFails
    <3>5. EffectiveState(s) = store.prep[s].cand
      BY <3>1, <3>2, <3>3 DEF Binds, Bind, EffectiveState, Selected
    <3>. QED  BY <3>4, <3>5
  <2>2. ASSUME Open(s), Current(a, s) PROVE EffectiveState(s) # None \/ ReviewRequest(s) # {}
    <3>1. CASE a.state \in Selecting
      BY <2>2, <3>1, LatestIsOfUse, RequestIsCandidate DEF EffectiveState
    <3>2. CASE a.state \in Reviewing
      BY <2>2, <3>2 DEF ReviewRequest
    <3>. QED  BY <2>2, <3>1, <3>2, LatestIsOfUse
  <2>. QED  BY <2>1, <2>2
<1>. QED  BY <1>1, DecisionAlways, PTL

-----------------------------------------------------------------------------
(* The refinement. *)

\* The map of store.resolutions under which Decision is instantiated.
ReviewsOf(R) == {[set |-> r.assessment.cands, choice |-> r.selected] : r \in R}

\* The review of an assessment is recorded as that of its candidates.
LEMMA ResolutionIsReview ==
    ASSUME Accepted, NEW a \in store.assessments, HasResolution(a)
    PROVE  Decision!Reviewed(a.cands, ResolutionOf(a).selected)
<1>1. PICK r \in store.resolutions : r.assessment = a
  BY DEF HasResolution
<1>2. ResolutionOf(a) = r
  BY <1>1, OneResolution
<1>. QED  BY <1>1, <1>2 DEF Decision!Reviewed

\* The candidates of a scope are the same in both modules.
LEMMA OfScope == ASSUME NEW s PROVE Decision!Of(s) = CandidatesFor(s)
BY DEF Decision!Of, CandidatesFor

\* A step of the coordinator is a step of the decision, or none.
LEMMA DecisionRefined == DecisionInv /\ [Next]_vars => [Decision!Next]_(Decision!vars)
<1>. SUFFICES ASSUME DecisionInv, [Next]_vars PROVE [Decision!Next]_(Decision!vars)
  OBVIOUS
<1>0. Accepted /\ Frozen /\ Ordered /\ store \in Stores
  BY DEF DecisionInv, Accepted
<1>a. ASSUME UNCHANGED <<payload, canon>>, store'.cands = store.cands,
             store'.resolutions = store.resolutions, store'.prep = store.prep
      PROVE  UNCHANGED Decision!vars
  BY <1>a DEF Decision!vars
<1>1. ASSUME NEW c \in Requests, Collect(c) PROVE Decision!Offer(c)
  <2>1. /\ store' = [store EXCEPT !.cands = @ \cup {c}]
        /\ UNCHANGED <<payload, canon>>
        /\ ~Prepared(c.scope) /\ c.scope \in Scopes
    BY <1>1, RequestIsCandidate, CollectionAssumption DEF Collect, Open
  <2>2. /\ store'.cands = store.cands \cup {c}
        /\ store'.resolutions = store.resolutions /\ store'.prep = store.prep
    BY <1>0, <2>1 DEF Stores
  <2>3. store.prep[c.scope].cand = None
    BY <2>1 DEF Prepared, NoPreparation
  <2>. QED  BY <2>1, <2>2, <2>3 DEF Decision!Offer
<1>2. ASSUME NEW s \in Scopes, Assess(s) PROVE UNCHANGED Decision!vars
  <2>1. /\ store'.cands = store.cands /\ store'.resolutions = store.resolutions
        /\ store'.prep = store.prep /\ UNCHANGED <<payload, canon>>
    BY <1>0, <1>2 DEF Assess, Stores
  <2>. QED  BY <2>1, <1>a
<1>3. ASSUME NEW a \in store.assessments, NEW c \in a.cands, ResolveReview(a, c)
      PROVE  \E s \in Scopes : Decision!Review(s, c)
  <2>. DEFINE s == ScopeOf(a)
  <2>1. /\ store' = [store EXCEPT !.resolutions = @ \cup {Resolve(a, c)}]
        /\ UNCHANGED <<payload, canon>>
        /\ ~Prepared(s) /\ Current(a, s) /\ ~HasResolution(a)
    BY <1>3 DEF ResolveReview, Open
  <2>2. /\ store'.cands = store.cands
        /\ store'.resolutions = store.resolutions \cup {Resolve(a, c)}
        /\ store'.prep = store.prep
    BY <1>0, <2>1 DEF Stores
  <2>3. s \in Scopes /\ a.cands = Decision!Of(s) /\ c \in Decision!Of(s)
    <3>1. a.cands = CandidatesFor(s) /\ c \in CandidatesFor(s)
      BY <2>1 DEF Current
    <3>2. s \in Scopes
      BY <1>0, <3>1, CollectionAssumption DEF CandidatesFor, Stores
    <3>. QED  BY <3>1, <3>2, OfScope
  <2>4. ASSUME NEW r \in store.resolutions PROVE r.assessment.cands # a.cands
    <3>1. r.assessment = Reconcile(r.assessment.cands) /\ a = Reconcile(a.cands)
      BY <1>0 DEF Accepted
    <3>. QED  BY <2>1, <3>1 DEF HasResolution
  <2>5. store.prep[s].cand = None
    BY <2>1 DEF Prepared, NoPreparation
  <2>6. ReviewsOf(store'.resolutions)
            = ReviewsOf(store.resolutions) \cup {[set |-> a.cands, choice |-> c]}
    <3>1. Resolve(a, c).assessment = a /\ Resolve(a, c).selected = c
      BY DEF Resolve
    <3>. QED  BY <2>2, <3>1 DEF ReviewsOf
  <2>7. \A q \in ReviewsOf(store.resolutions) : q.set # a.cands
    BY <2>4 DEF ReviewsOf
  <2>8. Decision!Review(s, c)
    <3>. HIDE DEF s
    <3>. QED  BY <2>1, <2>2, <2>3, <2>5, <2>6, <2>7 DEF Decision!Review, ReviewsOf
  <2>. QED  BY <2>3, <2>8
<1>4. ASSUME NEW s \in Scopes, Prepare(s) PROVE \E c \in Requests : Decision!Decide(s, c)
  <2>. DEFINE a == store.latest[s]
  <2>1. /\ store' = [store EXCEPT !.prep[s] = Bind(a)]
        /\ UNCHANGED <<payload, canon>>
        /\ ~Prepared(s) /\ Current(a, s) /\ (a.state \in Selecting \/ HasResolution(a))
    BY <1>4 DEF Prepare, Open, Resolvable
  <2>2. a \in store.assessments
    BY <2>1, LatestIsOfUse
  <2>3. PICK c : c = Selected(a)
    OBVIOUS
  <2>4. c \in a.cands /\ a.cands = Decision!Of(s) /\ c \in Requests
    BY <1>0, <2>1, <2>2, <2>3, SelectedIsCandidate, OfScope DEF Current, Stores, Assessments
  <2>5. Decision!Agree(Decision!Of(s)) \/ Decision!Reviewed(Decision!Of(s), c)
    <3>1. CASE a.state \in Selecting
      <4>1. a = Reconcile(a.cands) /\ IsFiniteSet(a.cands)
        BY <1>0, <2>2, FS_Subset DEF Accepted
      <4>. QED  BY <2>4, <3>1, <4>1, ReconcileAgrees DEF Decision!Agree
    <3>2. CASE a.state \notin Selecting
      BY <1>0, <2>1, <2>2, <2>3, <2>4, <3>2, ResolutionIsReview DEF Selected
    <3>. QED  BY <3>1, <3>2
  <2>6. PICK b : b = Bind(a)
    OBVIOUS
  <2>7. /\ store'.cands = store.cands /\ store'.resolutions = store.resolutions
        /\ store'.prep = [store.prep EXCEPT ![s] = b]
    BY <1>0, <2>1, <2>6 DEF Stores
  <2>8. [t \in Scopes |-> store'.prep[t].cand]
            = [[t \in Scopes |-> store.prep[t].cand] EXCEPT ![s] = c]
    <3>1. b.cand = c
      BY <2>3, <2>6 DEF Bind
    <3>2. store.prep \in [Scopes -> Preparations]
      BY <1>0 DEF Stores
    <3>. QED  BY <2>7, <3>1, <3>2
  <2>9. [t \in Scopes |-> store.prep[t].cand][s] = None
    BY <2>1 DEF Prepared, NoPreparation
  <2>10. Decision!Decide(s, c)
    <3>. HIDE DEF a
    <3>. QED  BY <2>1, <2>4, <2>5, <2>7, <2>8, <2>9 DEF Decision!Decide
  <2>. QED  BY <2>4, <2>10
<1>5. ASSUME RecoverResult PROVE \E s \in Scopes : Decision!Canonize(s)
  <2>1. PICK e : e = CHOOSE x \in Pending : \A f \in Pending : x <= f
    OBVIOUS
  <2>2. e \in Pending
    <3>1. Pending \in SUBSET Nat /\ Pending # {}
      BY <1>5, CollectionAssumption DEF RecoverResult, Pending
    <3>. QED  BY <2>1, <3>1, HasLeast
  <2>3. PICK s \in Scopes : Prepared(s) /\ store.prep[s].cand.exec = e
    BY <1>0, <2>2 DEF Ordered, Pending
  <2>4. store.prep[s].cand # None
    BY <1>0, <2>3 DEF Frozen, Binds
  <2>5. /\ canon' = Append(canon, e)
        /\ UNCHANGED <<payload, store>>
        /\ \A i \in DOMAIN canon : canon[i] # e
    BY <1>5, <2>1, <2>2 DEF RecoverResult, Pending, InCanon
  <2>6. Decision!Canonize(s)
    BY <2>3, <2>4, <2>5 DEF Decision!Canonize
  <2>. QED  BY <2>6
<1>6. ASSUME NEW s \in Scopes, Resume(s) \/ GoStale(s) PROVE UNCHANGED Decision!vars
  BY <1>a, <1>6 DEF Resume, GoStale
<1>7. ASSUME StartInLedger \/ CompleteInLedger \/ BreakOff \/ UNCHANGED vars
      PROVE  UNCHANGED Decision!vars
  BY <1>a, <1>7 DEF StartInLedger, CompleteInLedger, BreakOff, vars
<1>8. ASSUME RecordCommit PROVE UNCHANGED Decision!vars
  <2>1. /\ store'.cands = store.cands /\ store'.resolutions = store.resolutions
        /\ store'.prep = store.prep /\ UNCHANGED <<payload, canon>>
    BY <1>0, <1>8 DEF RecordCommit, Stores
  <2>. QED  BY <2>1, <1>a
<1>9. ASSUME NEW a \in store.assessments, NEW c \in a.cands PROVE c \in Requests
  BY <1>0 DEF Stores, Assessments
<1>. QED  BY <1>1, <1>2, <1>3, <1>4, <1>5, <1>6, <1>7, <1>8, <1>9
          DEF Next, CommitStep, Decision!Next

\* What is collected, reviewed, prepared and recovered is a decision on one
\* candidate in each scope, taken on all candidates there are, and nothing else
\* becomes canonical (Coordinator.Collect, Assess, ResolveReview and
\* CommitResolved implement CandidateDecision).
THEOREM CoordinatorImplementsDecision == Spec => DecisionSpec
<1>1. Init => Decision!Init
  BY DEF Init, Decision!Init, NoPreparation
<1>. QED  BY <1>1, DecisionAlways, DecisionRefined, PTL DEF Spec, DecisionSpec, Decision!Spec

=============================================================================
