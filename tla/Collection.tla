----------------------------- MODULE Collection -----------------------------
(***************************************************************************)
(* candidatecollection.Coordinator over its Store, with the validator, the *)
(* reconciler and the recovery port of keydeck_adapters.go.                *)
(*                                                                         *)
(* The store is an append-only file of events.  An event is appended only  *)
(* if the state that the earlier events add up to accepts it, and OpenStore*)
(* replays the file under the same rules, so a restart finds the state as  *)
(* it was; "store" is that state.  Every operation holds lifecycleMu.      *)
(* CommitResolved is the one that writes more than one file: it appends    *)
(* the preparation, has recovery put the result into the canonical         *)
(* session, and appends the commit; the process may crash in between, and  *)
(* Recover may fail.                                                       *)
(*                                                                         *)
(* A record is identified by a hash of its content: here it is its content.*)
(* The evidence of a candidate is whether it contains a verification.      *)
(***************************************************************************)
EXTENDS Naturals, Sequences, FiniteSets

CONSTANTS
    Scopes,      \* a task and a handoff package
    Executions,  \* completed engine executions; each has one result
    Payloads,    \* what a result may contain
    Requests,    \* the collect requests that are made: an execution, a scope
                 \* and whether the runtime evidence contains a verification
    MaxFaults    \* bound: crashes and failures of Recover

ASSUME CollectionAssumption ==
    /\ Executions \subseteq Nat \ {0}   \* 0 names no execution
    /\ Requests \subseteq [exec : Executions, scope : Scopes, verified : BOOLEAN]
    /\ MaxFaults \in Nat

VARIABLES
    payload,  \* result payload of each execution, in the candidate ledger
    current,  \* scopes whose package and route are still the current ones
    store,    \* what the event file adds up to
    op,       \* the CommitResolved that runs, and what it does next
    ledger,   \* each execution in the ledger that recovery reads
    canon,    \* the canonical session: results applied to it, in order
    faults    \* crashes and failures so far (bounded)

vars == <<payload, current, store, op, ledger, canon, faults>>

None == [exec |-> 0, scope |-> "none", verified |-> FALSE]
Selecting == {"single_verified", "agreement"}
Reviewing == {"disagreement", "needs_review"}

NoAssessment  == [cands |-> {}, state |-> "none", selected |-> None]
NoPreparation == [cand |-> None, assessment |-> NoAssessment, reviewed |-> FALSE]
NoOp          == [scope |-> "none", at |-> "none"]

\* What the identity of a record is the hash of: a candidate's request without
\* its time, and what an event may carry at all.
CandidateOf(r) == [exec |-> r.exec, scope |-> r.scope, verified |-> r.verified]

\* validateAssessmentRecord.
ValidAssessment(a) ==
    /\ a.cands # {}
    /\ a.state \in Selecting => a.selected \in a.cands
    /\ a.state \in Reviewing => a.selected = None

ValidResolution(r)  == ValidAssessment(r.assessment) /\ r.selected # None
ValidPreparation(p) == p.cand # None /\ ValidAssessment(p.assessment)

-----------------------------------------------------------------------------
\* Store: what its state answers.

CandidatesFor(s) == {c \in store.cands : c.scope = s}
Committed(s)     == store.commit[s]
Prepared(s)      == store.prep[s] # NoPreparation

\* Variant: only the commit closes a scope.
OpenUntilCommitted(s) == ~Committed(s)

\* Collection, assessment and review go on in a scope that is neither
\* committed nor prepared: the operations return early and the store refuses.
Open(s) == ~Committed(s) /\ ~Prepared(s)

ScopeOf(a) == (CHOOSE c \in a.cands : TRUE).scope

\* Variant: an assessment is of use as long as its candidates are there.
CurrentWhileThere(a, s) == a.cands # {} /\ a.cands \subseteq CandidatesFor(s)

\* ensureAssessmentCurrent: the hash of the candidate set is still the same.
Current(a, s) == a.cands # {} /\ a.cands = CandidatesFor(s)

HasResolution(a)     == \E r \in store.resolutions : r.assessment = a
ResolutionOf(a)      == CHOOSE r \in store.resolutions : r.assessment = a
Resolve(a, c)        == [assessment |-> a, selected |-> c]

\* EvidenceReconciler.Assess: agreement is that of all candidates, verified;
\* a majority never selects.
Select(C) == CHOOSE c \in C : \A d \in C : c.exec <= d.exec

Reconcile(C) ==
    LET verified == \A c \in C : c.verified
        same     == \A c, d \in C : payload[c.exec] = payload[d.exec]
        state    == IF ~verified THEN "needs_review"
                    ELSE IF Cardinality(C) = 1 THEN "single_verified"
                    ELSE IF same THEN "agreement" ELSE "disagreement"
    IN  [cands |-> C, state |-> state,
         selected |-> IF state \in Selecting THEN Select(C) ELSE None]

\* currentResolvedInput: the candidate the latest assessment, or the review
\* of it, selects.
Resolvable(s) ==
    LET a == store.latest[s] IN
    /\ a # NoAssessment
    /\ Current(a, s)
    /\ a.state \in Selecting \/ HasResolution(a)

Selected(a) == IF a.state \in Selecting THEN a.selected ELSE ResolutionOf(a).selected

\* The recovery operation that an assessment, and the review of it, bind, and
\* the preparation that is made of it.
Bind(a) == [cand |-> Selected(a), assessment |-> a, reviewed |-> a.state \in Reviewing]

\* ReviewRequest: the assessment a reviewer is shown.
ReviewRequest(s) ==
    LET a == store.latest[s]
    IN  {b \in {a} : Open(s) /\ Current(b, s) /\ b.state \in Reviewing}

\* EffectiveState: the candidate a user is told of, None before there is one.
EffectiveState(s) ==
    LET a == store.latest[s]
    IN  IF a.state \in Reviewing /\ HasResolution(a) THEN ResolutionOf(a).selected ELSE a.selected

\* resolvedInputForPreparation: what the preparation names is still there and
\* binds the same operation.
Rebinds(p, s) ==
    /\ p.cand \in store.cands
    /\ Current(p.assessment, s)
    /\ p.reviewed => HasResolution(p.assessment)
    /\ p = Bind(p.assessment)

\* Store.Evidence, for the receipt of a scope: no error, and what it binds.
EvidenceFails(s) ==
    LET a == store.latest[s] IN
    \/ CandidatesFor(s) = {}
    \/ a # NoAssessment /\ ~Current(a, s)
    \/ Prepared(s) /\ \/ a # store.prep[s].assessment
                      \/ ~(store.prep[s].reviewed <=> HasResolution(a))

-----------------------------------------------------------------------------
\* Coordinator: operations of one step.

Idle == op = NoOp

\* Collect, on a result whose task, package, route and runtime evidence the
\* validator finds current.  A repeated request appends a reuse event only; the
\* same result with other evidence, or in another scope, is a conflict.
Collect(c) ==
    /\ Idle
    /\ Open(c.scope)
    /\ c.scope \in current
    /\ \A d \in store.cands : d.exec = c.exec => d = CandidateOf(c)
    /\ store' = [store EXCEPT !.cands = @ \cup {CandidateOf(c)}]
    /\ UNCHANGED <<payload, current, op, ledger, canon, faults>>

Assess(s) ==
    /\ Idle
    /\ Open(s)
    /\ CandidatesFor(s) # {}
    /\ LET a == Reconcile(CandidatesFor(s)) IN
       /\ ValidAssessment(a)
       /\ store' = [store EXCEPT !.assessments = @ \cup {a}, !.latest[s] = a]
    /\ UNCHANGED <<payload, current, op, ledger, canon, faults>>

\* ResolveReview, of an assessment the reviewer was shown earlier, with
\* decisive evidence.  A second resolution is the first one or a conflict.
ResolveReview(a, c) ==
    /\ Idle
    /\ Open(ScopeOf(a))
    /\ Current(a, ScopeOf(a))
    /\ a.state \in Reviewing
    /\ c \in a.cands
    /\ ~HasResolution(a)
    /\ ValidResolution(Resolve(a, c))
    /\ store' = [store EXCEPT !.resolutions = @ \cup {Resolve(a, c)}]
    /\ UNCHANGED <<payload, current, op, ledger, canon, faults>>

-----------------------------------------------------------------------------
\* CommitResolved.

OpAt(at)  == op.at = at
OpTo(at)  == op' = [op EXCEPT !.at = at]
Target    == store.prep[op.scope].cand.exec

\* The first call: the preparation is durable before recovery is called.
Prepare(s) ==
    /\ Idle
    /\ Open(s)
    /\ Resolvable(s)
    /\ LET p == Bind(store.latest[s]) IN
       ValidPreparation(p) /\ store' = [store EXCEPT !.prep[s] = p]
    /\ op' = [scope |-> s, at |-> "start"]
    /\ UNCHANGED <<payload, current, ledger, canon, faults>>

\* A later call finds the preparation and repeats that operation.
Resume(s) ==
    /\ Idle
    /\ ~Committed(s)
    /\ Prepared(s)
    /\ Rebinds(store.prep[s], s)
    /\ op' = [scope |-> s, at |-> "start"]
    /\ UNCHANGED <<payload, current, store, ledger, canon, faults>>

\* Variant: the port starts the execution without asking whether it is there.
StartInLedgerNew ==
    /\ OpAt("start")
    /\ ledger[Target] = "none"
    /\ ledger' = [ledger EXCEPT ![Target] = "started"]
    /\ OpTo("complete")
    /\ UNCHANGED <<payload, current, store, canon, faults>>

\* KeyDeckRecoveryPort.CommitResolvedCandidate: StartOnce unless it is there,
StartInLedger ==
    /\ OpAt("start")
    /\ ledger' = [ledger EXCEPT ![Target] = IF @ = "none" THEN "started" ELSE @]
    /\ OpTo("complete")
    /\ UNCHANGED <<payload, current, store, canon, faults>>

\* ... CompleteResultOnce likewise,
CompleteInLedger ==
    /\ OpAt("complete")
    /\ ledger' = [ledger EXCEPT ![Target] = "completed"]
    /\ OpTo("recover")
    /\ UNCHANGED <<payload, current, store, canon, faults>>

InCanon(e) == \E i \in DOMAIN canon : canon[i] = e
Pending    == {e \in Executions : ledger[e] = "completed" /\ ~InCanon(e)}

\* ... and Coordinator.Recover, which applies every completed result that the
\* session lacks, those another scope left behind too (module Recovery).
RecoverResult ==
    /\ OpAt("recover")
    /\ Pending # {}
    /\ canon' = Append(canon, CHOOSE e \in Pending : \A f \in Pending : e <= f)
    /\ UNCHANGED <<payload, current, store, op, ledger, faults>>

\* The port found the result committed: the commit is appended.
RecordCommit ==
    /\ OpAt("recover")
    /\ Pending = {}
    /\ InCanon(Target)
    /\ store' = [store EXCEPT !.commit[op.scope] = TRUE]
    /\ op' = NoOp
    /\ UNCHANGED <<payload, current, ledger, canon, faults>>

\* The port, or the hook after it, returns an error; or the process crashes
\* and the store is opened again.  Either way the call is over.
BreakOff ==
    /\ ~Idle
    /\ faults < MaxFaults
    /\ faults' = faults + 1
    /\ op' = NoOp
    /\ UNCHANGED <<payload, current, store, ledger, canon>>

\* The task or the project moves on: packages and routes of s stay stale.
GoStale(s) ==
    /\ current' = current \ {s}
    /\ UNCHANGED <<payload, store, op, ledger, canon, faults>>

-----------------------------------------------------------------------------
CommitStep == StartInLedger \/ CompleteInLedger \/ RecoverResult \/ RecordCommit

Init ==
    /\ payload \in [Executions -> Payloads]
    /\ current = Scopes
    /\ store = [cands |-> {}, assessments |-> {}, resolutions |-> {},
                latest |-> [s \in Scopes |-> NoAssessment],
                prep |-> [s \in Scopes |-> NoPreparation],
                commit |-> [s \in Scopes |-> FALSE]]
    /\ op = NoOp
    /\ ledger = [e \in Executions |-> "none"]
    /\ canon = <<>>
    /\ faults = 0

Next ==
    \/ \E c \in Requests : Collect(c)
    \/ \E a \in store.assessments : \E c \in a.cands : ResolveReview(a, c)
    \/ \E s \in Scopes : Assess(s) \/ Prepare(s) \/ Resume(s) \/ GoStale(s)
    \/ CommitStep
    \/ BreakOff

\* A call that runs goes on, and the caller of CommitResolved repeats the call
\* for a scope it prepared until it is told of the commit.
Fairness == WF_vars(CommitStep) /\ \A s \in Scopes : WF_vars(Resume(s))

Spec == Init /\ [][Next]_vars /\ Fairness

-----------------------------------------------------------------------------
\* Properties.

\* The coordinator implements CandidateDecision: a scope is decided when its
\* preparation is durable.  (Coordinator.CommitResolved, ensureAssessmentCurrent,
\* the guards of Collect, Assess and ResolveReview.)  A candidate that arrives
\* between an assessment or a review and the commit must not be passed over.
Decision == INSTANCE CandidateDecision WITH
    Undecided <- None,
    Candidates <- Requests,
    offered   <- store.cands,
    reviews   <- {[set |-> r.assessment.cands, choice |-> r.selected] : r \in store.resolutions},
    decided   <- [s \in Scopes |-> store.prep[s].cand]

DecisionSpec == Decision!Spec

\* The receipt of a scope whose decision is durable can always be made, and it
\* binds the very assessment and review the decision was taken by, whatever
\* happened before and after; and the candidate that a user is told of is the
\* one that recovery was given, and while there is none a reviewer is asked
\* (Store.Evidence, EffectiveState, ReviewRequest, coordinator.go:373).
ReceiptBindsDecision ==
    \A s \in Scopes :
        /\ Prepared(s) => ~EvidenceFails(s) /\ EffectiveState(s) = store.prep[s].cand
        /\ Open(s) /\ Current(store.latest[s], s) =>
               EffectiveState(s) # None \/ ReviewRequest(s) # {}

\* A scope that is prepared gets committed however often the call for it broke
\* off between the preparation and the commit, and although the package may
\* have become stale (Coordinator.CommitResolved, coordinator.go:329).
PreparedGetsCommitted == \A s \in Scopes : Prepared(s) ~> Committed(s)
=============================================================================
