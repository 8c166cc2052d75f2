------------------------------ MODULE Recovery ------------------------------
(***************************************************************************)
(* recovery.Coordinator.Recover over the durable state of one task: its    *)
(* event store and tool journal (TaskManager), the engine ledger, the      *)
(* canonical session, the activity timeline and the proof receipts.        *)
(*                                                                         *)
(* A pass of Recover is a sequence of durable writes, one action each; the *)
(* process may crash between any two of them, and then only the files      *)
(* remain.  The engine store is shared with the adapters that report       *)
(* results (Coordinator.EngineStore), so they may do so during a pass; the *)
(* task store of the coordinator is its own, so the manager does not work  *)
(* during a pass.  A write that fails ends the pass like a crash does.     *)
(*                                                                         *)
(* The result of execution e is e: result ids are derived from execution   *)
(* ids (engineruntime.deterministicResultID).                              *)
(***************************************************************************)
EXTENDS TaskManager, Sequences

CONSTANTS
    Executions,   \* execution ids, ordered as Recover sorts them
    Resumable     \* those with a durable external thread

ASSUME ExecutionsAssumption == Executions \subseteq Nat /\ Resumable \subseteq Executions

VARIABLES
    started, completed, committed,  \* the engine ledger: StartOnce, CompleteResultOnce, MarkCommittedOnce
    session,    \* canonical session file: results applied to it, in order
    timeline,   \* activity timeline: recovery decisions
    receipts,   \* proof receipts saved
    proofs,     \* proof events on the timeline
    pc,         \* where the pass is
    todo,       \* steps or executions the current loop has left
    copy,       \* the session as the pass holds it in memory
    outcome,    \* how the last pass ended
    settled     \* has a whole pass gone by since anything else happened

ledger == <<started, completed, committed>>
files  == <<ledger, session, timeline, receipts, proofs>>
rvars  == <<files, pc, todo, copy, outcome, settled>>
vars   == <<mvars, rvars>>

ToolDecision   == {"reused", "blocked", "retry"}
EngineDecision == {"applied", "reconciled", "resume", "input"}

EventId == [domain : {"tool"}, decision : ToolDecision, ref : Steps]
             \cup [domain : {"engine"}, decision : EngineDecision, ref : Executions]

\* The hash of a decision's data: the line of the journal record for a tool,
\* and a constant for an engine, whose ledger records never change.
Events == [id : EventId, hash : Nat]

\* What identifies a receipt: the non-proof events of the task and its checks.
Evidence == [events : SUBSET EventId, updates : Nat]

Passes == {"idle", "tools", "results", "saved", "noteApplied", "noteReconciled",
           "executions", "interrupted", "receipt", "proof"}

ToolEvent(d, s)   == [domain |-> "tool", decision |-> d, ref |-> s]
EngineEvent(d, e) == [domain |-> "engine", decision |-> d, ref |-> e]

\* timeline.Store.AppendOnce: a known id is accepted again only with the same
\* content.
Conflicts(id, hash) == \E ev \in timeline : ev.id = id /\ ev.hash # hash

\* HasCanonicalResult on a session: the marker of e is there.
HasResult(sess, e) == \E i \in DOMAIN sess : sess[i] = e

Least(S) == CHOOSE e \in S : \A f \in S : e <= f

\* Recover is about to return: with an error, or with a report.
Fail ==
    /\ pc' = "idle"
    /\ todo' = {}
    /\ copy' = <<>>
    /\ outcome' = "error"
    /\ settled' = "no"

\* recordDecision, and on to the rest of the loop at pc "back".
Record(id, hash, item, back) ==
    IF Conflicts(id, hash)
    THEN Fail /\ UNCHANGED timeline
    ELSE /\ timeline' = timeline \cup {[id |-> id, hash |-> hash]}
         /\ todo' = todo \ {item}
         /\ pc' = back
         /\ UNCHANGED <<copy, outcome, settled>>

-----------------------------------------------------------------------------
\* The engine side: what an adapter reports, at any time.

StartExecution(e) ==
    /\ e \notin started
    /\ started' = started \cup {e}
    /\ settled' = "no"
    /\ UNCHANGED <<mvars, completed, committed, session, timeline, receipts, proofs,
                   pc, todo, copy, outcome>>

CompleteResult(e) ==
    /\ e \in started \ completed
    /\ completed' = completed \cup {e}
    /\ settled' = "no"
    /\ UNCHANGED <<mvars, started, committed, session, timeline, receipts, proofs,
                   pc, todo, copy, outcome>>

\* The task side: the manager works between passes.
Work ==
    /\ pc = "idle"
    /\ (\E c \in Callers : CallerStep(c)) \/ UserStep
    /\ settled' = "no"
    /\ UNCHANGED <<files, pc, todo, copy, outcome>>

-----------------------------------------------------------------------------
\* Recover.

\* Recover reads the task and loads the session.
BeginPass ==
    /\ pc = "idle"
    /\ \A c \in Callers : At(c, "idle")
    /\ pc' = "tools"
    /\ todo' = {s \in Steps : Known(task, s)}
    /\ copy' = session
    /\ settled' = IF settled = "yes" THEN "yes" ELSE "pass"
    /\ UNCHANGED <<mvars, files, outcome>>

\* reconcileTools: what the journal says of step s.
Reused(s)  == journal[s].state = "completed"
Blocked(s) == journal[s].state \in {"started", "failed"} /\ journal[s].policy = "forbidden"
Retried(s) == journal[s].state \in {"started", "failed"} /\ journal[s].policy # "forbidden"

\* The task event comes first, when the step does not have its status yet.
\* The code takes the steps in the order of their ids; here the order is open.
\* A step the task knows always has a record, because BeginStep writes to the
\* journal before it writes to the task.
ReconcileStep(s) ==
    /\ pc = "tools" /\ s \in todo
    /\ \/ Reused(s) /\ task.steps[s] # "completed" /\ task' = StepCompleted(task, s)
       \/ Blocked(s) /\ task.steps[s] # "ambiguous" /\ task' = StepAmbiguous(task, s)
    /\ UNCHANGED <<journal, runs, call, crashes, rvars>>

\* Variant: a decision is recorded without its task event.
RecordToolOnly(s) ==
    /\ pc = "tools" /\ s \in todo
    /\ \E d \in ToolDecision :
          /\ \/ d = "reused" /\ Reused(s)
             \/ d = "blocked" /\ Blocked(s)
             \/ d = "retry" /\ Retried(s)
          /\ Record(ToolEvent(d, s), journal[s].line, s, "tools")
    /\ UNCHANGED <<mvars, ledger, session, receipts, proofs>>

RecordTool(s) ==
    /\ pc = "tools" /\ s \in todo
    /\ \E d \in ToolDecision :
          /\ \/ d = "reused" /\ Reused(s) /\ task.steps[s] = "completed"
             \/ d = "blocked" /\ Blocked(s) /\ task.steps[s] = "ambiguous"
             \/ d = "retry" /\ Retried(s)
          /\ Record(ToolEvent(d, s), journal[s].line, s, "tools")
    /\ UNCHANGED <<mvars, ledger, session, receipts, proofs>>

\* Variant: executions without a result are taken along.
BeginResultsStarted ==
    /\ pc = "tools" /\ todo = {}
    /\ pc' = "results"
    /\ todo' = started \ committed
    /\ UNCHANGED <<mvars, files, copy, outcome, settled>>

\* Variant: a task that has ended commits nothing any more.
BeginResultsLive ==
    /\ pc = "tools" /\ todo = {}
    /\ pc' = "results"
    /\ todo' = IF task.status \in Terminal THEN {} ELSE completed \ committed
    /\ UNCHANGED <<mvars, files, copy, outcome, settled>>

\* reconcileResults works on the results there are when it starts.
BeginResults ==
    /\ pc = "tools" /\ todo = {}
    /\ pc' = "results"
    /\ todo' = completed \ committed
    /\ UNCHANGED <<mvars, files, copy, outcome, settled>>

\* Variant: the marker in the session is not looked at.
SaveResultAgain ==
    /\ pc = "results" /\ todo # {}
    /\ copy' = Append(copy, Least(todo))
    /\ session' = copy'
    /\ pc' = "saved"
    /\ UNCHANGED <<mvars, ledger, timeline, receipts, proofs, todo, outcome, settled>>

\* ApplyResultToSession and session.Save, for a result without its marker.
SaveResult ==
    /\ pc = "results" /\ todo # {}
    /\ LET e == Least(todo)
       IN  /\ ~HasResult(copy, e)
           /\ copy' = Append(copy, e)
           /\ session' = copy'
    /\ pc' = "saved"
    /\ UNCHANGED <<mvars, ledger, timeline, receipts, proofs, todo, outcome, settled>>

\* Variant: the commit line is written only for a marker that was there.
MarkReconciled ==
    /\ todo # {}
    /\ \/ pc = "saved" /\ pc' = "noteApplied" /\ UNCHANGED committed
       \/ /\ pc = "results" /\ HasResult(copy, Least(todo)) /\ pc' = "noteReconciled"
          /\ committed' = committed \cup {Least(todo)}
    /\ UNCHANGED <<mvars, started, completed, session, timeline, receipts, proofs,
                   todo, copy, outcome, settled>>

\* MarkCommittedOnce, after the save or because the marker was there.
MarkResult ==
    /\ todo # {}
    /\ \/ pc = "saved" /\ pc' = "noteApplied"
       \/ pc = "results" /\ HasResult(copy, Least(todo)) /\ pc' = "noteReconciled"
    /\ committed' = committed \cup {Least(todo)}
    /\ UNCHANGED <<mvars, started, completed, session, timeline, receipts, proofs,
                   todo, copy, outcome, settled>>

RecordResult ==
    /\ pc \in {"noteApplied", "noteReconciled"} /\ todo # {}
    /\ LET e == Least(todo)
           d == IF pc = "noteApplied" THEN "applied" ELSE "reconciled"
       IN  Record(EngineEvent(d, e), 0, e, "results")
    /\ UNCHANGED <<mvars, ledger, session, receipts, proofs>>

\* reconcileInterruptedExecutions reads the executions first, the results
\* after.
ReadExecutions ==
    /\ pc = "results" /\ todo = {}
    /\ pc' = "executions"
    /\ todo' = started
    /\ UNCHANGED <<mvars, files, copy, outcome, settled>>

ReadResults ==
    /\ pc = "executions"
    /\ pc' = "interrupted"
    /\ todo' = todo \ completed
    /\ UNCHANGED <<mvars, files, copy, outcome, settled>>

\* A live task that does not wait for this execution yet is made to.
MustAsk(e) ==
    /\ e \notin Resumable
    /\ task.status \notin Terminal
    /\ task.status # "input_required" \/ task.needs # InterruptedReason(e)

AskForInput ==
    /\ pc = "interrupted" /\ todo # {}
    /\ MustAsk(Least(todo))
    /\ task' = InputRequested(task, InterruptedReason(Least(todo)))
    /\ UNCHANGED <<journal, runs, call, crashes, rvars>>

RecordInterrupted ==
    /\ pc = "interrupted" /\ todo # {}
    /\ ~MustAsk(Least(todo))
    /\ LET e == Least(todo)
           d == IF e \in Resumable THEN "resume" ELSE "input"
       IN  Record(EngineEvent(d, e), 0, e, "interrupted")
    /\ UNCHANGED <<mvars, ledger, session, receipts, proofs>>

EndInterrupted ==
    /\ pc = "interrupted" /\ todo = {}
    /\ pc' = "receipt"
    /\ UNCHANGED <<mvars, files, todo, copy, outcome, settled>>

\* ensureReceipt: Build, SaveOnce, and the proof event.
ReceiptDue == task.status = "completed" /\ ProgressComplete(task)

\* Variant: the proof events count as evidence.
EvidenceOfProofs ==
    [events |-> {ev.id : ev \in timeline}, updates |-> task.updates + Cardinality(proofs)]

CurrentEvidence == [events |-> {ev.id : ev \in timeline}, updates |-> task.updates]

SaveReceipt ==
    /\ pc = "receipt" /\ ReceiptDue
    /\ receipts' = receipts \cup {CurrentEvidence}
    /\ pc' = "proof"
    /\ UNCHANGED <<mvars, ledger, session, timeline, proofs, todo, copy, outcome, settled>>

\* The pass returns its report.
EndPass ==
    /\ \/ pc = "receipt" /\ ~ReceiptDue /\ UNCHANGED proofs
       \/ pc = "proof" /\ proofs' = proofs \cup {CurrentEvidence}
    /\ pc' = "idle"
    /\ copy' = <<>>
    /\ outcome' = "ok"
    /\ settled' = IF settled = "no" THEN "no" ELSE "yes"
    /\ UNCHANGED <<mvars, ledger, session, timeline, receipts, todo>>

\* The process dies, with the callers and the pass.
CrashProcess ==
    /\ Crash
    /\ pc' = "idle"
    /\ todo' = {}
    /\ copy' = <<>>
    /\ settled' = IF settled = "yes" THEN "yes" ELSE "no"
    /\ UNCHANGED <<files, outcome>>

-----------------------------------------------------------------------------

Init ==
    /\ MInit
    /\ started = {} /\ completed = {} /\ committed = {}
    /\ session = <<>>
    /\ timeline = {}
    /\ receipts = {} /\ proofs = {}
    /\ pc = "idle"
    /\ todo = {}
    /\ copy = <<>>
    /\ outcome = "none"
    /\ settled = "no"

\* The steps of a pass.
PassStep ==
    \/ \E s \in Steps : ReconcileStep(s) \/ RecordTool(s)
    \/ BeginResults \/ SaveResult \/ MarkResult \/ RecordResult
    \/ ReadExecutions \/ ReadResults
    \/ AskForInput \/ RecordInterrupted \/ EndInterrupted
    \/ SaveReceipt \/ EndPass

EngineStep == \E e \in Executions : StartExecution(e) \/ CompleteResult(e)

Next == EngineStep \/ Work \/ BeginPass \/ PassStep \/ CrashProcess

Spec == Init /\ [][Next]_vars

\* Whoever reopens a task runs Recover, and a pass once begun goes on; nothing
\* is assumed of engines, callers and the user.
FairSpec == Spec /\ WF_vars(BeginPass) /\ WF_vars(PassStep)

-----------------------------------------------------------------------------
\* Properties.

Reasons == {NoReason, UserReason, AmbiguousReason}
             \cup {InterruptedReason(e) : e \in Executions}

\* The variables keep their types: what the files and a pass can hold.
TypeOK ==
    /\ task \in TaskStates(Reasons)
    /\ journal \in [Steps -> Records]
    /\ runs \in [Steps -> Nat]
    /\ call \in [Callers -> Calls \cup {Idle}]
    /\ crashes \in Nat
    /\ started \in SUBSET Executions
    /\ completed \in SUBSET Executions
    /\ committed \in SUBSET Executions
    /\ session \in Seq(Executions)
    /\ timeline \in SUBSET Events
    /\ receipts \in SUBSET Evidence
    /\ proofs \in SUBSET Evidence
    /\ pc \in Passes
    /\ todo \in (SUBSET Executions) \cup (SUBSET Steps)
    /\ copy \in Seq(Executions)
    /\ outcome \in {"none", "ok", "error"}
    /\ settled \in {"no", "pass", "yes"}

\* A result is in the canonical session at most once, only if an engine
\* produced it, and always when the ledger says it was committed - whatever
\* the crash windows between the save of the session and the commit line
\* (reconcileResults; PROOF_0.12 items 5 and 6).
CommittedExactlyOnce ==
    /\ \A i, j \in DOMAIN session : session[i] = session[j] => i = j
    /\ \A i \in DOMAIN session : session[i] \in completed
    /\ \A e \in committed : HasResult(session, e)

\* The evidence tells one story of a commit: a result is noted as applied or
\* as reconciled after a crash, never both, and only once it is committed
\* (reconcileResults: save, commit line, then the decision).
OneCommitDecision ==
    \A e \in Executions :
        LET Noted(d) == \E ev \in timeline : ev.id = EngineEvent(d, e)
        IN  /\ ~(Noted("applied") /\ Noted("reconciled"))
            /\ Noted("applied") \/ Noted("reconciled") => e \in committed

\* After a whole pass with nothing else happening, the stores agree: steps say
\* what the journal says, produced results are canonical, interrupted
\* executions have their decision, and a completed task has its receipt with
\* its proof event.
StoresAgree ==
    settled = "yes" /\ pc = "idle" =>
        /\ \A s \in Steps : Known(task, s) =>
              /\ Reused(s) => task.steps[s] = "completed"
              /\ Blocked(s) => task.steps[s] = "ambiguous"
        /\ completed = committed
        /\ \A e \in started \ completed :
              \E ev \in timeline : ev.id \in {EngineEvent("resume", e), EngineEvent("input", e)}
        /\ ReceiptDue => CurrentEvidence \in receipts \cap proofs

\* A second pass with nothing in between writes nothing: no task event, no
\* decision, no session change, no commit, no receipt, even when it crashes on
\* the way (PROOF_0.12 items 2 and 11).
RepeatIsSilent ==
    [][settled = "yes" /\ settled' = "yes"
       => UNCHANGED <<task, files>>]_vars

\* A non-repeatable tool operation that was interrupted, and that no caller
\* has in hand any more, is never taken up again by anything that follows:
\* its tool does not run and its record does not change (Journal.Begin,
\* reconcileTools; PROOF_0.12 items 1 and 3).
InterruptedStaysBlocked ==
    [][\A s \in Steps :
          Blocked(s) /\ (\A c \in Callers : ~Holds(c, s))
          => /\ journal'[s] = journal[s] /\ runs'[s] = runs[s]
             /\ \A c \in Callers : ~Holds(c, s)']_vars

\* Every result an engine produced is committed in the end
\* (PROOF_0.12 item 5).
ResultsGetCommitted ==
    \A e \in Executions : e \in completed ~> e \in committed

\* The promise of CanonicalCommit, kept by the ledger and the session file.
Canonical == INSTANCE CanonicalCommit WITH produced <- completed, canon <- session

CanonicalSpec == Canonical!Spec
=============================================================================
