--------------------------- MODULE EngineRuntime ---------------------------
(***************************************************************************)
(* engineruntime.Runtime: the durable life of an engine execution.  Each   *)
(* call of Invoke or Cancel reads and writes the runtime store, the engine *)
(* ledger and the timeline one line at a time; calls run concurrently and  *)
(* the process may crash between any two writes.                           *)
(*                                                                         *)
(* Operation "start" stands for Start and Continue, which Invoke treats    *)
(* alike.  BeginOnce and CompleteResultOnce put the current time in the    *)
(* payload: a second one for the same id is an event conflict, or, when    *)
(* both read the same time off the clock, accepted as the same event.      *)
(* What the coordinator does with durable results is CanonicalCommit,      *)
(* which Recovery implements.                                              *)
(***************************************************************************)
EXTENDS Sequences, Naturals, FiniteSets

CONSTANTS
    Executions,   \* execution ids
    Callers,      \* goroutines that call the runtime
    Handles,      \* external handles an adapter may return
    MaxResumes,   \* bound: calls of adapter.Resume after which no resume is asked
    MaxCrashes    \* bound: crashes of the process

ASSUME RuntimeAssumption ==
    MaxResumes \in Nat /\ MaxCrashes \in Nat /\ IsFiniteSet(Callers)

VARIABLES
    disp,     \* runtime store: disposition of each execution
    moves,    \* runtime store: the dispositions that were ever set
    binding,  \* runtime store: its durable binding
    started,  \* engine ledger: the handle each execution was started with
    results,  \* engine ledger: executions with a durable result
    noted,    \* timeline: dispositions recorded
    canon,    \* the canonical session (CanonicalCommit)
    starts,   \* calls of adapter.Start, for each execution
    resumes,  \* calls of adapter.Resume
    ties,     \* history: calls that read the same time in BeginOnce as the first
    call,     \* where each caller is in its call of the runtime
    crashes   \* crashes so far (bounded)

stores == <<disp, moves, binding, started, results, noted>>
adapter == <<starts, resumes, ties>>
vars == <<stores, canon, adapter, call, crashes>>

Outcomes     == {"completed", "resume_required", "input_required", "failed", "cancelled"}
Dispositions == {"none", "running"} \cup Outcomes
Terminal     == {"completed", "failed", "cancelled"}

NoHandle  == "no handle"
Bindings  == [handle : Handles, resumable : BOOLEAN]
NoBinding == [handle |-> NoHandle, resumable |-> FALSE]

\* The engine ledger does not know the execution.
NotStarted == [handle |-> NoHandle, resumable |-> TRUE]

\* What an adapter answers.  An error and a missing or unknown disposition
\* are treated as "failed".
Answers == [disposition : Outcomes, handle : Handles \cup {NoHandle}, resumable : BOOLEAN]

Phase == {"begin", "result?", "binding?", "probe", "invoke", "working", "bind", "ledger",
          "result", "cancel", "set", "read", "note"}

\* A call: "target" is the disposition it means to set and, in phase "note",
\* the one it read afterwards; "answer" is what the adapter returned.
Calls == [phase : Phase, exec : Executions, op : {"start", "resume", "cancel"},
          target : Dispositions, answer : Answers]

Idle == [phase |-> "idle"]
NoAnswer == [disposition |-> "failed", handle |-> NoHandle, resumable |-> FALSE]

At(c, phase)   == call[c].phase = phase
Goto(c, phase) == call' = [call EXCEPT ![c].phase = phase]
Set(c, target) == call' = [call EXCEPT ![c].phase = "set", ![c].target = target]
Return(c)      == call' = [call EXCEPT ![c] = Idle]
Enter(c, e, op, phase) ==
    call' = [call EXCEPT ![c] = [phase |-> phase, exec |-> e, op |-> op,
                                 target |-> "none", answer |-> NoAnswer]]

\* Variant: anything may be cancelled.
AllowedCancel(from, to) ==
    \/ from = to \/ to = "cancelled"
    \/ from = "running" /\ to \in Outcomes
    \/ from = "resume_required" /\ to \in Outcomes \ {"resume_required"}

\* allowedTransition.
Allowed(from, to) ==
    \/ from = to
    \/ from = "running" /\ to \in Outcomes
    \/ from = "resume_required" /\ to \in Outcomes \ {"resume_required"}

HasBinding(e) == binding[e] # NoBinding /\ binding[e].resumable

-----------------------------------------------------------------------------
\* Invoke.

\* Invoke looks the execution up; only these cases go on, the others return
\* what is stored, or an error, and change nothing.
EnterInvoke(c, e, op) ==
    /\ At(c, "idle")
    /\ \/ disp[e] = "none" /\ op = "start" /\ Enter(c, e, op, "begin")
       \/ /\ disp[e] = "resume_required" /\ op = "resume"
          /\ resumes[e] < MaxResumes
          /\ Enter(c, e, op, "probe")
       \/ disp[e] = "running" /\ Enter(c, e, op, "result?")
    /\ UNCHANGED <<stores, canon, adapter, crashes>>

\* Variant: an execution begun meanwhile is begun again.
BeginAnyway(c) ==
    /\ At(c, "begin")
    /\ disp' = [disp EXCEPT ![call[c].exec] = "running"]
    /\ Goto(c, "probe")
    /\ UNCHANGED <<moves, binding, started, results, noted, canon, adapter, crashes>>

\* BeginOnce: an execution begun meanwhile is an event conflict, unless the
\* time read off the clock is the one it was begun at; then nothing is
\* appended, and Invoke, which does not ask whether it was, goes on.
Begin(c) ==
    LET e == call[c].exec
    IN  /\ At(c, "begin")
        /\ \/ /\ disp[e] = "none"
              /\ disp' = [disp EXCEPT ![e] = "running"]
              /\ Goto(c, "probe")
              /\ UNCHANGED ties
           \/ disp[e] # "none" /\ Return(c) /\ UNCHANGED <<disp, ties>>
           \/ /\ disp[e] # "none"
              /\ ties' = [ties EXCEPT ![e] = @ + 1]
              /\ Goto(c, "probe")
              /\ UNCHANGED disp
        /\ UNCHANGED <<moves, binding, started, results, noted, canon, starts, resumes, crashes>>

\* handleExisting, for an execution found running: a durable result
\* completes it; else a resumable binding makes it resumable; else the user
\* is needed.
FindResult(c) ==
    /\ At(c, "result?")
    /\ IF call[c].exec \in results THEN Set(c, "completed") ELSE Goto(c, "binding?")
    /\ UNCHANGED <<stores, canon, adapter, crashes>>

\* Variant: without a resumable binding nothing is done.
FindBindingOnly(c) ==
    /\ At(c, "binding?")
    /\ IF HasBinding(call[c].exec) THEN Set(c, "resume_required") ELSE Return(c)
    /\ UNCHANGED <<stores, canon, adapter, crashes>>

FindBinding(c) ==
    /\ At(c, "binding?")
    /\ Set(c, IF HasBinding(call[c].exec) THEN "resume_required" ELSE "input_required")
    /\ UNCHANGED <<stores, canon, adapter, crashes>>

\* The capability and health probes pass or fail; a resume then needs a
\* resumable binding.
Probe(c) ==
    /\ At(c, "probe")
    /\ \/ Set(c, "failed")
       \/ /\ call[c].op = "resume" /\ ~HasBinding(call[c].exec)
          /\ Set(c, "input_required")
       \/ /\ call[c].op = "start" \/ HasBinding(call[c].exec)
          /\ Goto(c, "invoke")
    /\ UNCHANGED <<stores, canon, adapter, crashes>>

\* The adapter is called.
CallAdapter(c) ==
    LET e == call[c].exec
    IN  /\ At(c, "invoke")
        /\ \/ /\ call[c].op = "start"
              /\ starts' = [starts EXCEPT ![e] = @ + 1]
              /\ UNCHANGED resumes
           \/ /\ call[c].op = "resume"
              /\ resumes' = [resumes EXCEPT ![e] = @ + 1]
              /\ UNCHANGED starts
        /\ Goto(c, "working")
        /\ UNCHANGED <<stores, canon, ties, crashes>>

\* Variant: resume_required needs no handle.
AfterAnyBinding(a) ==
    IF a.disposition \in {"completed", "resume_required"} THEN "ledger" ELSE "set"

\* After the binding is saved, persistOutcome goes by the disposition; a
\* resume_required answer needs a resumable handle.
AfterBinding(a) ==
    CASE a.disposition = "completed" -> "ledger"
      [] a.disposition = "resume_required" /\ a.resumable /\ a.handle # NoHandle -> "ledger"
      [] OTHER -> "set"

\* What is set in the end.
Outcome(a) ==
    IF a.disposition = "resume_required" /\ AfterBinding(a) = "set"
    THEN "failed" ELSE a.disposition

\* The adapter, which is not part of this program, answers anything; a handle
\* it names is bound first.
AdapterReturns(c) ==
    /\ At(c, "working")
    /\ \E a \in Answers :
          call' = [call EXCEPT ![c].answer = a, ![c].target = Outcome(a),
                               ![c].phase = IF a.handle = NoHandle THEN AfterBinding(a)
                                            ELSE "bind"]
    /\ UNCHANGED <<stores, canon, adapter, crashes>>

\* SaveBindingOnce: a different binding for the execution is a conflict.
Bind(c) ==
    LET e == call[c].exec
        a == call[c].answer
        b == [handle |-> a.handle, resumable |-> a.resumable]
    IN  /\ At(c, "bind")
        /\ IF binding[e] \in {NoBinding, b}
           THEN binding' = [binding EXCEPT ![e] = b] /\ Goto(c, AfterBinding(a))
           ELSE Return(c) /\ UNCHANGED binding
        /\ UNCHANGED <<disp, moves, started, results, noted, canon, adapter, crashes>>

\* ensureRecoveryExecution: the ledger refuses a resumable execution without
\* a handle, or with another one than it was started with.
LedgerRefuses(e, h) ==
    h.resumable /\ (h.handle = NoHandle \/ started[e] \notin {NotStarted, h})

StartInLedger(e, h) ==
    started' = [started EXCEPT ![e] = IF @ = NotStarted THEN h ELSE @]

\* Variant: the disposition is set before there is a result.
EnsureExecutionOnly(c) ==
    LET e == call[c].exec
        h == [handle |-> call[c].answer.handle, resumable |-> call[c].answer.resumable]
    IN  /\ At(c, "ledger")
        /\ \/ LedgerRefuses(e, h) /\ Return(c) /\ UNCHANGED started
           \/ ~LedgerRefuses(e, h) /\ StartInLedger(e, h) /\ Goto(c, "set")
        /\ UNCHANGED <<disp, moves, binding, results, noted, canon, adapter, crashes>>

EnsureExecution(c) ==
    LET e == call[c].exec
        a == call[c].answer
        h == [handle |-> a.handle, resumable |-> a.resumable]
    IN  /\ At(c, "ledger")
        /\ \/ LedgerRefuses(e, h) /\ Return(c) /\ UNCHANGED started
           \/ /\ ~LedgerRefuses(e, h)
              /\ StartInLedger(e, h)
              /\ Goto(c, IF a.disposition = "completed" THEN "result" ELSE "set")
        /\ UNCHANGED <<disp, moves, binding, results, noted, canon, adapter, crashes>>

\* CompleteResultOnce: a second result for the execution is a conflict, or
\* the same one again when its content and its time are the same.
SaveResult(c) ==
    LET e == call[c].exec
    IN  /\ At(c, "result")
        /\ \/ results' = results \cup {e} /\ Goto(c, "set")
           \/ e \in results /\ Return(c) /\ UNCHANGED results
        /\ UNCHANGED <<disp, moves, binding, started, noted, canon, adapter, crashes>>

\* SetDispositionOnce: a disposition that was set before is an event the store
\* knows, which is accepted again, and does nothing, when its details are the
\* same; a new one must be a safe transition.  Otherwise the call ends in an
\* error.
SetDisposition(c) ==
    LET e == call[c].exec
        d == call[c].target
    IN  /\ At(c, "set")
        /\ \/ /\ <<e, d>> \in moves
              /\ Goto(c, "read") \/ Return(c)
              /\ UNCHANGED <<disp, moves>>
           \/ /\ <<e, d>> \notin moves /\ Allowed(disp[e], d)
              /\ disp' = [disp EXCEPT ![e] = d]
              /\ moves' = moves \cup {<<e, d>>}
              /\ Goto(c, "read")
           \/ /\ <<e, d>> \notin moves /\ ~Allowed(disp[e], d)
              /\ Return(c)
              /\ UNCHANGED <<disp, moves>>
        /\ UNCHANGED <<binding, started, results, noted, canon, adapter, crashes>>

\* The execution is read again, and recorded on the timeline as it is then.
ReadBack(c) ==
    /\ At(c, "read")
    /\ call' = [call EXCEPT ![c].phase = "note", ![c].target = disp[call[c].exec]]
    /\ UNCHANGED <<stores, canon, adapter, crashes>>

Note(c) ==
    /\ At(c, "note")
    /\ noted' = noted \cup {<<call[c].exec, call[c].target>>}
    /\ Return(c)
    /\ UNCHANGED <<disp, moves, binding, started, results, canon, adapter, crashes>>

\* Cancel: a terminal execution is returned as it is; otherwise the adapter
\* cannot be asked, lacks the capability, fails to cancel, or cancels.
EnterCancel(c, e) ==
    /\ At(c, "idle")
    /\ disp[e] \notin Terminal \cup {"none"}
    /\ Enter(c, e, "cancel", "cancel")
    /\ UNCHANGED <<stores, canon, adapter, crashes>>

CancelAdapter(c) ==
    /\ At(c, "cancel")
    /\ Return(c) \/ \E d \in {"input_required", "failed", "cancelled"} : Set(c, d)
    /\ UNCHANGED <<stores, canon, adapter, crashes>>

InvokeStep(c) ==
    \/ Begin(c) \/ FindResult(c) \/ FindBinding(c) \/ Probe(c)
    \/ CallAdapter(c) \/ AdapterReturns(c)
    \/ Bind(c) \/ EnsureExecution(c) \/ SaveResult(c)
    \/ SetDisposition(c) \/ ReadBack(c) \/ Note(c) \/ CancelAdapter(c)

-----------------------------------------------------------------------------
\* The coordinator commits durable results.
Canonical == INSTANCE CanonicalCommit WITH produced <- results

Recover ==
    /\ \E e \in Executions : Canonical!Commit(e)
    /\ UNCHANGED <<disp, moves, binding, started, noted, adapter, call, crashes>>

Crash ==
    /\ crashes < MaxCrashes
    /\ crashes' = crashes + 1
    /\ call' = [c \in Callers |-> Idle]
    /\ UNCHANGED <<stores, canon, adapter>>

Init ==
    /\ disp = [e \in Executions |-> "none"]
    /\ binding = [e \in Executions |-> NoBinding]
    /\ moves = {}
    /\ started = [e \in Executions |-> NotStarted]
    /\ results = {}
    /\ noted = {}
    /\ canon = <<>>
    /\ starts = [e \in Executions |-> 0]
    /\ resumes = [e \in Executions |-> 0]
    /\ ties = [e \in Executions |-> 0]
    /\ call = [c \in Callers |-> Idle]
    /\ crashes = 0

Next ==
    \/ \E c \in Callers :
          \/ InvokeStep(c)
          \/ \E e \in Executions :
                EnterCancel(c, e) \/ \E op \in {"start", "resume"} : EnterInvoke(c, e, op)
    \/ Recover
    \/ Crash

Spec == Init /\ [][Next]_vars

\* A call that was made goes on; and a task whose execution was left running
\* is invoked again in the end, however often somebody asks in vain to cancel
\* it in between (hence strong fairness).
Reinvoke(c) == \E e \in Executions : disp[e] = "running" /\ EnterInvoke(c, e, "start")

FairSpec == Spec /\ \A c \in Callers : WF_vars(InvokeStep(c)) /\ SF_vars(Reinvoke(c))

-----------------------------------------------------------------------------
\* Properties.

\* The variables keep their types: what the stores and a call can hold.
TypeOK ==
    /\ disp \in [Executions -> Dispositions]
    /\ binding \in [Executions -> Bindings \cup {NoBinding}]
    /\ moves \in SUBSET (Executions \X Outcomes)
    /\ started \in [Executions -> Bindings \cup {NoBinding, NotStarted}]
    /\ results \in SUBSET Executions
    /\ noted \in SUBSET (Executions \X Outcomes)
    /\ canon \in Seq(Executions)
    /\ starts \in [Executions -> Nat]
    /\ resumes \in [Executions -> Nat]
    /\ ties \in [Executions -> Nat]
    /\ call \in [Callers -> Calls \cup {Idle}]
    /\ crashes \in Nat

\* The work of an execution is started once, and once more only for every call
\* that raced with the first and read the very same time off the clock;
\* whatever else races and wherever the process crashes, interrupted work is
\* never replayed (BeginOnce, handleExisting; docs/PROOF_0.13_SPEC.md "Restart
\* safety rule").
StartedOnce == \A e \in Executions : starts[e] <= 1 + ties[e]

\* A disposition never says more than is durable: an execution is completed
\* only with its result, and to be resumed only with a binding that can be
\* (persistOutcome: binding and result first; handleExisting only on a result).
DispositionIsBacked ==
    \A e \in Executions : /\ disp[e] = "completed" => e \in results
                          /\ disp[e] = "resume_required" => HasBinding(e)

\* completed, failed, cancelled and input_required are final, whichever calls
\* are still in flight (allowedTransition; PROOF_0.13 items 3 and 6), and the
\* timeline never tells another story.
FinalIsFinal ==
    [][\A e \in Executions :
          disp[e] \in Terminal \cup {"input_required"}
          => /\ disp'[e] = disp[e]
             /\ \A d \in Terminal \cup {"input_required"} :
                   <<e, d>> \in noted' => d = disp[e]]_vars

\* Interrupted work does not stay running for ever when the task is invoked
\* again (handleExisting).
RunningEnds == \A e \in Executions : disp[e] = "running" ~> disp[e] # "running"
=============================================================================
