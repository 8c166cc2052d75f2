---------------------------- MODULE TaskManager ----------------------------
(***************************************************************************)
(* tasks.Manager over a tasks.Store and a tooljournal.Journal: the steps   *)
(* of a task that run external tools, with a crash of the process possible *)
(* between any two durable writes.                                         *)
(*                                                                         *)
(* A caller is a goroutine that begins a step, runs the tool when it is    *)
(* told to execute it, and then reports completion or failure.  BeginStep, *)
(* CompleteStep and FailStep write to two files, one line at a time, so    *)
(* each is a sequence of actions; every line is one action.  The state     *)
(* BeginStep works from is the snapshot it took when it was entered.       *)
(***************************************************************************)
EXTENDS TaskStore

CONSTANTS
    Callers,      \* goroutines that use the manager
    Policies,     \* replay policies callers pass
    MaxLines,     \* bound: journal lines of an operation before it is begun again
    MaxUpdates,   \* bound: acceptance updates
    MaxCrashes    \* bound: crashes of the process

ASSUME ManagerAssumption ==
    /\ Policies \subseteq {"forbidden", "idempotent"}
    /\ MaxLines \in Nat
    /\ MaxUpdates \in Nat
    /\ MaxCrashes \in Nat

VARIABLES
    task,     \* the task, in the store and in its file
    journal,  \* the latest journal record of each operation
    runs,     \* how often the external tool of a step has really run
    call,     \* where each caller is in its call of the manager
    crashes   \* crashes so far (bounded)

mvars == <<task, journal, runs, call, crashes>>

JournalState == {"absent", "started", "completed", "failed"}

\* "line" numbers the lines written for the operation: it stands for the
\* timestamp of the record, by which two records of one state differ.
Records == [state : JournalState, policy : Policies \cup {"none"}, line : Nat]

NoRecord == [state |-> "absent", policy |-> "none", line |-> 0]

\* A call: its phase; its step and policy; the step as the task showed it
\* when the call was entered; and the phase that follows a StepStarted event.
Phase == {"journal", "start", "block", "reuse", "run", "close", "completed", "failed"}

Calls == [phase : Phase, step : Steps, policy : Policies, seen : StepStatus,
          next : {"block", "reuse", "run"}]

Idle == [phase |-> "idle"]

At(c, phase)   == call[c].phase = phase
Goto(c, phase) == call' = [call EXCEPT ![c].phase = phase]
Return(c)      == call' = [call EXCEPT ![c] = Idle]

\* Variant: only the results of idempotent operations are reused.
BeginReusesIdempotent(s) ==
    journal[s].state = "completed" /\ journal[s].policy # "forbidden"

\* Variant: an operation that is only started is not seen as ambiguous.
BeginRefusesFailed(s, p) ==
    /\ journal[s].state = "failed"
    /\ journal[s].policy = "forbidden" \/ p = "forbidden"

\* Journal.Begin of operation s under policy p, by what it answers.
BeginReuses(s) == journal[s].state = "completed"

BeginRefuses(s, p) ==
    /\ journal[s].state \in {"started", "failed"}
    /\ journal[s].policy = "forbidden" \/ p = "forbidden"

\* The record a new journal line of state st leaves.
WithState(r, st) == [r EXCEPT !.state = st, !.line = @ + 1]

-----------------------------------------------------------------------------

\* BeginStep reads the task and refuses a terminal one.
EnterBeginStep(c, s, p) ==
    /\ At(c, "idle")
    /\ task.status \notin Terminal
    /\ call' = [call EXCEPT ![c] =
                  [phase |-> "journal", step |-> s, policy |-> p,
                   seen |-> task.steps[s], next |-> "run"]]
    /\ UNCHANGED <<task, journal, runs, crashes>>

\* What follows the journal's answer: the phase itself, or a StepStarted
\* event first when the snapshot calls for one.
Proceed(c, next, startFirst) ==
    call' = [call EXCEPT ![c].next = next,
                         ![c].phase = IF startFirst THEN "start" ELSE next]

\* Variant: an operation that is started already gets no line of its own.
BeginExecuteUnlogged(c) ==
    LET s == call[c].step
        p == call[c].policy
    IN  /\ At(c, "journal")
        /\ ~BeginReuses(s) /\ ~BeginRefuses(s, p)
        /\ journal[s].line < MaxLines
        /\ journal' = IF journal[s].state = "started" THEN journal
                      ELSE [journal EXCEPT ![s] =
                              [state |-> "started", policy |-> p, line |-> @.line + 1]]
        /\ Proceed(c, "run", call[c].seen # "started")
        /\ UNCHANGED <<task, runs, crashes>>

\* The journal answers execute, having written a started line that carries
\* the policy of this call.
BeginExecute(c) ==
    LET s == call[c].step
        p == call[c].policy
    IN  /\ At(c, "journal")
        /\ ~BeginReuses(s) /\ ~BeginRefuses(s, p)
        /\ journal[s].line < MaxLines
        /\ journal' = [journal EXCEPT ![s] =
                         [state |-> "started", policy |-> p, line |-> @.line + 1]]
        /\ Proceed(c, "run", call[c].seen # "started")
        /\ UNCHANGED <<task, runs, crashes>>

\* The journal returns the previous result and writes nothing.
BeginReuse(c) ==
    /\ At(c, "journal")
    /\ BeginReuses(call[c].step)
    /\ Proceed(c, "reuse", call[c].seen = "unknown")
    /\ UNCHANGED <<task, journal, runs, crashes>>

\* The journal answers ErrAmbiguousOperation and writes nothing.
BeginBlock(c) ==
    /\ At(c, "journal")
    /\ BeginRefuses(call[c].step, call[c].policy)
    /\ Proceed(c, "block", call[c].seen = "unknown")
    /\ UNCHANGED <<task, journal, runs, crashes>>

StartStep(c) ==
    /\ At(c, "start")
    /\ task' = StepStarted(task, call[c].step)
    /\ Goto(c, call[c].next)
    /\ UNCHANGED <<journal, runs, crashes>>

ReuseResult(c) ==
    /\ At(c, "reuse")
    /\ task' = StepCompleted(task, call[c].step)
    /\ Return(c)
    /\ UNCHANGED <<journal, runs, crashes>>

BlockStep(c) ==
    /\ At(c, "block")
    /\ task' = StepAmbiguous(task, call[c].step)
    /\ Return(c)
    /\ UNCHANGED <<journal, runs, crashes>>

BeginStep(c) ==
    \/ \E s \in Steps, p \in Policies : EnterBeginStep(c, s, p)
    \/ BeginExecute(c) \/ BeginReuse(c) \/ BeginBlock(c)
    \/ StartStep(c) \/ ReuseResult(c) \/ BlockStep(c)

\* The caller was told to execute: the external tool acts.
RunTool(c) ==
    /\ At(c, "run")
    /\ runs' = [runs EXCEPT ![call[c].step] = @ + 1]
    /\ Goto(c, "close")
    /\ UNCHANGED <<task, journal, crashes>>

\* CompleteStep and FailStep: the journal line first, the task event after.
WriteOutcome(c, outcome) ==
    /\ At(c, "close")
    /\ journal' = [journal EXCEPT ![call[c].step] = WithState(@, outcome)]
    /\ Goto(c, outcome)
    /\ UNCHANGED <<task, runs, crashes>>

\* Variant: the task event first, the journal line after.
CompleteStepTaskFirst(c) ==
    \/ /\ At(c, "close")
       /\ task' = StepCompleted(task, call[c].step)
       /\ Goto(c, "completed")
       /\ UNCHANGED <<journal, runs, crashes>>
    \/ /\ At(c, "completed")
       /\ journal' = [journal EXCEPT ![call[c].step] = WithState(@, "completed")]
       /\ Return(c)
       /\ UNCHANGED <<task, runs, crashes>>

CompleteStep(c) ==
    \/ WriteOutcome(c, "completed")
    \/ /\ At(c, "completed")
       /\ task' = StepCompleted(task, call[c].step)
       /\ Return(c)
       /\ UNCHANGED <<journal, runs, crashes>>

FailStep(c) ==
    \/ WriteOutcome(c, "failed")
    \/ /\ At(c, "failed")
       /\ task' = StepFailed(task, call[c].step)
       /\ Return(c)
       /\ UNCHANGED <<journal, runs, crashes>>

CallerStep(c) == BeginStep(c) \/ RunTool(c) \/ CompleteStep(c) \/ FailStep(c)

\* The user's side of the manager: none of these looks at the status first.
UpdateCheck ==
    /\ task.updates < MaxUpdates
    /\ \E c \in Checks, st \in {"passed", "failed"} : task' = AcceptanceUpdated(task, c, st)
    /\ UNCHANGED <<journal, runs, call, crashes>>

RequestInput ==
    /\ task' = InputRequested(task, UserReason)
    /\ UNCHANGED <<journal, runs, call, crashes>>

ResumeWorking ==
    /\ task' = StatusChanged(task, "working")
    /\ UNCHANGED <<journal, runs, call, crashes>>

Cancel ==
    /\ task' = TaskCancelled(task)
    /\ UNCHANGED <<journal, runs, call, crashes>>

UserStep == UpdateCheck \/ RequestInput \/ ResumeWorking \/ Cancel

\* The process dies; the files are what survives.
Crash ==
    /\ crashes < MaxCrashes
    /\ crashes' = crashes + 1
    /\ call' = [c \in Callers |-> Idle]
    /\ UNCHANGED <<task, journal, runs>>

MInit ==
    /\ task = CreatedTask
    /\ journal = [s \in Steps |-> NoRecord]
    /\ runs = [s \in Steps |-> 0]
    /\ call = [c \in Callers |-> Idle]
    /\ crashes = 0

MNext == (\E c \in Callers : CallerStep(c)) \/ UserStep \/ Crash

MSpec == MInit /\ [][MNext]_mvars

-----------------------------------------------------------------------------
\* Properties.

\* Caller c may still run the tool of step s; or it ran it and has not
\* reported yet.
MayRun(c, s) ==
    /\ call[c].phase = "run" \/ (call[c].phase = "start" /\ call[c].next = "run")
    /\ call[c].step = s

Holds(c, s) == MayRun(c, s) \/ (At(c, "close") /\ call[c].step = s)

\* The variables keep their types: what the store, the journal and a call of
\* the manager can hold.
MTypeOK ==
    /\ task \in TaskStates({NoReason, UserReason, AmbiguousReason})
    /\ journal \in [Steps -> Records]
    /\ runs \in [Steps -> Nat]
    /\ call \in [Callers -> Calls \cup {Idle}]
    /\ crashes \in Nat

\* A tool begun under the forbidden policy runs at most once, whatever
\* callers race and wherever the process crashes (Journal.Begin; PROOF_0.9
\* items 1 and 2).
ForbiddenRunsOnce ==
    \A s \in Steps : journal[s].policy = "forbidden" => runs[s] <= 1

\* The runs of a step are never more than the lines that the journal has of its
\* operation: no crash leaves a run that the journal does not know of
\* (Journal.Begin writes before BeginStep answers execute).
WriteAhead == \A s \in Steps : runs[s] <= journal[s].line

\* The completion of a forbidden operation is final: no later call, of any
\* caller, changes its record (Journal.Begin, Complete and Fail).
CompletionIsFinal ==
    [][\A s \in Steps :
          journal[s].state = "completed" /\ journal[s].policy = "forbidden"
          => journal'[s] = journal[s]]_mvars

\* The task never shows a non-repeatable step as completed before its journal
\* does (CompleteStep and BeginStep: journal first, task event after).
CompletedStepHasJournal ==
    \A s \in Steps :
        task.steps[s] = "completed" /\ journal[s].policy = "forbidden"
        => journal[s].state = "completed"

\* A task becomes completed only on acceptance evidence: at that moment every
\* check has passed (apply, EventAcceptanceUpdated; PROOF_0.9 item 4).
CompletionNeedsEvidence ==
    [][task.status # "completed" /\ task'.status = "completed"
       => ProgressComplete(task')]_mvars
=============================================================================
