----------------------------- MODULE TaskStore -----------------------------
(***************************************************************************)
(* The event-sourced task of internal/tasks: the state a Store holds and   *)
(* what apply does to it for each kind of event.  Store.Append runs apply  *)
(* on a clone, writes the line and installs the clone, all under one       *)
(* mutex, so an event is one atomic step of the modules that use these     *)
(* operators, and the memory of a store is always the replay of its file.  *)
(*                                                                         *)
(* Abstracted: timestamps, descriptions and evidence texts; a check that   *)
(* is "blocked" behaves as one that is "failed".  "updates"                *)
(* counts acceptance updates, which is what the UpdatedAt of a check tells *)
(* a Proof Receipt.  EventRecoveryReconciled changes no state (audit       *)
(* only) and is not represented.                                           *)
(***************************************************************************)
EXTENDS Naturals, FiniteSets

CONSTANTS
    Steps,   \* step ids; a step always names the same tool operation
    Checks   \* ids of the acceptance checks of the contract

ASSUME ChecksAssumption == IsFiniteSet(Checks) /\ Checks # {}

Status     == {"working", "input_required", "completed", "failed", "cancelled"}
Terminal   == {"completed", "failed", "cancelled"}
StepStatus == {"unknown", "started", "completed", "failed", "ambiguous"}
CheckStatus == {"pending", "passed", "failed"}

\* Why input is needed: nothing, the user asked, an ambiguous tool step, or
\* an execution that cannot be resumed.
NoReason          == <<"none">>
UserReason        == <<"user">>
AmbiguousReason   == <<"ambiguous">>
InterruptedReason(e) == <<"interrupted", e>>

\* What a store can hold, when input is needed only for reasons in R.
TaskStates(R) ==
    [ status : Status, needs : R, steps : [Steps -> StepStatus],
      checks : [Checks -> CheckStatus], updates : Nat ]

CreatedTask ==
    [ status  |-> "working",
      needs   |-> NoReason,
      steps   |-> [s \in Steps |-> "unknown"],
      checks  |-> [c \in Checks |-> "pending"],
      updates |-> 0 ]

\* State.Progress: every check has passed.
ProgressComplete(t) == \A c \in Checks : t.checks[c] = "passed"

Known(t, s) == t.steps[s] # "unknown"

StepStarted(t, s) == [t EXCEPT !.steps[s] = "started"]

\* The three events below are refused, and change nothing, for a step the
\* task does not know.
StepCompleted(t, s) ==
    IF Known(t, s) THEN [t EXCEPT !.steps[s] = "completed"] ELSE t

StepFailed(t, s) ==
    IF Known(t, s) THEN [t EXCEPT !.steps[s] = "failed"] ELSE t

StepAmbiguous(t, s) ==
    IF Known(t, s)
    THEN [t EXCEPT !.steps[s] = "ambiguous",
                   !.status   = "input_required",
                   !.needs    = AmbiguousReason]
    ELSE t

\* Variant: any passed check completes the task.
AcceptanceUpdatedAny(t, c, status) ==
    LET u == [t EXCEPT !.checks[c] = status, !.updates = @ + 1]
    IN  IF \E k \in Checks : u.checks[k] = "passed"
        THEN [u EXCEPT !.status = "completed"] ELSE u

\* A check update completes the task when it was the last one missing; it
\* never takes a task out of a status.
AcceptanceUpdated(t, c, status) ==
    LET u == [t EXCEPT !.checks[c] = status, !.updates = @ + 1]
    IN  IF ProgressComplete(u) THEN [u EXCEPT !.status = "completed"] ELSE u

StatusChanged(t, status) ==
    [t EXCEPT !.status = status,
              !.needs  = IF status = "input_required" THEN @ ELSE NoReason]

InputRequested(t, reason) ==
    [t EXCEPT !.status = "input_required", !.needs = reason]

TaskCancelled(t) == [t EXCEPT !.status = "cancelled"]
=============================================================================
