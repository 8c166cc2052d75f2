-------------------------- MODULE Recovery_proofs --------------------------
(***************************************************************************)
(* Proofs about TaskManager and about Recovery, which extends it.          *)
(*                                                                         *)
(* TaskManager: types; a tool of the forbidden policy runs at most once,   *)
(* after its journal line, and its completion is final; a task completes   *)
(* on evidence.                                                            *)
(*                                                                         *)
(* Recovery: types; a produced result enters the canonical session exactly *)
(* once, with one story of it on the timeline, so that Recovery implements *)
(* CanonicalCommit; a pass leaves stores that agree, and a second one      *)
(* nothing to do; and the journal's guarantees survive recovery passes.    *)
(***************************************************************************)
EXTENDS Recovery, FiniteSetTheorems, WellFoundedInduction, TLAPS

-----------------------------------------------------------------------------
(* Part 1. The task manager: types. *)

\* A check update keeps a task a task.
LEMMA AcceptanceTypes ==
    ASSUME NEW R, NEW t \in TaskStates(R), NEW c \in Checks, NEW st \in CheckStatus
    PROVE  AcceptanceUpdated(t, c, st) \in TaskStates(R)
<1>. USE DEF TaskStates, Status, StepStatus, CheckStatus
<1>. DEFINE u == [t EXCEPT !.checks[c] = st, !.updates = @ + 1]
<1>1. u \in TaskStates(R)
  <2>1. [t.checks EXCEPT ![c] = st] \in [Checks -> CheckStatus] /\ t.updates + 1 \in Nat
    OBVIOUS
  <2>2. \A k \in [Checks -> CheckStatus], n \in Nat :
           [t EXCEPT !.checks = k, !.updates = n] \in TaskStates(R)
    OBVIOUS
  <2>. QED  BY <2>1, <2>2, Zenon
<1>2. [u EXCEPT !.status = "completed"] \in TaskStates(R)
  BY <1>1
<1>3. AcceptanceUpdated(t, c, st) \in {u, [u EXCEPT !.status = "completed"]}
  BY DEF AcceptanceUpdated
<1>. QED  BY <1>1, <1>2, <1>3

\* Every event of the store keeps a task a task.
LEMMA StoreTypes ==
    ASSUME NEW R, NEW t \in TaskStates(R), NEW s \in Steps,
           NEW c \in Checks, NEW st \in CheckStatus, NEW reason \in R,
           NoReason \in R, AmbiguousReason \in R
    PROVE  /\ StepStarted(t, s) \in TaskStates(R)
           /\ StepCompleted(t, s) \in TaskStates(R)
           /\ StepFailed(t, s) \in TaskStates(R)
           /\ StepAmbiguous(t, s) \in TaskStates(R)
           /\ AcceptanceUpdated(t, c, st) \in TaskStates(R)
           /\ StatusChanged(t, "working") \in TaskStates(R)
           /\ InputRequested(t, reason) \in TaskStates(R)
           /\ TaskCancelled(t) \in TaskStates(R)
<1>. USE DEF TaskStates, Status, StepStatus, CheckStatus
<1>1. StepStarted(t, s) \in TaskStates(R)
  BY DEF StepStarted
<1>2. StepCompleted(t, s) \in TaskStates(R)
  BY DEF StepCompleted
<1>3. StepFailed(t, s) \in TaskStates(R)
  BY DEF StepFailed
<1>4. StepAmbiguous(t, s) \in TaskStates(R)
  BY DEF StepAmbiguous
<1>5. AcceptanceUpdated(t, c, st) \in TaskStates(R)
  BY AcceptanceTypes
<1>6. StatusChanged(t, "working") \in TaskStates(R)
  BY DEF StatusChanged
<1>7. InputRequested(t, reason) \in TaskStates(R)
  BY DEF InputRequested
<1>8. TaskCancelled(t) \in TaskStates(R)
  BY DEF TaskCancelled
<1>. QED
  BY <1>1, <1>2, <1>3, <1>4, <1>5, <1>6, <1>7, <1>8

\* A journal line leaves a record.
LEMMA RecordTypes ==
    ASSUME NEW r \in Records, NEW st \in JournalState
    PROVE  WithState(r, st) \in Records
<1>1. r.line + 1 \in Nat
  BY DEF Records
<1>2. \A n \in Nat : [r EXCEPT !.state = st, !.line = n] \in Records
  BY DEF Records
<1>. QED  BY <1>1, <1>2, Zenon DEF WithState

\* The types of the manager's variables, for any set of reasons.
Types(R) ==
    /\ task \in TaskStates(R)
    /\ journal \in [Steps -> Records]
    /\ runs \in [Steps -> Nat]
    /\ call \in [Callers -> Calls \cup {Idle}]
    /\ crashes \in Nat

\* A caller that is at a phase of a call is in a call.
LEMMA InCall ==
    ASSUME call \in [Callers -> Calls \cup {Idle}], NEW c \in Callers,
           NEW phase \in Phase, At(c, phase)
    PROVE  call[c] \in Calls
BY DEF At, Phase, Idle

LEMMA CallerTypes ==
    ASSUME NEW R, Types(R), NoReason \in R, AmbiguousReason \in R,
           NEW c \in Callers, CallerStep(c)
    PROVE  Types(R)'
<1>. USE DEF Types
<1>1. ASSUME NEW s \in Steps, NEW p \in Policies, EnterBeginStep(c, s, p)
      PROVE  Types(R)'
  <2>1. task.steps[s] \in StepStatus
    BY DEF TaskStates
  <2>2. [phase |-> "journal", step |-> s, policy |-> p, seen |-> task.steps[s], next |-> "run"]
           \in Calls
    BY <2>1 DEF Calls, Phase
  <2>. QED  BY <1>1, <2>2 DEF EnterBeginStep
<1>2. ASSUME NEW phase \in Phase, At(c, phase)
      PROVE  /\ call[c] \in Calls
             /\ call[c].step \in Steps
             /\ call[c].policy \in Policies
             /\ call[c].next \in Phase
  BY <1>2, InCall DEF Calls, Phase
<1>3. ASSUME NEW phase \in Phase, At(c, phase), NEW p \in Phase, Goto(c, p)
      PROVE  call' \in [Callers -> Calls \cup {Idle}]
  BY <1>2, <1>3 DEF Goto, Calls
<1>4. ASSUME NEW phase \in Phase, At(c, phase), NEW next \in {"block", "reuse", "run"},
             NEW b \in BOOLEAN, Proceed(c, next, b)
      PROVE  call' \in [Callers -> Calls \cup {Idle}]
  <2>1. call[c] \in Calls
    BY <1>2, <1>4
  <2>2. [call[c] EXCEPT !.next = next, !.phase = IF b THEN "start" ELSE next] \in Calls
    BY <2>1 DEF Calls, Phase
  <2>. QED  BY <1>4, <2>2 DEF Proceed
<1>5. ASSUME Return(c)
      PROVE  call' \in [Callers -> Calls \cup {Idle}]
  BY <1>5 DEF Return
<1>6. CASE BeginExecute(c)
  <2>1. At(c, "journal") /\ "journal" \in Phase
    BY <1>6 DEF BeginExecute, Phase
  <2>2. call' \in [Callers -> Calls \cup {Idle}]
    BY <1>6, <1>4, <2>1 DEF BeginExecute
  <2>3. journal' \in [Steps -> Records]
    <3>1. call[c].step \in Steps /\ call[c].policy \in Policies
      BY <1>2, <2>1
    <3>. DEFINE s == call[c].step
                r == [state |-> "started", policy |-> call[c].policy,
                      line |-> journal[s].line + 1]
    <3>2. r \in Records
      BY <3>1 DEF Records, JournalState
    <3>3. journal' = [journal EXCEPT ![s] = r]
      BY <1>6 DEF BeginExecute
    <3>. QED  BY <3>2, <3>3
  <2>. QED  BY <1>6, <2>2, <2>3 DEF BeginExecute
<1>7. CASE BeginReuse(c)
  <2>1. At(c, "journal") /\ "journal" \in Phase
    BY <1>7 DEF BeginReuse, Phase
  <2>. QED  BY <1>7, <1>4, <2>1 DEF BeginReuse
<1>8. CASE BeginBlock(c)
  <2>1. At(c, "journal") /\ "journal" \in Phase
    BY <1>8 DEF BeginBlock, Phase
  <2>. QED  BY <1>8, <1>4, <2>1 DEF BeginBlock
<1>9. CASE StartStep(c)
  <2>1. At(c, "start") /\ "start" \in Phase
    BY <1>9 DEF StartStep, Phase
  <2>. QED  BY <1>9, <1>2, <1>3, <2>1 DEF StartStep, StepStarted, TaskStates, StepStatus
<1>10. CASE ReuseResult(c)
  <2>1. At(c, "reuse") /\ "reuse" \in Phase
    BY <1>10 DEF ReuseResult, Phase
  <2>. QED
    BY <1>10, <1>2, <1>5, <2>1 DEF ReuseResult, StepCompleted, TaskStates, StepStatus
<1>11. CASE BlockStep(c)
  <2>1. At(c, "block") /\ "block" \in Phase
    BY <1>11 DEF BlockStep, Phase
  <2>. QED
    BY <1>11, <1>2, <1>5, <2>1 DEF BlockStep, StepAmbiguous, TaskStates, StepStatus, Status
<1>12. CASE RunTool(c)
  <2>1. At(c, "run") /\ "run" \in Phase /\ "close" \in Phase
    BY <1>12 DEF RunTool, Phase
  <2>. QED  BY <1>12, <1>2, <1>3, <2>1 DEF RunTool
<1>13. ASSUME NEW end \in {"completed", "failed"}, WriteOutcome(c, end)
       PROVE  Types(R)'
  <2>1. At(c, "close") /\ "close" \in Phase /\ end \in Phase
    BY <1>13 DEF WriteOutcome, Phase
  <2>2. call' \in [Callers -> Calls \cup {Idle}]
    BY <1>13, <1>3, <2>1 DEF WriteOutcome
  <2>3. journal' \in [Steps -> Records]
    <3>1. WithState(journal[call[c].step], end) \in Records
      BY <1>2, <2>1, RecordTypes DEF JournalState
    <3>. QED  BY <1>13, <3>1 DEF WriteOutcome
  <2>. QED  BY <1>13, <2>2, <2>3 DEF WriteOutcome
<1>14. CASE CompleteStep(c)
  <2>1. CASE At(c, "completed") /\ task' = StepCompleted(task, call[c].step) /\ Return(c)
               /\ UNCHANGED <<journal, runs, crashes>>
    <3>1. "completed" \in Phase
      BY DEF Phase
    <3>. QED  BY <2>1, <3>1, <1>2, <1>5 DEF StepCompleted, TaskStates, StepStatus
  <2>. QED  BY <1>14, <1>13, <2>1 DEF CompleteStep
<1>15. CASE FailStep(c)
  <2>1. CASE At(c, "failed") /\ task' = StepFailed(task, call[c].step) /\ Return(c)
               /\ UNCHANGED <<journal, runs, crashes>>
    <3>1. "failed" \in Phase
      BY DEF Phase
    <3>. QED  BY <2>1, <3>1, <1>2, <1>5 DEF StepFailed, TaskStates, StepStatus
  <2>. QED  BY <1>15, <1>13, <2>1 DEF FailStep
<1>. QED
  BY <1>1, <1>6, <1>7, <1>8, <1>9, <1>10, <1>11, <1>12, <1>14, <1>15 DEF CallerStep, BeginStep

LEMMA UserTypes ==
    ASSUME NEW R, Types(R), NoReason \in R, UserReason \in R, AmbiguousReason \in R, UserStep
    PROVE  Types(R)'
<1>. USE DEF Types
<1>1. CASE UpdateCheck
  <2>1. PICK c \in Checks, st \in {"passed", "failed"} : task' = AcceptanceUpdated(task, c, st)
    BY <1>1 DEF UpdateCheck
  <2>2. AcceptanceUpdated(task, c, st) \in TaskStates(R)
    BY AcceptanceTypes DEF CheckStatus
  <2>. QED  BY <1>1, <2>1, <2>2 DEF UpdateCheck
<1>2. CASE RequestInput
  BY <1>2 DEF RequestInput, InputRequested, TaskStates, Status
<1>3. CASE ResumeWorking
  BY <1>3 DEF ResumeWorking, StatusChanged, TaskStates, Status
<1>4. CASE Cancel
  BY <1>4 DEF Cancel, TaskCancelled, TaskStates, Status
<1>. QED  BY <1>1, <1>2, <1>3, <1>4 DEF UserStep

LEMMA CrashTypes ==
    ASSUME NEW R, Types(R), Crash
    PROVE  Types(R)'
BY DEF Types, Crash

LEMMA InitTypes ==
    ASSUME NEW R, NoReason \in R, MInit
    PROVE  Types(R)
BY DEF MInit, Types, CreatedTask, TaskStates, Status, StepStatus, CheckStatus,
       NoRecord, Records, JournalState

\* The store, the journal and the calls keep their types, for any number of
\* steps, checks and callers.
THEOREM ManagerTypeCorrect == MSpec => []MTypeOK
<1>. DEFINE R == {NoReason, UserReason, AmbiguousReason}
<1>0. MTypeOK <=> Types(R)
  BY DEF MTypeOK, Types
<1>1. MInit => Types(R)
  BY InitTypes
<1>2. Types(R) /\ [MNext]_mvars => Types(R)'
  <2>. SUFFICES ASSUME Types(R), [MNext]_mvars PROVE Types(R)'
    OBVIOUS
  <2>1. CASE UNCHANGED mvars
    BY <2>1 DEF Types, mvars
  <2>2. CASE MNext
    BY <2>2, CallerTypes, UserTypes, CrashTypes DEF MNext
  <2>. QED  BY <2>1, <2>2
<1>3. Types(R) => MTypeOK
  BY <1>0
<1>. QED  BY <1>1, <1>2, <1>3, PTL DEF MSpec

-----------------------------------------------------------------------------
\* The inductive invariant behind ForbiddenRunsOnce, CompletionIsFinal and
\* CompletedStepHasJournal.

\* Caller c is about to tell the task that step s completed.
Reports(c, s) ==
    /\ \/ call[c].phase \in {"reuse", "completed"}
       \/ call[c].phase = "start" /\ call[c].next = "reuse"
    /\ call[c].step = s

\* The journal says that nobody began the operation of s: nobody did.
Unbegun(s) ==
    journal[s].state = "absent" => runs[s] = 0 /\ \A c \in Callers : ~Holds(c, s)

\* A forbidden operation has one holder at most, who has not run the tool
\* twice, and none any more once it is completed.
OneHolder(s) ==
    journal[s].policy = "forbidden" =>
        /\ \A c, d \in Callers : Holds(c, s) /\ Holds(d, s) => c = d
        /\ runs[s] <= 1
        /\ \A c \in Callers : MayRun(c, s) => runs[s] = 0
        /\ journal[s].state = "completed" => \A c \in Callers : ~Holds(c, s)

\* Nobody calls the step completed, or is about to, before the journal does.
JournalFirst(s) ==
    \/ journal[s].state = "absent"
    \/ journal[s].policy = "forbidden" /\ journal[s].state # "completed"
    => /\ task.steps[s] # "completed"
       /\ \A c \in Callers : ~Reports(c, s)

Inv(s) == Unbegun(s) /\ OneHolder(s) /\ JournalFirst(s)

IInv == \A s \in Steps : Inv(s)

\* What a caller does to its own call leaves the calls of the others alone.
LEMMA CallerInv ==
    ASSUME NEW R, Types(R), NEW c \in Callers, CallerStep(c), NEW s \in Steps, Inv(s)
    PROVE  Inv(s)'
<1>. USE DEF Types, Inv, Unbegun, OneHolder, JournalFirst, Holds, MayRun, Reports, At
<1>1. ASSUME NEW phase \in Phase, At(c, phase)
      PROVE  call[c] \in Calls
  BY <1>1, InCall
<1>2. journal[s] \in Records /\ runs[s] \in Nat
  OBVIOUS
<1>3. CASE \E t \in Steps, p \in Policies : EnterBeginStep(c, t, p)
  BY <1>3 DEF EnterBeginStep
<1>4. CASE BeginExecute(c)
  <2>. DEFINE t == call[c].step
              p == call[c].policy
              n == IF call[c].seen # "started" THEN "start" ELSE "run"
  <2>1. /\ At(c, "journal") /\ UNCHANGED <<task, runs>>
        /\ journal' = [journal EXCEPT ![t] =
                         [state |-> "started", policy |-> p, line |-> @.line + 1]]
        /\ call' = [call EXCEPT ![c].next = "run", ![c].phase = n]
    BY <1>4 DEF BeginExecute, Proceed
  <2>2. call[c] \in Calls
    BY <2>1, <1>1 DEF Phase
  <2>3. /\ call'[c].phase = n /\ call'[c].step = t /\ call'[c].next = "run"
        /\ \A d \in Callers \ {c} : call'[d] = call[d]
    BY <2>1, <2>2 DEF Calls
  <2>4. CASE t # s
    BY <2>1, <2>3, <2>4
  <2>5. CASE t = s
    <3>1. journal'[s].state = "started" /\ journal'[s].policy = p
      BY <2>1, <2>5
    <3>2. CASE p # "forbidden"
      BY <3>1, <3>2
    <3>3. CASE p = "forbidden"
      <4>1. journal[s].state = "absent"
        BY <1>4, <1>2, <2>5, <3>3 DEF BeginExecute, BeginReuses, BeginRefuses, Records, JournalState
      <4>. QED  BY <2>1, <2>3, <3>1, <4>1
    <3>. QED  BY <3>2, <3>3
  <2>. QED  BY <2>4, <2>5
<1>5. CASE BeginReuse(c)
  BY <1>5 DEF BeginReuse, Proceed, BeginReuses
<1>6. CASE BeginBlock(c)
  BY <1>6 DEF BeginBlock, Proceed
<1>7. CASE StartStep(c)
  <2>1. /\ At(c, "start") /\ UNCHANGED <<journal, runs>>
        /\ task' = [task EXCEPT !.steps[call[c].step] = "started"]
        /\ call' = [call EXCEPT ![c].phase = call[c].next]
    BY <1>7 DEF StartStep, StepStarted, Goto
  <2>2. call[c] \in Calls
    BY <2>1, <1>1 DEF Phase
  <2>3. /\ call'[c].phase = call[c].next /\ call'[c].step = call[c].step
        /\ call[c].next \in {"block", "reuse", "run"}
        /\ \A d \in Callers \ {c} : call'[d] = call[d]
    BY <2>1, <2>2 DEF Calls
  <2>4. \A d \in Callers : /\ MayRun(d, s)' => MayRun(d, s)
                           /\ Holds(d, s)' => Holds(d, s)
                           /\ Reports(d, s)' => Reports(d, s)
    BY <2>1, <2>3
  <2>5. task'.steps[s] \in {task.steps[s], "started"}
    BY <2>1 DEF TaskStates
  <2>. HIDE DEF Holds, MayRun, Reports
  <2>. QED  BY <2>1, <2>4, <2>5
<1>8. CASE ReuseResult(c)
  BY <1>8 DEF ReuseResult, StepCompleted, Return, Idle
<1>9. CASE BlockStep(c)
  BY <1>9 DEF BlockStep, StepAmbiguous, Return, Idle
<1>10. CASE RunTool(c)
  <2>1. /\ At(c, "run") /\ UNCHANGED <<task, journal>>
        /\ runs' = [runs EXCEPT ![call[c].step] = @ + 1]
        /\ call' = [call EXCEPT ![c].phase = "close"]
    BY <1>10 DEF RunTool, Goto
  <2>2. call[c] \in Calls
    BY <2>1, <1>1 DEF Phase
  <2>3. /\ call'[c].phase = "close" /\ call'[c].step = call[c].step
        /\ \A d \in Callers \ {c} : call'[d] = call[d]
    BY <2>1, <2>2 DEF Calls
  <2>4. CASE call[c].step # s
    BY <2>1, <2>3, <2>4
  <2>5. CASE call[c].step = s
    <3>1. runs'[s] = runs[s] + 1
      BY <2>1, <2>5
    <3>2. Unbegun(s)'
      BY <2>1, <2>5
    <3>3. OneHolder(s)'
      BY <1>2, <2>1, <2>3, <2>5, <3>1
    <3>4. JournalFirst(s)'
      BY <2>1, <2>3
    <3>. QED  BY <3>2, <3>3, <3>4
  <2>. QED  BY <2>4, <2>5
<1>11. ASSUME NEW end \in {"completed", "failed"}, WriteOutcome(c, end)
       PROVE  Inv(s)'
  <2>1. /\ At(c, "close") /\ UNCHANGED <<task, runs>>
        /\ journal' = [journal EXCEPT ![call[c].step] = WithState(@, end)]
        /\ call' = [call EXCEPT ![c].phase = end]
    BY <1>11 DEF WriteOutcome, Goto
  <2>2. call[c] \in Calls
    BY <2>1, <1>1 DEF Phase
  <2>3. /\ call'[c].phase = end /\ call'[c].step = call[c].step
        /\ \A d \in Callers \ {c} : call'[d] = call[d]
    BY <2>1, <2>2 DEF Calls
  <2>4. CASE call[c].step # s
    BY <2>1, <2>3, <2>4
  <2>5. CASE call[c].step = s
    <3>1. journal'[s].state = end /\ journal'[s].policy = journal[s].policy
      BY <1>2, <2>1, <2>5 DEF WithState, Records
    <3>2. OneHolder(s)'
      BY <2>1, <2>3, <2>5, <3>1
    <3>3. JournalFirst(s)'
      BY <2>1, <2>3, <2>5, <3>1
    <3>. QED  BY <3>1, <3>2, <3>3
  <2>. QED  BY <2>4, <2>5
<1>12. CASE CompleteStep(c)
  <2>1. CASE /\ At(c, "completed") /\ task' = StepCompleted(task, call[c].step)
             /\ Return(c) /\ UNCHANGED <<journal, runs, crashes>>
    <3>1. /\ call'[c].phase = "idle"
          /\ \A d \in Callers \ {c} : call'[d] = call[d]
      BY <2>1 DEF Return, Idle
    <3>2. \A d \in Callers : /\ MayRun(d, s)' => MayRun(d, s)
                             /\ Holds(d, s)' => Holds(d, s)
                             /\ Reports(d, s)' => Reports(d, s)
      BY <3>1
    <3>3. task'.steps[s] = task.steps[s] \/ Reports(c, s)
      BY <2>1 DEF StepCompleted, TaskStates
    <3>. HIDE DEF Holds, MayRun, Reports
    <3>. QED  BY <2>1, <3>2, <3>3
  <2>. QED  BY <1>12, <1>11, <2>1 DEF CompleteStep
<1>13. CASE FailStep(c)
  <2>1. CASE /\ At(c, "failed") /\ task' = StepFailed(task, call[c].step)
             /\ Return(c) /\ UNCHANGED <<journal, runs, crashes>>
    <3>1. /\ call'[c].phase = "idle"
          /\ \A d \in Callers \ {c} : call'[d] = call[d]
      BY <2>1 DEF Return, Idle
    <3>2. \A d \in Callers : /\ MayRun(d, s)' => MayRun(d, s)
                             /\ Holds(d, s)' => Holds(d, s)
                             /\ Reports(d, s)' => Reports(d, s)
      BY <3>1
    <3>3. task'.steps[s] \in {task.steps[s], "failed"}
      BY <2>1 DEF StepFailed, TaskStates
    <3>. HIDE DEF Holds, MayRun, Reports
    <3>. QED  BY <2>1, <3>2, <3>3
  <2>. QED  BY <1>13, <1>11, <2>1 DEF FailStep
<1>. QED
  BY <1>3, <1>4, <1>5, <1>6, <1>7, <1>8, <1>9, <1>10, <1>12, <1>13 DEF CallerStep, BeginStep

\* The user's events touch neither the journal nor a step.
LEMMA UserInv ==
    ASSUME NEW R, Types(R), UserStep, NEW s \in Steps, Inv(s)
    PROVE  Inv(s)'
<1>1. UNCHANGED <<journal, runs, call>>
  BY DEF UserStep, UpdateCheck, RequestInput, ResumeWorking, Cancel
<1>2. task'.steps = task.steps
  <2>1. CASE UpdateCheck
    <3>1. PICK c \in Checks, st \in {"passed", "failed"} : task' = AcceptanceUpdated(task, c, st)
      BY <2>1 DEF UpdateCheck
    <3>. DEFINE u == [task EXCEPT !.checks[c] = st, !.updates = @ + 1]
    <3>2. u.steps = task.steps /\ [u EXCEPT !.status = "completed"].steps = task.steps
      BY DEF Types, TaskStates
    <3>3. AcceptanceUpdated(task, c, st) \in {u, [u EXCEPT !.status = "completed"]}
      BY DEF AcceptanceUpdated
    <3>. QED  BY <3>1, <3>2, <3>3
  <2>2. CASE RequestInput
    BY <2>2 DEF RequestInput, InputRequested, Types, TaskStates
  <2>3. CASE ResumeWorking
    BY <2>3 DEF ResumeWorking, StatusChanged, Types, TaskStates
  <2>4. CASE Cancel
    BY <2>4 DEF Cancel, TaskCancelled, Types, TaskStates
  <2>. QED  BY <2>1, <2>2, <2>3, <2>4 DEF UserStep
<1>. QED
  BY <1>1, <1>2 DEF Inv, Unbegun, OneHolder, JournalFirst, Holds, MayRun, Reports, At

\* A crash ends every call, so nobody holds or reports anything any more.
LEMMA CrashInv ==
    ASSUME Crash, NEW s \in Steps, Inv(s)
    PROVE  Inv(s)'
<1>1. UNCHANGED <<task, journal, runs>> /\ \A c \in Callers : call'[c].phase = "idle"
  BY DEF Crash, Idle
<1>. QED
  BY <1>1 DEF Inv, Unbegun, OneHolder, JournalFirst, Holds, MayRun, Reports, At

LEMMA InitInv ==
    ASSUME MInit, NEW s \in Steps
    PROVE  Inv(s)
BY DEF MInit, CreatedTask, NoRecord, Idle,
       Inv, Unbegun, OneHolder, JournalFirst, Holds, MayRun, Reports, At

LEMMA Inductive == MSpec => [](MTypeOK /\ IInv)
<1>. DEFINE R == {NoReason, UserReason, AmbiguousReason}
<1>0. MTypeOK <=> Types(R)
  BY DEF MTypeOK, Types
<1>1. MInit => IInv
  BY InitInv DEF IInv
<1>2. MTypeOK /\ IInv /\ [MNext]_mvars => IInv'
  <2>. SUFFICES ASSUME Types(R), IInv, [MNext]_mvars, NEW s \in Steps PROVE Inv(s)'
    BY <1>0 DEF IInv
  <2>0. Inv(s)
    BY DEF IInv
  <2>1. CASE UNCHANGED mvars
    BY <2>0, <2>1 DEF mvars, Inv, Unbegun, OneHolder, JournalFirst, Holds, MayRun, Reports, At
  <2>2. CASE MNext
    BY <2>0, <2>2, CallerInv, UserInv, CrashInv DEF MNext
  <2>. QED  BY <2>1, <2>2
<1>. QED  BY <1>1, <1>2, ManagerTypeCorrect, PTL DEF MSpec

\* A tool begun under the forbidden policy runs at most once, for any number
\* of callers and crashes.
THEOREM ForbiddenToolRunsOnce == MSpec => []ForbiddenRunsOnce
<1>1. IInv => ForbiddenRunsOnce
  BY DEF IInv, Inv, OneHolder, ForbiddenRunsOnce
<1>. QED  BY <1>1, Inductive, PTL

\* The task never runs ahead of the journal about a non-repeatable step.
THEOREM CompletedStepIsJournaled == MSpec => []CompletedStepHasJournal
<1>1. IInv => CompletedStepHasJournal
  BY DEF IInv, Inv, JournalFirst, CompletedStepHasJournal
<1>. QED  BY <1>1, Inductive, PTL

\* A completed forbidden operation has no holder, and without a holder its
\* record does not change.
LEMMA CallerKeepsCompleted ==
    ASSUME NEW R, Types(R), NEW c \in Callers, CallerStep(c), NEW s \in Steps, Inv(s),
           journal[s].state = "completed", journal[s].policy = "forbidden"
    PROVE  journal'[s] = journal[s]
<1>1. \A d \in Callers : ~Holds(d, s)
  BY DEF Inv, OneHolder
<1>2. CASE BeginExecute(c)
  BY <1>2 DEF BeginExecute, BeginReuses, Types
<1>3. ASSUME NEW end \in {"completed", "failed"}, WriteOutcome(c, end)
      PROVE  journal'[s] = journal[s]
  BY <1>1, <1>3 DEF WriteOutcome, Holds, Types
<1>4. CASE CompleteStep(c) \/ FailStep(c)
  BY <1>3, <1>4 DEF CompleteStep, FailStep
<1>. QED
  BY <1>2, <1>4 DEF CallerStep, BeginStep, EnterBeginStep, BeginReuse, BeginBlock,
                    StartStep, ReuseResult, BlockStep, RunTool

\* The completion of a forbidden operation is final.
THEOREM ForbiddenCompletionIsFinal == MSpec => CompletionIsFinal
<1>. DEFINE R == {NoReason, UserReason, AmbiguousReason}
            Kept == \A s \in Steps :
                       journal[s].state = "completed" /\ journal[s].policy = "forbidden"
                       => journal'[s] = journal[s]
<1>1. MTypeOK /\ IInv /\ [MNext]_mvars => [Kept]_mvars
  <2>. SUFFICES ASSUME MTypeOK, IInv, MNext, NEW s \in Steps,
                       journal[s].state = "completed", journal[s].policy = "forbidden"
                PROVE  journal'[s] = journal[s]
    OBVIOUS
  <2>1. Types(R) /\ Inv(s)
    BY DEF MTypeOK, Types, IInv
  <2>2. CASE \E c \in Callers : CallerStep(c)
    BY <2>1, <2>2, CallerKeepsCompleted
  <2>3. CASE UserStep \/ Crash
    BY <2>3 DEF UserStep, UpdateCheck, RequestInput, ResumeWorking, Cancel, Crash
  <2>. QED  BY <2>2, <2>3 DEF MNext
<1>. QED  BY <1>1, Inductive, PTL DEF MSpec, CompletionIsFinal

-----------------------------------------------------------------------------
\* Write-ahead: a line of the journal for every run, and for every run that
\* may still come.

\* The callers that may still run the tool of step s.
Executors(s) == {c \in Callers : MayRun(c, s)}

Paid(s) ==
    /\ IsFiniteSet(Executors(s))
    /\ runs[s] + Cardinality(Executors(s)) <= journal[s].line

PaidInv == \A s \in Steps : Paid(s)

\* Whoever stops being told to execute costs nothing, nor does another line.
LEMMA PaidStays ==
    ASSUME NEW R, Types(R), NEW s \in Steps, Paid(s), runs'[s] = runs[s],
           journal'[s].line \in Nat, journal[s].line <= journal'[s].line,
           Executors(s)' \subseteq Executors(s)
    PROVE  Paid(s)'
<1>1. /\ IsFiniteSet(Executors(s)') /\ Cardinality(Executors(s)') <= Cardinality(Executors(s))
      /\ Cardinality(Executors(s)') \in Nat /\ Cardinality(Executors(s)) \in Nat
  BY FS_Subset, FS_CardinalityType DEF Paid
<1>2. runs[s] \in Nat /\ journal[s].line \in Nat
  BY DEF Types, Records
<1>3. runs'[s] + Cardinality(Executors(s)') <= journal'[s].line
  BY <1>1, <1>2 DEF Paid
<1>. QED  BY <1>1, <1>3 DEF Paid

\* A call that is told to execute has just written its line, and a run takes
\* the line of its caller.
LEMMA CallerPaid ==
    ASSUME NEW R, Types(R), NEW c \in Callers, CallerStep(c), NEW s \in Steps, Paid(s)
    PROVE  Paid(s)'
<1>0. runs[s] \in Nat /\ journal[s] \in Records /\ journal[s].line \in Nat
  BY DEF Types, Records
<1>1. ASSUME NEW phase \in Phase, At(c, phase)
      PROVE  call[c] \in Calls
  BY <1>1, InCall DEF Types
<1>2. CASE BeginExecute(c)
  <2>. DEFINE t == call[c].step
              n == IF call[c].seen # "started" THEN "start" ELSE "run"
  <2>1. /\ At(c, "journal") /\ UNCHANGED runs
        /\ journal' = [journal EXCEPT ![t] =
                         [state |-> "started", policy |-> call[c].policy, line |-> @.line + 1]]
        /\ call' = [call EXCEPT ![c].next = "run", ![c].phase = n]
    BY <1>2 DEF BeginExecute, Proceed
  <2>2. call[c] \in Calls
    BY <2>1, <1>1 DEF Phase
  <2>3. /\ call'[c].phase = n /\ call'[c].step = t /\ call'[c].next = "run"
        /\ \A d \in Callers \ {c} : call'[d] = call[d]
    BY <2>1, <2>2 DEF Calls, Types
  <2>4. c \notin Executors(s)
    BY <2>1 DEF Executors, MayRun, At
  <2>5. CASE t # s
    <3>1. Executors(s)' \subseteq Executors(s)
      BY <2>3, <2>5 DEF Executors, MayRun
    <3>2. journal'[s] = journal[s]
      BY <2>1, <2>5 DEF Types
    <3>. QED  BY <1>0, <2>1, <3>1, <3>2, PaidStays
  <2>6. CASE t = s
    <3>1. Executors(s)' = Executors(s) \cup {c}
      BY <2>3, <2>6 DEF Executors, MayRun
    <3>2. IsFiniteSet(Executors(s)') /\ Cardinality(Executors(s)') = Cardinality(Executors(s)) + 1
      BY <2>4, <3>1, FS_AddElement DEF Paid
    <3>3. journal'[s].line = journal[s].line + 1
      BY <2>1, <2>6 DEF Types
    <3>4. Cardinality(Executors(s)) \in Nat
      BY FS_CardinalityType DEF Paid
    <3>5. runs'[s] + Cardinality(Executors(s)') <= journal'[s].line
      BY <1>0, <2>1, <3>2, <3>3, <3>4 DEF Paid
    <3>. QED  BY <3>2, <3>5 DEF Paid
  <2>. QED  BY <2>5, <2>6
<1>3. CASE RunTool(c)
  <2>1. /\ At(c, "run") /\ UNCHANGED journal
        /\ runs' = [runs EXCEPT ![call[c].step] = @ + 1]
        /\ call' = [call EXCEPT ![c].phase = "close"]
    BY <1>3 DEF RunTool, Goto
  <2>2. call[c] \in Calls
    BY <2>1, <1>1 DEF Phase
  <2>3. /\ call'[c].phase = "close"
        /\ \A d \in Callers \ {c} : call'[d] = call[d]
    BY <2>1, <2>2 DEF Calls, Types
  <2>4. CASE call[c].step # s
    <3>1. Executors(s)' \subseteq Executors(s) /\ runs'[s] = runs[s]
      BY <2>1, <2>3, <2>4 DEF Executors, MayRun, Types
    <3>. QED  BY <1>0, <2>1, <3>1, PaidStays
  <2>5. CASE call[c].step = s
    <3>1. c \in Executors(s) /\ Executors(s)' = Executors(s) \ {c}
      BY <2>1, <2>3, <2>5 DEF Executors, MayRun, At
    <3>2. IsFiniteSet(Executors(s)') /\ Cardinality(Executors(s)') = Cardinality(Executors(s)) - 1
      BY <3>1, FS_RemoveElement DEF Paid
    <3>3. runs'[s] = runs[s] + 1 /\ Cardinality(Executors(s)) \in Nat
      BY <2>1, <2>5, FS_CardinalityType DEF Types, Paid
    <3>4. runs'[s] + Cardinality(Executors(s)') <= journal'[s].line
      BY <1>0, <2>1, <3>2, <3>3 DEF Paid
    <3>. QED  BY <3>2, <3>4 DEF Paid
  <2>. QED  BY <2>4, <2>5
<1>4. ASSUME NEW end \in {"completed", "failed"}, WriteOutcome(c, end)
      PROVE  Paid(s)'
  <2>1. /\ At(c, "close") /\ UNCHANGED runs
        /\ journal' = [journal EXCEPT ![call[c].step] = WithState(@, end)]
        /\ call' = [call EXCEPT ![c].phase = end]
    BY <1>4 DEF WriteOutcome, Goto
  <2>2. call[c] \in Calls
    BY <2>1, <1>1 DEF Phase
  <2>3. /\ call'[c].phase = end
        /\ \A d \in Callers \ {c} : call'[d] = call[d]
    BY <2>1, <2>2 DEF Calls, Types
  <2>4. Executors(s)' \subseteq Executors(s)
    BY <2>3 DEF Executors, MayRun
  <2>5. journal'[s].line \in {journal[s].line, journal[s].line + 1}
    BY <1>0, <2>1 DEF WithState, Types, Records
  <2>. QED  BY <1>0, <2>1, <2>4, <2>5, PaidStays
<1>5. CASE StartStep(c)
  <2>1. /\ At(c, "start") /\ UNCHANGED <<journal, runs>>
        /\ call' = [call EXCEPT ![c].phase = call[c].next]
    BY <1>5 DEF StartStep, Goto
  <2>2. call[c] \in Calls
    BY <2>1, <1>1 DEF Phase
  <2>3. /\ call'[c].phase = call[c].next /\ call'[c].step = call[c].step
        /\ call[c].next \in {"block", "reuse", "run"}
        /\ \A d \in Callers \ {c} : call'[d] = call[d]
    BY <2>1, <2>2 DEF Calls, Types
  <2>4. Executors(s)' \subseteq Executors(s)
    BY <2>1, <2>3 DEF Executors, MayRun, At
  <2>. QED  BY <1>0, <2>1, <2>4, PaidStays
<1>6. CASE /\ UNCHANGED <<journal, runs>>
           /\ \/ \E t \in Steps, p \in Policies : EnterBeginStep(c, t, p)
              \/ BeginReuse(c) \/ BeginBlock(c) \/ Return(c)
  <2>1. \A d \in Callers \ {c} : call'[d] = call[d]
    BY <1>6 DEF EnterBeginStep, BeginReuse, BeginBlock, Proceed, Return, Types
  <2>2. ~MayRun(c, s)'
    <3>1. CASE At(c, "journal")
      BY <1>1, <1>6, <3>1
         DEF EnterBeginStep, BeginReuse, BeginBlock, Proceed, Return, Types, MayRun, Idle, Phase, Calls, At
    <3>2. CASE ~At(c, "journal")
      BY <1>6, <3>2 DEF EnterBeginStep, BeginReuse, BeginBlock, Return, Types, MayRun, Idle
    <3>. QED  BY <3>1, <3>2
  <2>3. Executors(s)' \subseteq Executors(s)
    BY <2>1, <2>2 DEF Executors, MayRun
  <2>. QED  BY <1>0, <1>6, <2>3, PaidStays
<1>7. CASE ReuseResult(c) \/ BlockStep(c)
  BY <1>6, <1>7 DEF ReuseResult, BlockStep
<1>8. CASE CompleteStep(c) \/ FailStep(c)
  BY <1>4, <1>6, <1>8 DEF CompleteStep, FailStep
<1>9. CASE (\E t \in Steps, p \in Policies : EnterBeginStep(c, t, p)) \/ BeginReuse(c) \/ BeginBlock(c)
  BY <1>6, <1>9 DEF EnterBeginStep, BeginReuse, BeginBlock
<1>. QED
  BY <1>2, <1>3, <1>5, <1>7, <1>8, <1>9 DEF CallerStep, BeginStep

\* The runs of a step are never more than the lines that the journal has of its
\* operation, for any number of callers, policies and crashes (Journal.Begin).
THEOREM ToolRunsAreWrittenAhead == MSpec => []WriteAhead
<1>. DEFINE R == {NoReason, UserReason, AmbiguousReason}
<1>0. MTypeOK <=> Types(R)
  BY DEF MTypeOK, Types
<1>1. MInit => PaidInv
  <2>. SUFFICES ASSUME MInit, NEW s \in Steps PROVE Paid(s)
    BY DEF PaidInv
  <2>1. Executors(s) = {}
    BY DEF MInit, Executors, MayRun, Idle
  <2>. QED  BY <2>1, FS_EmptySet DEF MInit, NoRecord, Paid
<1>2. MTypeOK /\ PaidInv /\ [MNext]_mvars => PaidInv'
  <2>. SUFFICES ASSUME Types(R), PaidInv, [MNext]_mvars, NEW s \in Steps PROVE Paid(s)'
    BY <1>0 DEF PaidInv
  <2>0. Paid(s) /\ journal[s].line \in Nat
    BY DEF PaidInv, Types, Records
  <2>1. CASE \E c \in Callers : CallerStep(c)
    BY <2>0, <2>1, CallerPaid
  <2>2. CASE UNCHANGED mvars \/ UserStep \/ Crash
    <3>1. UNCHANGED <<journal, runs>>
      BY <2>2 DEF mvars, UserStep, UpdateCheck, RequestInput, ResumeWorking, Cancel, Crash
    <3>2. UNCHANGED call \/ \A c \in Callers : call'[c] = Idle
      BY <2>2 DEF mvars, UserStep, UpdateCheck, RequestInput, ResumeWorking, Cancel, Crash
    <3>3. Executors(s)' \subseteq Executors(s)
      BY <3>2 DEF Executors, MayRun, Idle
    <3>. QED  BY <2>0, <3>1, <3>3, PaidStays
  <2>. QED  BY <2>1, <2>2 DEF MNext
<1>3. MTypeOK /\ PaidInv => WriteAhead
  <2>. SUFFICES ASSUME Types(R), PaidInv, NEW s \in Steps PROVE runs[s] <= journal[s].line
    BY <1>0 DEF WriteAhead
  <2>1. runs[s] \in Nat /\ journal[s].line \in Nat /\ Cardinality(Executors(s)) \in Nat
    BY FS_CardinalityType DEF Types, Records, PaidInv, Paid
  <2>. QED  BY <2>1 DEF PaidInv, Paid
<1>. QED  BY <1>1, <1>2, <1>3, ManagerTypeCorrect, PTL DEF MSpec

-----------------------------------------------------------------------------
\* Completion on evidence.

\* A step that makes the task completed is a check update that was the last
\* one missing, for any checks.
THEOREM TaskCompletesOnEvidence == MSpec => CompletionNeedsEvidence
<1>. DEFINE R == {NoReason, UserReason, AmbiguousReason}
            Backed == task.status # "completed" /\ task'.status = "completed" => ProgressComplete(task')
<1>0. MTypeOK <=> Types(R)
  BY DEF MTypeOK, Types
<1>1. MTypeOK /\ [MNext]_mvars => [Backed]_mvars
  <2>. SUFFICES ASSUME Types(R), MNext PROVE Backed
    BY <1>0
  <2>0. task \in TaskStates(R)
    BY DEF Types
  <2>1. CASE UpdateCheck
    <3>1. PICK c \in Checks, st \in {"passed", "failed"} : task' = AcceptanceUpdated(task, c, st)
      BY <2>1 DEF UpdateCheck
    <3>. DEFINE u == [task EXCEPT !.checks[c] = st, !.updates = @ + 1]
    <3>2. u.status = task.status /\ [u EXCEPT !.status = "completed"].checks = u.checks
      BY <2>0 DEF TaskStates
    <3>3. task' = IF ProgressComplete(u) THEN [u EXCEPT !.status = "completed"] ELSE u
      BY <3>1 DEF AcceptanceUpdated
    <3>. HIDE DEF u
    <3>. QED  BY <3>2, <3>3 DEF ProgressComplete
  <2>2. CASE RequestInput \/ ResumeWorking \/ Cancel
    BY <2>0, <2>2
       DEF RequestInput, ResumeWorking, Cancel, InputRequested, StatusChanged, TaskCancelled, TaskStates
  <2>3. CASE Crash
    BY <2>3 DEF Crash
  <2>4. ASSUME NEW c \in Callers, CallerStep(c) PROVE Backed
    <3>1. task' = task \/ \E s \in Steps :
             task' \in {StepStarted(task, s), StepCompleted(task, s), StepFailed(task, s),
                        StepAmbiguous(task, s)}
      <4>1. ASSUME NEW phase \in Phase, At(c, phase) PROVE call[c].step \in Steps
        BY <4>1, InCall DEF Types, Calls
      <4>. QED
        BY <2>4, <4>1 DEF CallerStep, BeginStep, EnterBeginStep, BeginExecute, BeginReuse, BeginBlock,
             StartStep, ReuseResult, BlockStep, RunTool, CompleteStep, FailStep, WriteOutcome, Phase
    <3>. QED  BY <2>0, <3>1 DEF StepStarted, StepCompleted, StepFailed, StepAmbiguous, TaskStates
  <2>. QED  BY <2>1, <2>2, <2>3, <2>4 DEF MNext, UserStep
<1>. QED  BY <1>1, ManagerTypeCorrect, PTL DEF MSpec, CompletionNeedsEvidence

-----------------------------------------------------------------------------
(* Part 2. Recovery: the loops of a pass. *)

\* A loop of the pass always has a first element.
LEMMA LeastIn ==
    ASSUME NEW S \in SUBSET Nat, S # {}
    PROVE  Least(S) \in S
<1>1. PICK x \in S : \A y \in S : ~(<<y, x>> \in OpToRel(<, Nat))
  BY NatLessThanWellFounded, WFMin
<1>2. \A y \in S : ~(y < x)
  BY <1>1 DEF OpToRel
<1>3. \A y \in S : x <= y
  BY <1>2
<1>. QED  BY <1>3 DEF Least

-----------------------------------------------------------------------------
\* Types.

\* What the loop at hand goes through.
TodoOK ==
    CASE pc \in {"idle", "receipt", "proof"} -> todo = {}
      [] pc = "tools" -> todo \in SUBSET Steps
      [] OTHER ->  todo \in SUBSET Executions

\* The types of the variables of the pass and of its files.
PassTypes ==
    /\ started \in SUBSET Executions
    /\ completed \in SUBSET Executions
    /\ committed \in SUBSET Executions
    /\ session \in Seq(Executions)
    /\ timeline \in SUBSET Events
    /\ receipts \in SUBSET Evidence
    /\ proofs \in SUBSET Evidence
    /\ pc \in Passes
    /\ TodoOK
    /\ copy \in Seq(Executions)
    /\ outcome \in {"none", "ok", "error"}
    /\ settled \in {"no", "pass", "yes"}

\* A decision about an item of the loop keeps the types, wherever the loop
\* goes on.
LEMMA RecordTypesOK ==
    ASSUME PassTypes, NEW id \in EventId, NEW hash \in Nat, NEW item, NEW back \in Passes,
           IF back = "tools" THEN todo \in SUBSET Steps ELSE todo \in SUBSET Executions,
           back \notin {"idle", "receipt", "proof"},
           Record(id, hash, item, back),
           UNCHANGED <<ledger, session, receipts, proofs>>
    PROVE  PassTypes'
<1>1. CASE Conflicts(id, hash)
  BY <1>1 DEF Record, Fail, PassTypes, TodoOK, Passes, ledger
<1>2. CASE ~Conflicts(id, hash)
  <2>1. [id |-> id, hash |-> hash] \in Events
    BY DEF Events
  <2>. QED  BY <1>2, <2>1 DEF Record, PassTypes, TodoOK, ledger
<1>. QED  BY <1>1, <1>2

\* While results are in hand, or interrupted executions, so is the first one.
LEMMA InHand ==
    ASSUME PassTypes, pc \notin {"idle", "tools"}, todo # {}
    PROVE  Least(todo) \in Executions /\ Least(todo) \in todo
<1>1. todo \in SUBSET Nat /\ todo \subseteq Executions
  BY ExecutionsAssumption DEF PassTypes, TodoOK
<1>. QED  BY <1>1, LeastIn

\* A step of the pass keeps the types of its variables.
LEMMA PassStepTypes ==
    ASSUME PassTypes, Types(Reasons), PassStep
    PROVE  PassTypes'
<1>. USE DEF PassTypes, TodoOK, Passes, files, ledger
<1>1. ASSUME NEW s \in Steps, ReconcileStep(s)
      PROVE  PassTypes'
  BY <1>1 DEF ReconcileStep, rvars
<1>2. ASSUME NEW s \in Steps, RecordTool(s)
      PROVE  PassTypes'
  <2>1. PICK d \in ToolDecision : Record(ToolEvent(d, s), journal[s].line, s, "tools")
    BY <1>2 DEF RecordTool
  <2>2. ToolEvent(d, s) \in EventId /\ journal[s].line \in Nat
    BY DEF ToolEvent, EventId, Types, Records
  <2>3. pc = "tools" /\ UNCHANGED <<ledger, session, receipts, proofs>>
    BY <1>2 DEF RecordTool
  <2>. QED  BY <2>1, <2>2, <2>3, RecordTypesOK
<1>3. CASE BeginResults
  BY <1>3 DEF BeginResults
<1>4. CASE SaveResult
  <2>1. Least(todo) \in Executions
    BY <1>4, InHand DEF SaveResult
  <2>2. copy' \in Seq(Executions) /\ session' = copy'
    BY <1>4, <2>1 DEF SaveResult
  <2>. QED  BY <1>4, <2>2 DEF SaveResult
<1>5. CASE MarkResult
  <2>1. Least(todo) \in Executions
    BY <1>5, InHand DEF MarkResult
  <2>. QED  BY <1>5, <2>1 DEF MarkResult
<1>6. CASE RecordResult
  <2>1. Least(todo) \in Executions
    BY <1>6, InHand DEF RecordResult
  <2>2. PICK d \in EngineDecision :
           Record(EngineEvent(d, Least(todo)), 0, Least(todo), "results")
    BY <1>6 DEF RecordResult, EngineDecision
  <2>3. EngineEvent(d, Least(todo)) \in EventId
    BY <2>1 DEF EngineEvent, EventId
  <2>4. pc \notin {"idle", "tools"} /\ UNCHANGED <<ledger, session, receipts, proofs>>
    BY <1>6 DEF RecordResult
  <2>. QED  BY <2>2, <2>3, <2>4, RecordTypesOK
<1>7. CASE ReadExecutions
  BY <1>7 DEF ReadExecutions
<1>8. CASE ReadResults
  BY <1>8 DEF ReadResults
<1>9. CASE AskForInput
  BY <1>9 DEF AskForInput, rvars
<1>10. CASE RecordInterrupted
  <2>1. Least(todo) \in Executions
    BY <1>10, InHand DEF RecordInterrupted
  <2>2. PICK d \in EngineDecision :
           Record(EngineEvent(d, Least(todo)), 0, Least(todo), "interrupted")
    BY <1>10 DEF RecordInterrupted, EngineDecision
  <2>3. EngineEvent(d, Least(todo)) \in EventId
    BY <2>1 DEF EngineEvent, EventId
  <2>4. pc \notin {"idle", "tools"} /\ UNCHANGED <<ledger, session, receipts, proofs>>
    BY <1>10 DEF RecordInterrupted
  <2>. QED  BY <2>2, <2>3, <2>4, RecordTypesOK
<1>11. CASE EndInterrupted
  BY <1>11 DEF EndInterrupted
<1>12. CurrentEvidence \in Evidence
  <2>1. {ev.id : ev \in timeline} \in SUBSET EventId
    BY DEF Events
  <2>2. task.updates \in Nat
    BY DEF Types, TaskStates
  <2>. QED  BY <2>1, <2>2 DEF CurrentEvidence, Evidence
<1>13. CASE SaveReceipt
  BY <1>12, <1>13 DEF SaveReceipt
<1>14. CASE EndPass
  <2>1. pc \in {"receipt", "proof"} /\ proofs' \in SUBSET Evidence
    BY <1>12, <1>14 DEF EndPass
  <2>. QED  BY <1>14, <2>1 DEF EndPass
<1>. QED
  BY <1>1, <1>2, <1>3, <1>4, <1>5, <1>6, <1>7, <1>8, <1>9, <1>10, <1>11, <1>13, <1>14
     DEF PassStep

\* The reasons of the manager are among those of the recovery.
LEMMA ReasonsOK == {NoReason, UserReason, AmbiguousReason} \subseteq Reasons
BY DEF Reasons

\* The task events of a pass keep the types of the manager's variables.
LEMMA PassStepManagerTypes ==
    ASSUME PassTypes, Types(Reasons), PassStep
    PROVE  Types(Reasons)'
<1>. USE DEF Types
<1>1. ASSUME NEW s \in Steps, ReconcileStep(s)
      PROVE  Types(Reasons)'
  <2>1. StepCompleted(task, s) \in TaskStates(Reasons)
    BY DEF StepCompleted, TaskStates, StepStatus
  <2>2. StepAmbiguous(task, s) \in TaskStates(Reasons)
    BY ReasonsOK DEF StepAmbiguous, TaskStates, StepStatus, Status
  <2>. QED  BY <1>1, <2>1, <2>2 DEF ReconcileStep
<1>2. CASE AskForInput
  <2>1. InterruptedReason(Least(todo)) \in Reasons
    BY <1>2, InHand DEF AskForInput, Reasons
  <2>2. task' \in TaskStates(Reasons)
    BY <1>2, <2>1 DEF AskForInput, InputRequested, TaskStates, Status
  <2>. QED  BY <1>2, <2>2 DEF AskForInput
<1>3. CASE UNCHANGED mvars
  BY <1>3 DEF mvars
<1>. QED
  BY <1>1, <1>2, <1>3
     DEF PassStep, RecordTool, BeginResults, SaveResult, MarkResult, RecordResult,
         ReadExecutions, ReadResults, RecordInterrupted, EndInterrupted, SaveReceipt, EndPass

\* The whole type invariant, in two parts.
RTypes == Types(Reasons) /\ PassTypes

LEMMA RTypesInit == Init => RTypes
<1>. SUFFICES ASSUME Init PROVE RTypes
  OBVIOUS
<1>1. Types(Reasons)
  BY InitTypes, ReasonsOK DEF Init
<1>2. PassTypes
  BY DEF Init, PassTypes, TodoOK, Passes
<1>. QED  BY <1>1, <1>2 DEF RTypes

LEMMA RTypesNext == RTypes /\ [Next]_vars => RTypes'
<1>. SUFFICES ASSUME Types(Reasons), PassTypes, [Next]_vars
              PROVE  Types(Reasons)' /\ PassTypes'
  BY DEF RTypes
<1>1. CASE UNCHANGED vars
  BY <1>1 DEF vars, mvars, rvars, files, ledger, Types, PassTypes, TodoOK
<1>2. ASSUME NEW e \in Executions, StartExecution(e) \/ CompleteResult(e)
      PROVE  Types(Reasons)' /\ PassTypes'
  BY <1>2 DEF StartExecution, CompleteResult, mvars, Types, PassTypes, TodoOK
<1>3. CASE Work
  <2>1. Types(Reasons)'
    BY <1>3, CallerTypes, UserTypes, ReasonsOK DEF Work
  <2>2. PassTypes'
    BY <1>3 DEF Work, files, ledger, PassTypes, TodoOK
  <2>. QED  BY <2>1, <2>2
<1>4. CASE BeginPass
  BY <1>4 DEF BeginPass, mvars, files, ledger, Types, PassTypes, TodoOK, Passes
<1>5. CASE PassStep
  BY <1>5, PassStepTypes, PassStepManagerTypes
<1>6. CASE CrashProcess
  <2>1. Types(Reasons)'
    BY <1>6, CrashTypes DEF CrashProcess
  <2>2. PassTypes'
    BY <1>6 DEF CrashProcess, files, ledger, PassTypes, TodoOK, Passes
  <2>. QED  BY <2>1, <2>2
<1>. QED  BY <1>1, <1>2, <1>3, <1>4, <1>5, <1>6 DEF Next, EngineStep

\* The stores and the pass keep their types, for any sets of steps, checks,
\* callers and executions.
THEOREM RecoveryTypeCorrect == Spec => []TypeOK
<1>1. RTypes => TypeOK
  BY DEF RTypes, Types, PassTypes, TodoOK, TypeOK
<1>. QED  BY <1>1, RTypesInit, RTypesNext, PTL DEF Spec

-----------------------------------------------------------------------------
\* Exactly-once commit.

\* What a pass knows of the canonical session.  The copy it works on is the
\* file; what it is about to commit an engine produced; and the result whose
\* save is behind it is in the session.
PassKnows ==
    /\ pc # "idle" => copy = session
    /\ pc \in {"results", "saved", "noteApplied", "noteReconciled"} => todo \subseteq completed
    /\ pc \in {"saved", "noteApplied", "noteReconciled"} =>
          todo # {} /\ HasResult(session, Least(todo))

CommitInv == CommittedExactlyOnce /\ PassKnows

\* Appending a result that is not there yet.
LEMMA AppendResult ==
    ASSUME NEW sess \in Seq(Executions), NEW e \in Executions, ~HasResult(sess, e),
           \A i, j \in DOMAIN sess : sess[i] = sess[j] => i = j
    PROVE  /\ \A i, j \in DOMAIN Append(sess, e) : Append(sess, e)[i] = Append(sess, e)[j] => i = j
           /\ \A f : HasResult(Append(sess, e), f) <=> HasResult(sess, f) \/ f = e
<1>. DEFINE new == Append(sess, e)
<1>1. /\ DOMAIN sess = 1 .. Len(sess) /\ Len(sess) \in Nat
      /\ DOMAIN new = 1 .. Len(sess) + 1
      /\ \A i \in DOMAIN sess : new[i] = sess[i]
      /\ new[Len(sess) + 1] = e
  OBVIOUS
<1>2. \A i \in DOMAIN sess : sess[i] # e
  BY DEF HasResult
<1>. HIDE DEF new
<1>3. \A i, j \in DOMAIN new : new[i] = new[j] => i = j
  BY <1>1, <1>2
<1>4. ASSUME NEW f PROVE HasResult(new, f) <=> HasResult(sess, f) \/ f = e
  <2>1. ASSUME HasResult(new, f) PROVE HasResult(sess, f) \/ f = e
    BY <1>1, <2>1 DEF HasResult
  <2>2. ASSUME HasResult(sess, f) \/ f = e PROVE HasResult(new, f)
    BY <1>1, <2>2 DEF HasResult
  <2>. QED  BY <2>1, <2>2
<1>. QED  BY <1>3, <1>4 DEF new

\* A step that leaves the ledger, the session and the copy alone, and comes
\* to a place of the pass that asks for nothing.
LEMMA CommitStutter ==
    ASSUME CommitInv, UNCHANGED <<committed, session>>, completed \subseteq completed',
           UNCHANGED <<pc, todo, copy>> \/
             (/\ pc' \notin {"results", "saved", "noteApplied", "noteReconciled"}
              /\ pc' = "idle" \/ copy' = session)
    PROVE  CommitInv'
BY DEF CommitInv, CommittedExactlyOnce, PassKnows, HasResult

\* A decision ends an item of the loop or, when it fails, the pass.
LEMMA CommitRecord ==
    ASSUME CommitInv, NEW id, NEW hash, NEW item, NEW back \in {"tools", "results", "interrupted"},
           Record(id, hash, item, back), UNCHANGED <<ledger, session>>,
           pc # "idle", back = "results" => todo \subseteq completed
    PROVE  CommitInv'
BY DEF CommitInv, CommittedExactlyOnce, PassKnows, HasResult, Record, Fail, ledger

LEMMA CommitPassStep ==
    ASSUME PassTypes, CommitInv, PassStep
    PROVE  CommitInv'
<1>1. ASSUME NEW s \in Steps, ReconcileStep(s)
      PROVE  CommitInv'
  BY <1>1, CommitStutter DEF ReconcileStep, rvars, files, ledger
<1>2. ASSUME NEW s \in Steps, RecordTool(s)
      PROVE  CommitInv'
  BY <1>2, CommitRecord DEF RecordTool
<1>3. CASE BeginResults
  <2>1. todo' \subseteq completed
    BY <1>3 DEF BeginResults
  <2>. QED
    BY <1>3, <2>1 DEF BeginResults, files, ledger, CommitInv, CommittedExactlyOnce, PassKnows, HasResult
<1>4. CASE SaveResult
  <2>. DEFINE e == Least(todo)
  <2>1. /\ pc = "results" /\ todo # {} /\ ~HasResult(copy, e)
        /\ copy' = Append(copy, e) /\ session' = copy'
        /\ pc' = "saved" /\ UNCHANGED <<started, completed, committed, todo>>
    BY <1>4 DEF SaveResult, ledger
  <2>2. e \in Executions /\ e \in completed /\ copy = session
    BY <2>1, InHand DEF CommitInv, PassKnows
  <2>3. session \in Seq(Executions) /\ session' = Append(session, e) /\ ~HasResult(session, e)
    BY <2>1, <2>2 DEF PassTypes
  <2>4. /\ \A i, j \in DOMAIN session' : session'[i] = session'[j] => i = j
        /\ \A f : HasResult(session', f) <=> HasResult(session, f) \/ f = e
    BY <2>2, <2>3, AppendResult DEF CommitInv, CommittedExactlyOnce
  <2>5. \A i \in DOMAIN session' : session'[i] \in completed
    BY <2>2, <2>4 DEF HasResult, CommitInv, CommittedExactlyOnce
  <2>. HIDE DEF e
  <2>6. CommittedExactlyOnce'
    BY <2>1, <2>4, <2>5 DEF CommitInv, CommittedExactlyOnce, HasResult
  <2>7. PassKnows'
    BY <2>1, <2>4 DEF CommitInv, PassKnows, HasResult, e
  <2>. QED  BY <2>6, <2>7 DEF CommitInv
<1>5. CASE MarkResult
  <2>. DEFINE e == Least(todo)
  <2>1. /\ todo # {} /\ pc \in {"results", "saved"}
        /\ pc = "results" => HasResult(copy, e)
        /\ pc' \in {"noteApplied", "noteReconciled"}
        /\ committed' = committed \cup {e}
        /\ UNCHANGED <<completed, session, copy, todo>>
    BY <1>5 DEF MarkResult
  <2>2. HasResult(session, e) /\ copy = session /\ todo \subseteq completed
    BY <2>1 DEF CommitInv, PassKnows
  <2>. HIDE DEF e
  <2>3. CommittedExactlyOnce'
    BY <2>1, <2>2 DEF CommitInv, CommittedExactlyOnce, HasResult
  <2>4. PassKnows'
    BY <2>1, <2>2 DEF PassKnows, HasResult, e
  <2>. QED  BY <2>3, <2>4 DEF CommitInv
<1>6. CASE RecordResult
  BY <1>6, CommitRecord DEF RecordResult, CommitInv, PassKnows
<1>7. CASE RecordInterrupted
  BY <1>7, CommitRecord DEF RecordInterrupted
<1>8. CASE ReadExecutions \/ ReadResults \/ EndInterrupted \/ EndPass \/ AskForInput \/ SaveReceipt
  BY <1>8, CommitStutter
     DEF ReadExecutions, ReadResults, EndInterrupted, EndPass, AskForInput, SaveReceipt,
         CommitInv, PassKnows, rvars, files, ledger
<1>. QED
  BY <1>1, <1>2, <1>3, <1>4, <1>5, <1>6, <1>7, <1>8 DEF PassStep

LEMMA CommitNext == RTypes /\ CommitInv /\ [Next]_vars => CommitInv'
<1>. SUFFICES ASSUME PassTypes, CommitInv, [Next]_vars PROVE CommitInv'
  BY DEF RTypes
<1>1. CASE UNCHANGED vars
  BY <1>1, CommitStutter DEF vars, rvars, files, ledger
<1>2. ASSUME NEW e \in Executions, StartExecution(e) \/ CompleteResult(e)
      PROVE  CommitInv'
  BY <1>2, CommitStutter DEF StartExecution, CompleteResult
<1>3. CASE Work
  BY <1>3, CommitStutter DEF Work, files, ledger
<1>4. CASE BeginPass
  BY <1>4, CommitStutter DEF BeginPass, files, ledger
<1>5. CASE PassStep
  BY <1>5, CommitPassStep
<1>6. CASE CrashProcess
  BY <1>6, CommitStutter DEF CrashProcess, files, ledger
<1>. QED  BY <1>1, <1>2, <1>3, <1>4, <1>5, <1>6 DEF Next, EngineStep

LEMMA CommitInductive == Spec => [](RTypes /\ CommitInv)
<1>1. Init => CommitInv
  BY DEF Init, CommitInv, CommittedExactlyOnce, PassKnows
<1>. QED  BY <1>1, RTypesInit, RTypesNext, CommitNext, PTL DEF Spec

\* A result enters the canonical session once, only if an engine produced it,
\* and before the ledger calls it committed, for any number of executions and
\* crashes.
THEOREM ExactlyOnceCommit == Spec => []CommittedExactlyOnce
BY CommitInductive, PTL DEF CommitInv

-----------------------------------------------------------------------------
\* Recovery implements CanonicalCommit.

LEMMA CanonicalNext ==
    RTypes /\ CommitInv /\ [Next]_vars => [Canonical!Next]_<<completed, session>>
<1>. SUFFICES ASSUME PassTypes, CommitInv, [Next]_vars, <<completed, session>>' # <<completed, session>>
              PROVE  Canonical!Next
  BY DEF RTypes
<1>1. CASE SaveResult
  <2>1. Least(todo) \in Executions /\ Least(todo) \in completed /\ copy = session
    BY <1>1, InHand DEF SaveResult, CommitInv, PassKnows
  <2>2. Canonical!Commit(Least(todo))
    BY <1>1, <2>1 DEF SaveResult, HasResult, ledger, Canonical!Commit, Canonical!InCanon
  <2>. QED  BY <2>1, <2>2 DEF Canonical!Next
<1>2. CASE \E e \in Executions : CompleteResult(e)
  BY <1>2 DEF CompleteResult, Canonical!Produce, Canonical!Next
<1>3. CASE PassStep /\ ~SaveResult
  <2>1. UNCHANGED <<completed, session>>
    BY <1>3 DEF PassStep, ReconcileStep, RecordTool, BeginResults, MarkResult, RecordResult,
                ReadExecutions, ReadResults, AskForInput, RecordInterrupted, EndInterrupted,
                SaveReceipt, EndPass, rvars, files, ledger
  <2>. QED  BY <2>1
<1>4. CASE UNCHANGED vars \/ (\E e \in Executions : StartExecution(e)) \/ Work \/ BeginPass
             \/ CrashProcess
  <2>1. UNCHANGED <<completed, session>>
    BY <1>4 DEF vars, StartExecution, Work, BeginPass, CrashProcess, rvars, files, ledger
  <2>. QED  BY <2>1
<1>. QED  BY <1>1, <1>2, <1>3, <1>4 DEF Next, EngineStep

\* The ledger and the session file keep the promise of CanonicalCommit: every
\* step of a pass, of an engine or of a crash is a commit, a production or
\* nothing.
THEOREM ImplementsCanonicalCommit == Spec => CanonicalSpec
<1>1. Init => Canonical!Init
  BY DEF Init, Canonical!Init
<1>. QED
  BY <1>1, CommitInductive, CanonicalNext, PTL DEF Spec, CanonicalSpec, Canonical!Spec

-----------------------------------------------------------------------------
\* Recovery and the tool journal.

\* An interrupted forbidden operation that nobody has in hand stays so: the
\* journal refuses whoever begins it again, and no pass touches it.
THEOREM InterruptedIsNotRerun == Spec => InterruptedStaysBlocked
<1>. DEFINE Free(s) == \A c \in Callers : ~Holds(c, s)
            Stays == \A s \in Steps :
                        Blocked(s) /\ Free(s)
                        => /\ journal'[s] = journal[s] /\ runs'[s] = runs[s]
                           /\ \A c \in Callers : ~Holds(c, s)'
<1>1. RTypes /\ [Next]_vars => [Stays]_vars
  <2>. SUFFICES ASSUME Types(Reasons), Next, NEW s \in Steps, Blocked(s), Free(s)
                PROVE  /\ journal'[s] = journal[s] /\ runs'[s] = runs[s]
                       /\ \A c \in Callers : ~Holds(c, s)'
    BY DEF RTypes
  <2>1. CASE Work
    <3>1. CASE UserStep
      BY <3>1 DEF UserStep, UpdateCheck, RequestInput, ResumeWorking, Cancel, Holds, MayRun, At
    <3>2. ASSUME NEW c \in Callers, CallerStep(c)
          PROVE  /\ journal'[s] = journal[s] /\ runs'[s] = runs[s]
                 /\ \A d \in Callers : ~Holds(d, s)'
      <4>. USE DEF Holds, MayRun, At, Types
      <4>0. \A phase \in Phase : At(c, phase) => call[c] \in Calls
        BY InCall
      <4>1. CASE \E t \in Steps, p \in Policies : EnterBeginStep(c, t, p)
        BY <4>1 DEF EnterBeginStep
      <4>2. CASE BeginExecute(c)
        <5>1. call[c].step # s
          BY <4>2 DEF BeginExecute, BeginRefuses, Blocked
        <5>. QED  BY <4>2, <5>1 DEF BeginExecute, Proceed
      <4>3. CASE BeginReuse(c) \/ BeginBlock(c)
        <5>1. PICK next \in {"reuse", "block"}, phase \in {"start", "reuse", "block"} :
                 call' = [call EXCEPT ![c].next = next, ![c].phase = phase]
          BY <4>3 DEF BeginReuse, BeginBlock, Proceed
        <5>2. call[c] \in Calls
          BY <4>0, <4>3 DEF BeginReuse, BeginBlock, Phase
        <5>3. /\ call'[c].next = next /\ call'[c].phase = phase
              /\ \A d \in Callers \ {c} : call'[d] = call[d]
          BY <5>1, <5>2 DEF Calls
        <5>. QED  BY <4>3, <5>3 DEF BeginReuse, BeginBlock
      <4>4. CASE StartStep(c)
        <5>1. call[c] \in Calls /\ call' = [call EXCEPT ![c].phase = call[c].next]
          BY <4>0, <4>4 DEF StartStep, Goto, Phase
        <5>2. /\ call'[c].phase = call[c].next /\ call'[c].step = call[c].step
              /\ call[c].next \in {"block", "reuse", "run"}
              /\ \A d \in Callers \ {c} : call'[d] = call[d]
          BY <5>1 DEF Calls
        <5>. QED  BY <4>4, <5>2 DEF StartStep
      <4>5. CASE ReuseResult(c) \/ BlockStep(c)
        BY <4>5 DEF ReuseResult, BlockStep, Return, Idle
      <4>6. CASE RunTool(c)
        BY <4>6 DEF RunTool, Goto
      <4>7. CASE CompleteStep(c) \/ FailStep(c)
        <5>1. CASE At(c, "close")
          <6>1. call[c].step # s
            BY <5>1
          <6>2. call[c] \in Calls
            BY <4>0, <5>1 DEF Phase
          <6>. QED
            BY <4>7, <5>1, <6>1, <6>2 DEF CompleteStep, FailStep, WriteOutcome, Goto, Calls
        <5>2. CASE ~At(c, "close")
          BY <4>7, <5>2 DEF CompleteStep, FailStep, WriteOutcome, Return, Idle
        <5>. QED  BY <5>1, <5>2
      <4>. QED
        BY <3>2, <4>1, <4>2, <4>3, <4>4, <4>5, <4>6, <4>7 DEF CallerStep, BeginStep
    <3>. QED  BY <2>1, <3>1, <3>2 DEF Work
  <2>2. CASE CrashProcess
    BY <2>2 DEF CrashProcess, Crash, Holds, MayRun, At, Idle
  <2>3. CASE EngineStep \/ BeginPass \/ PassStep
    <3>1. UNCHANGED <<journal, runs, call>>
      BY <2>3 DEF EngineStep, StartExecution, CompleteResult, BeginPass, PassStep, ReconcileStep,
                  RecordTool, BeginResults, SaveResult, MarkResult, RecordResult,
                  ReadExecutions, ReadResults, AskForInput, RecordInterrupted, EndInterrupted,
                  SaveReceipt, EndPass, mvars
    <3>. QED  BY <3>1 DEF Holds, MayRun, At
  <2>. QED  BY <2>1, <2>2, <2>3 DEF Next
<1>. QED  BY <1>1, RTypesInit, RTypesNext, PTL DEF Spec, InterruptedStaysBlocked

-----------------------------------------------------------------------------
\* One decision about a commit.

Noted(d, e) == \E ev \in timeline : ev.id = EngineEvent(d, e)

InResults == {"results", "saved", "noteApplied", "noteReconciled"}

\* Nobody has noted a result that is still in hand, and one that is about to be
\* noted is committed.
NotedInv ==
    /\ OneCommitDecision
    /\ pc \in InResults =>
          \A e \in todo : ~Noted("applied", e) /\ ~Noted("reconciled", e)
    /\ pc \in {"noteApplied", "noteReconciled"} => Least(todo) \in committed

\* The ids of decisions about engines and about tools.
LEMMA EventIds ==
    /\ \A d, e, c, f : EngineEvent(d, e) = EngineEvent(c, f) <=> d = c /\ e = f
    /\ \A d, s, c, e : ToolEvent(d, s) # EngineEvent(c, e)
BY DEF EngineEvent, ToolEvent

\* A decision is on the timeline when the loop goes on, and else the pass ends.
LEMMA RecordSays ==
    ASSUME NEW id, NEW hash, NEW item, NEW back, Record(id, hash, item, back)
    PROVE  /\ timeline \subseteq timeline'
           /\ \A ev \in timeline' : ev \in timeline \/ ev.id = id
           /\ \/ pc' = "idle" /\ todo' = {} /\ settled' = "no"
              \/ /\ pc' = back /\ todo' = todo \ {item} /\ settled' = settled
                 /\ \E ev \in timeline' : ev.id = id
<1>1. CASE Conflicts(id, hash)
  BY <1>1 DEF Record, Fail
<1>2. CASE ~Conflicts(id, hash)
  <2>1. /\ timeline' = timeline \cup {[id |-> id, hash |-> hash]}
        /\ todo' = todo \ {item} /\ pc' = back /\ settled' = settled
    BY <1>2 DEF Record
  <2>2. [id |-> id, hash |-> hash].id = id
    OBVIOUS
  <2>. QED  BY <2>1, <2>2
<1>. QED  BY <1>1, <1>2

\* A step that notes nothing about commits and takes up no result.
LEMMA NotedStutter ==
    ASSUME NotedInv, committed \subseteq committed',
           \A d \in {"applied", "reconciled"}, e \in Executions : Noted(d, e)' => Noted(d, e),
           pc' \notin InResults \/ (UNCHANGED <<pc, todo>> /\ timeline' = timeline)
    PROVE  NotedInv'
<1>1. OneCommitDecision'
  BY DEF NotedInv, OneCommitDecision, Noted
<1>2. CASE pc' \notin InResults
  BY <1>1, <1>2 DEF NotedInv, InResults
<1>3. CASE UNCHANGED <<pc, todo>> /\ timeline' = timeline
  BY <1>1, <1>3 DEF NotedInv, Noted, InResults
<1>. QED  BY <1>2, <1>3

\* A decision about a tool or an interrupted execution.
LEMMA NotedRecord ==
    ASSUME NotedInv, NEW id, NEW hash, NEW item, NEW back \in {"tools", "interrupted"},
           Record(id, hash, item, back), UNCHANGED committed,
           \A d \in {"applied", "reconciled"}, e \in Executions : id # EngineEvent(d, e)
    PROVE  NotedInv'
<1>1. \A ev \in timeline' : ev \in timeline \/ ev.id = id
  BY RecordSays
<1>2. pc' \notin InResults
  BY RecordSays DEF InResults
<1>3. \A d \in {"applied", "reconciled"}, e \in Executions : Noted(d, e)' => Noted(d, e)
  BY <1>1 DEF Noted
<1>. QED  BY <1>2, <1>3, NotedStutter

LEMMA NotedPassStep ==
    ASSUME PassTypes, NotedInv, PassStep
    PROVE  NotedInv'
<1>. DEFINE Same == \A d \in {"applied", "reconciled"}, e \in Executions : Noted(d, e)' => Noted(d, e)
<1>0. timeline' = timeline => Same
  BY DEF Noted
<1>. HIDE DEF Same
<1>1. ASSUME NEW s \in Steps, ReconcileStep(s)
      PROVE  NotedInv'
  <2>1. UNCHANGED <<committed, timeline, pc, todo>>
    BY <1>1 DEF ReconcileStep, rvars, files, ledger
  <2>. QED  BY <1>0, <2>1, NotedStutter DEF Same
<1>2. ASSUME NEW s \in Steps, RecordTool(s)
      PROVE  NotedInv'
  <2>1. PICK d \in ToolDecision : Record(ToolEvent(d, s), journal[s].line, s, "tools")
    BY <1>2 DEF RecordTool
  <2>2. UNCHANGED committed
    BY <1>2 DEF RecordTool, ledger
  <2>. QED  BY <2>1, <2>2, NotedRecord, EventIds
<1>3. CASE BeginResults
  <2>1. todo' = completed \ committed /\ UNCHANGED <<timeline, committed>> /\ pc' = "results"
    BY <1>3 DEF BeginResults, files, ledger
  <2>2. \A e \in todo' : e \in Executions /\ ~Noted("applied", e) /\ ~Noted("reconciled", e)
    BY <2>1 DEF NotedInv, OneCommitDecision, Noted, PassTypes
  <2>3. OneCommitDecision'
    BY <2>1 DEF NotedInv, OneCommitDecision
  <2>. QED  BY <2>1, <2>2, <2>3 DEF NotedInv, Noted
<1>4. CASE SaveResult
  <2>1. /\ pc = "results" /\ pc' = "saved"
        /\ UNCHANGED <<committed, timeline, todo>>
    BY <1>4 DEF SaveResult, ledger
  <2>. QED  BY <2>1 DEF NotedInv, OneCommitDecision, Noted, InResults
<1>5. CASE MarkResult
  <2>1. /\ pc \in InResults /\ pc' \in {"noteApplied", "noteReconciled"}
        /\ committed' = committed \cup {Least(todo)}
        /\ UNCHANGED <<timeline, todo>>
    BY <1>5 DEF MarkResult, InResults
  <2>2. OneCommitDecision'
    BY <2>1 DEF NotedInv, OneCommitDecision
  <2>3. \A e \in todo' : ~Noted("applied", e)' /\ ~Noted("reconciled", e)'
    BY <2>1 DEF NotedInv, Noted
  <2>4. (Least(todo) \in committed)'
    BY <2>1
  <2>. QED  BY <2>1, <2>2, <2>3, <2>4 DEF NotedInv
<1>6. CASE RecordResult
  <2>. DEFINE e == Least(todo)
              d == IF pc = "noteApplied" THEN "applied" ELSE "reconciled"
  <2>1. /\ pc \in {"noteApplied", "noteReconciled"} /\ todo # {}
        /\ Record(EngineEvent(d, e), 0, e, "results")
        /\ UNCHANGED committed
    BY <1>6 DEF RecordResult, ledger
  <2>2. e \in Executions /\ e \in todo /\ e \in committed
    BY <2>1, InHand DEF NotedInv
  <2>3. ~Noted("applied", e) /\ ~Noted("reconciled", e)
    BY <2>1, <2>2 DEF NotedInv, InResults
  <2>. HIDE DEF e, d
  <2>4. /\ \A ev \in timeline' : ev \in timeline \/ ev.id = EngineEvent(d, e)
        /\ (pc' = "results" /\ todo' = todo \ {e}) \/ pc' = "idle"
    BY <2>1, RecordSays
  <2>5. \A c, f : Noted(c, f)' => Noted(c, f) \/ (c = d /\ f = e)
    BY <2>4, EventIds DEF Noted
  <2>6. OneCommitDecision <=> \A f \in Executions :
           /\ ~(Noted("applied", f) /\ Noted("reconciled", f))
           /\ Noted("applied", f) \/ Noted("reconciled", f) => f \in committed
    BY DEF OneCommitDecision, Noted
  <2>7. OneCommitDecision' <=> \A f \in Executions :
           /\ ~(Noted("applied", f)' /\ Noted("reconciled", f)')
           /\ Noted("applied", f)' \/ Noted("reconciled", f)' => f \in committed'
    BY DEF OneCommitDecision, Noted
  <2>8. OneCommitDecision'
    BY <2>1, <2>2, <2>3, <2>5, <2>6, <2>7 DEF NotedInv
  <2>9. pc' \in InResults => \A f \in todo' : ~Noted("applied", f)' /\ ~Noted("reconciled", f)'
    BY <2>1, <2>4, <2>5 DEF NotedInv, InResults
  <2>. QED  BY <2>4, <2>8, <2>9 DEF NotedInv
<1>7. CASE RecordInterrupted
  <2>. DEFINE e == Least(todo)
              d == IF e \in Resumable THEN "resume" ELSE "input"
  <2>1. Record(EngineEvent(d, e), 0, e, "interrupted") /\ UNCHANGED committed
    BY <1>7 DEF RecordInterrupted, ledger
  <2>2. \A c \in {"applied", "reconciled"}, f \in Executions : EngineEvent(d, e) # EngineEvent(c, f)
    BY EventIds
  <2>. HIDE DEF d, e
  <2>. QED  BY <2>1, <2>2, NotedRecord
<1>8. CASE ReadExecutions \/ ReadResults \/ EndInterrupted \/ EndPass \/ AskForInput \/ SaveReceipt
  <2>1. UNCHANGED <<committed, timeline>> /\ (pc' \notin InResults \/ UNCHANGED <<pc, todo>>)
    BY <1>8
       DEF ReadExecutions, ReadResults, EndInterrupted, EndPass, AskForInput, SaveReceipt,
           rvars, files, ledger, InResults
  <2>. QED  BY <1>0, <2>1, NotedStutter DEF Same
<1>. QED
  BY <1>1, <1>2, <1>3, <1>4, <1>5, <1>6, <1>7, <1>8 DEF PassStep

LEMMA NotedNext == RTypes /\ NotedInv /\ [Next]_vars => NotedInv'
<1>. SUFFICES ASSUME PassTypes, NotedInv, [Next]_vars PROVE NotedInv'
  BY DEF RTypes
<1>1. CASE PassStep
  BY <1>1, NotedPassStep
<1>2. CASE UNCHANGED vars \/ EngineStep \/ Work \/ BeginPass \/ CrashProcess
  <2>1. UNCHANGED <<committed, timeline>> /\ (pc' \notin InResults \/ UNCHANGED <<pc, todo>>)
    BY <1>2 DEF vars, EngineStep, StartExecution, CompleteResult, Work, BeginPass, CrashProcess,
                rvars, files, ledger, InResults
  <2>. QED  BY <2>1, NotedStutter DEF Noted
<1>. QED  BY <1>1, <1>2 DEF Next

LEMMA NotedInductive == Spec => [](RTypes /\ CommitInv /\ NotedInv)
<1>1. Init => NotedInv
  BY DEF Init, NotedInv, OneCommitDecision, InResults
<1>. QED  BY <1>1, CommitInductive, NotedNext, PTL DEF Spec

\* The timeline tells one story of every commit, for any number of executions
\* and crashes.
THEOREM CommitIsNotedOnce == Spec => []OneCommitDecision
BY NotedInductive, PTL DEF NotedInv

-----------------------------------------------------------------------------
\* What a pass has settled.

\* The decision that the journal record of s calls for.
Answers(d, s) ==
    \/ d = "reused" /\ Reused(s)
    \/ d = "blocked" /\ Blocked(s)
    \/ d = "retry" /\ Retried(s)

\* A step that the task knows says what the journal says, and the timeline has
\* the decision.
StepSettled(s) ==
    Known(task, s) =>
        /\ Reused(s) => task.steps[s] = "completed"
        /\ Blocked(s) => task.steps[s] = "ambiguous"
        /\ \E d \in ToolDecision :
              Answers(d, s) /\ \E ev \in timeline : ev.id = ToolEvent(d, s)

\* An interrupted execution has its decision.
ExecutionSettled(e) == Noted(IF e \in Resumable THEN "resume" ELSE "input", e)

ToolsBehind ==
    /\ pc = "tools" =>
          /\ \A s \in todo : Known(task, s)
          /\ \A s \in Steps \ todo : StepSettled(s)
    /\ pc \notin {"idle", "tools"} => \A s \in Steps : StepSettled(s)

ResultsBehind ==
    /\ pc \in InResults => completed \ committed \subseteq todo
    /\ pc \in {"executions", "interrupted", "receipt", "proof"} => completed \subseteq committed

ExecutionsBehind ==
    /\ pc = "executions" => todo = started
    /\ pc = "interrupted" =>
          /\ todo \subseteq started \ completed
          /\ \A e \in (started \ completed) \ todo : ExecutionSettled(e)
    /\ pc \in {"receipt", "proof"} => \A e \in started \ completed : ExecutionSettled(e)

ReceiptBehind == pc = "proof" => ReceiptDue /\ CurrentEvidence \in receipts

\* What a whole pass leaves, and another one finds.
AllSettled ==
    /\ \A s \in Steps : StepSettled(s)
    /\ completed \subseteq committed
    /\ \A e \in started \ completed : ExecutionSettled(e)
    /\ ReceiptDue => CurrentEvidence \in receipts \cap proofs
    /\ pc \in InResults => pc = "results" /\ todo = {}

SettledInv ==
    settled # "no" =>
        /\ ToolsBehind /\ ResultsBehind /\ ExecutionsBehind /\ ReceiptBehind
        /\ settled = "yes" => AllSettled

\* When one execution at most cannot be resumed, nobody asks for it twice.
AskedInv ==
    settled # "no" =>
        /\ pc = "interrupted" => \A e \in (started \ completed) \ todo : ~MustAsk(e)
        /\ pc \in {"receipt", "proof"} \/ settled = "yes" =>
              \A e \in started \ completed : ~MustAsk(e)

\* What is settled stays so while the journal, the steps and what the timeline
\* has are kept.
LEMMA SettledStays ==
    ASSUME UNCHANGED journal, task'.steps = task.steps, timeline \subseteq timeline'
    PROVE  /\ \A s : StepSettled(s) => StepSettled(s)'
           /\ \A e : ExecutionSettled(e) => ExecutionSettled(e)'
           /\ \A s : Known(task, s)' = Known(task, s)
BY DEF StepSettled, ExecutionSettled, Noted, Known, Answers, Reused, Blocked, Retried

\* A decision that the timeline has already leaves it as it is.
LEMMA RecordAgain ==
    ASSUME timeline \in SUBSET Events, NEW id, NEW hash, NEW item, NEW back,
           Record(id, hash, item, back), \E ev \in timeline : ev.id = id
    PROVE  timeline' = timeline
<1>1. CASE Conflicts(id, hash)
  BY <1>1 DEF Record
<1>2. CASE ~Conflicts(id, hash)
  <2>1. PICK ev \in timeline : ev.id = id
    OBVIOUS
  <2>2. ev.hash = hash /\ ev \in Events
    BY <1>2, <2>1 DEF Conflicts
  <2>3. ev = [id |-> id, hash |-> hash]
    BY <2>1, <2>2 DEF Events
  <2>. QED  BY <1>2, <2>1, <2>3 DEF Record
<1>. QED  BY <1>1, <1>2

\* What a step of a repeated pass may do to the task: nothing, but ask again
\* for an execution that cannot be resumed.
AsksAgain ==
    \E e \in Executions \ Resumable :
        /\ task.status \notin Terminal
        /\ task' = InputRequested(task, InterruptedReason(e))

\* A pass that follows a whole pass writes no file but, perhaps, the task's.
LEMMA RepeatedStep ==
    ASSUME RTypes, CommitInv, SettledInv, settled = "yes", PassStep
    PROVE  UNCHANGED files /\ (UNCHANGED task \/ (AskForInput /\ AsksAgain))
<1>. USE DEF RTypes, SettledInv, AllSettled, InResults
<1>0. PassTypes /\ committed \subseteq completed
  BY DEF CommitInv, CommittedExactlyOnce, HasResult
<1>1. ASSUME NEW s \in Steps, ReconcileStep(s) PROVE FALSE
  BY <1>1 DEF ReconcileStep, ToolsBehind, StepSettled
<1>2. ASSUME NEW s \in Steps, RecordTool(s)
      PROVE  UNCHANGED <<files, task>>
  <2>1. PICK d \in ToolDecision :
           Answers(d, s) /\ Record(ToolEvent(d, s), journal[s].line, s, "tools")
    BY <1>2 DEF RecordTool, Answers
  <2>2. pc = "tools" /\ s \in todo /\ UNCHANGED <<mvars, ledger, session, receipts, proofs>>
    BY <1>2 DEF RecordTool
  <2>3. PICK c \in ToolDecision : Answers(c, s) /\ \E ev \in timeline : ev.id = ToolEvent(c, s)
    BY <2>2 DEF ToolsBehind, StepSettled
  <2>4. c = d
    BY <2>1, <2>3 DEF Answers, Reused, Blocked, Retried
  <2>5. timeline' = timeline
    BY <1>0, <2>1, <2>3, <2>4, RecordAgain DEF PassTypes
  <2>. QED  BY <2>2, <2>5 DEF mvars, files
<1>3. CASE BeginResults \/ ReadExecutions \/ ReadResults \/ EndInterrupted
  BY <1>3 DEF BeginResults, ReadExecutions, ReadResults, EndInterrupted, mvars
<1>4. CASE SaveResult \/ MarkResult \/ RecordResult
  BY <1>4 DEF SaveResult, MarkResult, RecordResult
<1>5. CASE AskForInput
  <2>1. Least(todo) \in Executions
    BY <1>0, <1>5, InHand DEF AskForInput
  <2>2. AsksAgain
    BY <1>5, <2>1 DEF AskForInput, AsksAgain, MustAsk
  <2>. QED  BY <1>5, <2>2 DEF AskForInput, rvars
<1>6. CASE RecordInterrupted
  <2>. DEFINE e == Least(todo)
              d == IF e \in Resumable THEN "resume" ELSE "input"
  <2>1. /\ pc = "interrupted" /\ todo # {}
        /\ Record(EngineEvent(d, e), 0, e, "interrupted")
        /\ UNCHANGED <<mvars, ledger, session, receipts, proofs>>
    BY <1>6 DEF RecordInterrupted
  <2>2. e \in todo /\ todo \subseteq started \ completed
    BY <1>0, <2>1, InHand DEF ExecutionsBehind
  <2>3. \E ev \in timeline : ev.id = EngineEvent(d, e)
    BY <2>2 DEF ExecutionSettled, Noted
  <2>. HIDE DEF d, e
  <2>4. timeline' = timeline
    BY <1>0, <2>1, <2>3, RecordAgain DEF PassTypes
  <2>. QED  BY <2>1, <2>4 DEF mvars, files
<1>7. CASE SaveReceipt
  BY <1>7 DEF SaveReceipt, mvars, files
<1>8. CASE EndPass
  BY <1>8 DEF EndPass, mvars, files, ReceiptBehind
<1>. QED
  BY <1>1, <1>2, <1>3, <1>4, <1>5, <1>6, <1>7, <1>8 DEF PassStep

\* The task events of a pass change one step, and no pass forgets a step.
LEMMA ReconcileTypes ==
    ASSUME Types(Reasons), NEW s \in Steps, ReconcileStep(s)
    PROVE  /\ \A r \in Steps \ {s} : task'.steps[r] = task.steps[r]
           /\ \A r \in Steps : Known(task, r)' = Known(task, r)
<1>1. task \in TaskStates(Reasons)
  BY DEF Types
<1>2. task' = StepCompleted(task, s) \/ task' = StepAmbiguous(task, s)
  BY DEF ReconcileStep
<1>. QED
  BY <1>1, <1>2 DEF StepCompleted, StepAmbiguous, TaskStates, Known

\* A repeated pass keeps what is settled.
LEMMA SettledRepeated ==
    ASSUME RTypes, CommitInv, SettledInv, settled = "yes", settled' = "yes", PassStep
    PROVE  AllSettled'
<1>1. UNCHANGED files /\ (UNCHANGED task \/ (AskForInput /\ AsksAgain)) /\ AllSettled
  BY RepeatedStep DEF SettledInv
<1>2. UNCHANGED <<journal, started, completed, committed, timeline, receipts, proofs>>
  BY <1>1 DEF files, ledger, PassStep, ReconcileStep, RecordTool, BeginResults, SaveResult,
              MarkResult, RecordResult, ReadExecutions, ReadResults, AskForInput,
              RecordInterrupted, EndInterrupted, SaveReceipt, EndPass, mvars
<1>3. task'.steps = task.steps
  BY <1>1 DEF AsksAgain, InputRequested, RTypes, Types, TaskStates
<1>4. /\ \A s \in Steps : StepSettled(s)'
      /\ \A e \in (started \ completed)' : ExecutionSettled(e)'
  BY <1>1, <1>2, <1>3, SettledStays DEF AllSettled
<1>5. (ReceiptDue => CurrentEvidence \in receipts \cap proofs)'
  <2>1. CASE UNCHANGED task
    BY <1>1, <1>2, <2>1 DEF AllSettled, ReceiptDue, ProgressComplete, CurrentEvidence
  <2>2. CASE AsksAgain
    <3>1. task'.status = "input_required"
      BY <2>2 DEF AsksAgain, InputRequested, RTypes, Types, TaskStates
    <3>. QED  BY <3>1 DEF ReceiptDue
  <2>. QED  BY <1>1, <2>1, <2>2
<1>6. (pc \in InResults => pc = "results" /\ todo = {})'
  BY <1>1, <1>2
     DEF SettledInv, AllSettled, ResultsBehind, InResults, PassStep, ReconcileStep, RecordTool,
         Record, Fail, BeginResults, SaveResult, MarkResult, RecordResult, ReadExecutions,
         ReadResults, AskForInput, RecordInterrupted, EndInterrupted, SaveReceipt, EndPass, rvars
<1>. QED  BY <1>1, <1>2, <1>4, <1>5, <1>6 DEF AllSettled

\* A step of a pass leaves more behind it and takes nothing back.
LEMMA BehindPassStep ==
    ASSUME RTypes, CommitInv, NotedInv, SettledInv, settled # "no", settled' # "no", PassStep
    PROVE  (ToolsBehind /\ ResultsBehind /\ ExecutionsBehind /\ ReceiptBehind)'
<1>. USE DEF ToolsBehind, ResultsBehind, ExecutionsBehind, ReceiptBehind, InResults
<1>0. /\ PassTypes /\ ToolsBehind /\ ResultsBehind /\ ExecutionsBehind /\ ReceiptBehind
      /\ Types(Reasons)
  BY DEF RTypes, SettledInv
<1>1. ASSUME NEW s \in Steps, ReconcileStep(s)
      PROVE  (ToolsBehind /\ ResultsBehind /\ ExecutionsBehind /\ ReceiptBehind)'
  <2>1. /\ pc = "tools" /\ s \in todo
        /\ UNCHANGED <<journal, pc, todo, timeline, started, completed, committed, receipts>>
    BY <1>1 DEF ReconcileStep, rvars, files, ledger
  <2>2. \A r \in Steps \ todo : StepSettled(r)'
    <3>. SUFFICES ASSUME NEW r \in Steps \ todo PROVE StepSettled(r)'
      OBVIOUS
    <3>1. StepSettled(r) /\ task'.steps[r] = task.steps[r]
      BY <1>0, <1>1, <2>1, ReconcileTypes
    <3>. QED
      BY <2>1, <3>1 DEF StepSettled, Known, Answers, Reused, Blocked, Retried
  <2>3. \A r \in todo : Known(task, r)'
    BY <1>0, <1>1, <2>1, ReconcileTypes DEF PassTypes, TodoOK
  <2>. QED  BY <2>1, <2>2, <2>3
<1>2. ASSUME NEW s \in Steps, RecordTool(s)
      PROVE  (ToolsBehind /\ ResultsBehind /\ ExecutionsBehind /\ ReceiptBehind)'
  <2>1. PICK d \in ToolDecision :
           /\ Answers(d, s) /\ Record(ToolEvent(d, s), journal[s].line, s, "tools")
           /\ d = "reused" => task.steps[s] = "completed"
           /\ d = "blocked" => task.steps[s] = "ambiguous"
    BY <1>2 DEF RecordTool, Answers
  <2>2. pc = "tools" /\ s \in todo /\ UNCHANGED <<journal, task, completed, committed>>
    BY <1>2 DEF RecordTool, mvars, ledger
  <2>3. /\ pc' = "tools" /\ todo' = todo \ {s} /\ timeline \subseteq timeline'
        /\ \E ev \in timeline' : ev.id = ToolEvent(d, s)
    BY <2>1, RecordSays
  <2>4. StepSettled(s)'
    BY <2>1, <2>2, <2>3 DEF StepSettled, Known, Answers, Reused, Blocked, Retried
  <2>5. \A r \in Steps \ todo : StepSettled(r)'
    BY <1>0, <2>2, <2>3, SettledStays
  <2>6. \A r \in todo' : Known(task, r)'
    BY <1>0, <2>2, <2>3, SettledStays
  <2>. QED  BY <2>3, <2>4, <2>5, <2>6
<1>3. \A s \in Steps : pc \notin {"idle", "tools"} => StepSettled(s)
  BY <1>0
<1>4. CASE BeginResults \/ ReadExecutions \/ ReadResults \/ EndInterrupted \/ SaveResult
             \/ MarkResult \/ SaveReceipt \/ AskForInput
  <2>1. UNCHANGED <<journal, timeline>> /\ task'.steps = task.steps
    BY <1>0, <1>4 DEF BeginResults, ReadExecutions, ReadResults, EndInterrupted, SaveResult, MarkResult,
         SaveReceipt, AskForInput, InputRequested, Types, TaskStates, mvars, rvars, files
  <2>2. /\ \A s : StepSettled(s) => StepSettled(s)'
        /\ \A e : ExecutionSettled(e) => ExecutionSettled(e)'
    BY <2>1, SettledStays
  <2>3. CASE BeginResults
    BY <1>0, <2>2, <2>3 DEF BeginResults, files, ledger
  <2>4. CASE ReadExecutions
    BY <1>0, <2>2, <2>4 DEF ReadExecutions, files, ledger
  <2>5. CASE ReadResults
    BY <1>0, <2>2, <2>5 DEF ReadResults, files, ledger
  <2>6. CASE EndInterrupted
    BY <1>0, <2>2, <2>6 DEF EndInterrupted, files, ledger
  <2>7. CASE SaveResult
    BY <1>0, <2>2, <2>7 DEF SaveResult, ledger
  <2>8. CASE MarkResult
    BY <1>0, <2>2, <2>8 DEF MarkResult
  <2>9. CASE SaveReceipt
    BY <1>0, <2>2, <2>9 DEF SaveReceipt, mvars, ledger, ReceiptDue, ProgressComplete, CurrentEvidence
  <2>10. CASE AskForInput
    BY <1>0, <2>2, <2>10 DEF AskForInput, rvars, files, ledger
  <2>. QED
    BY <1>4, <2>3, <2>4, <2>5, <2>6, <2>7, <2>8, <2>9, <2>10
<1>5. CASE RecordResult
  <2>1. PICK id : Record(id, 0, Least(todo), "results")
    BY <1>5 DEF RecordResult
  <2>2. /\ pc \in {"noteApplied", "noteReconciled"}
        /\ UNCHANGED <<journal, task, completed, committed>>
    BY <1>5 DEF RecordResult, mvars, ledger
  <2>3. pc' = "results" /\ todo' = todo \ {Least(todo)} /\ timeline \subseteq timeline'
    BY <2>1, RecordSays
  <2>4. \A s : StepSettled(s) => StepSettled(s)'
    BY <2>2, <2>3, SettledStays
  <2>5. Least(todo) \in committed
    BY <2>2 DEF NotedInv
  <2>. QED  BY <1>0, <2>2, <2>3, <2>4, <2>5
<1>6. CASE RecordInterrupted
  <2>1. PICK e : e = Least(todo)
    OBVIOUS
  <2>2. PICK d : d = IF e \in Resumable THEN "resume" ELSE "input"
    OBVIOUS
  <2>3. /\ pc = "interrupted" /\ todo # {}
        /\ Record(EngineEvent(d, e), 0, e, "interrupted")
        /\ UNCHANGED <<journal, task, started, completed, committed>>
    BY <1>6, <2>1, <2>2 DEF RecordInterrupted, mvars, ledger
  <2>4. /\ pc' = "interrupted" /\ todo' = todo \ {e} /\ timeline \subseteq timeline'
        /\ \E ev \in timeline' : ev.id = EngineEvent(d, e)
    BY <2>3, RecordSays
  <2>5. /\ \A s : StepSettled(s) => StepSettled(s)'
        /\ \A f : ExecutionSettled(f) => ExecutionSettled(f)'
    BY <2>3, <2>4, SettledStays
  <2>6. ExecutionSettled(e)'
    BY <2>2, <2>4 DEF ExecutionSettled, Noted
  <2>. QED  BY <1>0, <2>3, <2>4, <2>5, <2>6
<1>7. CASE EndPass
  BY <1>7 DEF EndPass
<1>. QED
  BY <1>1, <1>2, <1>4, <1>5, <1>6, <1>7 DEF PassStep

\* A whole pass leaves everything settled.
LEMMA SettledEndPass ==
    ASSUME RTypes, SettledInv, settled # "no", EndPass
    PROVE  AllSettled'
<1>1. /\ pc \in {"receipt", "proof"} /\ pc' = "idle"
      /\ pc = "receipt" => ~ReceiptDue
      /\ pc = "proof" => proofs' = proofs \cup {CurrentEvidence}
      /\ UNCHANGED <<journal, task, started, completed, committed, timeline, receipts>>
  BY DEF EndPass, mvars, ledger
<1>2. /\ \A s \in Steps : StepSettled(s)
      /\ completed \subseteq committed
      /\ \A e \in started \ completed : ExecutionSettled(e)
      /\ pc = "proof" => CurrentEvidence \in receipts
  BY <1>1 DEF SettledInv, ToolsBehind, ResultsBehind, ExecutionsBehind, ReceiptBehind
<1>3. /\ \A s \in Steps : StepSettled(s)'
      /\ \A e \in (started \ completed)' : ExecutionSettled(e)'
  BY <1>1, <1>2, SettledStays
<1>4. ReceiptDue' = ReceiptDue /\ CurrentEvidence' = CurrentEvidence
  BY <1>1 DEF ReceiptDue, ProgressComplete, CurrentEvidence
<1>. QED  BY <1>1, <1>2, <1>3, <1>4 DEF AllSettled, InResults

LEMMA SettledNext ==
    RTypes /\ CommitInv /\ NotedInv /\ SettledInv /\ [Next]_vars => SettledInv'
<1>. SUFFICES ASSUME RTypes, CommitInv, NotedInv, SettledInv, [Next]_vars, settled' # "no"
              PROVE  /\ (ToolsBehind /\ ResultsBehind /\ ExecutionsBehind /\ ReceiptBehind)'
                     /\ settled' = "yes" => AllSettled'
  BY DEF SettledInv
<1>1. CASE PassStep
  <2>1. settled # "no"
    BY <1>1 DEF PassStep, ReconcileStep, RecordTool, Record, Fail, BeginResults, SaveResult,
         MarkResult, RecordResult, ReadExecutions, ReadResults, AskForInput,
         RecordInterrupted, EndInterrupted, SaveReceipt, EndPass, rvars
  <2>2. settled' = "yes" => AllSettled'
    <3>1. CASE settled = "yes"
      BY <1>1, <3>1, SettledRepeated
    <3>2. CASE settled # "yes" /\ ~EndPass
      BY <1>1, <3>2 DEF PassStep, ReconcileStep, RecordTool, Record, Fail, BeginResults, SaveResult,
           MarkResult, RecordResult, ReadExecutions, ReadResults, AskForInput,
           RecordInterrupted, EndInterrupted, SaveReceipt, rvars
    <3>3. CASE EndPass
      BY <2>1, <3>3, SettledEndPass
    <3>. QED  BY <3>1, <3>2, <3>3
  <2>. QED  BY <1>1, <2>1, <2>2, BehindPassStep
<1>2. CASE UNCHANGED vars
  BY <1>2
     DEF vars, mvars, rvars, files, ledger, SettledInv, ToolsBehind, ResultsBehind, ExecutionsBehind,
         ReceiptBehind, AllSettled, StepSettled, ExecutionSettled, Noted, Known, Answers, Reused,
         Blocked, Retried, ReceiptDue, ProgressComplete, CurrentEvidence
<1>3. CASE EngineStep \/ Work
  BY <1>3 DEF EngineStep, StartExecution, CompleteResult, Work
<1>4. CASE BeginPass \/ CrashProcess
  <2>1. /\ UNCHANGED <<journal, task, started, completed, committed, timeline, receipts, proofs>>
        /\ (pc' = "tools" /\ todo' = {s \in Steps : Known(task, s)}) \/ pc' = "idle"
        /\ settled' = "yes" => settled = "yes"
    BY <1>4 DEF BeginPass, CrashProcess, Crash, mvars, files, ledger
  <2>2. /\ \A s : StepSettled(s) => StepSettled(s)'
        /\ \A e : ExecutionSettled(e) => ExecutionSettled(e)'
        /\ \A s : Known(task, s)' = Known(task, s)
    BY <2>1, SettledStays
  <2>3. ReceiptDue' = ReceiptDue /\ CurrentEvidence' = CurrentEvidence
    BY <2>1 DEF ReceiptDue, ProgressComplete, CurrentEvidence
  <2>4. settled' = "yes" => AllSettled'
    BY <2>1, <2>2, <2>3 DEF SettledInv, AllSettled, InResults
  <2>5. \A s \in Steps : ~Known(task, s)' => StepSettled(s)'
    BY DEF StepSettled
  <2>6. ToolsBehind'
    BY <2>1, <2>2, <2>5 DEF ToolsBehind
  <2>7. (ResultsBehind /\ ExecutionsBehind /\ ReceiptBehind)'
    BY <2>1 DEF ResultsBehind, ExecutionsBehind, ReceiptBehind, InResults
  <2>. QED  BY <2>4, <2>6, <2>7
<1>. QED  BY <1>1, <1>2, <1>3, <1>4 DEF Next

LEMMA SettledInductive == Spec => [](RTypes /\ CommitInv /\ NotedInv /\ SettledInv)
<1>1. Init => SettledInv
  BY DEF Init, SettledInv
<1>. QED  BY <1>1, NotedInductive, SettledNext, PTL DEF Spec

\* After a whole pass the stores agree, for any steps, executions and crashes
\* before it.
THEOREM PassSettlesStores == Spec => []StoresAgree
<1>1. CommitInv /\ SettledInv => StoresAgree
  <2>. SUFFICES ASSUME CommitInv, AllSettled PROVE StoresAgree
    BY DEF SettledInv, StoresAgree
  <2>1. completed = committed
    BY DEF AllSettled, CommitInv, CommittedExactlyOnce, HasResult
  <2>2. \A e \in started \ completed :
           \E ev \in timeline : ev.id \in {EngineEvent("resume", e), EngineEvent("input", e)}
    BY DEF AllSettled, ExecutionSettled, Noted
  <2>. QED  BY <2>1, <2>2 DEF AllSettled, StepSettled, StoresAgree
<1>. QED  BY <1>1, SettledInductive, PTL

-----------------------------------------------------------------------------
\* A repeated pass.

\* A step between whole passes is one of a pass, its beginning or a crash.
LEMMA BetweenPasses ==
    ASSUME Next, settled = "yes", settled' = "yes", ~PassStep
    PROVE  UNCHANGED <<task, files>>
BY DEF Next, EngineStep, StartExecution, CompleteResult, Work, BeginPass, CrashProcess, Crash, mvars

\* A pass that follows a whole pass, with nothing in between, writes nothing but
\* its question about an execution that cannot be resumed: however many there
\* are, a task has room for one question (InputRequested).
THEOREM RepeatedPassOnlyAsks ==
    Spec => [][settled = "yes" /\ settled' = "yes"
               => UNCHANGED files /\ (UNCHANGED task \/ AsksAgain)]_vars
<1>. DEFINE Asks == settled = "yes" /\ settled' = "yes"
                    => UNCHANGED files /\ (UNCHANGED task \/ AsksAgain)
<1>1. RTypes /\ CommitInv /\ SettledInv /\ [Next]_vars => [Asks]_vars
  BY RepeatedStep, BetweenPasses
<1>. QED  BY <1>1, SettledInductive, PTL DEF Spec

\* Whether to ask depends on the task alone.
LEMMA AskedStays ==
    ASSUME UNCHANGED task
    PROVE  \A e : MustAsk(e)' = MustAsk(e)
BY DEF MustAsk

LEMMA AskedPassStep ==
    ASSUME \A e, f \in Executions \ Resumable : e = f,
           RTypes, CommitInv, SettledInv, AskedInv, settled # "no", settled' # "no", PassStep
    PROVE  AskedInv'
<1>0. PassTypes /\ Types(Reasons)
  BY DEF RTypes
<1>1. CASE settled = "yes"
  <2>1. ~AskForInput
    <3>1. SUFFICES ASSUME AskForInput PROVE FALSE
      OBVIOUS
    <3>2. pc = "interrupted" /\ Least(todo) \in todo /\ MustAsk(Least(todo))
      BY <1>0, <3>1, InHand DEF AskForInput
    <3>3. todo \subseteq started \ completed
      BY <1>1, <3>2 DEF SettledInv, ExecutionsBehind
    <3>. QED  BY <1>1, <3>2, <3>3 DEF AskedInv
  <2>2. UNCHANGED <<task, started, completed>>
    BY <1>1, <2>1, RepeatedStep DEF files, ledger
  <2>. QED  BY <1>1, <2>2, AskedStays DEF AskedInv
<1>2. CASE settled # "yes" /\ AskForInput
  <2>1. PICK e : e = Least(todo)
    OBVIOUS
  <2>2. /\ e \in Executions /\ e \in todo /\ e \notin Resumable
        /\ pc' = "interrupted" /\ settled' = settled
        /\ UNCHANGED <<pc, todo, started, completed>>
    BY <1>0, <1>2, <2>1, InHand DEF AskForInput, MustAsk, rvars, files, ledger
  <2>3. \A f \in Executions \ {e} : ~MustAsk(f)'
    BY <2>2 DEF MustAsk
  <2>4. started \subseteq Executions
    BY <1>0 DEF PassTypes
  <2>. QED  BY <1>2, <2>2, <2>3, <2>4 DEF AskedInv
<1>3. CASE settled # "yes" /\ RecordInterrupted
  <2>1. PICK e : e = Least(todo)
    OBVIOUS
  <2>2. PICK id : Record(id, 0, e, "interrupted")
    BY <1>3, <2>1 DEF RecordInterrupted
  <2>3. /\ pc = "interrupted" /\ ~MustAsk(e)
        /\ UNCHANGED <<task, started, completed>>
    BY <1>3, <2>1 DEF RecordInterrupted, mvars, ledger
  <2>4. pc' = "interrupted" /\ todo' = todo \ {e} /\ settled' = settled
    BY <2>2, RecordSays
  <2>. QED  BY <1>3, <2>3, <2>4, AskedStays DEF AskedInv
<1>4. CASE settled # "yes" /\ (EndInterrupted \/ EndPass \/ SaveReceipt \/ ReadResults)
  <2>1. UNCHANGED <<task, started, completed>>
    BY <1>4 DEF EndInterrupted, EndPass, SaveReceipt, ReadResults, mvars, files, ledger
  <2>2. /\ EndInterrupted => pc = "interrupted" /\ todo = {}
        /\ EndPass => pc \in {"receipt", "proof"} /\ pc' = "idle"
        /\ SaveReceipt => pc = "receipt" /\ pc' = "proof" /\ settled' = settled
        /\ ReadResults => /\ pc = "executions" /\ pc' = "interrupted"
                          /\ todo' = todo \ completed /\ settled' = settled
        /\ EndInterrupted => pc' = "receipt" /\ settled' = settled
    BY DEF EndInterrupted, EndPass, SaveReceipt, ReadResults
  <2>3. ReadResults => todo = started
    BY <1>4, <2>2 DEF SettledInv, ExecutionsBehind
  <2>. QED  BY <1>4, <2>1, <2>2, <2>3, AskedStays DEF AskedInv
<1>5. CASE /\ settled # "yes"
           /\ \/ \E s \in Steps : ReconcileStep(s) \/ RecordTool(s)
              \/ BeginResults \/ SaveResult \/ MarkResult \/ RecordResult \/ ReadExecutions
  <2>1. settled' # "yes" /\ pc' \notin {"interrupted", "receipt", "proof"}
    BY <1>5 DEF ReconcileStep, RecordTool, BeginResults, SaveResult, MarkResult, RecordResult,
                ReadExecutions, Record, Fail, rvars
  <2>. QED  BY <2>1 DEF AskedInv
<1>. QED
  BY <1>1, <1>2, <1>3, <1>4, <1>5 DEF PassStep

LEMMA AskedNext ==
    ASSUME \A e, f \in Executions \ Resumable : e = f
    PROVE  RTypes /\ CommitInv /\ SettledInv /\ AskedInv /\ [Next]_vars => AskedInv'
<1>. SUFFICES ASSUME RTypes, CommitInv, SettledInv, AskedInv, [Next]_vars, settled' # "no"
              PROVE  AskedInv'
  BY DEF AskedInv
<1>1. CASE PassStep
  <2>1. settled # "no"
    BY <1>1 DEF PassStep, ReconcileStep, RecordTool, Record, Fail, BeginResults, SaveResult,
         MarkResult, RecordResult, ReadExecutions, ReadResults, AskForInput,
         RecordInterrupted, EndInterrupted, SaveReceipt, EndPass, rvars
  <2>. QED  BY <1>1, <2>1, AskedPassStep
<1>2. CASE UNCHANGED vars
  BY <1>2, AskedStays DEF vars, mvars, rvars, files, ledger, AskedInv
<1>3. CASE EngineStep \/ Work
  BY <1>3 DEF EngineStep, StartExecution, CompleteResult, Work
<1>4. CASE BeginPass \/ CrashProcess
  <2>1. /\ UNCHANGED <<task, started, completed>>
        /\ pc' \in {"idle", "tools"} /\ (settled' = "yes" => settled = "yes")
    BY <1>4 DEF BeginPass, CrashProcess, Crash, mvars, files, ledger
  <2>. QED  BY <2>1, AskedStays DEF AskedInv
<1>. QED  BY <1>1, <1>2, <1>3, <1>4 DEF Next

\* When one execution at most cannot be resumed, a pass that follows a whole
\* pass, with nothing in between, writes nothing at all.
THEOREM RepeatedPassIsSilent ==
    ASSUME \A e, f \in Executions \ Resumable : e = f
    PROVE  Spec => RepeatIsSilent
<1>. DEFINE Silent == settled = "yes" /\ settled' = "yes" => UNCHANGED <<task, files>>
<1>1. Init => AskedInv
  BY DEF Init, AskedInv
<1>2. RTypes /\ CommitInv /\ SettledInv /\ AskedInv /\ [Next]_vars => AskedInv'
  BY AskedNext
<1>3. RTypes /\ CommitInv /\ SettledInv /\ AskedInv /\ [Next]_vars => [Silent]_vars
  <2>. SUFFICES ASSUME RTypes, CommitInv, SettledInv, AskedInv, Next,
                       settled = "yes", settled' = "yes"
                PROVE  UNCHANGED <<task, files>>
    OBVIOUS
  <2>1. CASE PassStep /\ AskForInput
    <3>1. pc = "interrupted" /\ Least(todo) \in todo /\ MustAsk(Least(todo))
      BY <2>1, InHand DEF AskForInput, RTypes
    <3>2. todo \subseteq started \ completed
      BY <3>1 DEF SettledInv, ExecutionsBehind
    <3>. QED  BY <3>1, <3>2 DEF AskedInv
  <2>2. CASE PassStep /\ ~AskForInput
    BY <2>2, RepeatedStep
  <2>3. CASE ~PassStep
    BY <2>3, BetweenPasses
  <2>. QED  BY <2>1, <2>2, <2>3
<1>. QED  BY <1>1, <1>2, <1>3, SettledInductive, PTL DEF Spec, RepeatIsSilent
=============================================================================
