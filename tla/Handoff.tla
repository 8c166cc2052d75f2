------------------------------- MODULE Handoff -------------------------------
(***************************************************************************)
(* From a revision of the project brain to an engine: handoff.Assemble     *)
(* makes a package for the engine that routing selects, the executors of   *)
(* routing and handoff check it against what is current, the handoff store *)
(* keeps packages, bindings and cancellations, and the engine runtime      *)
(* carries the execution out or cancels it.                                *)
(*                                                                         *)
(* A line of the store is one step, and its memory the replay of its file. *)
(* The runtime is what EngineRuntime has in full: here an execution has a  *)
(* disposition, and a repeated start is found out by it.                   *)
(***************************************************************************)
EXTENDS ContextScout, Routing

CONSTANTS
    Listings   \* what the resolver lists, first and after changes

ASSUME HandoffAssumption == Listings \in Seq(Seq(Entries)) /\ Listings # <<>>

VARIABLES
    task,      \* the last sequence of the task
    listed,    \* the candidates as the resolver lists them
    packages,  \* handoff store: packages saved,
    bound,     \* those bound to their execution,
    cancelled, \* and those cancelled
    disp,      \* runtime: disposition of each execution that was begun
    started,   \* history: the packages adapter.Start was called for,
    starts,    \* how often it was called for an execution, and how often a second
    ties       \* BeginOnce read the time at which the execution was begun

routeVars == <<task, listed>>
handoffStore == <<packages, bound, cancelled>>
history == <<started, starts, ties>>
handoffVars == <<routeVars, handoffStore, disp, history>>
vars == <<scoutVars, handoffVars>>

\* "ended" is completed, failed, cancelled or input_required: no call starts
\* or resumes such an execution again.
Dispositions == {"running", "resume_required", "ended"}

\* ExecutionID: a digest of task, packet, brain revision and engine, but not
\* of the sequence of the task, so packages may share an execution.
Execution(p) == [packet |-> p.packet, revision |-> p.revision, engine |-> p.engine]

Times(f, e) == IF e \in DOMAIN f THEN f[e] ELSE 0
Again(f, e) == [x \in DOMAIN f \cup {e} |-> Times(f, x) + (IF x = e THEN 1 ELSE 0)]

Disposition(e) == IF e \in DOMAIN disp THEN disp[e] ELSE "none"

SetDisposition(e, d) ==
    disp' = [f \in DOMAIN disp \cup {e} |-> IF f = e THEN d ELSE disp[f]]

Package(d) == work[d].package
Return(d) == Do(d, [at |-> "ready", package |-> Package(d), plan |-> work[d].plan])

HandoffInit ==
    /\ task = 0
    /\ listed = Head(Listings)
    /\ packages = {} /\ bound = {} /\ cancelled = {}
    /\ disp = <<>> /\ started = {} /\ starts = <<>> /\ ties = <<>>

-----------------------------------------------------------------------------
\* Assemble, for the engine of a plan.
Assemble(d) ==
    LET plan == Select(listed, {})
        p == [sequence |-> task, packet |-> work[d].stamp, revision |-> work[d].revision,
              engine |-> plan.engine]
    IN  /\ At(d, "revised")
        /\ IF plan = NoPlan THEN Leave(d)
           ELSE Do(d, [at |-> "ready", package |-> p, plan |-> plan])
        /\ UNCHANGED <<outside, journal, packetStore, brain, handoffVars>>

\* The state a package is checked against.
Current(p) ==
    p.sequence = task /\ brain # <<>> /\ p.revision = Len(brain) /\ p.packet = Last(brain).stamp

\* routing.Executor.Execute and the check with which handoff.Executor.Execute
\* and Cancel begin.
Ask(d, op) ==
    /\ At(d, "ready")
    /\ IF /\ Current(Package(d))
          /\ op = "execute" => Valid(work[d].plan, listed) /\ work[d].plan.engine = Package(d).engine
       THEN Do(d, [at |-> "persist", op |-> op, package |-> Package(d), plan |-> work[d].plan,
                   late |-> op = "execute" /\ Package(d) \in cancelled])
       ELSE Leave(d)
    /\ UNCHANGED <<outside, journal, packetStore, brain, handoffVars>>

\* SaveOnce.
SavePackage(d) ==
    /\ At(d, "persist")
    /\ packages' = packages \cup {Package(d)}
    /\ GoTo(d, IF work[d].op = "execute" THEN "cancelled?" ELSE "bind")
    /\ UNCHANGED <<outside, journal, packetStore, brain, routeVars, bound, cancelled,
                   disp, history>>

\* Variant: only a bound package is asked for.
CheckCancelledBound(d) ==
    /\ At(d, "cancelled?")
    /\ IF Package(d) \in cancelled \ bound THEN Return(d) ELSE GoTo(d, "bind")
    /\ UNCHANGED <<outside, journal, packetStore, brain, handoffVars>>

\* Cancelled, which Execute asks once.
CheckCancelled(d) ==
    /\ At(d, "cancelled?")
    /\ IF Package(d) \in cancelled THEN Return(d) ELSE GoTo(d, "bind")
    /\ UNCHANGED <<outside, journal, packetStore, brain, handoffVars>>

\* BindExecutionOnce: only a persisted package can be bound.
Bind(d) ==
    /\ At(d, "bind")
    /\ IF Package(d) \in packages
       THEN /\ bound' = bound \cup {Package(d)}
            /\ GoTo(d, IF work[d].op = "execute" THEN "look" ELSE "cancel")
       ELSE Return(d) /\ UNCHANGED bound
    /\ UNCHANGED <<outside, journal, packetStore, brain, routeVars, packages, cancelled,
                   disp, history>>

\* CancelOnce.
CancelPackage(d) ==
    /\ At(d, "cancel")
    /\ cancelled' = cancelled \cup {Package(d)}
    /\ GoTo(d, "look")
    /\ UNCHANGED <<outside, journal, packetStore, brain, routeVars, packages, bound,
                   disp, history>>

\* The disposition tells Execute whether to start or to resume, and Cancel
\* whether there is anything to stop.
Look(d) ==
    LET state == Disposition(Execution(Package(d)))
    IN  /\ At(d, "look")
        /\ CASE work[d].op = "cancel" /\ state = "none" -> Return(d)
             [] work[d].op = "cancel" /\ state # "none" -> GoTo(d, "stop")
             [] work[d].op = "execute" ->
                GoTo(d, IF state = "resume_required" THEN "resume" ELSE "start")
        /\ UNCHANGED <<outside, journal, packetStore, brain, handoffVars>>

-----------------------------------------------------------------------------
\* The runtime, in short.

Allowed(from, to) ==
    from = to \/ from = "running" \/ (from = "resume_required" /\ to = "ended")

\* Variant: an execution that was interrupted is begun again.
InvokeInterrupted(d) ==
    LET state == Disposition(Execution(Package(d)))
    IN  /\ At(d, "start") \/ At(d, "resume")
        /\ IF state \in {"none", "running"} THEN GoTo(d, "run") ELSE Return(d)
        /\ UNCHANGED <<outside, journal, packetStore, brain, handoffVars>>

\* Invoke looks the execution up: an unknown one is begun; one found running
\* was interrupted, or is another call's, and is never started again; one to be
\* resumed is resumed only when that was asked; all others stay.
Invoke(d) ==
    LET e == Execution(Package(d))
    IN  /\ At(d, "start") \/ At(d, "resume")
        /\ \/ /\ Disposition(e) = "none" /\ At(d, "start")
              /\ GoTo(d, "begin")
              /\ UNCHANGED disp
           \/ /\ Disposition(e) = "running"
              /\ \E s \in {"resume_required", "ended"} : SetDisposition(e, s)
              /\ Return(d)
           \/ /\ Disposition(e) = "resume_required" /\ At(d, "resume")
              /\ GoTo(d, "working")
              /\ UNCHANGED disp
           \/ /\ \/ Disposition(e) = "ended"
                 \/ Disposition(e) = "resume_required" /\ At(d, "start")
              /\ Return(d)
              /\ UNCHANGED disp
        /\ UNCHANGED <<outside, journal, packetStore, brain, routeVars, handoffStore, history>>

\* BeginOnce: a second one is a conflict, unless it read the same time off the
\* clock; then Invoke goes on as if it were the first.
Begin(d) ==
    LET e == Execution(Package(d))
    IN  /\ At(d, "begin")
        /\ \/ /\ Disposition(e) = "none"
              /\ SetDisposition(e, "running")
              /\ GoTo(d, "run")
              /\ UNCHANGED ties
           \/ /\ Disposition(e) # "none"
              /\ Return(d)
              /\ UNCHANGED <<disp, ties>>
           \/ /\ Disposition(e) # "none"
              /\ ties' = Again(ties, e)
              /\ GoTo(d, "run")
              /\ UNCHANGED disp
        /\ UNCHANGED <<outside, journal, packetStore, brain, routeVars, handoffStore,
                       started, starts>>

\* The probes fail, or the adapter is started.
Start(d) ==
    LET e == Execution(Package(d))
    IN  /\ At(d, "run")
        /\ \/ /\ SetDisposition(e, "ended")
              /\ Return(d)
              /\ UNCHANGED <<started, starts>>
           \/ /\ started' = started \cup {Package(d)}
              /\ starts' = Again(starts, e)
              /\ GoTo(d, "working")
              /\ UNCHANGED disp
        /\ UNCHANGED <<outside, journal, packetStore, brain, routeVars, handoffStore, ties>>

\* The adapter returns and its outcome is persisted, if that is still allowed;
\* Cancel asks the adapter and sets what came of it likewise.
Conclude(d, s) ==
    LET e == Execution(Package(d))
    IN  /\ IF Allowed(Disposition(e), s) THEN SetDisposition(e, s) ELSE UNCHANGED disp
        /\ Return(d)
        /\ UNCHANGED <<outside, journal, packetStore, brain, routeVars, handoffStore,
                       history>>

Finish(d) == At(d, "working") /\ \E s \in {"resume_required", "ended"} : Conclude(d, s)

Stop(d) == At(d, "stop") /\ Conclude(d, "ended")

\* The response goes on elsewhere: the plan of another route is chosen among
\* the other engines, and a package is assembled for it.
Continue(d, failure) ==
    LET from == work[d].plan
        to == Select(listed, from.excluded \cup {from.engine})
    IN  /\ At(d, "ready")
        /\ Event
        /\ Continues(failure, from, to)
        /\ Do(d, [at |-> "ready", plan |-> to, package |-> [Package(d) EXCEPT !.engine = to.engine]])
        /\ UNCHANGED <<project, provider, journal, packetStore, brain, handoffVars>>

HandOff(d) ==
    \/ Assemble(d)
    \/ \E op \in {"execute", "cancel"} : Ask(d, op)
    \/ SavePackage(d) \/ CheckCancelled(d) \/ Bind(d) \/ CancelPackage(d) \/ Look(d)
    \/ Invoke(d) \/ Begin(d) \/ Start(d) \/ Finish(d) \/ Stop(d)
    \/ \E failure \in Failures : Continue(d, failure)

-----------------------------------------------------------------------------
\* What happens around the drivers.

Progress ==
    /\ Event
    /\ task' = task + 1
    /\ UNCHANGED <<project, provider, journal, packetStore, brain, work, listed,
                   handoffStore, disp, history>>

Relist ==
    /\ Event
    /\ listed' \in ToSet(Listings) \ {listed}
    /\ UNCHANGED <<project, provider, journal, packetStore, brain, work, task,
                   handoffStore, disp, history>>

Init == ScoutInit /\ HandoffInit

Next ==
    \/ ScoutNext /\ UNCHANGED handoffVars
    \/ \E d \in Drivers : HandOff(d)
    \/ Progress \/ Relist

Spec == Init /\ [][Next]_vars

-----------------------------------------------------------------------------
\* An engine only ever runs on evidence that is on disk: the package is saved
\* and bound, its brain revision is written and names the package's packet,
\* and the packet's record and artifacts are there, of the fingerprint the
\* revision was checked against (PROOF_0.29 items 1 to 3; Execute saves and
\* binds before it invokes).
StartsAreBacked ==
    \A p \in started :
        /\ p \in packages \cap bound
        /\ p.revision \in DOMAIN brain /\ brain[p.revision].stamp = p.packet
        /\ \E r \in ToSet(records) :
              r.stamp = p.packet /\ r.fp = brain[p.revision].fp /\ Verified(r)

\* However calls race and wherever the process dies, and although packages of
\* different task sequences share an execution, its adapter is started once, and
\* once more only for every call that raced with the first and read the very
\* same time off the clock (PROOF_0.29 items 4 and 6; handleExisting, BeginOnce).
StartedOnce == \A e \in DOMAIN starts : starts[e] <= 1 + Times(ties, e)

\* A call that asks for a package after its cancellation is durable never
\* gets to the engine, also after a restart (PROOF_0.29 item 8; Execute asks
\* Cancelled before it binds).
CancelledStays ==
    \A d \in Drivers :
        ~At(d, "idle") /\ "late" \in DOMAIN work[d] /\ work[d].late
        => work[d].at \in {"persist", "cancelled?"}

\* The choice of a route depends on which candidates are listed and how they
\* are, never on the order in which a resolver lists them, a plan is valid
\* against what it was made from in any order, and no fit candidate has a
\* better score; and the package that a driver carries is for the engine of its
\* plan, which is none that the plan excludes, also after a continuation on
\* another route (PROOF_0.30 items 1 to 4; Select and its two sorts, Validate,
\* PlanContinuation).
RouteIsDeterministic ==
    /\ Misrouted = {}
    /\ \A d \in Drivers :
          "plan" \in DOMAIN work[d] =>
              /\ work[d].plan.engine = Package(d).engine
              /\ work[d].plan.engine \notin work[d].plan.excluded
=============================================================================
