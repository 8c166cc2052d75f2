-------------------------- MODULE Supervisor_proofs --------------------------
(***************************************************************************)
(* Proofs about Supervisor and CoreHost, for any launches, requests,       *)
(* restarts and kills, and about what Shell shows of them (Desktop), for   *)
(* any page size, limit and files.                                         *)
(***************************************************************************)
EXTENDS Desktop, FiniteSetTheorems, SequenceTheorems, WellFoundedInduction, TLAPS

-----------------------------------------------------------------------------
(* Types. *)

CoreStates == {"none", "starting", "reclaiming", "open", "serving", "closing", "unlisted", "dead"}
USE DEF CoreStates, Works

Mains == {"off", "reclaiming", "locked", "opened", "waitCore", "starting", "running", "closing", "stopCore",
          "release", "gone", "crashed"}
Ops == [at : {"create", "write", "event", "journal"}, req : Requests]

Sups == [main : Mains, monitor : {"off", "loop", "restarting", "done"},
         step : {"none", "attest", "launch", "wait"},
         renderer : BOOLEAN, held : BOOLEAN, expired : BOOLEAN, restarts : 0..MaxRendererRestarts]

HostTyped ==
    /\ HostTypeOK
    /\ op \in [Launches -> {NoOp} \cup Ops]
    /\ journal \subseteq {[key |-> r.key, body |-> Body(r)] : r \in Requests}
    /\ timeline \subseteq {[id |-> Body(r), ref |-> r.key] : r \in Requests}
    /\ refused \subseteq Requests

SupTyped ==
    /\ TypeOK
    /\ exits \in Nat
    /\ sup \in [Launches -> Sups]

-----------------------------------------------------------------------------
(* One core. *)

Working == {"open", "serving", "closing", "unlisted"}

\* A core is started once, by its own supervisor.
Before == {"off", "reclaiming", "locked", "opened"}
LaunchInv == \A d \in Launches : sup[d].main \in Before => core[d] = "none"

\* Who works has the lock, unless one was taken from a core that works.
LockInv ==
    /\ ~seized => \A d \in Launches : core[d] \in Working => coreLock = d
    /\ \A d \in Launches : ~OpAt(d, "none") => core[d] \in {"serving", "closing", "unlisted"}

-----------------------------------------------------------------------------
(* The stores. *)

\* The request in hand is new, and its files are as far as it is.
OpInv ==
    \A d \in Launches : ~OpAt(d, "none") =>
        LET r == op[d].req
        IN  /\ \A j \in journal : j.key # r.key
            /\ OpAt(d, "create") => taskFile[r.task] = Absent
            /\ OpAt(d, "write") => taskFile[r.task] = Blank
            /\ OpAt(d, "event") \/ OpAt(d, "journal") => taskFile[r.task] = r.contract
            /\ OpAt(d, "journal") => [id |-> Body(r), ref |-> r.key] \in timeline

Overtaken(r) ==
    \/ \E j \in journal : j.key = r.key /\ j.body # Body(r)
    \/ \E e \in timeline : e.id = Body(r) /\ e.ref # r.key

\* The task of a refused request is not about to become its own.
RefusedInv ==
    \A r \in refused :
        \/ Overtaken(r)
        \/ /\ taskFile[r.task] \notin {Absent, r.contract}
           /\ \A d \in Launches : OpAt(d, "write") => op[d].req.task # r.task

-----------------------------------------------------------------------------
(* The end of a supervisor. *)

Down(d) == ui[d] \in {"none", "dead"}

\* The renderer that runs is the one Close stops, or the one the monitor is
\* about to install or to stop.
EndHere(d) ==
    /\ sup[d].main \in {"off", "reclaiming", "gone"} => lease # d
    /\ sup[d].main \in {"release", "gone"} => ~Alive(d)
    /\ sup[d].main \in {"off", "reclaiming", "locked", "opened", "waitCore"} =>
          sup[d].monitor = "off" /\ sup[d].step = "none" /\ Down(d) /\ ~sup[d].expired
    /\ MainAt(d, "starting") =>
          sup[d].monitor = "off" /\ (sup[d].step # "wait" => Down(d)) /\ ~sup[d].expired
    /\ sup[d].main \in {"running", "closing"} =>
          /\ sup[d].monitor # "off" /\ ~sup[d].expired
          /\ MonitorAt(d, "restarting") <=> sup[d].step # "none"
          /\ sup[d].step \in {"attest", "launch"} => Down(d)
          /\ MonitorAt(d, "restarting") => ~sup[d].renderer
          /\ ~MonitorAt(d, "restarting") => sup[d].renderer \/ Down(d)
    /\ MainAt(d, "closing") =>
          IF sup[d].held THEN ~MonitorAt(d, "restarting")
          ELSE ~MonitorAt(d, "restarting") => Down(d)
    /\ sup[d].main \in {"stopCore", "release", "gone"} /\ ~sup[d].expired =>
          sup[d].step = "none" /\ sup[d].monitor # "loop" /\ Down(d)

EndInv == \A d \in Launches : EndHere(d)

-----------------------------------------------------------------------------
(* Lemmas: types. *)

Typed == HostTyped /\ SupTyped

LEMMA NoOneIsNoLaunch == NoOne \notin Launches
BY HostAssumption DEF NoOne, Launches

LEMMA OpGoesOn ==
    ASSUME HostTyped, NEW d \in Launches, NEW at \in {"create", "write", "event", "journal"},
           OpTo(d, at), ~OpAt(d, "none")
    PROVE  /\ op' \in [Launches -> {NoOp} \cup Ops]
           /\ op[d] \in Ops
           /\ op'[d] = [at |-> at, req |-> op[d].req]
           /\ \A e \in Launches \ {d} : op'[e] = op[e]
<1>1. op \in [Launches -> {NoOp} \cup Ops]
  BY DEF HostTyped
<1>2. op[d] \in Ops
  BY <1>1 DEF OpAt, NoOp
<1>3. [op[d] EXCEPT !.at = at] = [at |-> at, req |-> op[d].req] /\ [op[d] EXCEPT !.at = at] \in Ops
  BY <1>2 DEF Ops
<1>. QED  BY <1>1, <1>2, <1>3 DEF OpTo

LEMMA OpsAreAt ==
    ASSUME NEW o \in [Launches -> {NoOp} \cup Ops], NEW d \in Launches
    PROVE  o[d].at \in {"none", "create", "write", "event", "journal"}
BY DEF NoOp, Ops

LEMMA LockIsTyped ==
    ASSUME NEW lock \in Launches \cup {NoOne}, NEW d \in Launches
    PROVE  Give(lock, d) \in Launches \cup {NoOne}
BY DEF Give

LEMMA TypedInit == Init => Typed
<1>. SUFFICES ASSUME Init PROVE Typed
  OBVIOUS
<1>. USE DEF Init, HostInit
<1>1. core \in [Launches -> CoreStates] /\ kills \in 0..MaxKills
  BY HostAssumption
<1>2. HostTypeOK
  BY <1>1 DEF HostTypeOK, NoOp
<1>3. HostTyped
  BY <1>2 DEF HostTyped
<1>4. SupTyped
  BY <1>2, SupervisorAssumption DEF SupTyped, TypeOK, NewSup, Sups, Mains
<1>. QED  BY <1>3, <1>4 DEF Typed

LEMMA HostTypedStep ==
    ASSUME HostTyped, NEW d \in Launches, CoreProcess(d)
    PROVE  HostTyped'
<1>. USE DEF HostTyped, HostTypeOK, storeVars
<1>0. op \in [Launches -> {NoOp} \cup Ops] /\ NoOp \in {NoOp} \cup Ops
  OBVIOUS
<1>1. CASE HostOpen(d) \/ HostReclaim(d) \/ HostHeartbeat(d)
  <2>1. coreLock' \in Launches \cup {NoOne}
    BY <1>1 DEF HostOpen, HostReclaim, HostHeartbeat
  <2>2. core' \in [Launches -> CoreStates] /\ seized' \in BOOLEAN
    BY <1>1 DEF HostOpen, HostReclaim, HostHeartbeat, CoreTo, CoreStates
  <2>3. kills' \in 0..MaxKills
    BY <1>1, HostAssumption DEF HostOpen, HostReclaim, HostHeartbeat
  <2>. QED  BY <1>1, <2>1, <2>2, <2>3 DEF HostOpen, HostReclaim, HostHeartbeat, CoreStates
<1>2. CASE HostStart(d)
  <2>1. coreLock' \in Launches \cup {NoOne}
    BY <1>2, LockIsTyped DEF HostStart
  <2>. QED  BY <1>2, <2>1 DEF HostStart, CoreTo
<1>3. CASE RemoveRuntime(d)
  BY <1>3 DEF RemoveRuntime, CoreTo
<1>4. CASE HostExit(d)
  <2>1. coreLock' \in Launches \cup {NoOne}
    BY <1>4, LockIsTyped DEF HostExit
  <2>2. op' \in [Launches -> {NoOp} \cup Ops]
    BY <1>0, <1>4 DEF HostExit
  <2>3. \A e \in Launches : op'[e].at \in {"none", "create", "write", "event", "journal"}
    BY <2>2, OpsAreAt
  <2>. QED  BY <1>4, <2>1, <2>2, <2>3 DEF HostExit, CoreTo
<1>5. CASE CoreStops(d)
  BY <1>5, HostAssumption DEF CoreStops, HostClose, CoreTo
<1>6. CASE HostCrash(d)
  <2>1. op' \in [Launches -> {NoOp} \cup Ops]
    BY <1>0, <1>6 DEF HostCrash, Killed
  <2>2. \A e \in Launches : op'[e].at \in {"none", "create", "write", "event", "journal"}
    BY <2>1, OpsAreAt
  <2>. QED  BY <1>6, <2>1, <2>2, HostAssumption DEF HostCrash, Killed, CoreTo
<1>7. ASSUME NEW r \in Requests, CreateTask(d, r) PROVE HostTyped'
  <2>1. refused' \subseteq Requests
    BY <1>7 DEF CreateTask, Repeat, First, Refuse
  <2>2. op' \in [Launches -> {NoOp} \cup Ops]
    BY <1>0, <1>7 DEF CreateTask, Repeat, First, Ops
  <2>3. \A e \in Launches : op'[e].at \in {"none", "create", "write", "event", "journal"}
    BY <2>2, OpsAreAt
  <2>. QED  BY <1>7, <2>1, <2>2, <2>3 DEF CreateTask
<1>8. ASSUME Serve(d) PROVE HostTyped'
  <2>1. ~OpAt(d, "none") /\ op[d] \in Ops
    BY <1>0, <1>8 DEF Serve, CreateFile, WriteTask, AppendEvent, AppendJournal, OpAt, NoOp
  <2>2. op[d].req \in Requests /\ op[d].req.task \in TaskIds
    BY <2>1 DEF Ops, TaskIds
  <2>3. op' \in [Launches -> {NoOp} \cup Ops]
    BY <1>0, <1>8, <2>1, OpGoesOn DEF Serve, CreateFile, WriteTask, AppendEvent, AppendJournal
  <2>4. \A e \in Launches : op'[e].at \in {"none", "create", "write", "event", "journal"}
    BY <2>3, OpsAreAt
  <2>5. CASE CreateFile(d)
    BY <2>2, <2>3, <2>4, <2>5 DEF CreateFile
  <2>6. CASE WriteTask(d)
    BY <2>2, <2>3, <2>4, <2>6 DEF WriteTask
  <2>7. CASE AppendEvent(d)
    <3>1. refused' \subseteq Requests
      BY <2>2, <2>7 DEF AppendEvent, Refuse
    <3>2. timeline' \subseteq {[id |-> Body(r), ref |-> r.key] : r \in Requests}
      BY <2>2, <2>7 DEF AppendEvent
    <3>. QED  BY <2>3, <2>4, <2>7, <3>1, <3>2 DEF AppendEvent
  <2>8. CASE AppendJournal(d)
    <3>1. journal' \subseteq {[key |-> r.key, body |-> Body(r)] : r \in Requests}
      BY <2>2, <2>8 DEF AppendJournal
    <3>. QED  BY <2>3, <2>4, <2>8, <3>1 DEF AppendJournal
  <2>. QED  BY <1>8, <2>5, <2>6, <2>7, <2>8 DEF Serve
<1>. QED  BY <1>1, <1>2, <1>3, <1>4, <1>5, <1>6, <1>7, <1>8 DEF CoreProcess, CoreRuns, ShellCreates

LEMMA KilledIsTyped ==
    ASSUME HostTyped, NEW d \in Launches, Killed(d), UNCHANGED <<coreLock, seized, runtime, storeVars, kills>>
    PROVE  HostTyped'
<1>1. op' \in [Launches -> {NoOp} \cup Ops]
  BY DEF HostTyped, Killed
<1>2. \A e \in Launches : op'[e].at \in {"none", "create", "write", "event", "journal"}
  BY <1>1, OpsAreAt
<1>. QED  BY <1>1, <1>2 DEF HostTyped, HostTypeOK, Killed, CoreTo, storeVars

LEMMA NewSupIsTyped ==
    ASSUME NEW p \in Mains, NEW x \in BOOLEAN
    PROVE  /\ [NewSup EXCEPT !.main = p] \in Sups
           /\ [NewSup EXCEPT !.main = p, !.expired = x] \in Sups
<1>1. NewSup \in Sups
  BY SupervisorAssumption DEF NewSup, Sups, Mains
<1>. QED  BY <1>1 DEF Sups

LEMMA TypedStep ==
    ASSUME Typed, [Next]_vars
    PROVE  Typed'
<1>. USE DEF storeVars, hostVars, Typed
<1>0. /\ sup \in [Launches -> Sups] /\ ui \in [Launches -> {"none", "starting", "ready", "dead"}]
      /\ lease \in Launches \cup {NoOne} /\ exits \in Nat
      /\ SupTyped /\ HostTyped
  BY DEF SupTyped, TypeOK
<1>1. ASSUME HostTyped', sup' \in [Launches -> Sups],
             lease' \in Launches \cup {NoOne},
             ui' \in [Launches -> {"none", "starting", "ready", "dead"}],
             exits' \in Nat
      PROVE  Typed'
  <2>1. \A d \in Launches : sup'[d].restarts \in 0..MaxRendererRestarts
    BY <1>1 DEF Sups
  <2>. QED  BY <1>1, <2>1 DEF SupTyped, TypeOK, HostTyped
<1>2. ASSUME UNCHANGED hostVars PROVE HostTyped'
  BY <1>0, <1>2 DEF HostTyped, HostTypeOK
<1>3. ASSUME NEW d \in Launches, CoreProcess(d), UNCHANGED supVars PROVE Typed'
  BY <1>0, <1>1, <1>3, HostTypedStep DEF supVars
<1>4. ASSUME NEW d \in Launches, NEW p \in Mains, ToMain(d, p) PROVE sup' \in [Launches -> Sups]
  BY <1>0, <1>4 DEF ToMain, Sups
<1>5. ASSUME NEW d \in Launches, Open(d) \/ Reclaim(d) \/ StatRuntime(d) PROVE Typed'
  <2>1. lease' \in Launches \cup {NoOne}
    BY <1>0, <1>5, LockIsTyped DEF Open, Reclaim, StatRuntime
  <2>2. PICK p \in Mains : ToMain(d, p)
    BY <1>5 DEF Open, Reclaim, StatRuntime, Mains
  <2>. QED  BY <1>0, <1>1, <1>2, <1>4, <1>5, <2>1, <2>2 DEF Open, Reclaim, StatRuntime
<1>6. ASSUME NEW d \in Launches, Start(d) PROVE Typed'
  <2>1. HostTyped'
    BY <1>0, <1>6 DEF Start, CoreTo, HostTyped, HostTypeOK
  <2>2. sup' \in [Launches -> Sups]
    BY <1>4, <1>6 DEF Start, Mains
  <2>. QED  BY <1>0, <1>1, <1>6, <2>1, <2>2 DEF Start
<1>7. ASSUME NEW d \in Launches, AbortStart(d) \/ StepFails(d) PROVE sup' \in [Launches -> Sups]
  BY <1>0, <1>7 DEF AbortStart, StepFails, Sups, Mains
<1>8. ASSUME NEW d \in Launches, WaitForCore(d) PROVE Typed'
  <2>1. sup' \in [Launches -> Sups]
    BY <1>0, <1>7, <1>8 DEF WaitForCore, Sups, Mains
  <2>. QED  BY <1>0, <1>1, <1>2, <1>8, <2>1 DEF WaitForCore
<1>9. ASSUME NEW d \in Launches, StartRenderer(d) PROVE Typed'
  <2>1. CASE AttestCore(d)
    <3>1. sup' \in [Launches -> Sups]
      BY <1>0, <1>7, <2>1 DEF AttestCore, Sups
    <3>. QED  BY <1>0, <1>1, <1>2, <2>1, <3>1 DEF AttestCore
  <2>2. CASE LaunchRenderer(d)
    <3>1. sup' \in [Launches -> Sups]
      BY <1>0, <2>2 DEF LaunchRenderer, Sups
    <3>. QED  BY <1>0, <1>1, <1>2, <2>2, <3>1 DEF LaunchRenderer
  <2>3. CASE RendererRefused(d)
    BY <1>0, <1>1, <1>2, <1>7, <2>3 DEF RendererRefused
  <2>4. CASE RendererReady(d)
    <3>1. PICK x \in BOOLEAN, p \in Mains :
              sup' = [sup EXCEPT ![d] = [sup[d] EXCEPT !.step = "none", !.monitor = "loop",
                                                       !.renderer = x, !.main = p]]
      <4>1. sup[d].main \in Mains /\ "running" \in Mains
        BY <1>0 DEF Sups, Mains
      <4>2. sup' = [sup EXCEPT ![d] = [sup[d] EXCEPT !.step = "none", !.monitor = "loop",
                                 !.renderer = ~Closed(d),
                                 !.main = IF sup[d].main = "starting" THEN "running" ELSE sup[d].main]]
        BY <1>0, <2>4 DEF RendererReady
      <4>3. PICK x : x = ~Closed(d)
        OBVIOUS
      <4>4. x \in BOOLEAN
        BY <4>3
      <4>. QED  BY <4>1, <4>2, <4>3, <4>4
    <3>2. sup' \in [Launches -> Sups]
      BY <1>0, <3>1 DEF Sups
    <3>. QED  BY <1>0, <1>1, <1>2, <2>4, <3>2 DEF RendererReady
  <2>. QED  BY <1>9, <2>1, <2>2, <2>3, <2>4 DEF StartRenderer
<1>10. ASSUME NEW d \in Launches, Heartbeat(d) \/ MonitorOnce(d) \/ MonitorStops(d) PROVE Typed'
  <2>1. sup' \in [Launches -> Sups]
    <3>1. CASE Heartbeat(d) \/ MonitorStops(d)
      BY <1>0, <3>1 DEF Heartbeat, MonitorStops, Fail, Sups
    <3>2. CASE MonitorOnce(d)
      <4>1. sup[d].restarts < MaxRendererRestarts => sup[d].restarts + 1 \in 0..MaxRendererRestarts
        BY <1>0, SupervisorAssumption DEF Sups
      <4>2. sup[d].restarts \in Nat /\ MaxRendererRestarts \in Nat
        BY <1>0, SupervisorAssumption DEF Sups
      <4>. QED  BY <1>0, <3>2, <4>1, <4>2 DEF MonitorOnce, Fail, Sups
    <3>. QED  BY <1>10, <3>1, <3>2
  <2>2. lease' \in Launches \cup {NoOne}
    BY <1>0, <1>10 DEF Heartbeat, MonitorOnce, MonitorStops
  <2>. QED  BY <1>0, <1>1, <1>2, <1>10, <2>1, <2>2 DEF Heartbeat, MonitorOnce, MonitorStops
<1>11. ASSUME NEW d \in Launches, Close(d) \/ AwaitMonitor(d) PROVE Typed'
  <2>1. sup' \in [Launches -> Sups]
    BY <1>0, <1>11 DEF Close, AwaitMonitor, MonitorAt, Sups, Mains
  <2>2. ui' \in [Launches -> {"none", "starting", "ready", "dead"}]
    BY <1>0, <1>11 DEF Close, AwaitMonitor
  <2>. QED  BY <1>0, <1>1, <1>2, <1>11, <2>1, <2>2 DEF Close, AwaitMonitor
<1>12. ASSUME NEW d \in Launches, StopCore(d) PROVE Typed'
  <2>1. HostTyped'
    <3>1. CASE Alive(d)
      BY <1>0, <1>12, <3>1, KilledIsTyped DEF StopCore
    <3>2. CASE ~Alive(d)
      BY <1>2, <1>12, <3>2 DEF StopCore
    <3>. QED  BY <3>1, <3>2
  <2>2. sup' \in [Launches -> Sups]
    BY <1>4, <1>12 DEF StopCore, Mains
  <2>. QED  BY <1>0, <1>1, <1>12, <2>1, <2>2 DEF StopCore
<1>13. ASSUME NEW d \in Launches, Release(d) PROVE Typed'
  <2>1. sup' \in [Launches -> Sups]
    <3>1. sup[d].expired \in BOOLEAN /\ "gone" \in Mains
      BY <1>0 DEF Sups, Mains
    <3>2. [NewSup EXCEPT !.main = "gone", !.expired = sup[d].expired] \in Sups
      BY <3>1, NewSupIsTyped
    <3>. QED  BY <1>0, <1>13, <3>2 DEF Release
  <2>2. lease' \in Launches \cup {NoOne}
    BY <1>0, <1>13, LockIsTyped DEF Release
  <2>. QED  BY <1>0, <1>1, <1>2, <1>13, <2>1, <2>2 DEF Release
<1>14. ASSUME NEW d \in Launches, SupervisorCrash(d) PROVE Typed'
  <2>1. [NewSup EXCEPT !.main = "crashed"] \in Sups
    BY NewSupIsTyped DEF Mains
  <2>2. sup' \in [Launches -> Sups]
    BY <1>0, <1>14, <2>1 DEF SupervisorCrash
  <2>3. HostTyped'
    BY <1>0, <1>14, HostAssumption DEF SupervisorCrash, HostTyped, HostTypeOK
  <2>. QED  BY <1>0, <1>1, <1>14, <2>2, <2>3 DEF SupervisorCrash
<1>15. ASSUME NEW d \in Launches, RendererUp(d) \/ RendererExits(d) PROVE Typed'
  BY <1>0, <1>1, <1>2, <1>15 DEF RendererUp, RendererExits
<1>16. CASE UNCHANGED vars
  BY <1>0, <1>1, <1>2, <1>16 DEF vars, supVars
<1>. QED  BY <1>3, <1>5, <1>6, <1>8, <1>9, <1>10, <1>11, <1>12, <1>13, <1>14, <1>15, <1>16
          DEF Next, Desktop

\* Supervisors, cores, renderers and the files of the backend keep their
\* types, whatever races, fails or is killed (TypeOK).
THEOREM DesktopTypeCorrect == Spec => []TypeOK
<1>1. Typed => TypeOK
  BY DEF Typed, SupTyped
<1>. QED  BY <1>1, TypedInit, TypedStep, PTL DEF Spec

-----------------------------------------------------------------------------
(* One core: which steps touch the cores, and the theorem. *)

LEMMA SupervisorMoves ==
    ASSUME NEW d \in Launches, Desktop(d)
    PROVE  Start(d) \/ StopCore(d) \/ UNCHANGED <<core, coreLock, seized, runtime, op, storeVars>>
BY DEF Desktop, Open, Reclaim, StatRuntime, WaitForCore, StartRenderer, AttestCore, LaunchRenderer,
       RendererRefused, RendererReady, Heartbeat, MonitorOnce, MonitorStops, Close, AwaitMonitor,
       Release, SupervisorCrash, RendererUp, RendererExits, hostVars

\* What a step makes of its supervisor.
Becomes(d, main, monitor, step, renderer, held, expired) ==
    /\ sup'[d].main = main /\ sup'[d].monitor = monitor /\ sup'[d].step = step
    /\ sup'[d].renderer = renderer /\ sup'[d].held = held /\ sup'[d].expired = expired
    /\ \A e \in Launches \ {d} : sup'[e] = sup[e]

\* The main routine goes on, and nothing else changes.
MainTo(d, main) ==
    Becomes(d, main, sup[d].monitor, sup[d].step, sup[d].renderer, sup[d].held, sup[d].expired)

\* startRenderer goes on or ends, and with it perhaps the monitor.
StepTo(d, monitor, step) ==
    Becomes(d, sup[d].main, monitor, step, sup[d].renderer, sup[d].held, sup[d].expired)

\* Start gives up.
Aborts(d) ==
    Becomes(d, "stopCore", sup[d].monitor, "none", sup[d].renderer, sup[d].held, sup[d].expired)

LEMMA MainGoesTo ==
    ASSUME Typed, NEW d \in Launches, NEW p, ToMain(d, p)
    PROVE  MainTo(d, p)
BY DEF Typed, SupTyped, Sups, ToMain, MainTo, Becomes

LEMMA StartAborts ==
    ASSUME Typed, NEW d \in Launches, AbortStart(d)
    PROVE  Aborts(d)
BY DEF Typed, SupTyped, Sups, AbortStart, Aborts, Becomes

LEMMA StepEnds ==
    ASSUME Typed, NEW d \in Launches, StepFails(d)
    PROVE  IF MainAt(d, "starting") THEN Aborts(d) ELSE StepTo(d, "done", "none")
<1>1. CASE MainAt(d, "starting")
  BY <1>1, StartAborts DEF StepFails
<1>2. CASE ~MainAt(d, "starting")
  BY <1>2 DEF Typed, SupTyped, Sups, StepFails, StepTo, Becomes
<1>. QED  BY <1>1, <1>2

LEMMA WaitGoesOn ==
    ASSUME Typed, NEW d \in Launches, WaitForCore(d)
    PROVE  \/ Aborts(d)
           \/ Becomes(d, "starting", sup[d].monitor, "attest", sup[d].renderer, sup[d].held, sup[d].expired)
<1>1. CASE sup' = [sup EXCEPT ![d].main = "starting", ![d].step = "attest"]
  BY <1>1 DEF Typed, SupTyped, Sups, Becomes
<1>. QED  BY <1>1, StartAborts DEF WaitForCore

LEMMA StepsGoOn ==
    ASSUME Typed, NEW d \in Launches
    PROVE  /\ AttestCore(d) => StepTo(d, sup[d].monitor, "launch") \/ StepFails(d)
           /\ LaunchRenderer(d) => StepTo(d, sup[d].monitor, "wait")
           /\ RendererReady(d) =>
                 Becomes(d, IF MainAt(d, "starting") THEN "running" ELSE sup[d].main, "loop", "none",
                         ~Closed(d), sup[d].held, sup[d].expired)
<1>1. ASSUME NEW p, sup' = [sup EXCEPT ![d].step = p] PROVE StepTo(d, sup[d].monitor, p)
  BY <1>1 DEF Typed, SupTyped, Sups, StepTo, Becomes
<1>2. ASSUME RendererReady(d)
      PROVE  Becomes(d, IF MainAt(d, "starting") THEN "running" ELSE sup[d].main, "loop", "none",
                     ~Closed(d), sup[d].held, sup[d].expired)
  <2>1. PICK x, p : x = ~Closed(d) /\ p = IF MainAt(d, "starting") THEN "running" ELSE sup[d].main
    OBVIOUS
  <2>2. sup' = [sup EXCEPT ![d] = [sup[d] EXCEPT !.step = "none", !.monitor = "loop", !.renderer = x,
                                                 !.main = p]]
    BY <1>2, <2>1 DEF RendererReady, Typed, SupTyped, MainAt
  <2>3. Becomes(d, p, "loop", "none", x, sup[d].held, sup[d].expired)
    BY <2>2 DEF Typed, SupTyped, Sups, Becomes
  <2>. QED  BY <2>1, <2>3
<1>. QED  BY <1>1, <1>2 DEF AttestCore, LaunchRenderer

LEMMA MonitorGoesOn ==
    ASSUME Typed, NEW d \in Launches
    PROVE  /\ Heartbeat(d) => UNCHANGED sup \/ StepTo(d, "done", sup[d].step)
           /\ MonitorOnce(d) =>
                 \/ StepTo(d, "done", sup[d].step)
                 \/ /\ ui[d] = "dead"
                    /\ Becomes(d, sup[d].main, "restarting", "attest", FALSE, sup[d].held, sup[d].expired)
           /\ MonitorStops(d) => StepTo(d, "done", sup[d].step)
<1>1. Fail(d) => StepTo(d, "done", sup[d].step)
  BY DEF Typed, SupTyped, Sups, Fail, StepTo, Becomes
<1>2. ASSUME NEW n, sup' = [sup EXCEPT ![d].monitor = "restarting", ![d].step = "attest",
                                       ![d].renderer = FALSE, ![d].restarts = n]
      PROVE  Becomes(d, sup[d].main, "restarting", "attest", FALSE, sup[d].held, sup[d].expired)
  BY <1>2 DEF Typed, SupTyped, Sups, Becomes
<1>3. ASSUME MonitorOnce(d), ~Fail(d)
      PROVE  /\ ui[d] = "dead"
             /\ \E n : sup' = [sup EXCEPT ![d].monitor = "restarting", ![d].step = "attest",
                                           ![d].renderer = FALSE, ![d].restarts = n]
  BY <1>3 DEF MonitorOnce
<1>. QED  BY <1>1, <1>2, <1>3 DEF Heartbeat, MonitorStops, Fail

LEMMA CloseGoesOn ==
    ASSUME Typed, NEW d \in Launches
    PROVE  /\ Close(d) => Becomes(d, "closing", sup[d].monitor, sup[d].step, sup[d].renderer,
                                  sup[d].renderer, sup[d].expired)
           /\ AwaitMonitor(d) => Becomes(d, "stopCore", sup[d].monitor, sup[d].step, sup[d].renderer,
                                         sup[d].held, ~MonitorAt(d, "done"))
           /\ Release(d) => Becomes(d, "gone", "off", "none", FALSE, FALSE, sup[d].expired)
           /\ SupervisorCrash(d) => Becomes(d, "crashed", "off", "none", FALSE, FALSE, FALSE)
<1>1. Close(d) => Becomes(d, "closing", sup[d].monitor, sup[d].step, sup[d].renderer,
                          sup[d].renderer, sup[d].expired)
  BY DEF Close, Typed, SupTyped, Sups, Becomes
<1>2. ASSUME AwaitMonitor(d)
      PROVE  Becomes(d, "stopCore", sup[d].monitor, sup[d].step, sup[d].renderer, sup[d].held,
                     ~MonitorAt(d, "done"))
  <2>1. PICK x : x = ~MonitorAt(d, "done")
    OBVIOUS
  <2>2. sup' = [sup EXCEPT ![d].main = "stopCore", ![d].expired = x]
    BY <1>2, <2>1 DEF AwaitMonitor
  <2>3. Becomes(d, "stopCore", sup[d].monitor, sup[d].step, sup[d].renderer, sup[d].held, x)
    BY <2>2 DEF Typed, SupTyped, Sups, Becomes
  <2>. QED  BY <2>1, <2>3
<1>3. Release(d) => Becomes(d, "gone", "off", "none", FALSE, FALSE, sup[d].expired)
  BY DEF Release, NewSup, Typed, SupTyped, Becomes
<1>4. SupervisorCrash(d) => Becomes(d, "crashed", "off", "none", FALSE, FALSE, FALSE)
  BY DEF SupervisorCrash, NewSup, Typed, SupTyped, Becomes
<1>. QED  BY <1>1, <1>2, <1>3, <1>4

LEMMA MainMoves ==
    ASSUME Typed, NEW d \in Launches, Desktop(d)
    PROVE  \A e \in Launches :
               sup'[e].main \in Before => sup[e].main \in Before /\ ~(Start(d) /\ e = d)
<1>. DEFINE Goal == \A e \in Launches :
               sup'[e].main \in Before => sup[e].main \in Before /\ ~(Start(d) /\ e = d)
<1>. USE DEF Before
<1>1. ASSUME Start(d) PROVE Goal
  BY <1>1, MainGoesTo DEF Start, MainTo, Becomes
<1>2. ASSUME ~Start(d), NEW p, p \in Before => sup[d].main \in Before,
             sup'[d].main = p, \A e \in Launches \ {d} : sup'[e] = sup[e]
      PROVE  Goal
  BY <1>2
<1>3. ASSUME ~Start(d), UNCHANGED sup PROVE Goal
  BY <1>3
<1>. HIDE DEF Goal
<1>4. ASSUME ~Start(d), (Open(d) \/ Reclaim(d) \/ StatRuntime(d)) PROVE Goal
  <2>1. PICK p : ToMain(d, p)
    BY <1>4 DEF Open, Reclaim, StatRuntime
  <2>. QED  BY <1>2, <1>4, <2>1, MainGoesTo DEF MainTo, Becomes, Open, Reclaim, StatRuntime, MainAt
<1>5. ASSUME ~Start(d), StopCore(d) PROVE Goal
  BY <1>2, <1>5, MainGoesTo DEF StopCore, MainTo, Becomes
<1>6. ASSUME ~Start(d), WaitForCore(d) PROVE Goal
  BY <1>2, <1>6, WaitGoesOn DEF Aborts, Becomes
<1>7. ASSUME ~Start(d), StepFails(d) PROVE Goal
  BY <1>2, <1>7, StepEnds DEF Aborts, StepTo, Becomes
<1>8. ASSUME ~Start(d), StartRenderer(d) PROVE Goal
  <2>1. CASE AttestCore(d)
    BY <1>2, <1>7, <1>8, <2>1, StepsGoOn DEF StepTo, Becomes
  <2>2. CASE LaunchRenderer(d)
    BY <1>2, <1>8, <2>2, StepsGoOn DEF StepTo, Becomes
  <2>3. CASE RendererRefused(d)
    BY <1>7, <1>8, <2>3 DEF RendererRefused
  <2>4. CASE RendererReady(d)
    BY <1>2, <1>8, <2>4, StepsGoOn DEF Becomes
  <2>. QED  BY <1>8, <2>1, <2>2, <2>3, <2>4 DEF StartRenderer
<1>9. ASSUME ~Start(d), (Heartbeat(d) \/ MonitorOnce(d) \/ MonitorStops(d)) PROVE Goal
  BY <1>2, <1>3, <1>9, MonitorGoesOn DEF StepTo, Becomes
<1>10. ASSUME ~Start(d), (Close(d) \/ AwaitMonitor(d) \/ Release(d) \/ SupervisorCrash(d)) PROVE Goal
  BY <1>2, <1>10, CloseGoesOn DEF Becomes
<1>11. ASSUME ~Start(d), (RendererUp(d) \/ RendererExits(d)) PROVE Goal
  BY <1>3, <1>11 DEF RendererUp, RendererExits
<1>. QED  BY <1>1, <1>4, <1>5, <1>6, <1>8, <1>9, <1>10, <1>11 DEF Desktop, Goal

LEMMA LaunchStep ==
    ASSUME Typed, LaunchInv, [Next]_vars
    PROVE  LaunchInv'
<1>0. core \in [Launches -> CoreStates]
  BY DEF Typed, HostTyped, HostTypeOK
<1>1. ASSUME NEW d \in Launches, Desktop(d) PROVE LaunchInv'
  <2>1. ASSUME NEW e \in Launches, core[e] = "none", ~(Start(d) /\ e = d) PROVE core'[e] = "none"
    <3>1. CASE Start(d)
      BY <1>0, <2>1, <3>1 DEF Start, CoreTo
    <3>2. CASE StopCore(d)
      BY <1>0, <2>1, <3>2 DEF StopCore, Killed, CoreTo, Alive
    <3>. QED  BY <1>1, <2>1, <3>1, <3>2, SupervisorMoves
  <2>. QED  BY <1>1, <2>1, MainMoves DEF LaunchInv
<1>2. ASSUME NEW d \in Launches, CoreProcess(d), UNCHANGED supVars PROVE LaunchInv'
  <2>1. ASSUME NEW e \in Launches, core[e] = "none" PROVE core'[e] = "none"
    BY <1>0, <1>2, <2>1 DEF CoreProcess, CoreRuns, HostOpen, HostReclaim, HostStart, HostHeartbeat, RemoveRuntime, HostExit, CoreStops,
           HostClose, HostCrash, Killed, Alive, ShellCreates, CreateTask, Serve, CreateFile, WriteTask,
           AppendEvent, AppendJournal, CoreTo
  <2>. QED  BY <1>2, <2>1 DEF LaunchInv, supVars
<1>3. CASE UNCHANGED vars
  BY <1>3 DEF LaunchInv, vars, supVars, hostVars
<1>. QED  BY <1>1, <1>2, <1>3 DEF Next

LEMMA LockStep ==
    ASSUME Typed, LaunchInv, LockInv, [Next]_vars
    PROVE  LockInv'
<1>0. /\ core \in [Launches -> CoreStates]
      /\ op \in [Launches -> {NoOp} \cup Ops]
      /\ coreLock \in Launches \cup {NoOne} /\ seized \in BOOLEAN
      /\ NoOne \notin Launches
  BY NoOneIsNoLaunch DEF Typed, HostTyped, HostTypeOK
<1>. USE DEF Working, CoreTo
<1>1. ASSUME UNCHANGED <<core, coreLock, seized, op>> PROVE LockInv'
  BY <1>1 DEF LockInv, OpAt
<1>2. ASSUME NEW d \in Launches, Killed(d), UNCHANGED <<coreLock, seized>> PROVE LockInv'
  BY <1>0, <1>2 DEF LockInv, Killed, OpAt, NoOp
<1>3. ASSUME NEW d \in Launches, Start(d) PROVE LockInv'
  <2>1. core[d] = "none"
    BY <1>3 DEF Start, MainAt, LaunchInv, Before
  <2>. QED  BY <1>0, <1>3, <2>1 DEF LockInv, Start, OpAt
<1>4. ASSUME NEW d \in Launches, HostOpen(d) PROVE LockInv'
  <2>0. OpAt(d, "none") /\ UNCHANGED <<seized, op>> /\ core[d] = "starting"
    BY <1>0, <1>4 DEF HostOpen, LockInv
  <2>1. CASE coreLock = NoOne /\ coreLock' = d /\ core' = [core EXCEPT ![d] = "open"]
    <3>1. ~seized => \A e \in Launches : core[e] \notin Working
      BY <1>0, <2>1 DEF LockInv
    <3>. QED  BY <1>0, <2>0, <2>1, <3>1 DEF LockInv, OpAt
  <2>2. ASSUME NEW p \in {"dead", "reclaiming"}, coreLock' = coreLock, core' = [core EXCEPT ![d] = p]
        PROVE  LockInv'
    BY <1>0, <2>0, <2>2 DEF LockInv, OpAt
  <2>. QED  BY <1>4, <2>1, <2>2 DEF HostOpen
<1>5. ASSUME NEW d \in Launches, HostReclaim(d) PROVE LockInv'
  <2>0. /\ OpAt(d, "none") /\ UNCHANGED op /\ core[d] = "reclaiming" /\ coreLock' = NoOne
        /\ core' = [core EXCEPT ![d] = "starting"] \/ core' = [core EXCEPT ![d] = "dead"]
    BY <1>0, <1>5 DEF HostReclaim, LockInv
  <2>1. ASSUME ~seized' PROVE ~seized /\ \A e \in Launches : core[e] \notin Working
    BY <1>5, <2>1 DEF HostReclaim, LockInv, Works
  <2>. QED  BY <1>0, <2>0, <2>1 DEF LockInv, OpAt
<1>6. ASSUME NEW d \in Launches, HostStart(d) PROVE LockInv'
  <2>0. OpAt(d, "none") /\ core[d] = "open" /\ UNCHANGED <<seized, op>>
    BY <1>0, <1>6 DEF HostStart, LockInv
  <2>1. CASE core' = [core EXCEPT ![d] = "serving"] /\ UNCHANGED coreLock
    BY <1>0, <2>0, <2>1 DEF LockInv, OpAt
  <2>2. CASE core' = [core EXCEPT ![d] = "dead"] /\ coreLock' = Give(coreLock, d)
    <3>1. ~seized => coreLock' = NoOne /\ \A e \in Launches \ {d} : core[e] \notin Working
      BY <1>0, <2>0, <2>2 DEF LockInv, Give
    <3>. QED  BY <1>0, <2>0, <2>2, <3>1 DEF LockInv, OpAt
  <2>. QED  BY <1>6, <2>1, <2>2 DEF HostStart
<1>7. ASSUME NEW d \in Launches, RemoveRuntime(d) \/ CoreStops(d) \/ HostHeartbeat(d) PROVE LockInv'
  BY <1>0, <1>7 DEF RemoveRuntime, CoreStops, HostClose, HostHeartbeat, LockInv, OpAt
<1>8. ASSUME NEW d \in Launches, HostExit(d) PROVE LockInv'
  <2>0. core[d] = "unlisted" /\ UNCHANGED seized /\ core' = [core EXCEPT ![d] = "dead"]
        /\ op' = [op EXCEPT ![d] = NoOp] /\ coreLock' = Give(coreLock, d)
    BY <1>8 DEF HostExit
  <2>1. ~seized => coreLock' = NoOne /\ \A e \in Launches \ {d} : core[e] \notin Working
    BY <1>0, <2>0 DEF LockInv, Give
  <2>. QED  BY <1>0, <2>0, <2>1 DEF LockInv, OpAt, NoOp
<1>9. ASSUME NEW d \in Launches, NEW r \in Requests, CreateTask(d, r) PROVE LockInv'
  <2>1. core[d] = "serving" /\ UNCHANGED <<core, coreLock, seized>>
        /\ \A e \in Launches \ {d} : op'[e] = op[e]
    BY <1>0, <1>9 DEF CreateTask, Repeat, First
  <2>. QED  BY <1>0, <2>1 DEF LockInv, OpAt
<1>10. ASSUME NEW d \in Launches, Serve(d) PROVE LockInv'
  <2>1. ~OpAt(d, "none") /\ UNCHANGED <<core, coreLock, seized>>
        /\ \A e \in Launches \ {d} : op'[e] = op[e]
    BY <1>0, <1>10 DEF Serve, CreateFile, WriteTask, AppendEvent, AppendJournal, OpTo, OpAt
  <2>. QED  BY <1>0, <2>1 DEF LockInv, OpAt
<1>11. ASSUME NEW d \in Launches, StopCore(d) PROVE LockInv'
  BY <1>1, <1>2, <1>11 DEF StopCore
<1>12. ASSUME NEW d \in Launches, CoreProcess(d) PROVE LockInv'
  <2>1. CASE HostCrash(d)
    BY <1>2, <2>1 DEF HostCrash
  <2>. QED  BY <1>4, <1>5, <1>6, <1>7, <1>8, <1>9, <1>10, <1>12, <2>1
            DEF CoreProcess, CoreRuns, ShellCreates
<1>13. CASE UNCHANGED vars
  BY <1>1, <1>13 DEF vars, hostVars
<1>. QED  BY <1>1, <1>3, <1>11, <1>12, <1>13, SupervisorMoves DEF Next

\* However many desktops are launched and killed, and reclaim the lease of one
\* another: until a core has its own lock taken from it while it works, one core
\* at a time has the files open, and one creates a task (OneDesktop).
THEOREM OneDesktopServes == Spec => []OneDesktop
<1>1. Init => Typed /\ LaunchInv /\ LockInv
  <2>1. Init => LaunchInv /\ LockInv
    BY DEF Init, HostInit, LaunchInv, LockInv, Working, OpAt, NoOp
  <2>. QED  BY <2>1, TypedInit
<1>2. Typed /\ LaunchInv /\ LockInv /\ [Next]_vars => Typed' /\ LaunchInv' /\ LockInv'
  BY TypedStep, LaunchStep, LockStep
<1>3. LockInv => OneDesktop
  BY DEF LockInv, OneDesktop, Works, Working
<1>. QED  BY <1>1, <1>2, <1>3, PTL DEF Spec

-----------------------------------------------------------------------------
(* The stores: one request at a time takes its files from one state to the *)
(* next.                                                                   *)

StoreInv == OpInv /\ JournalIsBacked /\ RefusedInv

LEMMA OpIsAlone ==
    ASSUME LockInv, ~seized, NEW d \in Launches, core[d] \in Working, NEW e \in Launches \ {d}
    PROVE  OpAt(e, "none")
BY DEF LockInv, Working

LEMMA RequestsAreTasks ==
    ASSUME NEW r \in Requests
    PROVE  /\ r.contract \notin {Absent, Blank} /\ r.task \in TaskIds
           /\ Body(r).task = r.task /\ Body(r).contract = r.contract
BY HostAssumption DEF TaskIds, Body

LEMMA JournalOfRequests ==
    ASSUME Typed, NEW j \in journal
    PROVE  \E r \in Requests : j.key = r.key /\ j.body = Body(r)
BY DEF Typed, HostTyped

LEMMA StoresAreKept ==
    ASSUME StoreInv, UNCHANGED storeVars,
           \A e \in Launches : op'[e] = op[e] \/ op'[e] = NoOp
    PROVE  StoreInv'
<1>. USE DEF StoreInv, storeVars
<1>1. OpInv'
  BY DEF OpInv, OpAt, NoOp
<1>2. JournalIsBacked'
  BY DEF JournalIsBacked, Listed
<1>3. RefusedInv'
  BY DEF RefusedInv, Overtaken, OpAt, NoOp
<1>. QED  BY <1>1, <1>2, <1>3

LEMMA CreateTaskKeeps ==
    ASSUME Typed, LockInv, ~seized, StoreInv, NEW d \in Launches, NEW r \in Requests, CreateTask(d, r)
    PROVE  StoreInv'
<1>0. /\ op \in [Launches -> {NoOp} \cup Ops] /\ UNCHANGED <<taskFile, timeline, journal>>
      /\ core[d] = "serving" /\ OpAt(d, "none")
  BY DEF Typed, HostTyped, CreateTask
<1>1. \A e \in Launches : OpAt(e, "none")
  BY <1>0, OpIsAlone DEF Working
<1>2. JournalIsBacked'
  BY <1>0 DEF StoreInv, JournalIsBacked, Listed
<1>3. CASE Repeat(d, r)
  <2>1. op' = op
    BY <1>3 DEF Repeat
  <2>2. OpInv'
    BY <1>1, <2>1 DEF OpInv, OpAt
  <2>3. ASSUME r \in refused', r \notin refused PROVE Overtaken(r)
    <3>1. PICK j \in journal : j.key = r.key /\ ~(j.body = Body(r) /\ taskFile[r.task] = r.contract)
      BY <1>3, <2>3 DEF Repeat
    <3>2. j.body # Body(r)
      BY <3>1, RequestsAreTasks DEF StoreInv, JournalIsBacked
    <3>. QED  BY <3>1, <3>2 DEF Overtaken
  <2>4. refused' \subseteq refused \cup {r}
    BY <1>3 DEF Repeat, Refuse
  <2>5. RefusedInv'
    BY <1>0, <1>1, <2>1, <2>3, <2>4 DEF StoreInv, RefusedInv, Overtaken, OpAt
  <2>. QED  BY <1>2, <2>2, <2>5 DEF StoreInv
<1>4. CASE First(d, r)
  <2>1. /\ \A e \in Launches \ {d} : op'[e] = op[e]
        /\ op'[d] = op[d] \/ /\ op'[d].req = r
                             /\ \/ op'[d].at = "create" /\ taskFile[r.task] = Absent
                                \/ op'[d].at = "event" /\ taskFile[r.task] = r.contract
    BY <1>0, <1>4 DEF First
  <2>2. \A j \in journal : j.key # r.key
    BY <1>4 DEF First
  <2>3. OpInv'
    <3>. SUFFICES ASSUME NEW e \in Launches, ~OpAt(e, "none")' PROVE
             LET q == op'[e].req
             IN  /\ \A j \in journal' : j.key # q.key
                 /\ OpAt(e, "create")' => taskFile'[q.task] = Absent
                 /\ OpAt(e, "write")' => taskFile'[q.task] = Blank
                 /\ OpAt(e, "event")' \/ OpAt(e, "journal")' => taskFile'[q.task] = q.contract
                 /\ OpAt(e, "journal")' => [id |-> Body(q), ref |-> q.key] \in timeline'
      BY DEF OpInv
    <3>. QED  BY <1>0, <1>1, <2>1, <2>2 DEF OpAt
  <2>4. refused' \subseteq refused \/ /\ refused' \subseteq refused \cup {r} /\ op' = op
                                      /\ taskFile[r.task] \notin {Absent, r.contract}
    BY <1>4 DEF First, Refuse
  <2>5. \A e \in Launches : ~OpAt(e, "write")'
    BY <1>1, <2>1 DEF OpAt
  <2>6. RefusedInv'
    BY <1>0, <2>4, <2>5 DEF StoreInv, RefusedInv, Overtaken
  <2>. QED  BY <1>2, <2>3, <2>6 DEF StoreInv
<1>. QED  BY <1>3, <1>4 DEF CreateTask

\* A file in hand is of no record, no event and no refused request.
LEMMA FileInHand ==
    ASSUME Typed, LockInv, ~seized, StoreInv, NEW d \in Launches,
           NEW from \in {"create", "write"}, NEW to \in {"write", "event"}, OpAt(d, from), OpTo(d, to),
           NEW content,
           content = IF from = "create" THEN Blank ELSE op[d].req.contract,
           to = IF from = "create" THEN "write" ELSE "event",
           taskFile' = [taskFile EXCEPT ![op[d].req.task] = content],
           UNCHANGED <<timeline, journal, refused>>
    PROVE  StoreInv'
<1>. DEFINE r == op[d].req
            t == r.task
<1>0. /\ op[d] \in Ops /\ op'[d] = [at |-> to, req |-> r]
      /\ \A e \in Launches \ {d} : op'[e] = op[e]
  BY OpGoesOn DEF Typed, OpAt
<1>1. r \in Requests /\ t \in TaskIds /\ r.contract \notin {Absent, Blank}
  BY <1>0, RequestsAreTasks DEF Ops
<1>2. \A e \in Launches \ {d} : OpAt(e, "none")
  BY OpIsAlone DEF LockInv, OpAt, Working
<1>3. /\ taskFile[t] = IF from = "create" THEN Absent ELSE Blank
      /\ \A j \in journal : j.key # r.key
  BY DEF StoreInv, OpInv, OpAt
<1>4. /\ taskFile'[t] = content
      /\ \A u \in TaskIds \ {t} : taskFile'[u] = taskFile[u]
  BY <1>1 DEF Typed, HostTyped, HostTypeOK
<1>. HIDE DEF r, t
<1>5. OpInv'
  <2>1. ASSUME NEW e \in Launches, ~OpAt(e, "none")' PROVE e = d
    BY <1>0, <1>2, <2>1 DEF OpAt
  <2>2. /\ op'[d].req = r /\ op'[d].at = to /\ to \notin {"create", "journal"}
        /\ to = "write" => taskFile'[t] = Blank
        /\ to = "event" => taskFile'[t] = r.contract
    BY <1>0, <1>4 DEF r
  <2>. QED  BY <1>3, <2>1, <2>2 DEF OpInv, OpAt, t
<1>6. JournalIsBacked'
  <2>1. ASSUME NEW j \in journal PROVE taskFile'[j.body.task] = j.body.contract
    <3>1. PICK q \in Requests : j.body = Body(q)
      BY JournalOfRequests
    <3>2. /\ taskFile[q.task] = q.contract /\ q.contract \notin {Absent, Blank} /\ q.task \in TaskIds
          /\ j.body.task = q.task /\ j.body.contract = q.contract
      BY <3>1, RequestsAreTasks DEF StoreInv, JournalIsBacked
    <3>. QED  BY <1>3, <1>4, <3>2
  <2>2. ASSUME NEW e \in timeline PROVE e.id.task \in Listed'
    <3>1. e.id.task \in TaskIds /\ taskFile[e.id.task] \notin {Absent, Blank}
      BY DEF StoreInv, JournalIsBacked, Listed
    <3>. QED  BY <1>3, <1>4, <3>1 DEF Listed
  <2>. QED  BY <2>1, <2>2 DEF StoreInv, JournalIsBacked
<1>7. RefusedInv'
  <2>. SUFFICES ASSUME NEW q \in refused, ~Overtaken(q)
                PROVE  /\ taskFile'[q.task] \notin {Absent, q.contract}
                       /\ \A e \in Launches : OpAt(e, "write")' => op'[e].req.task # q.task
    BY DEF RefusedInv, Overtaken
  <2>1. /\ taskFile[q.task] \notin {Absent, q.contract} /\ q.task \in TaskIds
        /\ \A e \in Launches : OpAt(e, "write") => op[e].req.task # q.task
    BY RequestsAreTasks DEF StoreInv, RefusedInv, Typed, HostTyped
  <2>2. q.task # t
    BY <1>3, <2>1 DEF OpAt, r, t
  <2>3. taskFile'[q.task] = taskFile[q.task]
    BY <1>4, <2>1, <2>2
  <2>. QED  BY <1>0, <2>1, <2>2, <2>3 DEF OpAt, t
<1>. QED  BY <1>5, <1>6, <1>7 DEF StoreInv

LEMMA AppendEventKeeps ==
    ASSUME Typed, LockInv, ~seized, StoreInv, NEW d \in Launches, AppendEvent(d)
    PROVE  StoreInv'
<1>. DEFINE r == op[d].req
            event == [id |-> Body(r), ref |-> r.key]
<1>0. op \in [Launches -> {NoOp} \cup Ops] /\ op[d] \in Ops
  BY DEF Typed, HostTyped, AppendEvent, OpAt, NoOp
<1>1. /\ r \in Requests /\ r.task \in TaskIds /\ r.contract \notin {Absent, Blank}
      /\ Body(r).task = r.task
  BY <1>0, RequestsAreTasks DEF Ops
<1>2. \A e \in Launches \ {d} : OpAt(e, "none")
  BY OpIsAlone DEF LockInv, AppendEvent, OpAt, Working
<1>3. /\ taskFile[r.task] = r.contract /\ \A j \in journal : j.key # r.key
      /\ UNCHANGED <<taskFile, journal>>
  BY DEF StoreInv, OpInv, AppendEvent, OpAt
<1>4. CASE op' = [op EXCEPT ![d] = NoOp] /\ Refuse(d, r) /\ UNCHANGED timeline
           /\ \E e \in timeline : e.id = Body(r) /\ e.ref # r.key
  <2>1. \A e \in Launches : OpAt(e, "none")'
    BY <1>0, <1>2, <1>4 DEF OpAt, NoOp
  <2>2. Overtaken(r)
    BY <1>4 DEF Overtaken
  <2>. HIDE DEF r
  <2>3. refused' \subseteq refused \cup {r}
    BY <1>4 DEF Refuse
  <2>4. RefusedInv'
    BY <1>3, <1>4, <2>1, <2>2, <2>3 DEF StoreInv, RefusedInv, Overtaken, OpAt
  <2>5. OpInv'
    BY <2>1 DEF OpInv, OpAt
  <2>6. JournalIsBacked'
    BY <1>3, <1>4 DEF StoreInv, JournalIsBacked, Listed
  <2>. QED  BY <2>4, <2>5, <2>6 DEF StoreInv
<1>5. CASE OpTo(d, "journal") /\ timeline' = timeline \cup {event} /\ UNCHANGED refused
  <2>1. /\ op'[d] = [at |-> "journal", req |-> r]
        /\ \A e \in Launches \ {d} : op'[e] = op[e]
    BY <1>5, OpGoesOn DEF Typed, AppendEvent, OpAt
  <2>. HIDE DEF r
  <2>2. OpInv'
    BY <1>2, <1>3, <1>5, <2>1 DEF OpInv, OpAt
  <2>3. JournalIsBacked'
    <3>1. event.id.task \in Listed
      BY <1>1, <1>3 DEF Listed
    <3>2. \A e \in timeline' : e.id.task \in Listed
      BY <1>5, <3>1 DEF StoreInv, JournalIsBacked
    <3>3. timeline \subseteq timeline' /\ Listed' = Listed
      BY <1>3, <1>5 DEF Listed
    <3>. QED  BY <1>3, <3>2, <3>3 DEF StoreInv, JournalIsBacked
  <2>4. RefusedInv'
    BY <1>3, <1>5, <2>1 DEF StoreInv, RefusedInv, Overtaken, OpAt
  <2>. QED  BY <2>2, <2>3, <2>4 DEF StoreInv
<1>. QED  BY <1>4, <1>5 DEF AppendEvent

LEMMA AppendJournalKeeps ==
    ASSUME Typed, LockInv, ~seized, StoreInv, NEW d \in Launches, AppendJournal(d)
    PROVE  StoreInv'
<1>. DEFINE r == op[d].req
            record == [key |-> r.key, body |-> Body(r)]
<1>0. op \in [Launches -> {NoOp} \cup Ops] /\ op[d] \in Ops
  BY DEF Typed, HostTyped, AppendJournal, OpAt, NoOp
<1>1. r \in Requests /\ Body(r).task = r.task /\ Body(r).contract = r.contract
  BY <1>0, RequestsAreTasks DEF Ops
<1>2. \A e \in Launches \ {d} : OpAt(e, "none")
  BY OpIsAlone DEF LockInv, AppendJournal, OpAt, Working
<1>3. /\ taskFile[r.task] = r.contract /\ \A j \in journal : j.key # r.key
      /\ [id |-> Body(r), ref |-> r.key] \in timeline
      /\ UNCHANGED <<taskFile, timeline, refused>> /\ journal' = journal \cup {record}
  BY DEF StoreInv, OpInv, AppendJournal, OpAt
<1>4. \A e \in Launches : OpAt(e, "none")'
  BY <1>0, <1>2 DEF AppendJournal, OpAt, NoOp
<1>5. OpInv'
  BY <1>4 DEF OpInv
<1>. HIDE DEF r
<1>6. JournalIsBacked'
  <2>1. /\ taskFile[record.body.task] = record.body.contract
        /\ [id |-> record.body, ref |-> record.key] \in timeline
        /\ \A j \in journal : j.key # record.key
    BY <1>1, <1>3
  <2>. HIDE DEF record
  <2>. QED  BY <1>3, <2>1 DEF StoreInv, JournalIsBacked, Listed
<1>7. RefusedInv'
  BY <1>3, <1>4 DEF StoreInv, RefusedInv, Overtaken, OpAt
<1>. QED  BY <1>5, <1>6, <1>7 DEF StoreInv

StoresHold == ~seized => StoreInv

LEMMA SeizedStays ==
    ASSUME Typed, [Next]_vars, seized
    PROVE  seized'
<1>1. ASSUME NEW d \in Launches, CoreProcess(d) PROVE seized'
  BY <1>1 DEF CoreProcess, CoreRuns, HostOpen, HostReclaim, HostStart, HostHeartbeat, RemoveRuntime,
              HostExit, CoreStops, HostClose, HostCrash, ShellCreates, CreateTask, Serve, CreateFile,
              WriteTask, AppendEvent, AppendJournal
<1>2. ASSUME NEW d \in Launches, Start(d) \/ StopCore(d) PROVE seized'
  BY <1>2 DEF Start, StopCore
<1>3. CASE UNCHANGED vars
  BY <1>3 DEF vars, hostVars
<1>. QED  BY <1>1, <1>2, <1>3, SupervisorMoves DEF Next

LEMMA StoreStep ==
    ASSUME Typed, LockInv, StoresHold, [Next]_vars
    PROVE  StoresHold'
<1>. SUFFICES ASSUME ~seized' PROVE StoreInv'
  BY DEF StoresHold
<1>0. op \in [Launches -> {NoOp} \cup Ops] /\ ~seized /\ StoreInv
  BY SeizedStays DEF Typed, HostTyped, StoresHold
<1>1. ASSUME UNCHANGED <<op, storeVars>> PROVE StoreInv'
  BY <1>0, <1>1, StoresAreKept
<1>2. ASSUME NEW d \in Launches, op' = [op EXCEPT ![d] = NoOp], UNCHANGED storeVars PROVE StoreInv'
  BY <1>0, <1>2, StoresAreKept
<1>3. ASSUME NEW d \in Launches, Desktop(d) PROVE StoreInv'
  BY <1>1, <1>2, <1>3, SupervisorMoves DEF Start, StopCore, Killed
<1>4. ASSUME NEW d \in Launches, CoreRuns(d) \/ CoreStops(d) \/ HostCrash(d) PROVE StoreInv'
  BY <1>1, <1>2, <1>4 DEF CoreRuns, HostOpen, HostReclaim, HostStart, HostHeartbeat, RemoveRuntime,
                          HostExit, CoreStops, HostClose, HostCrash, Killed
<1>5. ASSUME NEW d \in Launches, Serve(d) PROVE StoreInv'
  <2>1. CASE CreateFile(d)
    BY <1>0, <2>1, FileInHand DEF CreateFile
  <2>2. CASE WriteTask(d)
    BY <1>0, <2>2, FileInHand DEF WriteTask
  <2>. QED  BY <1>0, <1>5, <2>1, <2>2, AppendEventKeeps, AppendJournalKeeps DEF Serve
<1>6. CASE UNCHANGED vars
  BY <1>1, <1>6 DEF vars, hostVars
<1>. QED  BY <1>0, <1>3, <1>4, <1>5, <1>6, CreateTaskKeeps DEF Next, CoreProcess, ShellCreates

LEMMA StoresInit == Init => Typed /\ LaunchInv /\ LockInv /\ StoresHold
<1>1. Init => LaunchInv /\ LockInv
  BY DEF Init, HostInit, LaunchInv, LockInv, Working, OpAt, NoOp
<1>2. Init => StoresHold
  BY DEF Init, HostInit, StoresHold, StoreInv, OpInv, JournalIsBacked, RefusedInv, OpAt, NoOp
<1>. QED  BY <1>1, <1>2, TypedInit

\* As long as no core had its own lock taken from it while it worked, a record of
\* the request journal stands on the task's file and its event, no event is of a
\* task that is not listed, and who is refused was overtaken, over any kills,
\* restarts and retries (CreateIsWhole).
THEOREM TaskIsCreatedWhole == Spec => []CreateIsWhole
<1>1. Init => Typed /\ LaunchInv /\ LockInv /\ StoresHold
  BY StoresInit
<1>2. Typed /\ LaunchInv /\ LockInv /\ StoresHold /\ [Next]_vars
      => Typed' /\ LaunchInv' /\ LockInv' /\ StoresHold'
  BY TypedStep, LaunchStep, LockStep, StoreStep
<1>3. StoresHold => CreateIsWhole
  BY DEF StoresHold, StoreInv, RefusedInv, Overtaken, CreateIsWhole, RetryIsAnswered
<1>. QED  BY <1>1, <1>2, <1>3, PTL DEF Spec

-----------------------------------------------------------------------------
(* The end of a supervisor. *)

LEMMA DeadStaysDead ==
    ASSUME Typed, [Next]_vars, NEW e \in Launches, ~Alive(e), ~Start(e)
    PROVE  ~Alive(e)'
<1>0. core \in [Launches -> CoreStates]
  BY DEF Typed, HostTyped, HostTypeOK
<1>1. ASSUME NEW d \in Launches, Desktop(d) PROVE ~Alive(e)'
  <2>1. CASE Start(d)
    BY <1>0, <2>1 DEF Start, CoreTo, Alive
  <2>2. CASE StopCore(d)
    BY <1>0, <2>2 DEF StopCore, Killed, CoreTo, Alive
  <2>. QED  BY <1>1, <2>1, <2>2, SupervisorMoves DEF Alive
<1>2. ASSUME NEW d \in Launches, CoreProcess(d) PROVE ~Alive(e)'
  BY <1>0, <1>2 DEF CoreProcess, CoreRuns, HostOpen, HostReclaim, HostStart, HostHeartbeat, RemoveRuntime, HostExit, CoreStops,
         HostClose, HostCrash, Killed, Alive, ShellCreates, CreateTask, Serve, CreateFile, WriteTask,
         AppendEvent, AppendJournal, CoreTo
<1>3. CASE UNCHANGED vars
  BY <1>3 DEF vars, hostVars, Alive
<1>. QED  BY <1>1, <1>2, <1>3 DEF Next

LEMMA StartMoves ==
    ASSUME Typed, NEW e \in Launches, Start(e)
    PROVE  sup' # sup
BY MainGoesTo DEF Start, MainAt, MainTo, Becomes

LEMMA DesktopIsOfOne ==
    ASSUME Typed, NEW d \in Launches, Desktop(d), NEW e \in Launches \ {d}
    PROVE  /\ sup'[e] = sup[e] /\ ui'[e] = ui[e]
           /\ lease' = e => lease = e
           /\ ~Start(e)
<1>0. /\ sup \in [Launches -> Sups]
      /\ ui \in [Launches -> {"none", "starting", "ready", "dead"}]
      /\ NoOne # e
  BY NoOneIsNoLaunch DEF Typed, SupTyped, TypeOK
<1>1. sup'[e] = sup[e]
  BY <1>0 DEF Desktop, Open, Reclaim, StatRuntime, Start, WaitForCore, StartRenderer, AttestCore, LaunchRenderer,
       RendererRefused, RendererReady, Heartbeat, MonitorOnce, MonitorStops, Close, AwaitMonitor,
       StopCore, Release, SupervisorCrash, RendererUp, RendererExits, ToMain, AbortStart, StepFails, Fail
<1>2. ui'[e] = ui[e]
  BY <1>0 DEF Desktop, Open, Reclaim, StatRuntime, Start, WaitForCore, StartRenderer, AttestCore, LaunchRenderer,
       RendererRefused, RendererReady, Heartbeat, MonitorOnce, MonitorStops, Close, AwaitMonitor,
       StopCore, Release, SupervisorCrash, RendererUp, RendererExits
<1>3. lease' = e => lease = e
  BY <1>0 DEF Desktop, Open, Reclaim, StatRuntime, Start, WaitForCore, StartRenderer, AttestCore, LaunchRenderer,
       RendererRefused, RendererReady, Heartbeat, MonitorOnce, MonitorStops, Close, AwaitMonitor,
       StopCore, Release, SupervisorCrash, RendererUp, RendererExits, Give
<1>4. ~Start(e)
  BY <1>1, MainGoesTo DEF Start, MainAt, MainTo, Becomes
<1>. QED  BY <1>1, <1>2, <1>3, <1>4

LEMMA EndStays ==
    ASSUME NEW d \in Launches, EndHere(d), sup'[d] = sup[d], Down(d) => Down(d)',
           lease' = d => lease = d, ~Alive(d) => ~Alive(d)'
    PROVE  EndHere(d)'
BY DEF EndHere, MainAt, MonitorAt

LEMMA StartAndOpenEnd ==
    ASSUME Typed, EndInv, NEW d \in Launches, Open(d) \/ Reclaim(d) \/ StatRuntime(d) \/ Start(d),
           ~Alive(d) /\ ~Start(d) => ~Alive(d)', LaunchInv
    PROVE  EndHere(d)'
<1>0. EndHere(d) /\ NoOne # d
  BY NoOneIsNoLaunch DEF EndInv
<1>1. CASE Open(d) \/ Reclaim(d)
  BY <1>0, <1>1, MainGoesTo DEF Open, Reclaim, MainTo, Becomes, EndHere, MainAt, MonitorAt, Down
<1>2. CASE StatRuntime(d)
  <2>1. CASE MainTo(d, "opened")
    BY <1>0, <1>2, <2>1 DEF StatRuntime, MainTo, Becomes, EndHere, MainAt, MonitorAt, Down
  <2>2. CASE MainTo(d, "gone") /\ lease' = Give(lease, d)
    <3>1. lease' # d
      BY <1>0, <2>2 DEF Give
    <3>2. ~Alive(d) /\ ~Start(d)
      BY <1>2 DEF StatRuntime, Start, LaunchInv, Before, MainAt, Alive
    <3>. QED  BY <1>0, <1>2, <2>2, <3>1, <3>2
              DEF StatRuntime, MainTo, Becomes, EndHere, MainAt, MonitorAt, Down
  <2>. QED  BY <1>2, <2>1, <2>2, MainGoesTo DEF StatRuntime
<1>3. CASE Start(d)
  BY <1>0, <1>3, MainGoesTo DEF Start, MainTo, Becomes, EndHere, MainAt, MonitorAt, Down
<1>. QED  BY <1>1, <1>2, <1>3

LEMMA StepsEnd ==
    ASSUME Typed, EndInv, NEW d \in Launches,
           WaitForCore(d) \/ AttestCore(d) \/ LaunchRenderer(d) \/ RendererRefused(d) \/ RendererReady(d),
           ~Alive(d) => ~Alive(d)'
    PROVE  EndHere(d)'
<1>0. EndHere(d) /\ ui \in [Launches -> {"none", "starting", "ready", "dead"}] /\ sup[d] \in Sups
  BY DEF EndInv, Typed, SupTyped, TypeOK
<1>. USE DEF MainAt, MonitorAt, Down
<1>1. CASE WaitForCore(d)
  BY <1>0, <1>1, WaitGoesOn DEF WaitForCore, Aborts, Becomes, EndHere
<1>2. ASSUME StepFails(d), sup[d].step \in {"attest", "wait"}, lease' = lease,
             IF sup[d].step = "wait" THEN Down(d)' ELSE ui' = ui
      PROVE  EndHere(d)'
  <2>1. CASE MainAt(d, "starting")
    <3>1. Aborts(d)
      BY <1>2, <2>1, StepEnds
    <3>. QED  BY <1>0, <1>2, <2>1, <3>1 DEF Aborts, Becomes, EndHere
  <2>2. CASE ~MainAt(d, "starting")
    <3>1. StepTo(d, "done", "none")
      BY <1>2, <2>2, StepEnds
    <3>. QED  BY <1>0, <1>2, <2>2, <3>1 DEF StepTo, Becomes, EndHere
  <2>. QED  BY <2>1, <2>2
<1>3. CASE AttestCore(d)
  <2>1. CASE StepTo(d, sup[d].monitor, "launch")
    BY <1>0, <1>3, <2>1 DEF AttestCore, StepTo, Becomes, EndHere
  <2>. QED  BY <1>2, <1>3, <2>1, StepsGoOn DEF AttestCore
<1>4. CASE LaunchRenderer(d)
  BY <1>0, <1>4, StepsGoOn DEF LaunchRenderer, StepTo, Becomes, EndHere
<1>5. CASE RendererRefused(d)
  BY <1>0, <1>2, <1>5 DEF RendererRefused
<1>6. CASE RendererReady(d)
  <2>1. Becomes(d, IF MainAt(d, "starting") THEN "running" ELSE sup[d].main, "loop", "none",
                ~Closed(d), sup[d].held, sup[d].expired)
    BY <1>6, StepsGoOn
  <2>2. sup[d].step = "wait" /\ lease' = lease
    BY <1>6 DEF RendererReady
  <2>3. CASE Closed(d)
    <3>1. Down(d)'
      BY <1>0, <1>6, <2>3 DEF RendererReady
    <3>. QED  BY <1>0, <2>1, <2>2, <2>3, <3>1 DEF Becomes, EndHere, Closed
  <2>4. CASE ~Closed(d)
    <3>1. sup'[d].renderer = TRUE
      BY <2>1, <2>4 DEF Becomes
    <3>. QED  BY <1>0, <2>1, <2>2, <2>4, <3>1 DEF Becomes, EndHere, Closed
  <2>. QED  BY <2>3, <2>4
<1>. QED  BY <1>1, <1>3, <1>4, <1>5, <1>6

LEMMA MonitorEnds ==
    ASSUME Typed, EndInv, NEW d \in Launches, Heartbeat(d) \/ MonitorOnce(d) \/ MonitorStops(d),
           ~Alive(d) => ~Alive(d)'
    PROVE  EndHere(d)'
<1>0. EndHere(d) /\ sup[d] \in Sups
  BY DEF EndInv, Typed, SupTyped
<1>1. ui' = ui /\ lease' = lease /\ MonitorAt(d, "loop")
  BY DEF Heartbeat, MonitorOnce, MonitorStops, Typed, SupTyped, TypeOK
<1>2. CASE StepTo(d, "done", sup[d].step)
  BY <1>0, <1>1, <1>2 DEF StepTo, Becomes, EndHere, MainAt, MonitorAt, Down
<1>3. CASE /\ ui[d] = "dead" /\ MonitorOnce(d)
           /\ Becomes(d, sup[d].main, "restarting", "attest", FALSE, sup[d].held, sup[d].expired)
  BY <1>0, <1>1, <1>3 DEF MonitorOnce, Becomes, EndHere, MainAt, MonitorAt, Down, Closed
<1>4. CASE UNCHANGED sup
  BY <1>0, <1>1, <1>4, EndStays DEF Down
<1>. QED  BY <1>2, <1>3, <1>4, MonitorGoesOn

LEMMA CloseEnds ==
    ASSUME Typed, EndInv, NEW d \in Launches,
           Close(d) \/ AwaitMonitor(d) \/ StopCore(d) \/ Release(d) \/ SupervisorCrash(d),
           ~Alive(d) => ~Alive(d)'
    PROVE  EndHere(d)'
<1>0. /\ EndHere(d) /\ sup[d] \in Sups /\ NoOne # d
      /\ ui \in [Launches -> {"none", "starting", "ready", "dead"}]
      /\ core \in [Launches -> CoreStates]
  BY NoOneIsNoLaunch DEF EndInv, Typed, SupTyped, TypeOK, HostTypeOK
<1>. USE DEF MainAt, MonitorAt, Down
<1>1. CASE Close(d)
  BY <1>0, <1>1, CloseGoesOn DEF Close, Becomes, EndHere
<1>2. CASE AwaitMonitor(d)
  <2>1. Becomes(d, "stopCore", sup[d].monitor, sup[d].step, sup[d].renderer, sup[d].held,
                ~MonitorAt(d, "done"))
    BY <1>2, CloseGoesOn
  <2>2. sup'[d].main = "stopCore"
    BY <2>1 DEF Becomes
  <2>3. CASE ~MonitorAt(d, "done")
    <3>1. sup'[d].expired = TRUE
      BY <2>1, <2>3 DEF Becomes
    <3>. QED  BY <2>2, <3>1 DEF EndHere
  <2>4. CASE MonitorAt(d, "done")
    <3>1. Down(d)'
      BY <1>0, <1>2, <2>4 DEF AwaitMonitor, EndHere
    <3>2. sup'[d].step = "none" /\ sup'[d].monitor = "done"
      BY <1>0, <1>2, <2>1, <2>4 DEF AwaitMonitor, Becomes, EndHere
    <3>. QED  BY <2>2, <3>1, <3>2 DEF EndHere
  <2>. QED  BY <2>3, <2>4
<1>3. CASE StopCore(d)
  <2>1. ~Alive(d)'
    <3>1. CASE Alive(d)
      BY <1>0, <1>3, <3>1 DEF StopCore, Killed, CoreTo, Alive
    <3>. QED  BY <3>1
  <2>. QED  BY <1>0, <1>3, <2>1, MainGoesTo DEF StopCore, MainTo, Becomes, EndHere
<1>4. CASE Release(d)
  <2>1. lease' # d
    BY <1>0, <1>4 DEF Release, Give
  <2>2. ~Alive(d)' /\ ui' = ui
    BY <1>0, <1>4 DEF Release, EndHere
  <2>. QED  BY <1>0, <1>4, <2>1, <2>2, CloseGoesOn DEF Release, Becomes, EndHere
<1>5. CASE SupervisorCrash(d)
  BY <1>5, CloseGoesOn DEF Becomes, EndHere
<1>. QED  BY <1>1, <1>2, <1>3, <1>4, <1>5

LEMMA EndStep ==
    ASSUME Typed, LaunchInv, EndInv, [Next]_vars
    PROVE  EndInv'
<1>0. /\ ui \in [Launches -> {"none", "starting", "ready", "dead"}]
      /\ lease \in Launches \cup {NoOne}
      /\ NoOne \notin Launches /\ \A d \in Launches : EndHere(d)
  BY NoOneIsNoLaunch DEF Typed, SupTyped, TypeOK, EndInv
<1>1. ASSUME NEW d \in Launches, Desktop(d) PROVE EndInv'
  <2>1. ASSUME NEW e \in Launches \ {d} PROVE EndHere(e)'
    <3>1. sup'[e] = sup[e]
      BY <1>1, DesktopIsOfOne
    <3>2. ui'[e] = ui[e] /\ (lease' = e => lease = e) /\ ~Start(e)
      BY <1>0, <1>1, DesktopIsOfOne
    <3>. QED  BY <1>0, <3>1, <3>2, EndStays, DeadStaysDead DEF Down
  <2>2. EndHere(d)'
    <3>1. ~Alive(d) /\ ~Start(d) => ~Alive(d)'
      BY DeadStaysDead
    <3>2. CASE RendererUp(d) \/ RendererExits(d)
      <4>1. UNCHANGED <<sup, lease, core>> /\ (Down(d) => Down(d)')
        BY <1>0, <3>2 DEF RendererUp, RendererExits, hostVars, Down
      <4>. QED  BY <1>0, <4>1, EndStays DEF Alive
    <3>3. CASE Open(d) \/ Reclaim(d) \/ StatRuntime(d) \/ Start(d)
      BY <3>1, <3>3, StartAndOpenEnd
    <3>4. ASSUME ~Start(d), WaitForCore(d) \/ StartRenderer(d) PROVE EndHere(d)'
      BY <3>1, <3>4, StepsEnd DEF StartRenderer
    <3>5. ASSUME ~Start(d), Heartbeat(d) \/ MonitorOnce(d) \/ MonitorStops(d) PROVE EndHere(d)'
      BY <3>1, <3>5, MonitorEnds
    <3>6. ASSUME ~Start(d), Close(d) \/ AwaitMonitor(d) \/ StopCore(d) \/ Release(d) \/ SupervisorCrash(d)
          PROVE  EndHere(d)'
      BY <3>1, <3>6, CloseEnds
    <3>. QED  BY <1>1, <3>2, <3>3, <3>4, <3>5, <3>6 DEF Desktop
  <2>. QED  BY <2>1, <2>2 DEF EndInv
<1>2. ASSUME UNCHANGED <<sup, ui>>, lease' = lease, \A e \in Launches : ~Start(e) PROVE EndInv'
  <2>1. ASSUME NEW e \in Launches PROVE EndHere(e)'
    BY <1>0, <1>2, EndStays, DeadStaysDead DEF Down
  <2>. QED  BY <2>1 DEF EndInv
<1>3. ASSUME NEW d \in Launches, CoreProcess(d), UNCHANGED supVars PROVE EndInv'
  <2>1. \A e \in Launches : ~Start(e)
    BY <1>3, StartMoves DEF supVars
  <2>. QED  BY <1>2, <1>3, <2>1 DEF supVars
<1>4. CASE UNCHANGED vars
  <2>1. UNCHANGED <<sup, ui>> /\ lease' = lease
    BY <1>4 DEF vars, supVars
  <2>. QED  BY <1>2, <2>1, StartMoves
<1>. QED  BY <1>1, <1>3, <1>4 DEF Next

\* A supervisor that has gone leaves no core and no lease behind, and no
\* renderer either if Close returned in time, at whatever point of a restart
\* of the renderer it came (NoOrphans).
THEOREM NothingIsOrphaned == Spec => []NoOrphans
<1>1. Init => Typed /\ LaunchInv /\ EndInv
  <2>1. Init => LaunchInv /\ EndInv
    BY NoOneIsNoLaunch DEF Init, HostInit, LaunchInv, EndInv, EndHere, NewSup, MainAt, MonitorAt, Down, Alive
  <2>. QED  BY <2>1, TypedInit
<1>2. Typed /\ LaunchInv /\ EndInv /\ [Next]_vars => Typed' /\ LaunchInv' /\ EndInv'
  BY TypedStep, LaunchStep, EndStep
<1>3. EndInv => NoOrphans
  BY DEF EndInv, EndHere, NoOrphans, MainAt, Down
<1>. QED  BY <1>1, <1>2, <1>3, PTL DEF Spec

-----------------------------------------------------------------------------
(* Functions on the first numbers. *)

\* The first of the numbers for which something is so.
LEMMA FirstNumber ==
  ASSUME NEW T \in SUBSET Nat, T # {}
  PROVE  \E x \in T : \A y \in T : ~(y < x)
<1>1. PICK x \in T : \A y \in T : ~(<<y, x>> \in OpToRel(<, Nat))
  BY NatLessThanWellFounded, WFMin
<1>. QED  BY <1>1 DEF OpToRel

\* What is so of 0, and of every number whose predecessor it is so of, is so
\* up to any n.
LEMMA Climb ==
  ASSUME NEW n \in Nat, NEW T, 0 \in T, \A k \in 1..n : k - 1 \in T => k \in T
  PROVE  0..n \subseteq T
<1>. DEFINE Left == {k \in 0..n : k \notin T}
<1>1. ASSUME Left # {} PROVE FALSE
  <2>1. Left \in SUBSET Nat
    OBVIOUS
  <2>2. PICK x \in Left : \A y \in Left : ~(y < x)
    BY <1>1, <2>1, FirstNumber
  <2>3. x \in 1..n /\ x - 1 \in 0..n /\ x - 1 < x
    OBVIOUS
  <2>. QED  BY <2>2, <2>3
<1>. QED  BY <1>1

\* g goes from base by step, to n.
Steps(g, R, step, base, n) ==
  /\ g \in [0..n -> R] /\ g[0] = base
  /\ \A k \in 1..n : g[k] = step[<<g[k - 1], k>>]

LEMMA StepsExist ==
  ASSUME NEW R, NEW base \in R, NEW n \in Nat, NEW step \in [R \X (1..n) -> R]
  PROVE  \E g : Steps(g, R, step, base, n)
<1>. DEFINE T == {m \in 0..n : \E g : Steps(g, R, step, base, m)}
<1>1. 0 \in T
  <2>1. Steps([k \in 0..0 |-> base], R, step, base, 0)
    BY DEF Steps
  <2>. QED  BY <2>1
<1>2. ASSUME NEW x \in 1..n, x - 1 \in T PROVE x \in T
  <2>1. x - 1 \in 0..n /\ x - 1 < x /\ x \in Nat \ {0}
    OBVIOUS
  <2>2. PICK g : Steps(g, R, step, base, x - 1)
    BY <1>2
  <2>3. g[x - 1] \in R
    BY <2>1, <2>2 DEF Steps
  <2>. DEFINE next == step[<<g[x - 1], x>>]
              h == [k \in 0..x |-> IF k = x THEN next ELSE g[k]]
  <2>4. next \in R
    BY <2>3
  <2>5. \A k \in 0..(x - 1) : h[k] = g[k] /\ k # x
    BY <2>1
  <2>6. h \in [0..x -> R] /\ h[0] = base
    BY <2>1, <2>2, <2>4, <2>5 DEF Steps
  <2>7. h[x] = step[<<h[x - 1], x>>]
    <3>1. x \in 0..x /\ x - 1 \in 0..(x - 1)
      BY <2>1
    <3>2. h[x] = next /\ h[x - 1] = g[x - 1]
      BY <2>5, <3>1
    <3>. QED  BY <3>2
  <2>8. \A k \in 1..(x - 1) : h[k] = step[<<h[k - 1], k>>]
    <3>1. \A k \in 1..(x - 1) : k \in 0..(x - 1) /\ k - 1 \in 0..(x - 1)
      BY <2>1
    <3>. HIDE DEF h
    <3>. QED  BY <2>2, <2>5, <3>1 DEF Steps
  <2>9. \A k \in 1..x : k = x \/ k \in 1..(x - 1)
    BY <2>1
  <2>. HIDE DEF h
  <2>10. Steps(h, R, step, base, x)
    BY <2>6, <2>7, <2>8, <2>9 DEF Steps
  <2>. QED  BY <2>1, <2>10
<1>. HIDE DEF T
<1>3. n \in T
  BY <1>1, <1>2, Climb
<1>. QED  BY <1>3 DEF T

\* Two functions that go on alike are the same.
LEMMA OneWay ==
  ASSUME NEW n \in Nat, NEW g, NEW h, g[0] = h[0],
         \A k \in 1..n : g[k - 1] = h[k - 1] => g[k] = h[k]
  PROVE  \A k \in 0..n : g[k] = h[k]
<1>. DEFINE T == {k \in 0..n : g[k] = h[k]}
<1>1. 0 \in T /\ \A k \in 1..n : k - 1 \in T => k \in T
  OBVIOUS
<1>. HIDE DEF T
<1>2. 0..n \subseteq T
  BY <1>1, Climb
<1>. QED  BY <1>2 DEF T

-----------------------------------------------------------------------------
(* What a renderer is shown: a page of the timeline. *)

\* The size of a page, where it ends, and what the client compares.
PageSize(limit) == IF limit <= 0 \/ limit > PageMax THEN PageMax ELSE limit
PageEnd(host, after, limit) == Least(host.events, after + PageSize(limit))
SeenOf(host, after, limit) == <<after>> \o Timeline(host, after, limit)

\* A page goes on after the cursor, in order, and not past the timeline.
LEMMA PageOf ==
  ASSUME NEW host, host.events \in Nat, NEW after \in 0..host.events, NEW limit \in Nat
  PROVE  LET page == Timeline(host, after, limit)
             last == PageEnd(host, after, limit)
         IN  /\ last \in after..host.events /\ last = Least(host.events, after + PageSize(limit))
             /\ page = [i \in 1..(last - after) |-> after + i]
             /\ page \in Seq(Nat) /\ Len(page) = last - after
             /\ Len(page) <= PageSize(limit) /\ Len(page) <= host.events
             /\ (IF page = <<>> THEN after ELSE Last(page)) = last
             /\ Last(SeenOf(host, after, limit)) = last
             /\ \A i \in 1..Len(page) :
                   SeenOf(host, after, limit)[i] < SeenOf(host, after, limit)[i + 1]
             /\ after < host.events => after < last
<1>. DEFINE page == Timeline(host, after, limit)
            last == PageEnd(host, after, limit)
            size == PageSize(limit)
<1>1. size \in Nat \ {0}
  BY ShellAssumption DEF PageSize
<1>2. last \in after..host.events /\ last - after <= size /\ (after < host.events => after < last)
  BY <1>1 DEF PageEnd, Least
<1>3. page = [i \in 1..(last - after) |-> after + i]
  BY DEF Timeline, PageEnd, PageSize
<1>. HIDE DEF last, size, page
<1>4. page \in Seq(Nat) /\ Len(page) = last - after
  <2>1. last - after \in Nat /\ \A i \in 1..(last - after) : after + i \in Nat
    BY <1>2
  <2>. QED  BY <1>3, <2>1
<1>5. \A i \in 1..Len(page) : page[i] = after + i
  BY <1>3, <1>4
<1>. DEFINE seen == <<after>> \o page
<1>6. seen \in Seq(Nat) /\ Len(seen) = 1 + Len(page) /\ \A i \in 1..Len(seen) : seen[i] = after + i - 1
  <2>1. <<after>> \in Seq(Nat) /\ Len(<<after>>) = 1 /\ <<after>>[1] = after
    OBVIOUS
  <2>. QED  BY <1>4, <1>5, <2>1
<1>. HIDE DEF seen
<1>7. Last(seen) = last
  BY <1>2, <1>4, <1>6 DEF Last
<1>8. \A i \in 1..Len(page) : seen[i] < seen[i + 1]
  BY <1>4, <1>6
<1>9. (IF page = <<>> THEN after ELSE Last(page)) = last
  <2>1. CASE page = <<>>
    <3>1. Len(page) = 0
      BY <2>1
    <3>. QED  BY <1>2, <1>4, <2>1, <3>1
  <2>2. CASE page # <<>>
    <3>1. Len(page) # 0
      BY <1>4, <2>2
    <3>2. Len(page) \in 1..Len(page) /\ page[Len(page)] = after + Len(page)
      BY <1>2, <1>4, <1>5, <3>1
    <3>. QED  BY <1>2, <1>4, <2>2, <3>2 DEF Last
  <2>. QED  BY <2>1, <2>2
<1>10. last = Least(host.events, after + size)
  BY DEF last, size, PageEnd
<1>11. Len(page) <= size /\ Len(page) <= host.events
  BY <1>1, <1>2, <1>4
<1>. QED  BY <1>2, <1>3, <1>4, <1>7, <1>8, <1>9, <1>10, <1>11 DEF page, last, size, seen, SeenOf

-----------------------------------------------------------------------------
(* What a renderer is shown: the tasks. *)

\* The list that ListTasks builds, after each file.
Listing(files) ==
  LET listed[n \in 0..Len(files)] ==
        IF n = 0 THEN <<>>
        ELSE IF files[n] = Empty THEN listed[n - 1]
        ELSE Append(listed[n - 1], files[n])
  IN  listed

\* ListTasks returns the last of them.
LEMMA ListTasksIs ==
  ASSUME NEW host
  PROVE  ListTasks(host) = IF Torn \in Range(host.files) THEN {}
                           ELSE {Listing(host.files)[Len(host.files)]}
BY Zenon DEF ListTasks, Listing

\* Listing is the function its definition asks for.
LEMMA ListingIs ==
  ASSUME NEW S, NEW files \in Seq(S)
  PROVE  LET g == Listing(files)
         IN  /\ g \in [0..Len(files) -> Seq(S)] /\ g[0] = <<>>
             /\ \A k \in 1..Len(files) :
                   g[k] = IF files[k] = Empty THEN g[k - 1] ELSE Append(g[k - 1], files[k])
<1>. DEFINE n == Len(files)
            next(s, k) == IF files[k] = Empty THEN s ELSE Append(s, files[k])
            step == [p \in Seq(S) \X (1..n) |-> next(p[1], p[2])]
            Solves(g) == g = [k \in 0..n |-> IF k = 0 THEN <<>>
                                              ELSE IF files[k] = Empty THEN g[k - 1]
                                              ELSE Append(g[k - 1], files[k])]
<1>0. n \in Nat /\ \A k \in 1..n : files[k] \in S /\ k - 1 \in 0..n
  OBVIOUS
<1>1. <<>> \in Seq(S) /\ step \in [Seq(S) \X (1..n) -> Seq(S)]
  <2>1. ASSUME NEW p \in Seq(S) \X (1..n) PROVE next(p[1], p[2]) \in Seq(S)
    <3>1. p[1] \in Seq(S) /\ p[2] \in 1..n
      OBVIOUS
    <3>. QED  BY <1>0, <3>1
  <2>. HIDE DEF next
  <2>. QED  BY <2>1
<1>2. PICK g : Steps(g, Seq(S), step, <<>>, n)
  <2>. HIDE DEF step, n
  <2>. QED  BY <1>0, <1>1, StepsExist
<1>3. \A k \in 1..n : g[k] = next(g[k - 1], k)
  <2>1. ASSUME NEW k \in 1..n PROVE step[<<g[k - 1], k>>] = next(g[k - 1], k)
    <3>1. g[k - 1] \in Seq(S)
      BY <1>0, <1>2 DEF Steps
    <3>. HIDE DEF next
    <3>2. <<g[k - 1], k>> \in Seq(S) \X (1..n)
      BY <3>1
    <3>. QED  BY <3>2
  <2>. HIDE DEF step, next
  <2>. QED  BY <1>2, <2>1 DEF Steps
<1>4. Solves(g)
  <2>1. g = [k \in 0..n |-> g[k]] /\ g[0] = <<>>
    BY <1>2 DEF Steps
  <2>2. \A k \in 0..n : k = 0 \/ k \in 1..n
    BY <1>0
  <2>3. \A k \in 0..n : g[k] = IF k = 0 THEN <<>>
                              ELSE IF files[k] = Empty THEN g[k - 1]
                              ELSE Append(g[k - 1], files[k])
    BY <1>3, <2>1, <2>2
  <2>. HIDE DEF n
  <2>. QED  BY <2>1, <2>3
<1>5. Listing(files) = CHOOSE h : Solves(h)
  BY Zenon DEF Listing
<1>. DEFINE f == Listing(files)
<1>6. Solves(f)
  BY <1>4, <1>5
<1>. HIDE DEF f
<1>7. /\ DOMAIN f = 0..n /\ f[0] = <<>> /\ f = [k \in 0..n |-> f[k]]
      /\ \A k \in 1..n : f[k] = next(f[k - 1], k)
  <2>1. DOMAIN f = 0..n /\ f = [k \in 0..n |-> f[k]]
    BY <1>6
  <2>2. 0 \in 0..n /\ \A k \in 1..n : k \in 0..n /\ k # 0
    BY <1>0
  <2>. HIDE DEF n
  <2>3. \A k \in 0..n : f[k] = IF k = 0 THEN <<>>
                              ELSE IF files[k] = Empty THEN f[k - 1]
                              ELSE Append(f[k - 1], files[k])
    BY <1>6
  <2>. QED  BY <2>1, <2>2, <2>3
<1>8. g[0] = <<>>
  BY <1>2 DEF Steps
<1>. HIDE DEF Solves, next
<1>9. \A k \in 0..n : f[k] = g[k]
  <2>1. \A k \in 1..n : f[k - 1] = g[k - 1] => f[k] = g[k]
    BY <1>3, <1>7
  <2>. HIDE DEF n
  <2>2. f[0] = g[0]
    BY <1>7, <1>8
  <2>. QED  BY <1>0, <2>1, <2>2, OneWay
<1>10. f \in [0..n -> Seq(S)]
  BY <1>2, <1>7, <1>9 DEF Steps
<1>. QED  BY <1>7, <1>10 DEF f, next

\* t lists the first k files: those that hold a task, each once if no two are
\* the same.
Lists(t, files, k) ==
  /\ Len(t) <= k
  /\ \A i \in 1..Len(t) : t[i] # Empty /\ \E j \in 1..k : files[j] = t[i]
  /\ \A j \in 1..k : \/ files[j] = Empty /\ Len(t) < k
                     \/ \E i \in 1..Len(t) : t[i] = files[j]

Distinct(files) ==
  \A i, j \in 1..Len(files) : files[i] = files[j] /\ files[i] # Empty => i = j

\* One more file.
LEMMA ListGrows ==
  ASSUME NEW S, NEW files \in Seq(S), NEW k \in 1..Len(files), NEW t \in Seq(S),
         Lists(t, files, k - 1), Distinct(files) => IsInjective(t)
  PROVE  LET u == IF files[k] = Empty THEN t ELSE Append(t, files[k])
         IN  Lists(u, files, k) /\ (Distinct(files) => IsInjective(u))
<1>0. files[k] \in S /\ Len(t) \in Nat /\ k \in Nat /\ \A j \in 1..k : j = k \/ j \in 1..(k - 1)
  OBVIOUS
<1>1. CASE files[k] = Empty
  <2>1. Lists(t, files, k)
    BY <1>0, <1>1 DEF Lists
  <2>. QED  BY <1>1, <2>1
<1>2. CASE files[k] # Empty
  <2>. DEFINE u == Append(t, files[k])
  <2>1. /\ u \in Seq(S) /\ Len(u) = Len(t) + 1 /\ u[Len(t) + 1] = files[k] /\ DOMAIN u = 1..Len(u)
        /\ \A i \in 1..Len(t) : u[i] = t[i]
        /\ \A i \in 1..Len(u) : i = Len(t) + 1 \/ i \in 1..Len(t)
    BY <1>0
  <2>. HIDE DEF u
  <2>2. Lists(u, files, k)
    <3>1. Len(u) <= k
      BY <1>0, <2>1 DEF Lists
    <3>2. ASSUME NEW i \in 1..Len(u) PROVE u[i] # Empty /\ \E j \in 1..k : files[j] = u[i]
      <4>1. CASE i = Len(t) + 1
        BY <1>0, <1>2, <2>1, <4>1
      <4>2. CASE i \in 1..Len(t)
        <5>1. u[i] = t[i] /\ \A j \in 1..(k - 1) : j \in 1..k
          BY <1>0, <2>1, <4>2
        <5>. QED  BY <4>2, <5>1 DEF Lists
      <4>. QED  BY <2>1, <4>1, <4>2
    <3>3. ASSUME NEW j \in 1..k
          PROVE \/ files[j] = Empty /\ Len(u) < k
                \/ \E i \in 1..Len(u) : u[i] = files[j]
      <4>1. CASE j = k
        BY <1>0, <2>1, <4>1
      <4>2. CASE j \in 1..(k - 1)
        <5>1. CASE files[j] = Empty /\ Len(t) < k - 1
          BY <1>0, <2>1, <5>1
        <5>2. CASE \E i \in 1..Len(t) : t[i] = files[j]
          BY <1>0, <2>1, <5>2
        <5>. QED  BY <4>2, <5>1, <5>2 DEF Lists
      <4>. QED  BY <1>0, <4>1, <4>2
    <3>. QED  BY <3>1, <3>2, <3>3 DEF Lists
  <2>3. ASSUME Distinct(files) PROVE IsInjective(u)
    <3>1. ASSUME NEW i \in 1..Len(t) PROVE t[i] # files[k]
      <4>1. PICK j \in 1..(k - 1) : files[j] = t[i]
        BY DEF Lists
      <4>. QED  BY <1>0, <1>2, <2>3, <4>1 DEF Distinct
    <3>2. \A i, j \in 1..Len(t) : t[i] = t[j] => i = j
      BY <2>3 DEF IsInjective
    <3>. QED  BY <2>1, <3>1, <3>2 DEF IsInjective
  <2>. QED  BY <1>2, <2>2, <2>3 DEF u
<1>. QED  BY <1>1, <1>2

\* What ListTasks makes of files that all load.
LEMMA ListsTheFiles ==
  ASSUME NEW S, NEW host, host.files \in Seq(S), Torn \notin Range(host.files)
  PROVE  \E t \in Seq(S) : /\ ListTasks(host) = {t} /\ Lists(t, host.files, Len(host.files))
                           /\ Distinct(host.files) => IsInjective(t)
<1>. DEFINE files == host.files
            n == Len(files)
            g == Listing(files)
            T == {k \in 0..n : Lists(g[k], files, k) /\ (Distinct(files) => IsInjective(g[k]))}
<1>1. /\ g \in [0..n -> Seq(S)] /\ g[0] = <<>>
      /\ \A k \in 1..n : g[k] = IF files[k] = Empty THEN g[k - 1] ELSE Append(g[k - 1], files[k])
  BY ListingIs
<1>2. n \in Nat
  OBVIOUS
<1>3. 0 \in T
  <2>1. Lists(<<>>, files, 0) /\ IsInjective(<<>>)
    BY DEF Lists, IsInjective
  <2>. QED  BY <1>1, <1>2, <2>1
<1>4. ASSUME NEW k \in 1..n, k - 1 \in T PROVE k \in T
  <2>1. k \in 0..n /\ k - 1 \in 0..n
    BY <1>2
  <2>2. g[k - 1] \in Seq(S)
    BY <1>1, <2>1
  <2>. DEFINE u == IF files[k] = Empty THEN g[k - 1] ELSE Append(g[k - 1], files[k])
  <2>3. Lists(u, files, k) /\ (Distinct(files) => IsInjective(u))
    <3>1. Lists(g[k - 1], files, k - 1) /\ (Distinct(files) => IsInjective(g[k - 1]))
      BY <1>4
    <3>. HIDE DEF g
    <3>. QED  BY <2>2, <3>1, ListGrows
  <2>4. g[k] = u
    BY <1>1
  <2>. HIDE DEF u, g
  <2>5. Lists(g[k], files, k) /\ (Distinct(files) => IsInjective(g[k]))
    BY <2>3, <2>4
  <2>. HIDE DEF files, n
  <2>. QED  BY <2>1, <2>5
<1>. HIDE DEF T
<1>5. n \in T
  <2>. HIDE DEF n
  <2>1. 0..n \subseteq T
    BY <1>2, <1>3, <1>4, Climb
  <2>. QED  BY <1>2, <2>1
<1>6. ListTasks(host) = {g[n]}
  BY ListTasksIs
<1>7. g[n] \in Seq(S)
  <2>. HIDE DEF g, n
  <2>. QED  BY <1>1, <1>2
<1>. QED  BY <1>5, <1>6, <1>7 DEF T

-----------------------------------------------------------------------------
(* What a renderer is shown: a client and its core, while nothing moves. *)

ClientOf(host) ==
  [runtime |-> Named(host), token |-> host.credential.token, identity |-> Identity(host)]

SnapshotOf(host, t, after, limit) ==
  [identity |-> Identity(host),
   status |-> [build |-> host.build, tasks |-> Len(t), events |-> host.events,
               requests |-> host.requests],
   tasks |-> t, timeline |-> Timeline(host, after, limit),
   after |-> after, next |-> PageEnd(host, after, limit)]

\* A core whose files load answers with one snapshot.
LEMMA SnapshotIs ==
  ASSUME NEW host, NEW t, ListTasks(host) = {t}, host.events \in Nat,
         NEW after \in 0..host.events, NEW limit \in Nat
  PROVE  Snapshot(host, after, limit) = {SnapshotOf(host, t, after, limit)}
<1>1. LET page == Timeline(host, after, limit)
      IN  (IF page = <<>> THEN after ELSE Last(page)) = PageEnd(host, after, limit)
  BY PageOf
<1>2. BackendStatus(host) = {[build |-> host.build, tasks |-> Len(t), events |-> host.events,
                              requests |-> host.requests]}
  BY DEF BackendStatus
<1>. QED  BY <1>1, <1>2 DEF Snapshot, SnapshotOf

\* The client gets what the core answers, if it fits.
LEMMA AnswerOf ==
  ASSUME NEW host, NEW client, NEW r, client.runtime = Named(host),
         client.token = host.credential.token
  PROVE  DoJSON(client, Now(host), r) = {body \in Handled(host, r) : Size(r, body) <= ResponseMax}
<1>1. client.runtime.address = host.address
  BY DEF Named
<1>2. UNION {Answered(k, client.token, r) :
               k \in {k \in Now(host).cores : k.address = client.runtime.address}}
        = Handled(host, r)
  BY <1>1 DEF Answered, Now
<1>. QED  BY <1>2 DEF DoJSON, StillCurrent, Now

\* A core with a credential that clients accept.
Serviceable(host) ==
  /\ host.build = "b" /\ Sound(host.credential) /\ host.events \in Nat
  /\ ResponseMax >= 1

\* Connect succeeds.
LEMMA ConnectedTo ==
  ASSUME NEW host, Serviceable(host)
  PROVE  Reconnect("b", host.credential, Now(host)) = {ClientOf(host)}
<1>1. ReadCredential(host.credential) = {host.credential}
  BY DEF ReadCredential, Serviceable
<1>2. ReadRuntime(Now(host).before) = {Named(host)}
  BY DEF ReadRuntime, Now, Named
<1>. DEFINE client == [runtime |-> Named(host), token |-> host.credential.token,
                       identity |-> [build |-> "b", install |-> host.credential.install,
                                     instance |-> Named(host).instance]]
<1>3. client = ClientOf(host)
  BY DEF ClientOf, Serviceable, Named, Identity
<1>4. client.identity \in DoJSON(client, Now(host), [path |-> "identity"])
  <2>1. client.runtime = Named(host) /\ client.token = host.credential.token
        /\ client.identity = Identity(host)
    BY <1>3 DEF ClientOf
  <2>2. Identity(host) \in Handled(host, [path |-> "identity"])
    BY DEF Handled
  <2>3. Size([path |-> "identity"], Identity(host)) <= ResponseMax
    BY ShellAssumption DEF Size, Serviceable
  <2>. HIDE DEF client
  <2>. QED  BY <2>1, <2>2, <2>3, AnswerOf
<1>5. Named(host).build = "b" /\ Named(host).install = host.credential.install
  BY DEF Named, Serviceable
<1>6. Attested("b", host.credential, Now(host), Named(host)) = {ClientOf(host)}
  BY <1>3, <1>4, <1>5 DEF Attested
<1>. QED  BY <1>1, <1>2, <1>6 DEF Reconnect, Connect

\* What is shown while nothing moves: one view, if the files load and it fits.
LEMMA ProjectionIs ==
  ASSUME NEW S, NEW host, Serviceable(host), NEW t \in Seq(S), ListTasks(host) = {t}, IsInjective(t),
         NEW after \in 0..host.events, NEW limit \in Nat,
         Len(t) + Least(host.events, PageSize(limit)) <= ResponseMax
  PROVE  Projection(ClientOf(host), Now(host), after, limit)
           = {SnapshotOf(host, t, after, PageSize(limit))}
<1>. DEFINE size == PageSize(limit)
            r == [path |-> "snapshot", after |-> after, limit |-> size]
            s == SnapshotOf(host, t, after, size)
            client == ClientOf(host)
<1>0. size \in Nat \ {0} /\ PageSize(size) = size /\ host.events \in Nat
  BY ShellAssumption DEF PageSize, Serviceable
<1>1. /\ client.runtime = Named(host) /\ client.token = host.credential.token
      /\ client.identity = Identity(host) /\ client.identity.build = host.build
  BY DEF ClientOf, Identity
<1>2. Handled(host, r) = {s}
  <2>1. Handled(host, r) = Snapshot(host, after, size)
    BY DEF Handled
  <2>. HIDE DEF size
  <2>. QED  BY <1>0, <2>1, SnapshotIs
<1>. DEFINE page == Timeline(host, after, size)
            last == PageEnd(host, after, size)
<1>3. /\ s.identity = Identity(host) /\ s.status.build = host.build /\ s.status.tasks = Len(t)
      /\ s.status.events = host.events /\ s.tasks = t /\ s.timeline = page
      /\ s.after = after /\ s.next = last
  BY DEF SnapshotOf
<1>. HIDE DEF size
<1>4. /\ last \in after..host.events /\ page \in Seq(Nat) /\ Len(page) = last - after
      /\ Len(page) <= size /\ Len(page) <= host.events
      /\ Last(SeenOf(host, after, size)) = last
      /\ \A i \in 1..Len(page) :
            SeenOf(host, after, size)[i] < SeenOf(host, after, size)[i + 1]
  <2>. HIDE DEF s, client, r
  <2>. QED  BY ONLY <1>0, PageOf, after \in 0..host.events
<1>. HIDE DEF page, last
<1>5. Len(page) <= Least(host.events, size)
  BY <1>0, <1>4 DEF Least
<1>. HIDE DEF s, client
<1>6. Acceptable(client, s, after, size)
  <2>1. SeenOf(host, after, size) = <<after>> \o s.timeline
    BY <1>3 DEF SeenOf, page
  <2>. QED  BY <1>1, <1>3, <1>4, <1>5, <2>1 DEF Acceptable
<1>7. Size(r, s) <= ResponseMax
  <2>1. Size(r, s) = Len(t) + Len(page)
    BY <1>3 DEF Size
  <2>2. Least(host.events, size) \in Nat /\ Len(t) \in Nat /\ Len(page) \in Nat
        /\ ResponseMax \in Nat
    BY <1>0, <1>4, ShellAssumption DEF Least
  <2>. QED  BY <1>5, <2>1, <2>2 DEF size
<1>8. DoJSON(client, Now(host), r) = {s}
  <2>. HIDE DEF r
  <2>. QED  BY <1>1, <1>2, <1>7, AnswerOf
<1>9. Projection(client, Now(host), after, limit)
        = {x \in DoJSON(client, Now(host), r) : Acceptable(client, x, after, size)}
  BY DEF Projection, size, PageSize
<1>. QED  BY <1>6, <1>8, <1>9 DEF s, client, size

-----------------------------------------------------------------------------
(* What a renderer is shown: pages while the timeline grows. *)

\* The core of PagesAreExact when the k-th page is asked for, and the pages.
Events(start, grows, k) == Least(start + grows * k, Longest)
Growing(start, grows, k) == Core("old", "a1", Credential("i1"), <<"t1">>, Events(start, grows, k))

Pages(limit, start, grows) ==
  LET at(k) == Core("old", "a1", Credential("i1"), <<"t1">>, Least(start + grows * k, Longest))
      shell == Reconnect("b", Credential("i1"), Now(at(0)))
      pages[k \in 0..2 * Longest] ==
          IF k = 0 THEN [seen |-> <<>>, cursor |-> 0]
          ELSE LET views == Show(shell, Now(at(k)), pages[k - 1].cursor, <<limit>>)
                   v     == CHOOSE w \in views : TRUE
               IN  IF views = {} THEN pages[k - 1]
                   ELSE [seen |-> pages[k - 1].seen \o v.timeline, cursor |-> v.next]
  IN  pages

\* PagesAreExact speaks of these pages.
LEMMA PagesAreThose ==
  PagesAreExact <=>
    \A limit \in 1..ShellMax, start \in 0..Longest, grows \in 0..1 :
      Pages(limit, start, grows)[2 * Longest].seen
        = [i \in 1..Growing(start, grows, 2 * Longest).events |-> i]
BY Zenon DEF PagesAreExact, Pages, Growing, Events

\* The timeline does not shrink, and grows by one event at most.
LEMMA EventsGrow ==
  ASSUME NEW start \in 0..Longest, NEW grows \in 0..1
  PROVE  /\ Longest \in Nat
         /\ \A k \in Nat : Events(start, grows, k) \in 0..Longest
         /\ \A k \in Nat \ {0} : /\ Events(start, grows, k - 1) <= Events(start, grows, k)
                                 /\ Events(start, grows, k) <= Events(start, grows, k - 1) + 1
<1>1. Longest \in Nat
  BY ShellAssumption DEF Longest
<1>2. CASE grows = 0
  <2>1. \A k \in Nat : grows * k = 0 /\ start + grows * k = start
    BY <1>2
  <2>. QED  BY <1>1, <2>1 DEF Events, Least
<1>3. CASE grows = 1
  <2>1. \A k \in Nat : grows * k = k
    BY <1>3
  <2>2. \A k \in Nat \ {0} : grows * k = k /\ grows * (k - 1) = k - 1
    BY <1>3
  <2>. QED  BY <1>1, <2>1, <2>2 DEF Events, Least
<1>. QED  BY <1>2, <1>3

\* The core of PagesAreExact lists its task, and its client stays the same.
LEMMA GrowingWorks ==
  ASSUME ResponseMax >= 1, NEW start \in 0..Longest, NEW grows \in 0..1, NEW k \in Nat
  PROVE  LET host == Growing(start, grows, k)
         IN  /\ Serviceable(host) /\ host.events = Events(start, grows, k)
             /\ host.credential = Credential("i1")
             /\ ClientOf(host) = ClientOf(Growing(start, grows, 0))
             /\ \E t \in Seq({"t1"}) : ListTasks(host) = {t} /\ Len(t) <= 1 /\ IsInjective(t)
<1>. DEFINE host == Growing(start, grows, k)
<1>1. /\ host.events = Events(start, grows, k) /\ host.credential = Credential("i1")
      /\ host.build = "b" /\ host.files = <<"t1">>
  BY DEF Growing, Core
<1>2. Events(start, grows, k) \in Nat
  <2>1. Longest \in Nat /\ Events(start, grows, k) \in 0..Longest
    BY ONLY start \in 0..Longest, grows \in 0..1, k \in Nat, EventsGrow
  <2>. QED  BY <2>1
<1>3. Sound(Credential("i1"))
  BY DEF Sound, Credential
<1>4. ClientOf(host) = ClientOf(Growing(start, grows, 0))
  BY DEF ClientOf, Growing, Core, Named, Identity
<1>. HIDE DEF host
<1>5. host.files \in Seq({"t1"}) /\ Len(host.files) = 1 /\ Torn \notin Range(host.files)
      /\ Distinct(host.files)
  BY <1>1 DEF Range, Torn, Distinct
<1>6. PICK t \in Seq({"t1"}) : /\ ListTasks(host) = {t} /\ Lists(t, host.files, Len(host.files))
                               /\ Distinct(host.files) => IsInjective(t)
  BY <1>5, ListsTheFiles
<1>7. Len(t) <= 1 /\ IsInjective(t)
  <2>1. Len(t) <= Len(host.files)
    BY <1>6 DEF Lists
  <2>. QED  BY <1>5, <1>6, <2>1
<1>8. Serviceable(host)
  BY <1>1, <1>2, <1>3 DEF Serviceable
<1>9. \E u \in Seq({"t1"}) : ListTasks(host) = {u} /\ Len(u) <= 1 /\ IsInjective(u)
  BY <1>6, <1>7
<1>. QED  BY <1>1, <1>4, <1>8, <1>9 DEF host

\* A page of it is shown from any event on that there is.
LEMMA PageIsShown ==
  ASSUME 1 + PageMax <= ResponseMax, NEW start \in 0..Longest, NEW grows \in 0..1, NEW k \in Nat,
         NEW limit \in 1..ShellMax, NEW after \in 0..Events(start, grows, k)
  PROVE  LET host  == Growing(start, grows, k)
             views == Show({ClientOf(Growing(start, grows, 0))}, Now(host), after, <<limit>>)
             size  == PageSize(limit)
         IN  \E v : /\ views = {v} /\ v.timeline = Timeline(host, after, size)
                    /\ v.next = PageEnd(host, after, size)
<1>. DEFINE host == Growing(start, grows, k)
            client == ClientOf(Growing(start, grows, 0))
            size == PageSize(limit)
<1>0. ResponseMax \in Nat /\ ResponseMax >= 1 /\ ShellMax \in Nat /\ PageMax \in Nat \ {0}
  BY ShellAssumption
<1>1. /\ Serviceable(host) /\ host.events = Events(start, grows, k) /\ client = ClientOf(host)
      /\ \E t \in Seq({"t1"}) : ListTasks(host) = {t} /\ Len(t) <= 1 /\ IsInjective(t)
  BY <1>0, GrowingWorks
<1>2. PICK t \in Seq({"t1"}) : ListTasks(host) = {t} /\ Len(t) <= 1 /\ IsInjective(t)
  BY <1>1
<1>. HIDE DEF host, client
<1>3. limit \in Nat /\ size \in Nat /\ size <= PageMax
  BY <1>0 DEF PageSize
<1>4. Len(t) + Least(host.events, size) <= ResponseMax
  <2>1. Least(host.events, size) \in Nat /\ Least(host.events, size) <= size
    BY <1>1, <1>3 DEF Serviceable, Least
  <2>2. Len(t) \in Nat
    OBVIOUS
  <2>. HIDE DEF size
  <2>. QED  BY <1>0, <1>2, <1>3, <2>1, <2>2
<1>5. Projection(client, Now(host), after, limit) = {SnapshotOf(host, t, after, size)}
  <2>1. after \in 0..host.events
    BY <1>1
  <2>. QED  BY <1>1, <1>2, <1>3, <1>4, <2>1, ProjectionIs
<1>6. ParseLimit(<<limit>>) = {limit}
  BY <1>0 DEF ParseLimit
<1>7. Show({client}, Now(host), after, <<limit>>) = {ViewSnapshot(SnapshotOf(host, t, after, size))}
  BY <1>5, <1>6 DEF Show, Refresh
<1>8. /\ ViewSnapshot(SnapshotOf(host, t, after, size)).timeline = Timeline(host, after, size)
      /\ ViewSnapshot(SnapshotOf(host, t, after, size)).next = PageEnd(host, after, size)
  BY DEF ViewSnapshot, SnapshotOf
<1>. QED  BY <1>7, <1>8 DEF host, client

\* Where the k-th page ends.
LEMMA CursorExists ==
  ASSUME NEW start \in 0..Longest, NEW grows \in 0..1, NEW limit \in Nat
  PROVE  \E c : /\ c \in [0..2 * Longest -> Nat] /\ c[0] = 0
                /\ \A k \in 1..2 * Longest :
                     c[k] = PageEnd(Growing(start, grows, k), c[k - 1], limit)
<1>. DEFINE n == 2 * Longest
            end(c, k) == Least(Events(start, grows, k), c + PageSize(limit))
            step == [p \in Nat \X (1..n) |-> end(p[1], p[2])]
<1>1. n \in Nat /\ PageSize(limit) \in Nat
  BY ShellAssumption DEF PageSize, Longest
<1>2. ASSUME NEW c \in Nat, NEW k \in Nat PROVE end(c, k) \in Nat
  <2>1. Longest \in Nat /\ Events(start, grows, k) \in 0..Longest
    BY EventsGrow
  <2>. QED  BY <1>1, <2>1 DEF Least
<1>3. step \in [Nat \X (1..n) -> Nat]
  <2>1. \A p \in Nat \X (1..n) : p[1] \in Nat /\ p[2] \in Nat
    BY <1>1
  <2>. HIDE DEF end
  <2>. QED  BY <1>2, <2>1
<1>. HIDE DEF n, step, end
<1>4. PICK c : Steps(c, Nat, step, 0, n)
  BY <1>1, <1>3, StepsExist
<1>5. c \in [0..n -> Nat] /\ c[0] = 0 /\ \A k \in 1..n : c[k] = step[<<c[k - 1], k>>]
  BY <1>4 DEF Steps
<1>6. ASSUME NEW k \in 1..n PROVE c[k] = PageEnd(Growing(start, grows, k), c[k - 1], limit)
  <2>1. k - 1 \in 0..n
    BY <1>1
  <2>2. c[k - 1] \in Nat
    BY <1>5, <2>1
  <2>3. <<c[k - 1], k>> \in Nat \X (1..n)
    BY <2>2
  <2>4. step[<<c[k - 1], k>>] = end(c[k - 1], k)
    BY <2>3 DEF step
  <2>5. end(c[k - 1], k) = PageEnd(Growing(start, grows, k), c[k - 1], limit)
    BY DEF end, PageEnd, Growing, Core
  <2>. QED  BY <1>5, <2>4, <2>5
<1>. QED  BY <1>5, <1>6 DEF n

\* The cursor stays within the timeline, and takes a step with every page.
LEMMA CursorGrows ==
  ASSUME NEW start \in 0..Longest, NEW grows \in 0..1, NEW limit \in Nat,
         NEW c \in [0..2 * Longest -> Nat], c[0] = 0,
         \A k \in 1..2 * Longest : c[k] = PageEnd(Growing(start, grows, k), c[k - 1], limit)
  PROVE  \A k \in 0..2 * Longest : /\ c[k] <= Events(start, grows, k)
                                   /\ c[k] >= Least(Events(start, grows, k), k)
<1>. DEFINE n == 2 * Longest
            ev(k) == Events(start, grows, k)
            T == {k \in 0..n : c[k] <= ev(k) /\ c[k] >= Least(ev(k), k)}
<1>0. /\ Longest \in Nat /\ n \in Nat
      /\ \A k \in Nat : ev(k) \in Nat
      /\ \A k \in Nat \ {0} : ev(k - 1) <= ev(k) /\ ev(k) <= ev(k - 1) + 1
  <2>1. Longest \in Nat
    BY EventsGrow
  <2>2. \A k \in Nat : ev(k) \in 0..Longest
    BY EventsGrow
  <2>3. \A k \in Nat \ {0} : ev(k - 1) <= ev(k) /\ ev(k) <= ev(k - 1) + 1
    BY EventsGrow
  <2>. HIDE DEF ev
  <2>. QED  BY <2>1, <2>2, <2>3
<1>1. \A k \in 1..n : c[k] = Least(ev(k), c[k - 1] + PageSize(limit))
  BY DEF PageEnd, Growing, Core
<1>2. PageSize(limit) \in Nat \ {0}
  BY ShellAssumption DEF PageSize
<1>. HIDE DEF ev
<1>3. 0 \in T
  BY <1>0 DEF Least
<1>4. ASSUME NEW k \in 1..n, k - 1 \in T PROVE k \in T
  <2>1. k \in 0..n /\ k - 1 \in 0..n /\ k \in Nat \ {0} /\ k - 1 \in Nat
    BY <1>0
  <2>2. ev(k) \in Nat /\ ev(k - 1) \in Nat /\ ev(k - 1) <= ev(k) /\ ev(k) <= ev(k - 1) + 1
    BY <1>0, <2>1
  <2>3. c[k - 1] \in Nat /\ c[k - 1] <= ev(k - 1) /\ c[k - 1] >= Least(ev(k - 1), k - 1)
    BY <1>4, <2>1
  <2>4. c[k] = Least(ev(k), c[k - 1] + PageSize(limit))
    BY <1>1
  <2>. HIDE DEF n
  <2>. QED  BY <1>2, <2>1, <2>2, <2>3, <2>4 DEF Least
<1>. HIDE DEF n, T
<1>5. 0..n \subseteq T
  BY <1>0, <1>3, <1>4, Climb
<1>. QED  BY <1>5 DEF n, T, ev

\* What was seen and the page that follows.
LEMMA Joined ==
  ASSUME NEW a \in Nat, NEW b \in Nat, a <= b
  PROVE  [i \in 1..a |-> i] \o [i \in 1..(b - a) |-> a + i] = [i \in 1..b |-> i]
<1>. DEFINE s == [i \in 1..a |-> i]
            t == [i \in 1..(b - a) |-> a + i]
            u == [i \in 1..b |-> i]
<1>1. s \in Seq(Nat) /\ Len(s) = a /\ \A i \in 1..a : s[i] = i
  OBVIOUS
<1>2. t \in Seq(Nat) /\ Len(t) = b - a /\ \A i \in 1..(b - a) : t[i] = a + i
  <2>1. b - a \in Nat /\ \A i \in 1..(b - a) : a + i \in Nat
    OBVIOUS
  <2>. QED  BY <2>1
<1>3. u \in Seq(Nat) /\ Len(u) = b /\ \A i \in 1..b : u[i] = i
  OBVIOUS
<1>. HIDE DEF s, t, u
<1>4. /\ s \o t \in Seq(Nat) /\ Len(s \o t) = b
      /\ \A i \in 1..b : (s \o t)[i] = IF i <= a THEN s[i] ELSE t[i - a]
  <2>1. /\ s \o t \in Seq(Nat) /\ Len(s \o t) = Len(s) + Len(t)
        /\ \A i \in 1..(Len(s) + Len(t)) :
             (s \o t)[i] = IF i <= Len(s) THEN s[i] ELSE t[i - Len(s)]
    BY <1>1, <1>2, ConcatProperties
  <2>2. a + (b - a) = b
    OBVIOUS
  <2>. QED  BY <1>1, <1>2, <2>1, <2>2
<1>5. ASSUME NEW i \in 1..b PROVE (s \o t)[i] = u[i]
  <2>1. u[i] = i /\ (s \o t)[i] = IF i <= a THEN s[i] ELSE t[i - a]
    BY <1>3, <1>4
  <2>2. CASE i <= a
    <3>1. i \in 1..a
      BY <2>2
    <3>. QED  BY <1>1, <2>1, <2>2, <3>1
  <2>3. CASE ~(i <= a)
    <3>1. i - a \in 1..(b - a) /\ a + (i - a) = i
      BY <2>3
    <3>. QED  BY <1>2, <2>1, <2>3, <3>1
  <2>. QED  BY <2>2, <2>3
<1>6. s \o t = u
  BY <1>3, <1>4, <1>5, SeqEqual
<1>. QED  BY <1>6 DEF s, t, u

\* The pages give every event once and in order, whatever their size and
\* whether or not the timeline grows meanwhile.
LEMMA ExactPages ==
  ASSUME 1 + PageMax <= ResponseMax
  PROVE  PagesAreExact
<1>. SUFFICES ASSUME NEW limit \in 1..ShellMax, NEW start \in 0..Longest, NEW grows \in 0..1
              PROVE  Pages(limit, start, grows)[2 * Longest].seen
                       = [i \in 1..Growing(start, grows, 2 * Longest).events |-> i]
  BY PagesAreThose
<1>. DEFINE n == 2 * Longest
            at(k) == Growing(start, grows, k)
            ev(k) == Events(start, grows, k)
            client == ClientOf(at(0))
            size == PageSize(limit)
            shell == Reconnect("b", Credential("i1"), Now(at(0)))
            next(p, k) == LET views == Show(shell, Now(at(k)), p.cursor, <<limit>>)
                              v     == CHOOSE w \in views : TRUE
                          IN  IF views = {} THEN p
                              ELSE [seen |-> p.seen \o v.timeline, cursor |-> v.next]
            Solves(f) == f = [k \in 0..n |-> IF k = 0 THEN [seen |-> <<>>, cursor |-> 0]
                                              ELSE next(f[k - 1], k)]
<1>1. /\ Longest \in Nat /\ n \in Nat
      /\ \A k \in Nat : ev(k) \in 0..Longest
      /\ \A k \in Nat \ {0} : ev(k - 1) <= ev(k)
  <2>1. Longest \in Nat /\ \A k \in Nat : ev(k) \in 0..Longest
    BY EventsGrow
  <2>2. \A k \in Nat \ {0} : ev(k - 1) <= ev(k)
    BY EventsGrow
  <2>. HIDE DEF ev
  <2>. QED  BY <2>1, <2>2
<1>2. /\ limit \in Nat /\ size \in Nat \ {0} /\ PageSize(size) = size /\ ResponseMax >= 1
  BY ShellAssumption DEF PageSize
<1>3. Pages(limit, start, grows) = CHOOSE f : Solves(f)
  BY Zenon DEF Pages, Growing, Events
<1>4. shell = {client}
  <2>1. Serviceable(at(0)) /\ at(0).credential = Credential("i1")
    BY <1>2, GrowingWorks
  <2>. QED  BY <2>1, ConnectedTo
<1>5. \A k \in Nat : at(k).events = ev(k)
  BY DEF Growing, Core
<1>6. PICK c : /\ c \in [0..n -> Nat] /\ c[0] = 0
               /\ \A k \in 1..n : c[k] = PageEnd(at(k), c[k - 1], size)
  BY <1>2, CursorExists
<1>7. \A k \in 0..n : c[k] <= ev(k) /\ c[k] >= Least(ev(k), k)
  BY <1>2, <1>6, CursorGrows
<1>. DEFINE g == [k \in 0..n |-> [seen |-> [i \in 1..c[k] |-> i], cursor |-> c[k]]]
<1>8. ASSUME NEW k \in 1..n PROVE next(g[k - 1], k) = g[k]
  <2>. DEFINE after == c[k - 1]
              views == Show({client}, Now(at(k)), after, <<limit>>)
              seen == [i \in 1..after |-> i]
  <2>1. k \in Nat \ {0} /\ k - 1 \in Nat /\ k \in 0..n /\ k - 1 \in 0..n
    BY <1>1
  <2>2. /\ g[k - 1] = [seen |-> seen, cursor |-> after]
        /\ g[k] = [seen |-> [i \in 1..c[k] |-> i], cursor |-> c[k]]
    BY <2>1
  <2>3. after \in Nat /\ after <= ev(k - 1) /\ c[k] \in Nat /\ c[k] <= ev(k)
    BY <1>6, <1>7, <2>1
  <2>. HIDE DEF g, ev
  <2>4. after \in 0..ev(k)
    BY <1>1, <2>1, <2>3
  <2>5. PICK v : /\ views = {v} /\ v.timeline = Timeline(at(k), after, size)
                 /\ v.next = PageEnd(at(k), after, size)
    <3>1. after \in 0..Events(start, grows, k) /\ k \in Nat
      BY <2>1, <2>4 DEF ev
    <3>. HIDE DEF after
    <3>2. \E v : /\ Show({ClientOf(Growing(start, grows, 0))}, Now(Growing(start, grows, k)),
                         after, <<limit>>) = {v}
                 /\ v.timeline = Timeline(Growing(start, grows, k), after, PageSize(limit))
                 /\ v.next = PageEnd(Growing(start, grows, k), after, PageSize(limit))
      BY <3>1, PageIsShown
    <3>. QED  BY <3>2
  <2>6. v.next = c[k]
    BY <1>6, <2>5
  <2>. HIDE DEF after, size
  <2>7. /\ Timeline(at(k), after, size) = [i \in 1..(c[k] - after) |-> after + i]
        /\ c[k] \in after..ev(k)
    <3>1. at(k).events = ev(k) /\ ev(k) \in Nat
      BY <1>1, <1>5, <2>1
    <3>. HIDE DEF at
    <3>2. /\ PageEnd(at(k), after, size) \in after..at(k).events
          /\ Timeline(at(k), after, size)
               = [i \in 1..(PageEnd(at(k), after, size) - after) |-> after + i]
      <4>1. after \in 0..at(k).events /\ at(k).events \in Nat /\ size \in Nat
        BY <1>2, <2>4, <3>1
      <4>. QED  BY <1>2, <4>1, PageOf
    <3>. QED  BY <2>5, <2>6, <3>1, <3>2
  <2>8. seen \o v.timeline = [i \in 1..c[k] |-> i]
    <3>1. after \in Nat /\ c[k] \in Nat /\ after <= c[k]
      BY <2>3, <2>7
    <3>2. seen \o [i \in 1..(c[k] - after) |-> after + i] = [i \in 1..c[k] |-> i]
      BY ONLY <3>1, Joined DEF seen
    <3>. QED  BY <2>5, <2>7, <3>2
  <2>10. Show(shell, Now(at(k)), g[k - 1].cursor, <<limit>>) = views
    <3>1. g[k - 1].cursor = after
      BY <2>2
    <3>. HIDE DEF shell, client
    <3>. QED  BY <1>4, <3>1
  <2>11. next(g[k - 1], k) = [seen |-> g[k - 1].seen \o v.timeline, cursor |-> v.next]
    <3>. DEFINE V == Show(shell, Now(at(k)), g[k - 1].cursor, <<limit>>)
    <3>1. V = {v}
      BY <2>5, <2>10
    <3>. HIDE DEF V
    <3>2. V # {} /\ (CHOOSE w \in V : TRUE) = v
      BY <3>1
    <3>3. next(g[k - 1], k)
            = IF V = {} THEN g[k - 1]
              ELSE [seen |-> g[k - 1].seen \o (CHOOSE w \in V : TRUE).timeline,
                    cursor |-> (CHOOSE w \in V : TRUE).next]
      BY Zenon DEF V
    <3>. QED  BY <3>2, <3>3
  <2>. DEFINE all == [i \in 1..c[k] |-> i]
  <2>9. seen \o v.timeline = all
    BY <2>8
  <2>12. g[k] = [seen |-> all, cursor |-> c[k]]
    BY <2>2
  <2>. HIDE DEF views, seen, shell, next, all
  <2>13. g[k - 1].seen = seen
    BY <2>2
  <2>14. g[k - 1].seen \o v.timeline = all
    BY <2>9, <2>13
  <2>15. next(g[k - 1], k) = [seen |-> all, cursor |-> c[k]]
    BY <2>6, <2>11, <2>14
  <2>. QED  BY <2>12, <2>15
<1>. HIDE DEF next
<1>9. Solves(g) /\ g[0] = [seen |-> <<>>, cursor |-> 0]
  <2>1. g[0] = [seen |-> <<>>, cursor |-> 0]
    <3>1. [i \in 1..0 |-> i] = <<>>
      OBVIOUS
    <3>. QED  BY <1>1, <1>6, <3>1
  <2>2. g = [k \in 0..n |-> g[k]] /\ \A k \in 0..n : k = 0 \/ k \in 1..n
    BY <1>1
  <2>. HIDE DEF g, n
  <2>3. \A k \in 0..n : g[k] = IF k = 0 THEN [seen |-> <<>>, cursor |-> 0]
                              ELSE next(g[k - 1], k)
    BY <1>8, <2>1, <2>2
  <2>. QED  BY <2>1, <2>2, <2>3
<1>. DEFINE f == Pages(limit, start, grows)
<1>10. Solves(f)
  BY <1>3, <1>9
<1>. HIDE DEF f, g
<1>11. /\ f[0] = [seen |-> <<>>, cursor |-> 0]
       /\ \A k \in 1..n : f[k] = next(f[k - 1], k)
  <2>1. 0 \in 0..n /\ \A k \in 1..n : k \in 0..n /\ k # 0
    BY <1>1
  <2>. HIDE DEF n
  <2>2. \A k \in 0..n : f[k] = IF k = 0 THEN [seen |-> <<>>, cursor |-> 0]
                              ELSE next(f[k - 1], k)
    BY <1>10
  <2>. QED  BY <2>1, <2>2
<1>12. \A k \in 0..n : f[k] = g[k]
  <2>1. \A k \in 1..n : f[k - 1] = g[k - 1] => f[k] = g[k]
    BY <1>8, <1>11
  <2>2. f[0] = g[0]
    BY <1>9, <1>11
  <2>. HIDE DEF n
  <2>3. n \in Nat
    BY <1>1
  <2>. QED  BY ONLY <2>1, <2>2, <2>3, OneWay
<1>13. c[n] = ev(n) /\ n \in 0..n /\ n \in Nat
  <2>1. n \in 0..n /\ n \in Nat /\ ev(n) \in 0..Longest
    BY <1>1
  <2>2. c[n] <= ev(n) /\ c[n] >= Least(ev(n), n) /\ c[n] \in Nat
    BY <1>6, <1>7, <2>1
  <2>. HIDE DEF ev
  <2>. QED  BY <1>1, <2>1, <2>2 DEF Least
<1>14. f[n].seen = [i \in 1..c[n] |-> i]
  <2>. HIDE DEF n
  <2>1. g[n] = [seen |-> [i \in 1..c[n] |-> i], cursor |-> c[n]]
    BY <1>13 DEF g
  <2>2. f[n] = g[n]
    BY <1>12, <1>13
  <2>. QED  BY <2>1, <2>2
<1>. QED  BY <1>5, <1>13, <1>14 DEF f

-----------------------------------------------------------------------------
(* What a renderer is shown: two cores, of which one replaces the other. *)

\* Both can be connected to, and are not the same instance.
LEMMA CoresWork ==
  ASSUME ResponseMax >= 1, NEW left, NEW new \in Replacements(left),
         left \in {Credential("i1"), NoFile, Damaged}
  PROVE  /\ Serviceable(Old) /\ Old.credential = Credential("i1")
         /\ Serviceable(new) /\ new.files \in FileSets /\ new.events = 2
         /\ Old.instance # new.instance
<1>1. /\ Old.build = "b" /\ Old.credential = Credential("i1") /\ Old.events = 1
      /\ Old.instance = "old"
  BY DEF Old, Core
<1>2. Sound(Credential("i1")) /\ Sound(Credential("i2"))
  BY DEF Sound, Credential
<1>3. PICK address \in {"a1", "a2"}, files \in FileSets,
           cred \in LoadOrCreateCredential(left, Credential("i2")) :
        new = Core("new", address, cred, files, 2)
  BY DEF Replacements
<1>4. /\ new.build = "b" /\ new.credential = cred /\ new.events = 2 /\ new.files = files
      /\ new.instance = "new"
  BY <1>3 DEF Core
<1>5. Sound(cred)
  BY <1>2 DEF LoadOrCreateCredential, ReadCredential
<1>. QED  BY <1>1, <1>2, <1>4, <1>5 DEF Serviceable

\* What is in the files of a replacement, when they load.
LEMMA FilesOfCores ==
  ASSUME NEW host, host.files \in FileSets, Torn \notin Range(host.files)
  PROVE  \E t \in Seq({"t1", "t2", Empty}) : ListTasks(host) = {t} /\ Len(t) <= 2 /\ IsInjective(t)
<1>. DEFINE S == {"t1", "t2", Empty}
            files == host.files
<1>1. CASE files = <<>>
  <2>1. files \in Seq(S) /\ Len(files) = 0 /\ Distinct(files)
    BY <1>1 DEF Distinct
  <2>2. PICK t \in Seq(S) : /\ ListTasks(host) = {t} /\ Lists(t, files, Len(files))
                            /\ Distinct(files) => IsInjective(t)
    BY <2>1, ListsTheFiles
  <2>. QED  BY <2>1, <2>2 DEF Lists
<1>2. CASE files = <<"t1", Empty, "t2">>
  <2>1. files \in Seq(S) /\ Len(files) = 3 /\ files[2] = Empty
    BY <1>2
  <2>2. Distinct(files)
    BY <1>2 DEF Distinct, Empty
  <2>3. PICK t \in Seq(S) : /\ ListTasks(host) = {t} /\ Lists(t, files, Len(files))
                            /\ Distinct(files) => IsInjective(t)
    BY <2>1, ListsTheFiles
  <2>4. Len(t) < 3
    BY <2>1, <2>3 DEF Lists
  <2>. QED  BY <2>2, <2>3, <2>4
<1>3. CASE files = <<"t1", Torn>>
  <2>1. Torn \in Range(files)
    BY <1>3 DEF Range
  <2>. QED  BY <2>1
<1>. QED  BY <1>1, <1>2, <1>3 DEF FileSets

\* The page that a renderer gets which asks for no limit.
LEMMA FullPage ==
  ASSUME NEW client, NEW net
  PROVE  /\ PageSize(PageMax) = PageMax /\ PageMax \in Nat
         /\ Show({client}, net, 0, <<>>)
              = {ViewSnapshot(s) : s \in Projection(client, net, 0, PageMax)}
BY ShellAssumption DEF PageSize, Show, Refresh, ParseLimit

\* A view is of the core that runtime.json names before and after.
LEMMA ViewIsOfOneCore ==
  ASSUME NEW net, NEW X, NEW v \in Show({ClientOf(X)}, net, 0, <<>>)
  PROVE  \E host \in net.cores : /\ net.before = Named(host) /\ net.after = Named(host)
                                 /\ v \in {ViewSnapshot(s) : s \in Snapshot(host, 0, PageMax)}
<1>. DEFINE client == ClientOf(X)
            r == [path |-> "snapshot", after |-> 0, limit |-> PageMax]
<1>1. PICK s \in Projection(client, net, 0, PageMax) : v = ViewSnapshot(s)
  <2>. HIDE DEF client
  <2>1. Show({client}, net, 0, <<>>) = {ViewSnapshot(s) : s \in Projection(client, net, 0, PageMax)}
    BY FullPage
  <2>2. v \in Show({client}, net, 0, <<>>)
    BY DEF client
  <2>. QED  BY <2>1, <2>2
<1>2. s \in DoJSON(client, net, r) /\ Acceptable(client, s, 0, PageMax)
  BY <1>1, FullPage DEF Projection, PageSize
<1>3. /\ client.runtime = Named(X) /\ client.identity = Identity(X)
      /\ client.runtime.address = X.address
  BY DEF ClientOf, Named
<1>. HIDE DEF client, r
<1>4. net.before = Named(X) /\ net.after = Named(X)
  BY <1>2, <1>3 DEF DoJSON, StillCurrent
<1>5. PICK host \in net.cores : host.address = X.address /\ s \in Answered(host, client.token, r)
  BY <1>2, <1>3 DEF DoJSON
<1>6. s \in Snapshot(host, 0, PageMax)
  <2>1. Handled(host, r) = Snapshot(host, 0, PageMax)
    BY DEF Handled, r
  <2>. QED  BY <1>5, <2>1 DEF Answered
<1>7. s.identity = Identity(host)
  BY <1>6 DEF Snapshot
<1>8. Identity(host) = Identity(X)
  BY <1>2, <1>3, <1>7 DEF Acceptable
<1>9. /\ host.build = X.build /\ host.credential.install = X.credential.install
      /\ host.instance = X.instance
  BY <1>8 DEF Identity
<1>10. Named(host) = Named(X)
  BY <1>5, <1>9 DEF Named
<1>. QED  BY <1>1, <1>4, <1>6, <1>10

\* What is shown is of the current core, and is shown if it loads and fits.
LEMMA CurrentIsShown ==
  ASSUME 2 + PageMax <= ResponseMax
  PROVE  ShownIsCurrent
<1>. SUFFICES ASSUME NEW left \in {Credential("i1"), NoFile, Damaged}, NEW new \in Replacements(left)
              PROVE  LET early == Reconnect("b", Credential("i1"), Now(Old))
                         late  == Reconnect("b", new.credential, Now(new))
                     IN  /\ \A net \in Nets({Old, new}), shell \in {early, late} :
                               \A v \in Show(shell, net, 0, <<>>) :
                                   \E host \in net.cores :
                                       /\ net.before = Named(host) /\ net.after = Named(host)
                                       /\ v \in {ViewSnapshot(s) : s \in Snapshot(host, 0, PageMax)}
                         /\ Show(late, Now(new), 0, <<>>) # {} <=> Torn \notin Range(new.files)
                         /\ Show(early, Now(new), 0, <<>>) = {}
  BY DEF ShownIsCurrent
<1>. DEFINE early == Reconnect("b", Credential("i1"), Now(Old))
            late  == Reconnect("b", new.credential, Now(new))
<1>0. ResponseMax \in Nat /\ ResponseMax >= 1 /\ PageMax \in Nat \ {0}
  BY ShellAssumption
<1>1. /\ Serviceable(Old) /\ Old.credential = Credential("i1") /\ Serviceable(new) /\ new.files \in FileSets
      /\ new.events = 2 /\ Old.instance # new.instance
  BY <1>0, CoresWork
<1>2. early = {ClientOf(Old)} /\ late = {ClientOf(new)}
  BY <1>1, ConnectedTo
<1>. HIDE DEF early, late
<1>3. ASSUME NEW net \in Nets({Old, new}), NEW shell \in {early, late}, NEW v \in Show(shell, net, 0, <<>>)
      PROVE  \E host \in net.cores :
                 /\ net.before = Named(host) /\ net.after = Named(host)
                 /\ v \in {ViewSnapshot(s) : s \in Snapshot(host, 0, PageMax)}
  BY <1>2, <1>3, ViewIsOfOneCore
<1>4. ASSUME Torn \in Range(new.files) PROVE Show(late, Now(new), 0, <<>>) = {}
  <2>1. ListTasks(new) = {}
    BY <1>4 DEF ListTasks
  <2>2. Snapshot(new, 0, PageMax) = {}
    BY <2>1 DEF Snapshot
  <2>3. ASSUME NEW v \in Show(late, Now(new), 0, <<>>) PROVE FALSE
    <3>1. PICK host \in Now(new).cores : v \in {ViewSnapshot(s) : s \in Snapshot(host, 0, PageMax)}
      BY <1>2, <2>3, ViewIsOfOneCore
    <3>. QED  BY <2>2, <3>1 DEF Now
  <2>. QED  BY <2>3
<1>5. ASSUME Torn \notin Range(new.files) PROVE Show(late, Now(new), 0, <<>>) # {}
  <2>1. PICK t \in Seq({"t1", "t2", Empty}) :
           ListTasks(new) = {t} /\ Len(t) <= 2 /\ IsInjective(t)
    BY <1>1, <1>5, FilesOfCores
  <2>2. Len(t) + Least(new.events, PageSize(PageMax)) <= ResponseMax
    <3>1. Least(new.events, PageMax) <= PageMax /\ Least(new.events, PageMax) \in Nat
      BY <1>0, <1>1 DEF Least
    <3>2. Len(t) \in Nat
      OBVIOUS
    <3>3. PageSize(PageMax) = PageMax
      BY FullPage
    <3>. QED  BY <1>0, <2>1, <3>1, <3>2, <3>3
  <2>3. 0 \in 0..new.events /\ PageMax \in Nat
    BY <1>0, <1>1
  <2>4. Projection(ClientOf(new), Now(new), 0, PageMax) = {SnapshotOf(new, t, 0, PageSize(PageMax))}
    BY <1>1, <2>1, <2>2, <2>3, ProjectionIs
  <2>5. Show(late, Now(new), 0, <<>>)
          = {ViewSnapshot(s) : s \in Projection(ClientOf(new), Now(new), 0, PageMax)}
    BY <1>2, FullPage
  <2>. QED  BY <2>4, <2>5
<1>6. Show(early, Now(new), 0, <<>>) = {}
  <2>1. ASSUME NEW v \in Show(early, Now(new), 0, <<>>) PROVE FALSE
    <3>1. PICK s \in Projection(ClientOf(Old), Now(new), 0, PageMax) : TRUE
      BY <1>2, <2>1, FullPage
    <3>2. Now(new).before = ClientOf(Old).runtime
      BY <3>1 DEF Projection, DoJSON, StillCurrent
    <3>3. Named(new) = Named(Old)
      BY <3>2 DEF Now, ClientOf
    <3>. QED  BY <1>1, <3>3 DEF Named
  <2>. QED  BY <2>1
<1>7. Show(late, Now(new), 0, <<>>) # {} <=> Torn \notin Range(new.files)
  BY <1>4, <1>5
<1>. QED  BY <1>3, <1>6, <1>7 DEF early, late

-----------------------------------------------------------------------------
(* What a renderer is shown: the files as crashes left them. *)

\* The names of the files, each once.
LEMMA SetToSeqIs ==
  ASSUME NEW A, IsFiniteSet(A)
  PROVE  LET s == SetToSeq(A)
         IN  /\ s \in Seq(A) /\ Len(s) = Cardinality(A)
             /\ \A i, j \in 1..Len(s) : s[i] = s[j] => i = j
             /\ \A x \in A : \E i \in 1..Len(s) : s[i] = x
<1>. DEFINE n == Cardinality(A)
            s == SetToSeq(A)
<1>1. n \in Nat /\ ExistsBijection(1..n, A)
  BY FS_CardinalityType
<1>2. PICK f \in [1..n -> A] : IsInjective(f)
  BY <1>1 DEF ExistsBijection, Bijection, Injection, IsInjective
<1>3. s \in [1..n -> A] /\ IsInjective(s)
  BY <1>2 DEF SetToSeq
<1>. HIDE DEF s, n
<1>4. s \in Injection(1..n, A)
  BY <1>3 DEF Injection, IsInjective
<1>5. Cardinality(1..n) = n
  BY <1>1, FS_Interval
<1>6. s \in Surjection(1..n, A)
  BY <1>4, <1>5, FS_Injection DEF n
<1>7. s \in Seq(A) /\ Len(s) = n
  BY <1>1, <1>3
<1>8. \A i, j \in 1..Len(s) : s[i] = s[j] => i = j
  BY <1>3, <1>7 DEF IsInjective
<1>9. \A x \in A : \E i \in 1..Len(s) : s[i] = x
  BY <1>6, <1>7 DEF Surjection
<1>. QED  BY <1>7, <1>8, <1>9 DEF s, n

\* The view is there and holds every task of the journal and the timeline:
\* blank files are passed over, and none is torn.
LEMMA WholeView ==
  ASSUME JournalIsBacked, IsFiniteSet(timeline), IsFiniteSet(TaskIds),
         Cardinality(TaskIds) + PageMax <= ResponseMax
  PROVE  ViewIsWhole
<1>. SUFFICES ASSUME NEW d \in Launches
              PROVE  LET now   == Now(LiveCore(d))
                         shell == Reconnect("b", Credential("i1"), now)
                         views == Show(shell, now, 0, <<>>)
                     IN  /\ views # {}
                         /\ \A v \in views : /\ {j.body.task : j \in journal} \subseteq Range(v.tasks)
                                             /\ {e.id.task : e \in timeline} \subseteq Range(v.tasks)
  BY DEF ViewIsWhole
<1>. DEFINE A == {t \in TaskIds : taskFile[t] # Absent}
            names == SetToSeq(A)
            file(t) == IF taskFile[t] = Blank THEN Empty ELSE t
            files == [i \in DOMAIN names |-> file(names[i])]
            host == LiveCore(d)
            S == TaskIds \cup {Empty}
<1>0. /\ PageMax \in Nat \ {0} /\ ResponseMax \in Nat /\ Cardinality(TaskIds) \in Nat
      /\ Cardinality(timeline) \in Nat /\ ResponseMax >= 1
  BY ShellAssumption, FS_CardinalityType
<1>1. /\ IsFiniteSet(A) /\ Cardinality(A) <= Cardinality(TaskIds)
  BY FS_Subset
<1>2. /\ names \in Seq(A) /\ Len(names) = Cardinality(A)
      /\ \A i, j \in 1..Len(names) : names[i] = names[j] => i = j
      /\ \A x \in A : \E i \in 1..Len(names) : names[i] = x
  <2>. HIDE DEF A
  <2>. QED  BY <1>1, SetToSeqIs
<1>3. /\ host.files = files /\ host.events = Cardinality(timeline) /\ host.build = "b"
      /\ host.credential = Credential("i1")
  BY DEF LiveCore, Core
<1>. HIDE DEF names, host
<1>4. files \in Seq(S) /\ Len(files) = Len(names) /\ Len(names) \in Nat
      /\ \A i \in 1..Len(names) : files[i] = file(names[i]) /\ names[i] \in TaskIds
  <2>1. DOMAIN names = 1..Len(names) /\ Len(names) \in Nat
    BY <1>2
  <2>2. \A i \in 1..Len(names) : names[i] \in A
    BY <1>2
  <2>3. \A i \in 1..Len(names) : names[i] \in TaskIds /\ file(names[i]) \in S
    BY <2>2
  <2>. HIDE DEF file, S
  <2>. QED  BY <2>1, <2>3
<1>. HIDE DEF files, A, S
<1>5. Torn \notin Range(files)
  <2>1. \A i \in 1..Len(names) : files[i] # Torn
    BY <1>4, DesktopAssumption DEF Empty, Torn
  <2>. QED  BY <1>4, <2>1 DEF Range
<1>6. Distinct(files)
  <2>1. \A i, j \in 1..Len(names) : files[i] = files[j] /\ files[i] # Empty => names[i] = names[j]
    BY <1>4
  <2>. QED  BY <1>2, <1>4, <2>1 DEF Distinct
<1>7. PICK t \in Seq(S) : /\ ListTasks(host) = {t} /\ Lists(t, files, Len(files))
                          /\ Distinct(files) => IsInjective(t)
  BY <1>3, <1>4, <1>5, ListsTheFiles
<1>8. Serviceable(host)
  <2>1. Sound(Credential("i1"))
    BY DEF Sound, Credential
  <2>. QED  BY <1>0, <1>3, <2>1 DEF Serviceable
<1>9. Len(t) + Least(host.events, PageSize(PageMax)) <= ResponseMax
  <2>1. PageSize(PageMax) = PageMax
    BY FullPage
  <2>2. Least(host.events, PageMax) <= PageMax /\ Least(host.events, PageMax) \in Nat
    BY <1>0, <1>3 DEF Least
  <2>3. Len(t) \in Nat /\ Len(t) <= Len(files)
    BY <1>7 DEF Lists
  <2>. QED  BY <1>0, <1>1, <1>2, <1>4, <2>1, <2>2, <2>3
<1>. DEFINE s == SnapshotOf(host, t, 0, PageSize(PageMax))
<1>10. Projection(ClientOf(host), Now(host), 0, PageMax) = {s}
  <2>1. 0 \in 0..host.events /\ PageMax \in Nat /\ IsInjective(t)
    BY <1>0, <1>3, <1>6, <1>7
  <2>. QED  BY <1>7, <1>8, <1>9, <2>1, ProjectionIs
<1>11. Reconnect("b", Credential("i1"), Now(host)) = {ClientOf(host)}
  BY <1>3, <1>8, ConnectedTo
<1>12. Show({ClientOf(host)}, Now(host), 0, <<>>) = {ViewSnapshot(s)}
  <2>1. Show({ClientOf(host)}, Now(host), 0, <<>>)
          = {ViewSnapshot(x) : x \in Projection(ClientOf(host), Now(host), 0, PageMax)}
    BY FullPage
  <2>. HIDE DEF s
  <2>. QED  BY <1>10, <2>1
<1>13. ViewSnapshot(s).tasks = t
  BY DEF ViewSnapshot, SnapshotOf
<1>14. ASSUME NEW x \in Listed PROVE x \in Range(t)
  <2>1. x \in A /\ taskFile[x] # Blank /\ x # Empty
    BY DesktopAssumption DEF Listed, A
  <2>2. PICK i \in 1..Len(names) : names[i] = x
    BY <1>2, <2>1
  <2>3. files[i] = x
    BY <1>4, <2>1, <2>2
  <2>4. \E k \in 1..Len(t) : t[k] = files[i]
    BY <1>4, <1>7, <2>1, <2>3 DEF Lists
  <2>. QED  BY <2>3, <2>4 DEF Range
<1>15. /\ {j.body.task : j \in journal} \subseteq Range(t)
       /\ {e.id.task : e \in timeline} \subseteq Range(t)
  <2>1. \A e \in timeline : e.id.task \in Range(t)
    BY <1>14 DEF JournalIsBacked
  <2>2. ASSUME NEW j \in journal PROVE j.body.task \in Range(t)
    <3>1. [id |-> j.body, ref |-> j.key] \in timeline
      BY DEF JournalIsBacked
    <3>. QED  BY <2>1, <3>1
  <2>. QED  BY <2>1, <2>2
<1>. QED  BY <1>11, <1>12, <1>13, <1>15 DEF host

\* Events are appended one at a time.
LEMMA TimelineGrows ==
  ASSUME IsFiniteSet(timeline), [Next]_vars
  PROVE  IsFiniteSet(timeline)'
<1>1. CASE UNCHANGED timeline
  BY <1>1
<1>2. ASSUME NEW d \in Launches, Desktop(d) PROVE UNCHANGED timeline
  BY <1>2, SupervisorMoves DEF Start, StopCore, storeVars
<1>3. ASSUME NEW d \in Launches, AppendEvent(d) PROVE IsFiniteSet(timeline')
  <2>1. CASE \E x : timeline' = timeline \cup {x}
    BY <2>1, FS_AddElement
  <2>. QED  BY <1>1, <1>3, <2>1 DEF AppendEvent
<1>4. ASSUME NEW d \in Launches, CoreProcess(d), ~AppendEvent(d) PROVE UNCHANGED timeline
  BY <1>4 DEF CoreProcess, CoreRuns, HostOpen, HostReclaim, HostStart, HostHeartbeat, RemoveRuntime, HostExit, CoreStops, HostClose,
              HostCrash, ShellCreates, CreateTask, Serve, CreateFile, WriteTask, AppendJournal, storeVars
<1>5. CASE UNCHANGED vars
  BY <1>1, <1>5 DEF vars, hostVars, storeVars
<1>. QED  BY <1>1, <1>2, <1>3, <1>4, <1>5 DEF Next

\* A snapshot of all tasks and a page of events is not more than a client reads
\* of an answer (doJSON refuses a longer one), and neither is one of two tasks,
\* as ShownIsCurrent and PagesAreExact have at most.
AnswersFit ==
  /\ IsFiniteSet(TaskIds) /\ Cardinality(TaskIds) + PageMax <= ResponseMax
  /\ 2 + PageMax <= ResponseMax

\* If answers fit, a renderer is shown the state of the core that runtime.json
\* names, in order, for every page size and limit and every replacement of a core
\* by another while it is read; and whole, whatever kills and restarts left in the
\* files, unless a core had its own lock taken from it while it worked
\* (ViewsAreExact).
THEOREM ViewsShowWhatIs ==
    ASSUME AnswersFit
    PROVE  Spec => []ViewsAreExact
<1>0. PageMax \in Nat \ {0} /\ ResponseMax \in Nat
  BY ShellAssumption
<1>1. ShownIsCurrent
  BY CurrentIsShown DEF AnswersFit
<1>2. PagesAreExact
  BY <1>0, ExactPages DEF AnswersFit
<1>3. Init => Typed /\ LaunchInv /\ LockInv /\ StoresHold /\ IsFiniteSet(timeline)
  BY StoresInit, FS_EmptySet DEF Init, HostInit
<1>4. Typed /\ LaunchInv /\ LockInv /\ StoresHold /\ IsFiniteSet(timeline) /\ [Next]_vars
      => Typed' /\ LaunchInv' /\ LockInv' /\ StoresHold' /\ IsFiniteSet(timeline)'
  BY TypedStep, LaunchStep, LockStep, StoreStep, TimelineGrows
<1>5. StoresHold /\ IsFiniteSet(timeline) => ViewsAreExact
  <2>1. ASSUME seized PROVE ViewIsWhole
    BY <2>1 DEF ViewIsWhole
  <2>2. ASSUME StoresHold, IsFiniteSet(timeline), ~seized PROVE ViewIsWhole
    BY <2>2, WholeView DEF StoresHold, StoreInv, AnswersFit
  <2>. QED  BY <1>1, <1>2, <2>1, <2>2 DEF ViewsAreExact
<1>. QED  BY <1>3, <1>4, <1>5, PTL DEF Spec

=============================================================================
