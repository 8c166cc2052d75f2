----------------------------- MODULE Supervisor -----------------------------
(***************************************************************************)
(* supervisor.Supervisor: launches of the desktop, each with the           *)
(* supervisor lease, a core (module CoreHost) and a renderer.  Start waits *)
(* for the core and the renderer and attests them; one monitor goroutine   *)
(* then refreshes the lease, watches both children and restarts the        *)
(* renderer; Close, which the user or a failure calls, stops everything.   *)
(* A child sees its standard input end when it is told to stop or when its *)
(* supervisor is gone.                                                     *)
(***************************************************************************)
EXTENDS CoreHost

CONSTANTS
    MaxRendererRestarts,  \* within one restart window
    MaxExits              \* bound: renderers that exit by themselves

ASSUME SupervisorAssumption == MaxRendererRestarts \in Nat /\ MaxExits \in Nat

VARIABLES
    lease,  \* the supervisor lease: its owner
    sup,    \* the supervisor of each launch
    ui,     \* the renderer process of each launch
    exits   \* renderers that exited by themselves (bounded)

supVars == <<lease, sup, ui, exits>>
vars    == <<hostVars, supVars>>

\* main: Open, Start and Close; monitor: monitorLoop; step: startRenderer,
\* called by Start or by restartRenderer.
NewSup == [main |-> "off", monitor |-> "off", step |-> "none", renderer |-> FALSE, held |-> FALSE, expired |-> FALSE, restarts |-> 0]
MainAt(d, p)    == sup[d].main = p
MonitorAt(d, p) == sup[d].monitor = p
ToMain(d, p)    == sup' = [sup EXCEPT ![d].main = p]

\* The standard input of the children has ended.
Over(d) == sup[d].main \in {"gone", "crashed"}
Closed(d) == sup[d].main \in {"closing", "stopCore", "release", "gone"}
Told(d) == MainAt(d, "stopCore") \/ Over(d)

-----------------------------------------------------------------------------
\* Open and Start.

\* Launches are numbered in the order in which they open.  One that finds a
\* fresh lease of another ends without a trace; a lease may be found stale before
\* its owner's monitor runs, while that restarts a renderer or Close waits, when
\* the owner is late and when it is dead.
Open(d) ==
    /\ \A e \in Launches : e < d => ~MainAt(e, "off")
    /\ MainAt(d, "off")
    /\ IF lease = NoOne THEN ToMain(d, "locked") /\ lease' = d
                        ELSE ToMain(d, "reclaiming") /\ UNCHANGED lease
    /\ UNCHANGED <<hostVars, ui, exits>>

\* AcquireLease renames the lease that is there now and begins again.
Reclaim(d) ==
    /\ MainAt(d, "reclaiming")
    /\ lease' = NoOne /\ ToMain(d, "off")
    /\ UNCHANGED <<hostVars, ui, exits>>

\* A runtime.json that is there belongs to a core of another launch, or to one
\* that was killed.
StatRuntime(d) ==
    /\ MainAt(d, "locked")
    /\ IF runtime = NoOne THEN ToMain(d, "opened") /\ UNCHANGED lease
                          ELSE ToMain(d, "gone") /\ lease' = Give(lease, d)
    /\ UNCHANGED <<hostVars, ui, exits>>

Start(d) ==
    /\ MainAt(d, "opened") /\ ToMain(d, "waitCore") /\ CoreTo(d, "starting")
    /\ UNCHANGED <<coreLock, seized, runtime, op, storeVars, kills, lease, ui, exits>>

\* abortStart: s.renderer is not set yet; the core is stopped.
AbortStart(d) == sup' = [sup EXCEPT ![d].main = "stopCore", ![d].step = "none"]

\* Connect succeeds, and runtime.json names the supervisor's own core.
CoreAttested(d) == runtime = d /\ core[d] = "serving"

\* waitForCore: the core has exited, runtime.json is foreign, time is up, or
\* the core is the supervisor's own and answers.
WaitForCore(d) ==
    /\ MainAt(d, "waitCore")
    /\ \/ AbortStart(d)
       \/ CoreAttested(d) /\ sup' = [sup EXCEPT ![d].main = "starting", ![d].step = "attest"]
    /\ UNCHANGED <<hostVars, lease, ui, exits>>

-----------------------------------------------------------------------------
\* startRenderer, for Start and for the monitor.

\* What a failure of startRenderer does: Start aborts, the monitor fails.
StepFails(d) ==
    IF MainAt(d, "starting") THEN AbortStart(d)
    ELSE sup' = [sup EXCEPT ![d].step = "none", ![d].monitor = "done"]

AttestCore(d) ==
    /\ sup[d].step = "attest"
    /\ IF CoreAttested(d) THEN sup' = [sup EXCEPT ![d].step = "launch"] ELSE StepFails(d)
    /\ UNCHANGED <<hostVars, lease, ui, exits>>

LaunchRenderer(d) ==
    /\ sup[d].step = "launch"
    /\ sup' = [sup EXCEPT ![d].step = "wait"] /\ ui' = [ui EXCEPT ![d] = "starting"]
    /\ UNCHANGED <<hostVars, lease, exits>>

\* waitReadyFrame and attestRenderer: the renderer has exited, it is not what
\* was expected or time is up, and the child is stopped.
RendererRefused(d) ==
    /\ sup[d].step = "wait"
    /\ ui' = [ui EXCEPT ![d] = "dead"] /\ StepFails(d)
    /\ UNCHANGED <<hostVars, lease, exits>>

\* Variant: restartRenderer installs the renderer whether or not Close began.
RendererReadyAnyway(d) ==
    /\ sup[d].step = "wait" /\ ui[d] = "ready"
    /\ sup' = [sup EXCEPT ![d].step = "none", ![d].monitor = "loop", ![d].renderer = TRUE,
                 ![d].main = IF @ = "starting" THEN "running" ELSE @]
    /\ UNCHANGED <<hostVars, ui, lease, exits>>

\* The renderer is ready.  Start installs it and starts the monitor;
\* restartRenderer stops it again when Close has begun meanwhile.
RendererReady(d) ==
    /\ sup[d].step = "wait" /\ ui[d] = "ready"
    /\ sup' = [sup EXCEPT ![d].step = "none", ![d].monitor = "loop", ![d].renderer = ~Closed(d),
                 ![d].main = IF @ = "starting" THEN "running" ELSE @]
    /\ ui' = IF Closed(d) THEN [ui EXCEPT ![d] = "dead"] ELSE ui
    /\ UNCHANGED <<hostVars, lease, exits>>

StartRenderer(d) ==
    AttestCore(d) \/ LaunchRenderer(d) \/ RendererRefused(d) \/ RendererReady(d)

-----------------------------------------------------------------------------
\* monitorLoop.

Fail(d) == sup' = [sup EXCEPT ![d].monitor = "done"]

\* Refresh fails when the lease is not the supervisor's own any more.
Heartbeat(d) ==
    /\ MonitorAt(d, "loop")
    /\ lease # d /\ Fail(d)
    /\ UNCHANGED <<hostVars, lease, ui, exits>>

\* Variant: the monitor looks at runtime.json and the renderer only.
MonitorOnceRuntimeOnly(d) ==
    /\ MonitorAt(d, "loop") /\ ~Closed(d)
    /\ \/ runtime # d /\ Fail(d)
       \/ /\ runtime = d /\ ui[d] = "dead"
          /\ IF sup[d].restarts >= MaxRendererRestarts THEN Fail(d)
             ELSE sup' = [sup EXCEPT ![d].monitor = "restarting", ![d].step = "attest",
                            ![d].renderer = FALSE, ![d].restarts = @ + 1]
    /\ UNCHANGED <<hostVars, lease, ui, exits>>

\* Variant: the monitor looks at the processes only.
MonitorOnceChildrenOnly(d) ==
    /\ MonitorAt(d, "loop") /\ ~Closed(d)
    /\ \/ core[d] = "dead" /\ Fail(d)
       \/ /\ core[d] # "dead" /\ ui[d] = "dead"
          /\ IF sup[d].restarts >= MaxRendererRestarts THEN Fail(d)
             ELSE sup' = [sup EXCEPT ![d].monitor = "restarting", ![d].step = "attest",
                            ![d].renderer = FALSE, ![d].restarts = @ + 1]
    /\ UNCHANGED <<hostVars, lease, ui, exits>>

\* monitorOnce: a core that exited or was replaced is fatal, a renderer that
\* exited is started again, within the restart limit.
MonitorOnce(d) ==
    /\ MonitorAt(d, "loop") /\ ~Closed(d)
    /\ \/ (core[d] = "dead" \/ runtime # d) /\ Fail(d)
       \/ /\ core[d] # "dead" /\ runtime = d /\ ui[d] = "dead"
          /\ IF sup[d].restarts >= MaxRendererRestarts THEN Fail(d)
             ELSE sup' = [sup EXCEPT ![d].monitor = "restarting", ![d].step = "attest",
                            ![d].renderer = FALSE, ![d].restarts = @ + 1]
    /\ UNCHANGED <<hostVars, lease, ui, exits>>

MonitorStops(d) ==
    /\ MonitorAt(d, "loop") /\ Closed(d)
    /\ sup' = [sup EXCEPT ![d].monitor = "done"]
    /\ UNCHANGED <<hostVars, lease, ui, exits>>

-----------------------------------------------------------------------------
\* Close.

\* It takes the renderer that is installed at that moment.
Close(d) ==
    /\ MainAt(d, "running")
    /\ sup' = [sup EXCEPT ![d].main = "closing", ![d].held = sup[d].renderer]
    /\ UNCHANGED <<hostVars, lease, ui, exits>>

\* fail calls it in a goroutine of its own, since it waits for the monitor.
FailCloses(d) == MonitorAt(d, "done") /\ Close(d)

\* The monitor has ended, or the context of Close has; the renderer that was
\* taken is stopped.
AwaitMonitor(d) ==
    /\ MainAt(d, "closing")
    /\ sup' = [sup EXCEPT ![d].main = "stopCore", ![d].expired = ~MonitorAt(d, "done")]
    /\ ui' = IF sup[d].held THEN [ui EXCEPT ![d] = "dead"] ELSE ui
    /\ UNCHANGED <<hostVars, lease, exits>>

\* Child.Stop: the core has exited, or it is killed when time is up.
StopCore(d) ==
    /\ MainAt(d, "stopCore") /\ ToMain(d, "release")
    /\ IF Alive(d) THEN Killed(d) ELSE UNCHANGED <<core, op>>
    /\ UNCHANGED <<coreLock, seized, runtime, storeVars, kills, lease, ui, exits>>

\* The process ends with Close, and with it every goroutine.
Release(d) ==
    /\ MainAt(d, "release")
    /\ sup' = [sup EXCEPT ![d] = [NewSup EXCEPT !.main = "gone", !.expired = sup[d].expired]]
    /\ lease' = Give(lease, d)
    /\ UNCHANGED <<hostVars, ui, exits>>

-----------------------------------------------------------------------------
\* The processes.

SupervisorCrash(d) ==
    /\ ~MainAt(d, "off") /\ ~Over(d) /\ kills < MaxKills /\ kills' = kills + 1
    /\ sup' = [sup EXCEPT ![d] = [NewSup EXCEPT !.main = "crashed"]]
    /\ UNCHANGED <<core, coreLock, seized, runtime, op, storeVars, lease, ui, exits>>

\* keydeck-desktop-ui: its shell connects to the core that runtime.json names.
RendererUp(d) ==
    /\ ui[d] = "starting" /\ runtime # NoOne
    /\ core[runtime] = "serving"
    /\ ui' = [ui EXCEPT ![d] = "ready"]
    /\ UNCHANGED <<hostVars, lease, sup, exits>>

RendererExits(d) ==
    /\ ui[d] \in {"starting", "ready"}
    /\ \/ Over(d) /\ UNCHANGED exits
       \/ exits < MaxExits /\ exits' = exits + 1
    /\ ui' = [ui EXCEPT ![d] = "dead"]
    /\ UNCHANGED <<hostVars, lease, sup>>

\* keydeck-core closes its host when its standard input ends or its server
\* fails.
CoreStops(d) ==
    /\ \/ Told(d) /\ UNCHANGED kills
       \/ kills < MaxKills /\ kills' = kills + 1
    /\ HostClose(d)

\* visualshell and presentation.Shell: a renderer that is ready passes what
\* its user creates on to the core.  What two cores that serve at a time make
\* of the files is not modelled.
ShellCreates(d) ==
    ~seized /\ (\E e \in Launches : ui[e] = "ready") /\ \E r \in Requests : CreateTask(d, r)

CoreRuns(d) ==
    HostOpen(d) \/ HostReclaim(d) \/ HostStart(d) \/ HostHeartbeat(d) \/ RemoveRuntime(d) \/ HostExit(d)

Init ==
    /\ HostInit
    /\ lease = NoOne
    /\ sup = [d \in Launches |-> NewSup]
    /\ ui = [d \in Launches |-> "none"]
    /\ exits = 0

Desktop(d) ==
    \/ Open(d) \/ Reclaim(d) \/ StatRuntime(d) \/ Start(d) \/ WaitForCore(d) \/ StartRenderer(d)
    \/ Heartbeat(d) \/ MonitorOnce(d) \/ MonitorStops(d)
    \/ Close(d) \/ AwaitMonitor(d) \/ StopCore(d) \/ Release(d)
    \/ SupervisorCrash(d) \/ RendererUp(d) \/ RendererExits(d)

CoreProcess(d) == CoreRuns(d) \/ CoreStops(d) \/ HostCrash(d) \/ ShellCreates(d) \/ Serve(d)

Next ==
    \/ \E d \in Launches : Desktop(d)
    \/ (\E d \in Launches : CoreProcess(d)) /\ UNCHANGED supVars

\* The goroutines of a supervisor: Start and Close, which follow one another,
\* the monitor with the call of fail, and startRenderer, which is of either.
MainGoes(d)    == WaitForCore(d) \/ AwaitMonitor(d) \/ StopCore(d) \/ Release(d)
MonitorGoes(d) == MonitorOnce(d) \/ MonitorStops(d) \/ FailCloses(d)

\* They go on, and the processes it started; nobody has to launch, close, crash
\* or exit.
Fairness ==
    \A d \in Launches :
        /\ WF_vars(MainGoes(d)) /\ WF_vars(MonitorGoes(d)) /\ WF_vars(StartRenderer(d))
        /\ WF_vars(Over(d) /\ RendererExits(d))

Spec == Init /\ [][Next]_vars /\ Fairness

-----------------------------------------------------------------------------
TypeOK ==
    /\ HostTypeOK
    /\ lease \in Launches \cup {NoOne}
    /\ ui \in [Launches -> {"none", "starting", "ready", "dead"}]
    /\ \A d \in Launches : sup[d].restarts \in 0..MaxRendererRestarts

\* However many supervisors reclaim the lease of one another, since a slow start
\* of a renderer or of a core keeps them from refreshing it, two cores never have
\* the files open, and two requests are never in hand, as long as no core has its
\* own lock taken from it while it works: its heartbeat begins in Start and ends
\* with Close, and a reclaimer renames whatever lock is there (Open, monitorLoop
\* and waitForCore against Host.Open, heartbeatLoop and Host.Close).
OneDesktop ==
    ~seized => /\ \A d, e \in Launches : Works(d) /\ Works(e) => d = e
               /\ \A d, e \in Launches : ~OpAt(d, "none") /\ ~OpAt(e, "none") => d = e

\* When Close has returned in time, no child of the supervisor is left and its
\* lease is not either, also when it came while the monitor was restarting the
\* renderer (Close, restartRenderer and abortStart).
NoOrphans ==
    \A d \in Launches :
        MainAt(d, "gone") => /\ ~Alive(d) /\ lease # d
                             /\ ~sup[d].expired => ui[d] \in {"none", "dead"}

\* A supervisor whose core has gone, or was replaced by another that serves,
\* ends, and its renderer with it, however the monitor, a restart and Close
\* interleave: that is how it ends when two cores serve since one of them had
\* its lock taken (monitorOnce, fail and Close).
CoreLossEnds ==
    \A d \in Launches :
        (MainAt(d, "running") /\ (core[d] = "dead" \/ runtime # d))
            ~> (Over(d) /\ ui[d] \in {"none", "dead"})
=============================================================================
