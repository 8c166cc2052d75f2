# KeyDeck in TLA+

KeyDeck (Go, `src/`) keeps one canonical project, task and session while the
engines that do the work are replaced, interrupted and resumed.  Everything that
matters is in append-only files and a few small state files; the hard part of the
program is what happens when a process dies between two writes, when two calls
meet, or when something is asked twice.  This directory holds models of it, the
TLC configurations that check them, and proofs of the results that matter most.

    tlc -workers 2 -config MCTaskManager.cfg MCTaskManager     # check a run
    tlapm Recovery_proofs.tla                                  # check the proofs

`PROJECT.json` lists components, runs, mutants, the map from definitions to source
lines, the hazards and the theorems.

## 1. The system

### Components

| component | state it keeps | operations | module |
|---|---|---|---|
| `tasks` | one task: status, acceptance checks, steps, the reason input is needed; an event file that is replayed on open | `Store.Append`; `Manager` Create, BeginStep, CompleteStep, FailStep, UpdateCheck, RequestInput, ResumeWorking, Cancel | TaskStore, TaskManager, Stores |
| `tooljournal` | the latest record of every external operation, in an append-only file | Begin, Complete, Fail | TaskManager, McpBridge |
| `recovery` | engine ledger (executions, results, commits), artifact ledger; the coordinator owns the task, session, timeline and receipt stores | `Coordinator.Recover`; StartOnce, CompleteResultOnce, MarkCommittedOnce | Recovery, CanonicalCommit, Stores |
| `timeline`, `proofreceipt` | activity events by id; receipts by evidence digest | AppendOnce; Build, SaveOnce | Recovery, EngineRuntime, Stores |
| `engineruntime` | executions, dispositions, bindings | `Runtime` Invoke, Cancel; BeginOnce, SaveBindingOnce, SetDispositionOnce | EngineRuntime, Stores |
| `corehost` lease | a directory with `owner.json` | AcquireLease, Refresh, Release | Lease |
| `corehost` host, backend, client | `runtime.json`, credential, task files, timeline, idempotency journal | Open, Start, Close, CreateTask, Snapshot; Connect, doJSON | CoreHost, Shell, Stores |
| `supervisor`, commands | core and renderer processes, restarts, its own lease | Open, Start, monitor loop, restartRenderer, Close | Supervisor |
| `presentation`, `visualshell` | the connected client | Connect, Refresh, CreateTask, paging | Shell, Desktop, Supervisor |
| `handoff` | packages, their execution bindings, cancellations | Assemble, Execute, Cancel; SaveOnce, BindExecutionOnce, CancelOnce | Handoff, Stores |
| `routing` | decisions | Select, Validate, PlanContinuation; SaveOnce | Routing, Handoff, Stores |
| `contextscout`, `contextcompiler` | packets: three artifacts and a record each | Build, Compile, Save, FindFresh | ContextScout, ContextPacket, Stores |
| `projectbrain` | revisions of the project | BuildInspection, Append | ContextScout, Handoff, Stores |
| `candidatecollection` | candidates, assessments, resolutions, preparations, commits | Collect, Assess, ResolveReview, CommitResolved | Collection, CandidateDecision, Stores |
| `pool`, `costguard` | key states, the count of cache misses | Execute, Observe | KeyPool |
| `apiengine`, `continuity`, `session`, `providerhttp` | transcript, in-flight response, exhausted keys, sentence buffer | RunWithFallback, BeginInterruptible, ContinueInFlight; streaming Execute | Session, KeyPool |
| `codexapp` | pending requests, notes, the thread | Call, readLoop, Engine.Run | CodexClient |
| `conformance` | evidence bundles, fragments, profiles | Validate, Decide, ProviderProfile, Normalize..., Save, Load | Conformance |
| `mcpregistry`, `mcpmanager` | registrations, discoveries; bindings, approvals, health | Register, Discover, Revalidate; Bind, Rebind, SetEnabled, ApproveTools, CheckHealth | McpServers |
| `mcpbridge`, `secretbroker` | the journal of calls | plan, Execute; PlanArguments, ResolveArguments, RedactText | McpBridge, McpArguments |
| `contextbench`, `agentenvproof`, `releasebundle`, `src/cmd/proof*` | none that lasts | measure, run a program, hash files, play a scenario | not modelled |

### How they interact

    caller --> tasks.Manager --> tooljournal --> the external tool
                     |                |
                     v                v
               task files <-- recovery.Coordinator --> session, timeline, receipts
                                      ^
    engine <-- engineruntime ---------+--> engine ledger   <-- candidatecollection
                  ^
                  |
    contextscout --> projectbrain --> handoff  <-- routing
         |
         v
    mcpmanager/mcpbridge --> tooljournal, secretbroker --> MCP server

    session --> apiengine --> pool (costguard, conformance) --> provider
            \-> codexapp  --> app server

    supervisor --> keydeck-core (corehost, lease, runtime.json) <-- visualshell
               \-> renderer (visualshell, presentation)

* A **step** is written to the journal first, then to the task; the tool runs only
  after the journal line is durable.  An MCP call likewise.
* An **engine result** becomes durable in the engine ledger; only the coordinator
  puts it in the canonical session, and then writes the commit line.  A candidate gets
  there only through a durable decision.
* **Recover** runs when a task is reopened.  It reads all the stores and makes them
  agree, and it must be safe to run again, after any crash of itself.
* The **runtime** never replays an interrupted execution: it finishes it from
  durable evidence, makes it resumable, or asks the user.
* A **handoff** starts an engine on a package that names a packet, a brain revision and
  a route, all of them on disk and still current.
* The **desktop** is a supervisor with two children, which meet over `runtime.json`,
  the core's lock and the supervisor's lease.

### What is hard, and what correctness means

* *Crash between two files.*  Every operation above writes several files; any prefix
  may survive.  Correct: nothing non-repeatable happens twice, nothing produced is
  lost or committed twice, and recovery ends with stores that agree.
* *Interleaving.*  Goroutines share the stores (one mutex per store, none across
  them), so a decision taken from one store is stale when the next is written.
* *Repetition.*  The same call, and the same recovery, may be made again at any time.
  Correct: idempotent, and silent when there is nothing new.
* *Failing writes.*  A write may fail or tear with part of it on disk, and two processes
  may have one file open.  Correct: a store that can be opened says all that was
  acknowledged, in its order; else it does not open.
* *Processes.*  They meet only in the file system.  Correct: one owner, one desktop,
  nobody left behind, whatever is slow, killed or closed.
* *Failing providers.*  What a failure means decides whether a prompt may be sent
  again.  Correct: it is carried out once, and what was shown is kept.

The full list, each at its line, is `hazards` in `PROJECT.json`.

## 2. Plan

All components but those of the last row have their module, and all the safety properties of
the runs are proved (section 5); liveness is left to TLC.

To model: `session_adapter.go` of the engine runtime, engine bindings, HTTP routing
and headers of the visual shell, approvals of the Codex client.

Each module declares its parameters with named assumptions, has one action per
operation or per durable write, and no RECURSIVE operator, so that it can be proved
about.  Operators under the comment `Variant:` are plausible bugs; nothing in the
models uses them, they are what `mutants` puts in the place of a definition to show
that each property can fail.

## 3. The modules

### TaskStore

The task as `tasks.Store` holds it and one operator per event kind (`Store.apply`).
`Append` applies an event to a clone, writes the line and installs the clone under
one mutex, so an event is one step and memory is always the replay of the file.
Abstracted: texts, timestamps (`updates` counts what moves the `UpdatedAt` of a
check), the audit event EventRecoveryReconciled, and check status "blocked", which
acts as "failed".

### TaskManager

`tasks.Manager` and `tooljournal.Journal`.  A caller is a goroutine in `call[c]`; its
phases are the points between two durable lines:

| code | actions |
|---|---|
| BeginStep reads the task (its snapshot is `seen`) | EnterBeginStep |
| Journal.Begin answers execute / previous result / ambiguous | BeginExecute, BeginReuse, BeginBlock |
| Append(StepStarted), then the event that the answer calls for | StartStep, ReuseResult, BlockStep |
| the caller runs the tool | RunTool (external) |
| CompleteStep, FailStep: journal line, then task event | CompleteStep, FailStep |
| UpdateCheck, RequestInput, ResumeWorking, Cancel | the actions of these names |
| the process dies | Crash |

`journal[s]` is the latest record of the operation of step `s`; `line` numbers its
lines and stands for its timestamp.  ErrOperationCollision cannot arise: a step names
one tool operation.  `runs` counts how often the tool really acted; no code reads it.

### Recovery

`Coordinator.Recover` over everything one task owns.  `pc` says which loop the pass is
in, `todo` what the loop has left, `copy` the session in memory; each durable write is
an action, and `CrashProcess` may come between any two:

| code | actions |
|---|---|
| Recover loads the session | BeginPass |
| reconcileTools | ReconcileStep (task event), RecordTool (decision) |
| reconcileResults | BeginResults, SaveResult (session), MarkResult (commit line), RecordResult (decision) |
| reconcileInterruptedExecutions | ReadExecutions, ReadResults, AskForInput, RecordInterrupted, EndInterrupted |
| ensureReceipt, report | SaveReceipt, EndPass (with the proof event) |
| recordDecision meets an event of its id with other content | Fail: the pass ends in an error |
| adapters report during a pass, through the shared engine store | StartExecution, CompleteResult |
| callers and the user, between passes | Work |

`settled` is a history variable for two properties: "yes" after a whole pass during
which nothing else happened, until something else does.  `outcome` is how the last
pass ended.

### CanonicalCommit

The abstract specification: a produced result enters the canonical session once, is
never removed, and nothing else enters.  Recovery is shown to implement it
(`Canonical == INSTANCE CanonicalCommit WITH produced <- completed, canon <- session`);
EngineRuntime uses its Commit for the coordinator.

### EngineRuntime

`Runtime.Invoke` and `Runtime.Cancel` by concurrent callers, one action for each read
or write of a store: the lookup, BeginOnce, the probes, the adapter call and its
answer, SaveBindingOnce, StartOnce and CompleteResultOnce of the engine ledger,
SetDispositionOnce, the execution read back, the timeline event.  BeginOnce of an
execution that was begun meanwhile is a conflict, unless the call reads the very time at
which it was begun: then nothing is appended and Invoke goes on to the adapter.  `ties`
counts these, `starts` the calls of the adapter.  `moves` is what
`byEventID` remembers: a disposition that was set before is accepted again without
effect, or is a conflict, even when the execution has moved on.  "start" stands for Start
and Continue.  The adapter is external and may answer anything.  `Recover` is the
coordinator, by its abstract specification.

### Lease

`AcquireLease`, `Refresh` and `Release` with one action per file system call,
`atomicWriteJSON` included (temporary file, removal of the old `owner.json`, rename).
Nothing makes an owner refresh in time.  Renaming to a tombstone and os.RemoveAll take the
directory away at once.  `judged` and `slips` are history: who found the directory that is
there stale, and what went wrong that no instance can know of, namely "late", a living
owner was found stale because its heartbeat was, and "other", a directory was renamed that
is not the one that was found stale.  LeaseIsExclusive says that nothing else goes wrong.

CoreHost and Supervisor keep of a lock who has it, and of AcquireLease two steps: a lock
that is there may be found stale, whatever its owner does, and whatever lock is there is
renamed later.  So both slips occur in them.  Making, verifying and removing a lock are one
step each; a removal that hits the directory of another is one more way to take the lock of
a core that works, which OneDesktop excepts.

### CoreHost

Core processes on one data directory.  `core[d]` is where the process of launch `d` is:
Open takes the lock (HostOpen), or is about to rename that of another (HostReclaim); Start
writes `runtime.json` (HostStart); HostHeartbeat ends a core that serves and has lost its
lock, but there is no heartbeat between Open and Start nor during Close; Close stops it
(HostClose), removes `runtime.json` if it is still the core's own (RemoveRuntime), and gives
the lock back (HostExit); HostCrash kills it anywhere.  `seized` is history: the lock of a
core that works was taken.  From then on no client creates tasks: what two cores make of the
files is not modelled.  CreateTask holds `stateMu`, so a core
has one in `op[d]`; its writes are CreateFile, WriteTask, AppendEvent and AppendJournal.
The client's side is the check that an answer counts while `runtime.json` still names
the core (`Refuse`, and the record of the journal).

### Supervisor

Extends CoreHost with the supervisors.  `sup[d]` has three places, because three
goroutines move: `main` (Open, Start, Close), `monitor` (monitorLoop) and `step`
(startRenderer, for either of them); `ui[d]` is the renderer process.

| code | actions |
|---|---|
| Open, with the lease of another found stale; Start | Open, Reclaim, StatRuntime, Start |
| waitForCore | WaitForCore, with its three failures |
| startRenderer: attest, launch, ready frame | AttestCore, LaunchRenderer, RendererReady, RendererRefused |
| monitorLoop: refresh, watch, restart, stop | Heartbeat, MonitorOnce, MonitorStops |
| Close; fail, which calls it | Close, FailCloses, AwaitMonitor, StopCore, Release |
| the children; the core's main | RendererUp, RendererExits, CoreStops |
| processes die | SupervisorCrash, HostCrash |
| the user creates a task | ShellCreates |

### Shell, Desktop

Shell is what a user is shown, as functions of what is read: the core's answers (Handled,
Snapshot, Timeline), the client that checks them (Connect, DoJSON, Projection) and the
server that asks (Show, Reconnect).  A core may be replaced at the same address between
any two reads: `net` says what each read finds.  Desktop puts Supervisor and Shell
together: LiveCore is the core as Shell takes it, made of the files of CoreHost.
ViewsAreExact tries every combination of reads, which TLC evaluates once, and asks in
every state whether the view holds what was acknowledged.

### KeyPool

`Pool.Execute` by concurrent callers with the classifier, the provider's answer and
the cost guard: Admit (Blocked), Select (the key, under the lock), Answer, Apply (the
class, the key's state, under the lock), ObserveUsage.  `observed`, `passed` and `late`
are history: what the guard was told before it blocked, who was under way then, and
what was spent after.

### CodexClient

The JSON-RPC client: Call, Return and GiveUp for the callers, Serve and ServerExits for
the app server (as `fakecodexapp` answers), ReadLine, FailAll and StopReading for the
read loop; Engine.Run is BeginRun, OpenThread, StartTurn, Collect and CollectEnds.
NoteCap stands for the 512 notes of the buffer.

### Session

Extends KeyPool and CodexClient with the orchestrator of each session and the
continuity engine: Run, RunEnds; RunWithFallback, PoolEnds, FallBack, FallbackEnds;
BeginInterruptible, Delta, NextKey, StreamDone, StreamExhausted, StreamFails, Stage;
ContinueInFlight, ContinuationEnds.  Text is a sequence of tokens, numbered as they are
delivered; a token may end a sentence, and says something new or what an earlier one said.
What the next key streams may repeat what is confirmed (Deltas), and a continuation may
repeat any part of it, anywhere, also in deltas of another turn that were collected
(Continuations); only a whole repetition at the beginning is cut off (Merge).  `told`,
`shown` and `dropped` are history for AnswerKeepsConfirmed: what was delivered, what of it
was shown before a switch of engines, what was cut off in the middle of a sentence.

### Conformance

Pure but for a clock: validation of evidence, the two registries, the profile that the
pool classifies with, what captures are normalized to, the stores, the optimizer.
ReplayIsEvidenced tries every piece of evidence of a small set at every moment against a
registry that holds any other, which TLC evaluates once, and ties it to KeyPool: a key
goes out of use only for an answer that blames it.  A file of evidence may have been changed
before it is loaded (OnDisk), and a profile is asked at every moment after it was made.

### McpServers

Registry and manager of one server, each with `...File` and memory.  Register, Discover
and Revalidate ask without the lock and StoreDiscovery stores under it; Bind, Rebind,
SetEnabled and ApproveTools are one step each; StartCheck and FinishCheck are the two
halves of CheckHealth.  RegistryReplay and ManagerReplay are the memory after each line of
a file, by the rules of `load`; LoadedRegistry and LoadedManager are the last, and
Reopen opens the files.

### McpArguments

The schema policy and the secret broker as functions of arguments, which are maps of
nested values: Accepts (what preflight demands), Resolves, ResolveArguments, and RedactText,
which goes through the secrets in the order LongestFirst.

### McpBridge

Extends both: the execution router's two looks at the manager (Execute,
EffectivePolicy), then Begin (preflight and the journal), Send, BreakOff, ToolFails,
Complete, and Crash.  A result and an error are texts that may repeat a secret the call was
given; the journal has them after RedactText, and an error after Sanitized.  `sends` is
history.  The operation id is chosen by the caller, so
two executions may share one.

### ContextPacket, ContextScout

ContextPacket is `Compile` as a function: which tool is called next, how sources are ranked
(by the place each one gets, where the code sorts), how a packet is trimmed to its budget,
what hygiene demands.  A text is its length. ContextScout is `Coordinator.Build` by several
drivers over it: Fingerprint, Reuse, Preflight, CallProvider, Compile, SaveArtifact (three
files), SaveLine, then Revise (the project brain); Edit changes the project, SwitchProvider
the provider.

### Routing, Handoff

Routing is selection, validation and continuation as functions of the list a resolver gives.
The two sorts of Select are orders here: Normalized puts each candidate at the places that
those before it leave, and Foremost is the one ahead of all others.  Handoff extends
ContextScout with packages: Assemble, Ask (what Execute and Cancel check first),
SavePackage, CheckCancelled, Bind, CancelPackage, Look, Invoke with Begin (`starts` and
`ties` as in EngineRuntime), Start, Finish, Stop, Continue; Progress and Relist change the
task and the list.  The runtime is a disposition for each execution, since EngineRuntime has
its inside.

### CandidateDecision, Collection

CandidateDecision is the abstract specification: per scope, one decision by agreement of
the whole set or by review of exactly it, and only that result becomes canonical, once.
Collection is the coordinator over its store: Collect, Assess, ResolveReview, Prepare and
Resume (the two beginnings of CommitResolved), StartInLedger, CompleteInLedger, RecoverResult
and RecordCommit (its course), BreakOff (a crash or an error), GoStale.  `Decision ==
INSTANCE CandidateDecision` maps a durable preparation to the decision.

### Stores

Twelve kinds of append-only file with their own checks before a line is written and
when it is read (`Accepts...`, `Loads`), over what they have in common: Open, ProcessEnds,
Written, and Broken, a write that fails with all of the line, all but its end, or a part of
it on disk.  An instance may be opened while another is.  The files of the MCP registry and
manager are in McpServers; the loading of the tool journal is in no module.  WroteAnyway
names what a store writes and does not read.

## 4. The runs

| run | instance | shows |
|---|---|---|
| task_manager | 2 callers, 1 step, 2 checks, both policies, 1 crash (382,891 states) | A forbidden tool runs once; the runs of a step are never more than its journal lines; the task never runs ahead of the journal; a completed forbidden operation never changes; completion needs passed checks. |
| recovery_results | 2 executions, 1 of them resumable, 2 crashes (953,750) | Exactly-once commit, one story per commit on the timeline, CanonicalCommit, and every result is committed in the end. |
| recovery_tools | 1 caller, 1 step, both policies, 1 execution, receipts, 2 crashes (3.95 million) | The stores agree after a pass with tool steps and receipts; a repeated pass is silent; interrupted forbidden work is never taken up again. |
| runtime | 2 callers, 1 execution, 2 handles, 2 resumes, 1 crash (1.48 million) | Work is started once, and once more only for a call that read the same time; completed needs a durable result, resumable a durable binding; final dispositions stay; nothing stays running when it is invoked again. |
| lease | 3 instances, late or not (825,655 up to symmetry) | Until a living owner that let its heartbeat go stale is judged, or a directory is renamed that nobody judged, there is one owner, and its directory is its own. |
| providers | 2 sessions, 2 keys, one of the sessions streams; 3 responses, 3 usages, 1 timeout, 2 prompts (4.93 million) | A prompt is carried out by one engine; spending stops when the guard blocks; no pending call leaks; an answer is what was delivered for it, each delivery once; a replay rests on valid evidence of this very failure, or on a profile of evidence that was valid when it was made. |
| desktop | 2 launches, 2 requests for one task under two keys, 1 kill or lock taken from a working core, 1 restart, 1 exit (1.21 million) | Unless a core lost its own lock while it worked, one core at a time has the files open, and a created task is in all its files or the client may ask again; no orphans; a desktop that lost its core, or meets another, ends; what is shown is the state of one core, and no event is lost between pages. |
| collection | 2 scopes, 3 executions, 2 payloads, 5 requests, 2 faults (324,544) | CandidateDecision is implemented; the receipt binds the decision that was taken; a preparation gets its commit. |
| mcp | 1 server, 1 tool, 2 bindings, 2 discoverers, 2 executions that share an operation, 3 arguments, 5 events (2.60 million up to symmetry) | Both files reopen to what was in memory; a forbidden call is sent once; secrets stay out of its results and errors, and what preflight accepts resolves. |
| context | 2 drivers, 2 project versions, 4 source files, 2 compiles, 2 events (726,658) | Every stored packet accounts for its calls and its files, within the budget, and keeps its artifacts. |
| handoff | 2 drivers, 4 candidates of which 2 qualify, every list of up to 3 entries, 2 events (882,672 up to symmetry) | A start rests on a package, a binding, a revision and a packet that are on disk; it happens once, and once more only for a call that read the same time; a durable cancellation is respected; the choice does not depend on the order of the list. |
| stores | 12 kinds of file, 2 instances, 5 lines, 2 failing writes (447,601) | A store that opens says all that was acknowledged, in the state it was acknowledged in; calls alone make one unopenable in three ways only (WroteAnyway). |

**Why the bounds are enough.**  Two callers (drivers, sessions, launches, executions,
instances) are what a race needs: all conflicts of this code are between a call and one
other.  The exception is the lease, where two reclaimers of the lock of a third meet; it has
three instances.  One step is enough because each operation has its own journal record, and
nothing in BeginStep, CompleteStep or FailStep looks at another step; the theorems of
section 5 are for any number.  `MaxLines` bounds how often an idempotent operation is begun
again, `MaxUpdates` the check updates, `MaxCrashes`, `MaxKills` and `MaxFaults` the crashes:
one in every window of a pass plus one in the pass that repairs it (two) is what the
recovery properties speak of.  Two executions make a pass go round each loop twice and let
one be committed while the other is not. recovery_results has one execution that cannot be
resumed and no tool steps; recovery_tools has the latter.  With more of both at once, a pass
repeats events and reopens tasks in ways the code does and its documents do not want
(section 7).  In `runtime` one execution suffices as nothing in the code relates two.
`MaxTime` lets a lease go stale twice.  Two keys let a pool rotate once and run out.  Two
launches of the desktop reclaim each other's locks, and a third would do to either what the
other does; the theorems are for any number.  Three results in two scopes make an agreement,
a disagreement and a result that both scopes ask for.  In `mcp` an approval, a rebinding, an
approval again and a health check are four events of the manager.  One list of tools is
enough there, as a drifting list changes nothing.  Five lines are a whole life of every kind
of event, and a line after each of the two failing writes.

**Deadlock** is checked in the TaskManager and Recovery runs; the task can always
be acted upon.  It is not in the others, where the system really may stop: every execution
is final, every process gone, every file unopenable, every prompt answered.

**Fairness.**  `Recovery!FairSpec` has weak fairness of BeginPass and PassStep: whoever
reopens a task calls Recover, which is a loop without waiting; nothing is assumed of
engines, callers or the user.  `EngineRuntime!FairSpec` has weak fairness of a call that is
under way (it does not wait for another call) and strong fairness of Reinvoke: someone who
wants the task done invokes a running execution again, however often a Cancel gets in
between.  The adapter is assumed to answer in the end, as Invoke passes it a context.
`Supervisor!Fairness` has weak fairness of each goroutine of a supervisor: of Start and
Close (MainGoes: the waits, which end by their timeouts, and the steps of Close), of the
monitor, which a ticker wakes (MonitorGoes), and of startRenderer, which is of either; and
of a renderer whose standard input has ended; nobody has to launch, close, crash or exit.
`Collection!Fairness` has weak fairness of the course of a CommitResolved and of the call
being made again for a prepared scope: the caller repeats it until it is told of the commit;
failures are bounded by MaxFaults, without which nothing could be promised.

## 5. What is proved

All of it for any sets of the constants, any bounds and any length of a run, where the
runs check one instance.  The assumptions are the named ones of the modules, which say no
more than the code does: a contract has finitely many checks and at least one
(`ChecksAssumption`; `apply` refuses a task without), policies are the two of the
code (`ManagerAssumption`), execution ids can be ordered (`ExecutionsAssumption`,
`CollectionAssumption`), finitely many goroutines share a pool or compile a packet
(`PoolAssumption`, `ScoutAssumption`), a contract is neither an absent nor an empty file
(`HostAssumption`), no server, package or list is called `None` (`McpAssumption`), lists
are lists of candidates (`ListsAssumption`, `HandoffAssumption`), the broker is given
finitely many secrets, none of them empty (`ArgumentAssumption`), the kinds of file are
those there are (`StoresAssumption`), no task is called what stands for a file without one
(`DesktopAssumption`), an observation has the fields of a FailureObservation
(`ConformanceAssumption`), and bounds and limits are numbers.  Three theorems about a
specification have a hypothesis of their own (RepeatedPassIsSilent, ViewsShowWhatIs,
SecretsAreKept), and three about operators say of which arguments; all are named below.

None of the properties is inductive; each proof rests on an invariant that is, in
general because it says what an actor that is between two steps knows or holds.  TLC
checked these invariants on the instances of the runs before they were proved.

### Recovery_proofs: the task manager

* `ManagerTypeCorrect` - types.
* `ForbiddenToolRunsOnce`, `CompletedStepIsJournaled`, `ForbiddenCompletionIsFinal` - from
  `IInv`, for each step: *Unbegun*, an operation without a record has no run and no
  holder; *OneHolder*, a forbidden operation is in the hands of at most one caller, for
  whom it has not run yet as long as it may run it, and a completed one is in nobody's;
  *JournalFirst*, a caller that reports a completion, or a task that shows one, has the
  line.
* `ToolRunsAreWrittenAhead` (WriteAhead) - from `PaidInv`: the runs of a step and the
  callers that may still run it are together no more than its lines.
* `TaskCompletesOnEvidence` (CompletionNeedsEvidence) - from the types: the update that
  completes a task was the last one missing.

### Recovery_proofs: the coordinator

* `RecoveryTypeCorrect` - types, and what a loop has left is a set of steps or of
  executions, according to `pc`.
* `ExactlyOnceCommit`, `ImplementsCanonicalCommit` - from `CommitInv`: the session a pass
  holds is the one in the file, and the results it has left are produced ones; at
  "saved" the first of them is in the session already.  Without it the session a pass
  writes could lose what the file has.  Each step is a Produce, a Commit or a stutter.
* `InterruptedIsNotRerun` - from the IInv above, which passes keep too.
* `CommitIsNotedOnce` (OneCommitDecision) - from `NotedInv`: nobody has noted a result
  that is still in hand, and one that is about to be noted is committed.
* `PassSettlesStores` (StoresAgree) - from `SettledInv`: while nobody interferes, what a pass
  has behind it is settled, loop by loop (steps, results, executions, receipt), and
  no later loop unsettles it.
* `RepeatedPassOnlyAsks` - a pass that follows a whole pass writes nothing but, at
  most, its question about an execution that cannot be resumed; for any number of these.
* `RepeatedPassIsSilent` (RepeatIsSilent) - it writes nothing at all, *if one execution at
  most cannot be resumed*.  With two it is false: section 7, second line.

### EngineRuntime_proofs

* `RuntimeTypeCorrect` - types, with what a call carries at each of its phases.
* `WorkIsStartedOnce` (StartedOnce) - from `StartInv`: the starts of an execution and the
  calls that may still start it are together no more than one and its ties.
* `DispositionsAreBacked` - from `BackedInv`: also a disposition that a call is about to
  set is backed, since nothing durable is ever taken back.
* `FinalDispositionsStay` - from `FinalInv`: what is set is remembered in `moves`, and a
  final disposition that a call has read, or that is noted, is the one in the store.
* `RuntimeImplementsCanonicalCommit` - each step is one of CanonicalCommit or a stutter.

### Files_proofs

* `LeaseTypeCorrect` - types.
* `LeaseExcludes` (LeaseIsExclusive), for any number of instances, late or not - from
  `LeaseInv`: the times in the directory are past ones (*Past*); and until there was a slip,
  one instance is active and nobody who judged the directory is about to rename it (*Roles*),
  and the active one has what it needs in it (*Furnished*).  That the slips do happen, and
  exclusion is lost after them, is in section 7.
* `StoresFailClosed` (FailsClosed), for each of the twelve kinds of file - from `KnownInv`: a
  file that loads tells what was acknowledged, and what those who have it open know.  A
  line that says how many came before it, or which, shows that nobody else wrote in between,
  or else the file no longer loads (`WriterIsTold`); where the order does not matter it
  is enough that lines stay (`ToldStays`).
* `StoresStayOpenable` (StaysOpenable) - from `StayInv`: without failing writes and without
  a second instance, the one that has the file open knows all of it.  What each store asks
  before it writes a line is what it asks when it reads it (`AskedIsLoaded`, kind by kind),
  or the line is one of the three exceptions of the property (`AskedOrNot`), after which the
  file does not load any more.

### Session_proofs

A step of a session is, for the pool, a step of the pool or none, and likewise for the Codex
client (`StepMovesPool`, `StepMovesCodex`); so the first two are proved on the parts.

* `SpendingIsBounded` (BlockedSpendingIsBounded) - from `GuardInv`, by which the counter is
  the length of the run of cache misses at the end of what the guard was told, and `SpendInv`,
  by which what was spent late and what is under way are together what was under way when
  the guard blocked.
* `PlacesAreAwaited` (PendingIsAwaited) - from `AwaitInv`: no id is waited for twice, and
  a place has its waiter.
* `PromptIsCarriedOutOnce` (CarriedOutOnce) - from `WalkInv`: a request that goes on was
  refused by every key so far, for a reason that blames the key; and `FallInv`: Codex
  has only what the pool has given up.
* `AnswersKeepWhatWasShown` (AnswerKeepsConfirmed) - from `KeptInv`: while an answer is
  streamed, and when it is staged, what is kept of it is all that was delivered, each delivery
  once and in order, without what was cut off in the middle of a sentence; what is staged is
  what was shown.  At the end a whole repetition at the beginning of a continuation is missing
  too, and nothing else.
* `SessionTypeCorrect` (TypeOK) - types and bounds of sessions, pool and Codex client.  It
  needs `BoundInv`, by which there was room for each prompt that was asked and what is
  streamed is numbered within the bound, and `WireInv`: an id that somebody opens a thread
  with belongs to no request for a turn and to no reply that carries a turn, so that the
  client never takes the number of a turn for its thread.

* `FailuresAreMetOnEvidence` (ReplayIsEvidenced) - for any time at which a registry or a
  profile is asked, for files that were changed since they were saved, and for any set of
  observations that evidence may hold, consistent or not.  By lemmas about the operators,
  for any registry and any evidence: what passes Validate has passed each of its checks in
  turn (`ValidBundle`, `ValidFragment`); a decision is the conservative one or that of an
  entry of the identity, valid at that time, which holds this failure (`BundleDecides`,
  `FragmentDecides`); `validateDecision` lets through a replay only with the key's scope and
  no output (`FitAllows`); a profile blames a key where the pool would not only by a rule,
  which is an observation before output (`ProfileClassifies`).  Last, of all steps of the
  pool only Apply takes a key out of use, and its answer blames it (`OutOfUseOnBlame`).
* `BundlesDecideOnEvidence`, `FragmentsDecideOnEvidence` - the same of the two registries by
  themselves: whatever they hold, whoever asks and whenever (for fragments: about any answer
  that arrived, `~answer.failed`), they decide with caution or have an entry, loaded and not
  expired, that backs the decision.

### Supervisor_proofs

* `DesktopTypeCorrect` - types.
* `OneDesktopServes` (OneDesktop) - from `LaunchInv` and `LockInv`: a core is started once,
  by its own supervisor; and unless the lock of a core that works was taken, who works has it.
* `TaskIsCreatedWhole` (CreateIsWhole) - from `StoreInv`, under the same condition: the
  files of the request in hand are exactly as far as it is, a record of the journal has its
  file and its event, and the task of a refused request is not about to become its own.
* `NothingIsOrphaned` (NoOrphans) - from `EndInv`: at every place of main, monitor and
  step, the renderer that runs is the one that Close stops, or one the monitor is about
  to install or to stop.
* `ViewsShowWhatIs` (ViewsAreExact), *if answers fit* (`AnswersFit`): a snapshot of all the
  tasks, or of two, and a page of events is no more than `doJSON` reads of an answer.  It
  cannot go: a longer answer is refused and nothing is shown.  Three parts.  What a core
  answers with (`ListsTheFiles`: files that all load give one list, of each that is not
  empty, once; `PageOf`, `SnapshotIs`).  That a view is of the core that `runtime.json`
  names before and after, although each read may find another one (`ViewIsOfOneCore`).  That
  pages join without gap or repetition while the timeline grows (`CursorExists`, `Joined`,
  for any limit). That the view has every acknowledged task, unless the lock of a core that
  works was taken, then follows from `StoreInv` and a finite timeline (`WholeView`).

### Collection_proofs

* `ReceiptBindsTheDecision` (ReceiptBindsDecision), `CoordinatorImplementsDecision`
  (DecisionSpec) - from `DecisionInv`: what is in the store was accepted by it
  (*Accepted*), what a preparation names stays current and binds the operation it was
  made for (*Frozen*), and recovery was given only what a preparation names (*Ordered*).
  Each step is a step of CandidateDecision or a stutter.

### Handoff_proofs

* `StartsStandOnEvidence` (StartsAreBacked) - from `BackedInv`: every store stands on the
  one before it (*StoresInv*), and what a driver carries from one to the next is in the
  first (*JobsInv*).  That stamps stay within MaxCompiles needs a count of the drivers that
  compile (*StampsInv*).
* `CancellationIsFinal` (CancelledStays) - from `LateInv`: who asks late does not get past
  the check.
* `ExecutionIsStartedOnce` (StartedOnce) - from `StartInv`: the starts of an execution and
  the drivers about to start it are together no more than one and its ties.
* `PacketsTellWhatHappened` (PacketsAreAccounted) - from `AccountInv`: a driver that
  compiles has the journal behind each success it has, and one that saves holds a packet that
  accounts for its calls.  The latter is a fact about `Compile` for any calls, sources
  and limits (`CompiledAccounts`): no trimming loses a receipt, a snippet's place
  or the count of what was left out.
* `RoutesAreDeterministic` (RouteIsDeterministic) - for lists of any length: candidates can be
  compared (`AheadIsTotal`), so one is ahead of all others (`ForemostIsAhead`), and what
  is chosen depends on how many go before each, which no reordering changes
  (`SelectIgnoresOrder`).  And from `RouteInv`, by which a job with a plan has a package for the
  engine of the plan.

### McpBridge_proofs

* `ForbiddenCallIsSentOnce` (ForbiddenSentOnce) - from `SendInv`: before its first record
  nobody has an operation in hand; a forbidden one is in one hand at most, and nothing was
  sent as long as that hand may send it.
* `FilesReopen` (Reopens) - from `FileInv`: opening the files gives the memory that wrote
  them, and a package is registered before anything else is known of its server, on which
  what `load` accepts depends.  A line at the end leaves the replay of the ones before as it
  was (`RegistryGrown`, `ManagerGrown`, by the least place where two replays differ).
* `PreflightIsSafe` - for every schema, grant and argument map, accepted arguments
  resolve, from granted scopes only, into declared fields that ask for a secret and, only where
  the schema allows unknown fields (AllowUnknown), into undeclared ones, and no declared
  sensitive field is shown: the preflight half of SecretsStayInside.
* `SecretsAreKept` (SecretsStayInside) - the hypothesis `SecretsApart`: the words around a
  secret, which are what a server says of its own and the marker, share no letter with any
  secret.  It cannot go: a secret that is one of these words is told by them.  Secrets may
  overlap, contain and repeat each other, and have any length.  From `SecretInv`: a call in
  hand has passed the preflight, so its secrets are some of the broker's (`PlannedSecrets`),
  and every result and every error in the journal is made of words.  The rest is about
  RedactText: it has an order to follow, for any finite set of secrets (`OrderExists`); what
  stands in a framed secret is shorter than it, or is it (`OccursInside`); so the passes
  before that secret's own change nothing, that one leaves words and the later ones find
  nothing (`FramedGivesWay`).

### What is only model-checked

* Liveness, which is out of TLAPS's reach: ResultsGetCommitted, RunningEnds, CoreLossEnds,
  PreparedGetsCommitted.

ViewsAreExact and ReplayIsEvidenced are in large part about functions (paging, evidence,
profiles): the runs evaluate them on all inputs of a bounded set.  (A bound variable with
the name of a state variable would make TLC evaluate them in every state.)  The theorems
hold for any tasks, observations and limits, and for the shapes of network, registry and file
that the properties quantify over; the lemmas named above are about any.

## 6. What is not modelled

* Identity checks (task, session, engine, project of a record): one of each, so that
  a record never is somebody else's, except where the property is about it (operation
  ids in McpBridge, scopes in Collection, requests and tasks in CoreHost).
* What two cores make of the files when one of them lost its lock while it worked: each has
  its own journal of requests in memory (`corehost/journal.go:28`).
* The loading of the tool journal.
* Lengths of lines (a line beyond a reader's buffer is written and cannot be read),
  of notes and of HTTP bodies other than the response limit of the client.
* Texts: prompts, renderings, error messages (except in McpBridge), the timeline as told by
  the context scout and the bridge; keyword extraction and the walk over the project's
  files.
* Protocol framing and headers: HTTP routing and origin checks of the visual
  shell, JSON-RPC framing of the MCP client, the approvals and metrics of the Codex client.
* Starting programs: verification of executables, command runners, downloads.
* `session_adapter.go` (an engine as an adapter) and engine bindings.
* `contextbench`, `agentenvproof`, `releasebundle` and the proof commands: they measure, hash or
  play a scenario once, keep no state that lasts and run nothing concurrent.

## 7. Where the code and its documents differ

The models do what the code does.  Here that is not what a document asks; no run states
these properties, since they do not hold.

| code | what happens | document |
|---|---|---|
| `internal/recovery/coordinator.go:133` | A completed task with an interrupted forbidden step goes back to input_required in the next pass: only the loop over executions looks at the status. | `docs/PROGRESS_PROOF_v0.9.md:34` |
| `internal/recovery/coordinator.go:207` | Two executions that cannot be resumed overwrite each other's reason, so every pass appends two task events. | `docs/PROOF_0.12_SPEC.md:10` |
| `internal/recovery/coordinator.go:142` | The decision to retry has one event id per operation, but hashes a record whose timestamp changes: after the second interruption Recover ends in a conflict, always. | `docs/PROOF_0.12_SPEC.md:12` |
| `internal/recovery/coordinator.go:168` | A crash between the commit line and the decision: later passes skip the committed result, and its decision is never recorded. | `docs/PROOF_0.12_SPEC.md:18` |
| `internal/engineruntime/runtime.go:147` | A resumed execution that crashed after its result became durable is resumed again: the resume path does not look for the result. | `docs/PROOF_0.13_SPEC.md:41` |
| `internal/engineruntime/runtime.go:57` | Two calls that read the same time for the start of an execution: BeginOnce appends nothing for the second and reports no conflict (`store.go:169-173`), Invoke does not ask whether it appended, and the work is started twice.  `handoff` meets it too. | `docs/PROOF_0.13_SPEC.md:83` |
| `internal/corehost/lease.go:72` | A lease is found stale by two: the second renames away the new lease of the first, and both own it.  (The slip "other" of the run `lease`.) | `docs/PROOF_0.35_SPEC.md:35` |
| `internal/corehost/lease.go:116` | An owner that is late verifies its lease, loses it to a reclaim, and removes the new owner's directory.  (The slip "late".) | `docs/PROOF_0.35_SPEC.md:56` |
| `internal/corehost/host.go:52` | A core has no heartbeat until Start (`:116`) and none while it closes: a core that is slow there, or late, loses its lock to another, and both have the files open. | `docs/PROOF_0.35_SPEC.md:35` |
| `internal/continuity/engine.go:82` | What the next key streams is appended unchecked, and of a continuation only a whole repetition at its beginning is cut off (`session/continuation.go:76`): any other repetition of confirmed output is in the answer twice. | `docs/PROOF_0.7_SPEC.md:41` |
| `internal/tasks/store.go:92` | A step before its task is accepted and written, because the clone always has a map of steps; `load` (`:116`) has none yet, panics, and the file never opens again. | `docs/PROOF_0.9_SPEC.md:21` |
| `internal/contextscout/store.go:232` | Save accepts a cache key that is not the hash of the record's fields; `load` (`:178,246`) refuses the line, and the store never opens again. | `docs/PROOF_0.26_SPEC.md:14` |
| `internal/tasks/store.go:114` | A line longer than the reader's buffer is acknowledged and cannot be read back; likewise the other stores that scan lines. | `docs/PROOF_0.9_SPEC.md:21` |
| `internal/tooljournal/journal.go:136` | Fail overwrites the completed record of an idempotent operation that two executions share. | `docs/PROOF_0.25_SPEC.md:40` |
| `internal/mcpmanager/manager.go:195` | A server that is bound away and back while its health is checked keeps the observation of before. | `docs/PROOF_0.24_SPEC.md:61` |
| `internal/handoff/assemble.go:32` | The execution id leaves out the sequence of the task: packages of two sequences share an execution. | `docs/PROOF_0.29_RECONSTRUCTED_SPEC.md:7` |
| `internal/conformance/profile.go:67` | A profile made of evidence has no date, and classifies by it after it expired. | `docs/PROOF_0.15_SPEC.md:24` |
