------------------------------ MODULE CoreHost ------------------------------
(***************************************************************************)
(* corehost.Host over FileBackend: core processes on one data directory.   *)
(* A core opens with the core lock, writes runtime.json, serves CreateTask *)
(* under Host.stateMu, and closes; a process may be killed between any two *)
(* writes.  The lock is a lease (module Lease has all of its calls and the *)
(* clock); here one that is there is found stale or not, whatever its      *)
(* owner does, and renamed later; making, verifying and removing it are    *)
(* one step each.  A task is created by three files that are written one   *)
(* after the other: its own file, the timeline and the request journal.    *)
(***************************************************************************)
EXTENDS Naturals, FiniteSets

CONSTANTS
    LaunchCount, \* launches of the desktop; each has at most one core
    Requests,    \* the create requests that clients send
    MaxKills     \* bound: processes that are killed or fail, or lose a lock they need

Absent == "absent"   \* no file
Blank  == "blank"    \* a file without a line in it

ASSUME HostAssumption ==
    /\ LaunchCount \in Nat
    /\ Requests \subseteq [key : STRING, task : STRING, contract : STRING, form : STRING]
    /\ \A r \in Requests : r.contract \notin {Absent, Blank}
    /\ MaxKills \in Nat

VARIABLES
    core,      \* the process of each core
    coreLock,  \* core.lock: its owner
    seized,    \* history: the lock of a core that works was taken from it
    runtime,   \* runtime.json: the core it names
    op,        \* the CreateTask that holds stateMu of a core, and its next write
    taskFile,  \* the contract in the file of each task
    timeline,  \* task_created events
    journal,   \* the request journal
    refused,   \* history: requests a client was told are in conflict
    kills      \* processes killed, failed or robbed of their lock so far (bounded)

storeVars == <<taskFile, timeline, journal, refused>>
hostVars  == <<core, coreLock, seized, runtime, op, storeVars, kills>>

Launches == 1..LaunchCount
NoOne    == 0    \* owner of a lock nobody holds

TaskIds  == {r.task : r \in Requests}

\* A request as it is hashed: two forms of it differ in white space only,
\* which sameTaskRequest disregards.
Body(r)  == [task |-> r.task, contract |-> r.contract, form |-> r.form]
NoOp     == [at |-> "none"]
OpAt(d, at) == op[d].at = at
OpTo(d, at) == op' = [op EXCEPT ![d].at = at]
CoreTo(d, state) == core' = [core EXCEPT ![d] = state]
\* The process of core d is there; and it is past AcquireLease.
Works(d) == core[d] \in {"open", "serving", "closing", "unlisted"}
Alive(d) == core[d] \in {"starting", "reclaiming"} \/ Works(d)

-----------------------------------------------------------------------------
\* The life of a core process.

\* Release, which verifies the owner.
Give(lock, d) == IF lock = d THEN NoOne ELSE lock

\* Variant: a core takes the lock of another.
HostOpenUnlocked(d) ==
    /\ core[d] = "starting"
    /\ coreLock' = d /\ CoreTo(d, "open")
    /\ UNCHANGED <<seized, runtime, op, storeVars, kills>>

\* Open: the lock, then the credential and the files.  A lock that nobody has is
\* taken; that of another ends the core if its heartbeat is fresh, and is about
\* to be renamed if not: its owner is dead, or has not come to the heartbeat of
\* Start yet, or closes, or is late.
HostOpen(d) ==
    /\ core[d] = "starting"
    /\ \/ coreLock = NoOne /\ coreLock' = d /\ CoreTo(d, "open")
       \/ /\ coreLock # NoOne /\ UNCHANGED coreLock
          /\ CoreTo(d, "dead") \/ CoreTo(d, "reclaiming")
    /\ UNCHANGED <<seized, runtime, op, storeVars, kills>>

\* The lock that is there now is renamed and removed, whose ever it is; then
\* comes the next attempt, if this was not the last.
HostReclaim(d) ==
    /\ core[d] = "reclaiming" /\ coreLock' = NoOne
    /\ CoreTo(d, "starting") \/ CoreTo(d, "dead")
    /\ IF \E e \in Launches : coreLock = e /\ Works(e)
       THEN seized' = TRUE /\ kills < MaxKills /\ kills' = kills + 1
       ELSE UNCHANGED <<seized, kills>>
    /\ UNCHANGED <<runtime, op, storeVars>>

\* Start: runtime.json names the core before it serves; main closes a core
\* that cannot listen.
HostStart(d) ==
    /\ core[d] = "open"
    /\ \/ runtime' = d /\ CoreTo(d, "serving") /\ UNCHANGED coreLock
       \/ CoreTo(d, "dead") /\ coreLock' = Give(coreLock, d) /\ UNCHANGED runtime
    /\ UNCHANGED <<seized, op, storeVars, kills>>

\* heartbeatLoop, from Start on: when the lock is not the core's own any more
\* the host fails, which closes it.
HostHeartbeat(d) ==
    /\ core[d] = "serving" /\ coreLock # d /\ CoreTo(d, "closing")
    /\ UNCHANGED <<coreLock, seized, runtime, op, storeVars, kills>>

\* Close begins: the heartbeat stops and no new request is taken.
HostClose(d) ==
    /\ core[d] = "serving" /\ CoreTo(d, "closing")
    /\ UNCHANGED <<coreLock, seized, runtime, op, storeVars>>

\* Shutdown has waited for the handlers, or long enough; runtime.json goes if
\* it is still the core's own.
RemoveRuntime(d) ==
    /\ core[d] = "closing" /\ CoreTo(d, "unlisted")
    /\ runtime' = IF runtime = d THEN NoOne ELSE runtime
    /\ UNCHANGED <<coreLock, seized, op, storeVars, kills>>

\* The lock is released and the process exits.
HostExit(d) ==
    /\ core[d] = "unlisted" /\ CoreTo(d, "dead")
    /\ coreLock' = Give(coreLock, d)
    /\ op' = [op EXCEPT ![d] = NoOp]
    /\ UNCHANGED <<seized, runtime, storeVars, kills>>

\* The process is killed: its files stay as they are.
Killed(d) == CoreTo(d, "dead") /\ op' = [op EXCEPT ![d] = NoOp]

HostCrash(d) ==
    /\ Alive(d) /\ kills < MaxKills /\ kills' = kills + 1
    /\ Killed(d)
    /\ UNCHANGED <<coreLock, seized, runtime, storeVars>>

-----------------------------------------------------------------------------
\* FileBackend.CreateTask.

\* APIClient.doJSON: an answer counts while runtime.json still names the core
\* it came from; otherwise the client has an error and may ask again.
Refuse(d, r) == refused' = IF runtime = d THEN refused \cup {r} ELSE refused

\* validateTaskCreateRequest: a contract needs a goal and checks.
ValidRequest(r) == r.contract # ""

\* A key the journal knows: the recorded answer, if it is for the same body
\* and the task is still there.
Repeat(d, r) ==
    LET known == {j \in journal : j.key = r.key}
    IN  /\ known # {}
        /\ IF \A j \in known : j.body = Body(r) /\ taskFile[r.task] = r.contract
           THEN UNCHANGED refused ELSE Refuse(d, r)
        /\ UNCHANGED op

\* A new key: the task is created, or found as an earlier attempt left it.
First(d, r) ==
    /\ \A j \in journal : j.key # r.key
    /\ IF taskFile[r.task] \in {Absent, r.contract}
       THEN /\ op' = [op EXCEPT ![d] = [at |-> IF taskFile[r.task] = Absent THEN "create" ELSE "event",
                                        req |-> r]]
            /\ UNCHANGED refused
       ELSE Refuse(d, r) /\ UNCHANGED op

\* handleCreateTask takes stateMu.
CreateTask(d, r) ==
    /\ core[d] = "serving" /\ OpAt(d, "none") /\ ValidRequest(r)
    /\ Repeat(d, r) \/ First(d, r)
    /\ UNCHANGED <<core, coreLock, seized, runtime, taskFile, timeline, journal, kills>>

\* tasks.Store.Append opens the file, which creates it, and writes the line.
CreateFile(d) ==
    /\ OpAt(d, "create") /\ OpTo(d, "write")
    /\ taskFile' = [taskFile EXCEPT ![op[d].req.task] = Blank]
    /\ UNCHANGED <<core, coreLock, seized, runtime, timeline, journal, refused, kills>>

\* Variant: the journal is written before the timeline.
WriteTaskJournaling(d) ==
    LET r == op[d].req
    IN  /\ OpAt(d, "write") /\ OpTo(d, "event")
        /\ taskFile' = [taskFile EXCEPT ![r.task] = r.contract]
        /\ journal' = journal \cup {[key |-> r.key, body |-> Body(r)]}
        /\ UNCHANGED <<core, coreLock, seized, runtime, timeline, refused, kills>>

WriteTask(d) ==
    /\ OpAt(d, "write") /\ OpTo(d, "event")
    /\ taskFile' = [taskFile EXCEPT ![op[d].req.task] = op[d].req.contract]
    /\ UNCHANGED <<core, coreLock, seized, runtime, timeline, journal, refused, kills>>

\* Variant: an event that is already there is an error.
AppendEventStrict(d) ==
    LET r == op[d].req
    IN  /\ OpAt(d, "event")
        /\ IF \E e \in timeline : e.id = Body(r)
           THEN op' = [op EXCEPT ![d] = NoOp] /\ Refuse(d, r) /\ UNCHANGED timeline
           ELSE /\ OpTo(d, "journal") /\ UNCHANGED refused
                /\ timeline' = timeline \cup {[id |-> Body(r), ref |-> r.key]}
        /\ UNCHANGED <<core, coreLock, seized, runtime, taskFile, journal, kills>>

\* timeline.AppendOnce: the event's id is the hash of the body, and its source
\* is the key; the same id with another source is a conflict.
AppendEvent(d) ==
    LET r == op[d].req
    IN  /\ OpAt(d, "event")
        /\ IF \E e \in timeline : e.id = Body(r) /\ e.ref # r.key
           THEN op' = [op EXCEPT ![d] = NoOp] /\ Refuse(d, r) /\ UNCHANGED timeline
           ELSE /\ OpTo(d, "journal") /\ UNCHANGED refused
                /\ timeline' = timeline \cup {[id |-> Body(r), ref |-> r.key]}
        /\ UNCHANGED <<core, coreLock, seized, runtime, taskFile, journal, kills>>

\* RequestJournal.Append, and the answer.
AppendJournal(d) ==
    LET r == op[d].req
    IN  /\ OpAt(d, "journal") /\ op' = [op EXCEPT ![d] = NoOp]
        /\ journal' = journal \cup {[key |-> r.key, body |-> Body(r)]}
        /\ UNCHANGED <<core, coreLock, seized, runtime, taskFile, timeline, refused, kills>>

Serve(d) == CreateFile(d) \/ WriteTask(d) \/ AppendEvent(d) \/ AppendJournal(d)

\* Backend.ListTasks and Backend.Timeline as handleSnapshot reads them, both
\* under stateMu: a file without a task in it is not listed.
Listed == {t \in TaskIds : taskFile[t] \notin {Absent, Blank}}

HostInit ==
    /\ core = [d \in Launches |-> "none"]
    /\ coreLock = NoOne /\ seized = FALSE /\ runtime = NoOne
    /\ op = [d \in Launches |-> NoOp]
    /\ taskFile = [t \in TaskIds |-> Absent]
    /\ timeline = {} /\ journal = {}
    /\ refused = {}
    /\ kills = 0

HostTypeOK ==
    /\ core \in [Launches -> {"none", "starting", "reclaiming", "open", "serving", "closing",
                              "unlisted", "dead"}]
    /\ coreLock \in Launches \cup {NoOne} /\ seized \in BOOLEAN
    /\ runtime \in Launches \cup {NoOne}
    /\ \A d \in Launches : op[d].at \in {"none", "create", "write", "event", "journal"}
    /\ taskFile \in [TaskIds -> {Absent, Blank} \cup {r.contract : r \in Requests}]
    /\ kills \in 0..MaxKills

-----------------------------------------------------------------------------
\* What the journal answers for is in every store: a client is told that its
\* task is created from a journal record only, and then the task is in its
\* file and on the timeline with the client's key; and no event is of a task
\* that the list does not show (CreateTask over crashes and restarts of the
\* core, and retries).
JournalIsBacked ==
    /\ \A j \in journal : /\ taskFile[j.body.task] = j.body.contract
                          /\ [id |-> j.body, ref |-> j.key] \in timeline
    /\ \A e \in timeline : e.id.task \in Listed
    /\ \A i, j \in journal : i.key = j.key => i = j

\* A client that asks again is never refused because of what its own earlier
\* attempt left behind: a refusal means that another request took the key,
\* the task or the event, or that a core was killed before the task had its
\* first line (CreateTask over crashes and restarts).
RetryIsAnswered ==
    \A r \in refused :
        \/ \E j \in journal : j.key = r.key /\ j.body # Body(r)
        \/ taskFile[r.task] \notin {Absent, r.contract}
        \/ \E e \in timeline : e.id = Body(r) /\ e.ref # r.key

\* Creating a task keeps both of its promises, to the readers of the stores
\* and to the client, over crashes, restarts and retries (CreateTask), as long
\* as no core had its lock taken from it while it worked: two cores that serve
\* at a time each have a journal and a timeline of their own in memory.
CreateIsWhole == ~seized => JournalIsBacked /\ RetryIsAnswered
=============================================================================
