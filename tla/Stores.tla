-------------------------------- MODULE Stores --------------------------------
(***************************************************************************)
(* Twelve kinds of append-only file in which KeyDeck keeps what it must    *)
(* not lose: one JSON value per line, replayed when a store is opened (the *)
(* tool journal and the two files of McpServers are not among them).  Each *)
(* package has a store of its own, with its own checks before a line is    *)
(* written and when it is read; what they have in common is what this      *)
(* module is about: a write that fails or tears, a process that dies, and  *)
(* a second instance on the same file.                                     *)
(*                                                                         *)
(* An event is what a line is about, by kind, key and content; a line also *)
(* has the events its writer knew, of which the code stores the number (a  *)
(* sequence) or a digest (a hash chain).                                   *)
(***************************************************************************)
EXTENDS SequencesExt, Integers

CONSTANTS
    Kinds,     \* the stores that are looked at
    Asks,      \* the events callers ask for, by store
    Handles,   \* instances that may be opened on one file
    MaxLines,  \* bound on the lines of a file
    MaxFaults  \* bound on the writes that fail

Stores == {"tasks", "timeline", "ledger", "artifacts", "receipts", "runtime", "handoffs",
           "routes", "packets", "brain", "requests", "collection"}

ASSUME StoresAssumption ==
    /\ Kinds \subseteq Stores
    /\ DOMAIN Asks = Stores
    /\ MaxLines \in Nat /\ MaxFaults \in Nat

VARIABLES
    kind,   \* the store
    file,   \* its lines
    open,   \* instances that are open
    memory, \* the events each of them knows
    acked,  \* history: what instances knew after they acknowledged an event
    faults, \* history: writes that failed
    shared  \* history: whether two instances were ever open at once

storeVars == <<kind, file, open, memory, acked, faults, shared>>

StoreInit ==
    /\ kind \in Kinds
    /\ file = <<>> /\ open = {} /\ acked = {}
    /\ memory = [i \in Handles |-> <<>>]
    /\ faults = 0 /\ shared = FALSE

-----------------------------------------------------------------------------
\* What the stores ask of an event, given the events before it.

Has(h, op, id) == \E i \in DOMAIN h : h[i].op = op /\ h[i].id = id
HasSame(h, op, e) == \E i \in DOMAIN h : h[i].op = op /\ h[i].id = e.id /\ h[i].val = e.val
Ids(h, op) == {h[i].id : i \in {j \in DOMAIN h : h[j].op = op}}

\* tasks: a task is created once, which forgets what was there, and only a step
\* that started completes.  Append applies to a clone, whose map of steps is
\* there before the task is: a step may start first.
AcceptsTask(h, e) ==
    CASE e.op = "created" -> Ids(h, "created") = {}
      [] e.op \in {"status", "started"} -> TRUE
      [] e.op = "completed" ->
            \E i \in DOMAIN h : /\ h[i].op = "started" /\ h[i].id = e.id
                               /\ \A j \in i .. Len(h) : h[j].op # "created"

\* recovery: a result is one of a known execution of the same identity, and
\* what is committed is a known result.
AcceptsLedger(h, e) ==
    CASE e.op = "start" -> Has(h, "start", e.id) => HasSame(h, "start", e)
      [] e.op = "result" -> HasSame(h, "start", e)
      [] e.op = "commit" -> Has(h, "result", e.id)

\* allowedTransition, of the dispositions of an execution so far.
AllowsTransition(h, e) ==
    LET states == {op \in {"resume_required", "completed"} : Has(h, op, e.id)}
    IN  "completed" \notin states \/ e.op = "completed"

\* engineruntime: likewise for a binding, and a disposition is never taken back.
AcceptsRuntime(h, e) ==
    CASE e.op = "start" -> Has(h, "start", e.id) => HasSame(h, "start", e)
      [] e.op = "binding" -> HasSame(h, "start", e)
      [] OTHER -> Has(h, "start", e.id) /\ AllowsTransition(h, e)

\* handoff: only a saved package is bound, to its own execution, or cancelled.
AcceptsHandoff(h, e) ==
    CASE e.op = "save" -> TRUE
      [] e.op = "bind" -> HasSame(h, "save", e)
      [] e.op = "cancel" -> Has(h, "save", e.id)

\* candidatecollection, for one scope, by the candidates an event is about.
Collected(h) == Ids(h, "collected")

\* An operation on all candidates, which the assessment or the review of them
\* resolved to this one; what needs a review are here several candidates.
AcceptsCommit(h, e) ==
    LET about(op) == {h[i].val : i \in {j \in DOMAIN h : h[j].op = op}}
        chosen    == IF Cardinality(e.val) = 1 THEN e.val ELSE
                     {h[i].id : i \in {j \in DOMAIN h : h[j].op = "resolved" /\ h[j].val = e.val}}
    IN  IF e.op = "committed" THEN HasSame(h, "prepared", e) /\ e.val = Collected(h)
        ELSE e.val = Collected(h) /\ e.val \in about("assessed") /\ e.id \in chosen

AcceptsCollection(h, e) ==
    LET about(op) == {h[i].val : i \in {j \in DOMAIN h : h[j].op = op}}
    IN  /\ Ids(h, "committed") = {}
        /\ Ids(h, "prepared") # {} => e.op = "committed"
        /\ CASE e.op = "collected" -> e.id \notin Collected(h)
             [] e.op = "reused" -> e.id \in Collected(h)
             [] e.op = "assessed" -> e.val = Collected(h)
             [] e.op = "resolved" -> /\ e.val = Collected(h) /\ e.val \in about("assessed")
                                     /\ Cardinality(e.val) > 1 /\ e.id \in e.val
                                     /\ e.val \notin about("resolved")
             [] e.op \in {"prepared", "committed"} -> AcceptsCommit(h, e)

Accepts(h, e) ==
    CASE kind = "tasks" -> AcceptsTask(h, e)
      [] kind = "ledger" -> AcceptsLedger(h, e)
      [] kind = "runtime" -> AcceptsRuntime(h, e)
      [] kind = "handoffs" -> AcceptsHandoff(h, e)
      [] kind = "collection" -> AcceptsCollection(h, e)
      [] OTHER -> TRUE

-----------------------------------------------------------------------------
\* Opening a store.

Events(f) == [i \in DOMAIN f |-> f[i].event]

Readable(f) == \A i \in DOMAIN f : f[i].cut # "text"

Ordered(f) == \A i \in DOMAIN f : Len(f[i].after) = i - 1
Chained(f) == \A i \in DOMAIN f : f[i].after = Events(SubSeq(f, 1, i - 1))
Applied(f) == \A i \in DOMAIN f : Accepts(Events(SubSeq(f, 1, i - 1)), f[i].event)

\* No key twice.
Distinct(f) ==
    \A i, j \in DOMAIN f :
        f[i].event.op = f[j].event.op /\ f[i].event.id = f[j].event.id => i = j

\* load starts from a state without a map of steps, to which a step cannot be
\* written: every step starts after the task was created.
StepsHaveTask(f) ==
    \A i \in DOMAIN f : f[i].event.op = "started" =>
        \E j \in 1 .. i - 1 : f[j].event.op = "created"

\* validateRecord: the cache key of a packet (id) is made of its fields (val).
KeysAreOwn(f) == \A i \in DOMAIN f : f[i].event.id = f[i].event.val

\* Variant: the sequence is not looked at.
LoadTimelineAnyOrder(f) == Distinct(f)

LoadTasks(f)      == Ordered(f) /\ Applied(f) /\ StepsHaveTask(f)
LoadTimeline(f)   == Ordered(f) /\ Distinct(f)
LoadLedger(f)     == Ordered(f) /\ Distinct(f) /\ Applied(f)
LoadArtifacts(f)  == Distinct(f)
LoadReceipts(f)   == Distinct(f)
LoadRuntime(f)    == Ordered(f) /\ Distinct(f) /\ Applied(f)
LoadHandoffs(f)   == Chained(f) /\ Applied(f)
LoadRoutes(f)     == Chained(f) /\ Distinct(f)
LoadPackets(f)    == Chained(f) /\ Distinct(f) /\ KeysAreOwn(f)
LoadBrain(f)      == Chained(f)
LoadRequests(f)   == Chained(f) /\ Distinct(f)
LoadCollection(f) == Chained(f) /\ Applied(f)

\* A line that does not parse stops every load, and so does any line that is
\* not what the store would write there; nothing is skipped or truncated.
Loads(f) ==
    /\ Readable(f)
    /\ CASE kind = "tasks" -> LoadTasks(f)
         [] kind = "timeline" -> LoadTimeline(f)
         [] kind = "ledger" -> LoadLedger(f)
         [] kind = "artifacts" -> LoadArtifacts(f)
         [] kind = "receipts" -> LoadReceipts(f)
         [] kind = "runtime" -> LoadRuntime(f)
         [] kind = "handoffs" -> LoadHandoffs(f)
         [] kind = "routes" -> LoadRoutes(f)
         [] kind = "packets" -> LoadPackets(f)
         [] kind = "brain" -> LoadBrain(f)
         [] kind = "requests" -> LoadRequests(f)
         [] kind = "collection" -> LoadCollection(f)

Open(i) ==
    /\ i \notin open /\ Loads(file)
    /\ open' = open \cup {i}
    /\ memory' = [memory EXCEPT ![i] = Events(file)]
    /\ shared' = (shared \/ open # {})
    /\ UNCHANGED <<kind, file, acked, faults>>

\* The process of an instance ends.
ProcessEnds(i) ==
    /\ i \in open
    /\ open' = open \ {i}
    /\ memory' = [memory EXCEPT ![i] = <<>>]
    /\ UNCHANGED <<kind, file, acked, faults, shared>>

-----------------------------------------------------------------------------
\* Writing a line.

\* What the file is when l is written at its end.  A line that lost its end is
\* one with the next, which only a stream decoder can read.
Extended(l) ==
    LET last == Last(file)
    IN  IF file # <<>> /\ last.cut \in {"text"} \cup (IF kind = "collection" THEN {} ELSE {"newline"})
        THEN [file EXCEPT ![Len(file)].cut = "text"]
        ELSE Append(file, l)

Line(i, e, cut) == [event |-> e, after |-> memory[i], cut |-> cut]

\* The line is written, synced and closed, and only then known.
Written(i, e) ==
    LET after == Append(memory[i], e)
    IN  /\ file' = Extended(Line(i, e, "none"))
        /\ memory' = [memory EXCEPT ![i] = after]
        /\ acked' = {h \in acked : ~IsPrefix(h, after)} \cup {after}
        /\ UNCHANGED <<kind, open, faults, shared>>

\* An error is returned, with all of the line written, all but its end, or a
\* part of it; the caller may ask again.
Broken(i, e) ==
    /\ faults < MaxFaults
    /\ \E cut \in {"none", "newline", "text"} : file' = Extended(Line(i, e, cut))
    /\ faults' = faults + 1
    /\ UNCHANGED <<kind, open, memory, acked, shared>>

\* What does not load never does again, so no more of it is looked at.
Bounded == Len(file) < MaxLines /\ Loads(file)

Write(i, e) == Bounded /\ (Written(i, e) \/ Broken(i, e))

Uses(i, k, e) == i \in open /\ kind = k /\ e \in Asks[k]

\* The Once operations: an event whose key is known is answered from memory,
\* with a conflict if it has another content.
IsNew(i, e) == ~Has(memory[i], e.op, e.id)

\* Store.Append of tasks: applied to a clone first, which is never without a map.
AppendTask(i, e) == Uses(i, "tasks", e) /\ AcceptsTask(memory[i], e) /\ Write(i, e)

\* AppendOnce of the timeline.
AppendActivity(i, e) == Uses(i, "timeline", e) /\ IsNew(i, e) /\ Write(i, e)

\* The appendOnce of the engine ledger writes first: a refused event stays.
AppendLedger(i, e) ==
    /\ Uses(i, "ledger", e) /\ IsNew(i, e)
    /\ Bounded
    /\ \/ AcceptsLedger(memory[i], e) /\ Written(i, e)
       \/ Broken(i, e)
       \/ /\ ~AcceptsLedger(memory[i], e)
          /\ file' = Extended(Line(i, e, "none"))
          /\ UNCHANGED <<kind, open, memory, acked, faults, shared>>

\* SaveOnce of the artifact ledger.
SaveArtifactRecord(i, e) == Uses(i, "artifacts", e) /\ IsNew(i, e) /\ Write(i, e)

\* SaveOnce of the receipts.
SaveReceipt(i, e) == Uses(i, "receipts", e) /\ IsNew(i, e) /\ Write(i, e)

\* appendOnce of the engine runtime: applied to clones first.
AppendRuntime(i, e) ==
    Uses(i, "runtime", e) /\ IsNew(i, e) /\ AcceptsRuntime(memory[i], e) /\ Write(i, e)

\* Variant: the clones are not looked at.
AppendHandoffUnchecked(i, e) == Uses(i, "handoffs", e) /\ IsNew(i, e) /\ Write(i, e)

\* appendLocked of the handoffs.
AppendHandoff(i, e) ==
    Uses(i, "handoffs", e) /\ IsNew(i, e) /\ AcceptsHandoff(memory[i], e) /\ Write(i, e)

\* SaveOnce of the routes.
SaveRoute(i, e) == Uses(i, "routes", e) /\ IsNew(i, e) /\ Write(i, e)

\* The line of Save of the packets, whose artifacts ContextScout has: the cache
\* key is taken as it comes.
SavePacket(i, e) == Uses(i, "packets", e) /\ IsNew(i, e) /\ Write(i, e)

\* Append of the brain: revisions of one project, and not twice the same.
AppendRevision(i, e) ==
    LET h == memory[i]
    IN  /\ Uses(i, "brain", e)
        /\ h # <<>> => Last(h).val = e.val /\ Last(h) # e
        /\ Write(i, e)

\* Append of the core host's request journal.
AppendRequest(i, e) == Uses(i, "requests", e) /\ IsNew(i, e) /\ Write(i, e)

\* appendEvent of the collection, for each of its Add operations.
AppendCollection(i, e) ==
    Uses(i, "collection", e) /\ AcceptsCollection(memory[i], e) /\ Write(i, e)

Ask(i, e) ==
    \/ AppendTask(i, e) \/ AppendActivity(i, e) \/ AppendLedger(i, e)
    \/ SaveArtifactRecord(i, e) \/ SaveReceipt(i, e) \/ AppendRuntime(i, e)
    \/ AppendHandoff(i, e) \/ SaveRoute(i, e) \/ SavePacket(i, e)
    \/ AppendRevision(i, e) \/ AppendRequest(i, e) \/ AppendCollection(i, e)

StoreNext ==
    \E i \in Handles : Open(i) \/ ProcessEnds(i) \/ \E e \in Asks[kind] : Ask(i, e)

StoreSpec == StoreInit /\ [][StoreNext]_storeVars

-----------------------------------------------------------------------------
\* The stores that keep a set, without an order.
Unordered == {"artifacts", "receipts"}

\* Wherever writes fail or tear, processes die, or two instances know
\* different things of one file: a store that can be opened says all it ever
\* acknowledged, and says it happened in the state in which it was
\* acknowledged.  Whatever it cannot say so, it does not open (load and the
\* append functions of every store).
FailsClosed ==
    Loads(file) =>
        \A h \in acked :
            IF kind \in Unordered THEN ToSet(h) \subseteq ToSet(Events(file))
                                  ELSE IsPrefix(h, Events(file))

\* What a store wrote and does not read: a step before its task, a packet under
\* a key that is not made of its fields, an event that the engine ledger refused.
WroteAnyway ==
    \/ kind = "tasks" /\ ~StepsHaveTask(file)
    \/ kind = "packets" /\ ~KeysAreOwn(file)
    \/ kind = "ledger" /\ file # <<>> /\ Events(file) \notin acked

\* Without a failed write and without a second instance a file opens, whatever
\* was asked of it, but for these three: apart from them every store asks of an
\* event, before it writes it, all that it asks when it reads it (Append, Save,
\* appendLocked, appendOnce and their loads).
StaysOpenable ==
    faults = 0 /\ ~shared => Loads(file) \/ WroteAnyway
===============================================================================
