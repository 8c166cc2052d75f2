----------------------------- MODULE ContextScout -----------------------------
(***************************************************************************)
(* The way of a context packet: contextscout.Coordinator fingerprints the  *)
(* project, reuses a fresh packet of the store or asks the provider,       *)
(* through the MCP router and its journal, for a new one; the packet then  *)
(* enters a revision of the project brain.  Drivers work at once, on one   *)
(* objective with one budget; the process may die between any two steps.   *)
(*                                                                         *)
(* A packet has its time in it, so no two have the same id; here a stamp.  *)
(* A router call is one step: McpBridge has its inside.  The timeline,     *)
(* which is told of every packet stored or reused, is left out.            *)
(***************************************************************************)
EXTENDS ContextPacket

CONSTANTS
    Drivers,     \* goroutines that carry a task forward
    Versions,    \* states of the fingerprinted part of the project
    Schemas,     \* schemas of the provider a build may be pinned to
    Answers,     \* what the provider may answer a call
    MaxCompiles, \* bound on the packets compiled
    MaxEvents    \* bound on what happens around the drivers

ASSUME ScoutAssumption ==
    /\ Answers \subseteq Outputs \cup {Failed}
    /\ IsFiniteSet(Drivers)
    /\ MaxCompiles \in Nat /\ MaxEvents \in Nat

VARIABLES
    project,   \* the version the project is in
    provider,  \* the schema of the provider while it is ready, else "blocked"
    events,    \* events around the drivers so far (bounded)
    journal,   \* completed operations of the tool journal and their outputs
    compiles,  \* packets compiled so far; the last stamp
    files,     \* how many of a packet's artifacts are on disk, by stamp
    records,   \* the lines of the packet store
    brain,     \* the revisions of the project brain
    work       \* what each driver is doing

outside == <<project, provider, events>>
packetStore == <<compiles, files, records>>
scoutVars == <<outside, journal, packetStore, brain, work>>

Blocked == "blocked"
Artifacts == 3
Idle == [at |-> "idle"]

At(d, place) == work[d].at = place
Do(d, job) == work' = [work EXCEPT ![d] = job]
GoTo(d, place) == work' = [work EXCEPT ![d].at = place]
Leave(d) == Do(d, Idle)

\* The store's lock is held from a packet's first artifact to its line.
Unlocked == \A d \in Drivers : ~At(d, "saving")

ScoutInit ==
    /\ project \in Versions
    /\ provider \in Schemas
    /\ events = 0
    /\ journal = {}
    /\ compiles = 0 /\ records = <<>>
    /\ files = [s \in 1..MaxCompiles |-> 0]
    /\ brain = <<>>
    /\ work = [d \in Drivers |-> Idle]

-----------------------------------------------------------------------------
\* Coordinator.Build.

\* FingerprintProject.
Fingerprint(d, schema) ==
    /\ At(d, "idle")
    /\ Do(d, [at |-> "lookup", schema |-> schema, fp |-> project])
    /\ UNCHANGED <<outside, journal, packetStore, brain>>

\* The latest record of this cache key and fingerprint.
Matching(schema, fp) ==
    {i \in DOMAIN records : records[i].schema = schema /\ records[i].fp = fp}

\* verifyRecordArtifactsLocked.
Verified(r) == files[r.stamp] = Artifacts

\* FindFresh; a fresh packet passes the hygiene check again, with the values
\* that are forbidden now, and no provider is asked.
Reuse(d) ==
    LET fresh == Matching(work[d].schema, work[d].fp)
        r == records[Max(fresh)]
    IN  /\ At(d, "lookup") /\ Unlocked
        /\ fresh # {}
        /\ \/ /\ Verified(r) /\ Hygienic(r.packet)
              /\ Do(d, [at |-> "built", record |-> r])
           \/ Leave(d)
        /\ UNCHANGED <<outside, journal, packetStore, brain>>

Attempt(d) == [schema |-> work[d].schema, fp |-> work[d].fp, next |-> Len(records) + 1]

\* Without a fresh packet every tool must pass the router's gates first, at
\* the pinned schema; nothing falls back to the sources alone.
Preflight(d) ==
    /\ At(d, "lookup") /\ Unlocked
    /\ Matching(work[d].schema, work[d].fp) = {}
    /\ compiles + Cardinality({c \in Drivers : At(c, "compile")}) < MaxCompiles
    /\ IF provider = work[d].schema
       THEN Do(d, [at |-> "compile", attempt |-> Attempt(d), calls |-> <<>>])
       ELSE Leave(d)
    /\ UNCHANGED <<outside, journal, packetStore, brain>>

\* RouterRunner.Call: the identity of an operation is the attempt, the number
\* of the call and its tool, so what the journal knows is not asked again.
Operation(d) ==
    LET calls == work[d].calls
    IN  [attempt |-> work[d].attempt, number |-> Len(calls) + 1, tool |-> NextTool(calls)]

AnswerWith(d, op, a) ==
    work' = [work EXCEPT ![d].calls = Append(@, [tool |-> op.tool, answer |-> a])]

CallProvider(d) ==
    LET op == Operation(d)
        known == {a \in Answers : <<op, a>> \in journal}
    IN  /\ At(d, "compile") /\ op.tool # "none"
        /\ \/ /\ known # {}
              /\ \E a \in known : AnswerWith(d, op, a)
              /\ UNCHANGED journal
           \/ /\ known = {} /\ provider = op.attempt.schema
              /\ \E a \in Answers :
                    /\ AnswerWith(d, op, a)
                    /\ journal' = IF a.ok THEN journal \cup {<<op, a>>} ELSE journal
           \/ /\ known = {} /\ provider # op.attempt.schema
              /\ AnswerWith(d, op, Failed)
              /\ UNCHANGED journal
        /\ UNCHANGED <<outside, packetStore, brain>>

\* The rest of Compile reads the sources as they are now; a packet that is
\* not hygienic, or holds a forbidden value, is thrown away.
Compile(d) ==
    LET p == Compiled(work[d].calls)
        r == [schema |-> work[d].attempt.schema, fp |-> work[d].attempt.fp,
              stamp |-> compiles + 1, packet |-> p, calls |-> work[d].calls]
    IN  /\ At(d, "compile") /\ NextTool(work[d].calls) = "none"
        /\ compiles' = compiles + 1
        /\ \/ Hygienic(p) /\ Do(d, [at |-> "save", record |-> r])
           \/ Leave(d)
        /\ UNCHANGED <<outside, journal, files, records, brain>>

Line(d) ==
    /\ records' = Append(records, work[d].record)
    /\ GoTo(d, "built")

\* Variant: the line is written before the artifacts.
SaveArtifactLate(d) ==
    LET s == work[d].record.stamp
    IN  /\ At(d, "save") \/ At(d, "built")
        /\ files[s] < Artifacts
        /\ files' = [files EXCEPT ![s] = @ + 1]
        /\ IF At(d, "save") THEN Line(d) ELSE UNCHANGED <<records, work>>
        /\ UNCHANGED <<outside, journal, compiles, brain>>

\* Store.Save, under the lock: the three artifacts, each by atomicWrite...
SaveArtifact(d) ==
    LET s == work[d].record.stamp
    IN  /\ (At(d, "save") /\ Unlocked) \/ At(d, "saving")
        /\ files[s] < Artifacts
        /\ files' = [files EXCEPT ![s] = @ + 1]
        /\ GoTo(d, "saving")
        /\ UNCHANGED <<outside, journal, compiles, records, brain>>

\* ... and then the record's line.
SaveLine(d) ==
    /\ At(d, "saving") /\ files[work[d].record.stamp] = Artifacts
    /\ Line(d)
    /\ UNCHANGED <<outside, journal, compiles, files, brain>>

Build(d) ==
    \/ \E schema \in Schemas : Fingerprint(d, schema)
    \/ Reuse(d) \/ Preflight(d) \/ CallProvider(d) \/ Compile(d)
    \/ SaveArtifact(d) \/ SaveLine(d)

-----------------------------------------------------------------------------
\* The project brain.

\* BuildInspection against the project as it is now, and Store.Append: what
\* the latest revision already says is not written again.
Revise(d) ==
    LET r == work[d].record
        content == [fp |-> r.fp, stamp |-> r.stamp]
        known == brain # <<>> /\ Last(brain) = content
    IN  /\ At(d, "built")
        /\ IF r.fp # project THEN Leave(d) /\ UNCHANGED brain
           ELSE /\ brain' = IF known THEN brain ELSE Append(brain, content)
                /\ Do(d, [at |-> "revised", revision |-> Len(brain'), stamp |-> r.stamp])
        /\ UNCHANGED <<outside, journal, packetStore>>

-----------------------------------------------------------------------------
\* What happens around the drivers.

Event == events < MaxEvents /\ events' = events + 1

Edit ==
    /\ Event
    /\ project' \in Versions \ {project}
    /\ UNCHANGED <<provider, journal, packetStore, brain, work>>

SwitchProvider ==
    /\ Event
    /\ provider' \in (Schemas \cup {Blocked}) \ {provider}
    /\ UNCHANGED <<project, journal, packetStore, brain, work>>

\* The process dies: what the drivers were doing is lost, the disk stays.
Crash ==
    /\ Event
    /\ work' = [d \in Drivers |-> Idle]
    /\ UNCHANGED <<project, provider, journal, packetStore, brain>>

ScoutNext ==
    \/ \E d \in Drivers : Build(d)
    \/ \E d \in Drivers : Revise(d)
    \/ Edit \/ SwitchProvider \/ Crash

ScoutSpec == ScoutInit /\ [][ScoutNext]_scoutVars

-----------------------------------------------------------------------------
\* What a stored packet tells is what happened: it accounts for every call of
\* its compile and every file that matched, within the budget, and what it
\* calls a success is a completed operation of the tool journal, of this
\* attempt or of an earlier one that wanted the same (PROOF_0.26 items 11 and
\* 12; trimToBudget, callEvidence, RouterRunner.Call).  And it never lacks an
\* artifact, wherever the process dies while it is saved: FindFresh can always
\* serve it (item 4; Store.Save writes the line last).
IsAccounted(r) ==
    /\ Verified(r)
    /\ Hygienic(r.packet) /\ Accounts(r.packet, r.calls)
    /\ \A n \in DOMAIN r.calls :
          r.calls[n].answer.ok =>
              \E j \in journal :
                  /\ j[2] = r.calls[n].answer
                  /\ j[1].tool = r.calls[n].tool /\ j[1].number = n
                  /\ j[1].attempt.schema = r.schema /\ j[1].attempt.fp = r.fp

PacketsAreAccounted ==
    [][/\ IsPrefix(records, records')
       /\ \A i \in DOMAIN records' \ DOMAIN records : IsAccounted(records'[i])]_records
=============================================================================
