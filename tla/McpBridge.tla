------------------------------- MODULE McpBridge -------------------------------
(***************************************************************************)
(* A tool call on its way to an MCP server: the execution router           *)
(* (internal/mcpmanager/execution.go) asks the manager, the bridge         *)
(* (internal/mcpbridge) asks the tool journal, the secret broker and the   *)
(* server, and records the outcome (internal/tooljournal).  Several        *)
(* executions run at once while the user rebinds, disables and approves;   *)
(* the process may die between any two of their steps.                     *)
(***************************************************************************)
EXTENDS McpServers, McpArguments

CONSTANTS
  Executions,   \* goroutines that execute tool calls
  Operations,   \* operation identities
  WordsIn,      \* the words each tool's name contains
  Profile,      \* the active profile, by rank
  Arguments,    \* arguments of the calls
  SchemaOf,     \* the argument schema of each tool
  ToolScopes,   \* the scopes of secrets granted to each tool
  FieldSamples, \* field policies the argument checks are tried with
  MaxSends      \* bound on the requests sent for one operation

ASSUME BridgeAssumption ==
  /\ Profile \in 0..2
  /\ Arguments \subseteq ArgumentMaps
  /\ ToolScopes \in [Tools -> SUBSET Scopes]
  /\ \A p \in FieldSamples : p.reference \in BOOLEAN
  /\ MaxSends \in Nat

VARIABLES
  exec,      \* what each execution is doing
  journal,   \* the latest record of each operation: memory and file at once
  sends      \* how often each operation was sent to the server

bridgeVars == <<exec, journal, sends>>
vars == <<serverVars, bridgeVars>>

Policies == {"forbidden", "idempotent"}

Idle == [at |-> "idle"]

Answer == <<"answer">>

\* What the server may answer, and what an error may say: given a secret, either
\* may repeat it.
Texts(args) == {Answer} \cup {Answer \o s : s \in SecretValues(args)}

Viewed(op, tool, args, policy) ==
  [at |-> "viewed", op |-> op, tool |-> tool, args |-> args, policy |-> policy]

At(e, place) == exec[e].at = place

GoTo(e, place) == exec' = [exec EXCEPT ![e].at = place]

Return(e) == exec' = [exec EXCEPT ![e] = Idle]

NoRecord == [state |-> "absent", policy |-> "none", result |-> None, error |-> None]

Recorded(op) == journal[op].state # "absent"

Record(op, rec) == journal' = [journal EXCEPT ![op] = rec]

-----------------------------------------------------------------------------
BridgeInit ==
  /\ Init
  /\ exec = [e \in Executions |-> Idle]
  /\ journal = [o \in Operations |-> NoRecord]
  /\ sends = [o \in Operations |-> 0]

\* plan looks at the manager's view, under one hold of its lock; whatever misses
\* there denies the call, which then has changed nothing.
Execute(e, op, tool, args, policy) ==
  /\ At(e, "idle") /\ sends[op] < MaxSends
  /\ Ready(tool)
  /\ exec' = [exec EXCEPT ![e] = Viewed(op, tool, args, policy)]
  /\ UNCHANGED <<serverVars, journal, sends>>

\* suggestedProfile: read-only is 0, safe edits are 1, full control is 2 and what
\* a name that says nothing needs.
SuggestedProfile(words) ==
  LET Has(tokens) == words \cap tokens # {}
  IN IF Has({"delete", "remove", "chmod", "permission", "execute", "shell"}) THEN 2
     ELSE IF Has({"write", "edit", "create", "move", "copy", "rename", "mkdir"}) THEN 1
     ELSE IF Has({"read", "list", "search", "get", "info", "stat", "tree"}) THEN 0
     ELSE 2

Allows(tool) == Profile >= SuggestedProfile(WordsIn[tool])

Policy == {tool \in GrantedTools : Allows(tool)}

\* plan then asks for the policy, under a second hold of the lock; the bridge
\* is built over what both told and never looks at the manager again.
EffectivePolicy(e) ==
  /\ At(e, "viewed")
  /\ IF exec[e].tool \in Policy THEN GoTo(e, "planned") ELSE Return(e)
  /\ UNCHANGED <<serverVars, journal, sends>>

Started(c) ==
  [tool |-> c.tool, args |-> c.args, policy |-> c.policy, state |-> "started",
   result |-> None, error |-> None]

Collides(c) ==
  Recorded(c.op) /\ <<journal[c.op].tool, journal[c.op].args>> # <<c.tool, c.args>>

\* The schema of the tool, and the scopes and the existence of its secrets, which
\* the broker plans without resolving them.
Preflight(c) == Accepts(SchemaOf[c.tool], ToolScopes[c.tool], c.args)

Completed(op) == journal[op].state = "completed"

\* Variant: an operation that is known to have failed is executed again.
AmbiguousStarted(c) ==
  /\ journal[c.op].state = "started"
  /\ "forbidden" \in {journal[c.op].policy, c.policy}

Ambiguous(c) ==
  /\ journal[c.op].state \in {"started", "failed"}
  /\ "forbidden" \in {journal[c.op].policy, c.policy}

\* The bridge refuses what its preflight denies; Begin returns a completed result,
\* refuses another call's identity and an ambiguous outcome, and otherwise records
\* the start before anything is sent.
Begin(e) ==
  LET c == exec[e]
  IN /\ At(e, "planned")
     /\ IF ~Preflight(c) \/ Completed(c.op) \/ Collides(c) \/ Ambiguous(c)
        THEN Return(e) /\ UNCHANGED journal
        ELSE GoTo(e, "begun") /\ Record(c.op, Started(c))
     /\ UNCHANGED <<serverVars, sends>>

\* The secrets are resolved and the adapter starts the server and calls it.
Send(e) ==
  /\ At(e, "begun")
  /\ GoTo(e, "sent")
  /\ sends' = [sends EXCEPT ![exec[e].op] = @ + 1]
  /\ UNCHANGED <<serverVars, journal>>

\* Journal.Fail keeps an earlier result beside the error.
Fail(op, text) == Record(op, [journal[op] EXCEPT !.state = "failed", !.error = text])

\* sanitizeError.
Sanitized(e, text) == RedactText(text, SecretValues(exec[e].args))

\* Variant: the journal gets the error as it came.
BreakOffRaw(e) ==
  /\ At(e, "begun") \/ At(e, "sent")
  /\ IF exec[e].policy = "idempotent"
     THEN \E text \in Texts(exec[e].args) : Fail(exec[e].op, text)
     ELSE UNCHANGED journal
  /\ Return(e)
  /\ UNCHANGED <<serverVars, sends>>

\* The call broke off, before the server had it or after: only an operation that
\* may be repeated is recorded as failed, with the error, the others stay started.
BreakOff(e) ==
  /\ At(e, "begun") \/ At(e, "sent")
  /\ IF exec[e].policy = "idempotent"
     THEN \E text \in Texts(exec[e].args) : Fail(exec[e].op, Sanitized(e, text))
     ELSE UNCHANGED journal
  /\ Return(e)
  /\ UNCHANGED <<serverVars, sends>>

ToolError == <<"error">>

\* The server answered that the tool failed: a known outcome.  What it said is
\* redacted, and once more with what is put before it.
ToolFails(e) ==
  /\ At(e, "sent")
  /\ \E text \in Texts(exec[e].args) :
       Fail(exec[e].op, Sanitized(e, ToolError \o Sanitized(e, text)))
  /\ Return(e)
  /\ UNCHANGED <<serverVars, sends>>

\* Variant: the journal gets the answer as it came.
CompleteRaw(e, text) ==
  LET op == exec[e].op
  IN /\ At(e, "sent") /\ text \in Texts(exec[e].args)
     /\ Record(op, [journal[op] EXCEPT !.state = "completed", !.result = text, !.error = None])
     /\ Return(e)
     /\ UNCHANGED <<serverVars, sends>>

\* The answer is redacted and journaled.
Complete(e, text) ==
  LET op == exec[e].op
  IN /\ At(e, "sent") /\ text \in Texts(exec[e].args)
     /\ Record(op, [journal[op] EXCEPT !.state = "completed", !.result = Sanitized(e, text),
                                       !.error = None])
     /\ Return(e)
     /\ UNCHANGED <<serverVars, sends>>

Crash ==
  /\ Reopen
  /\ exec' = [e \in Executions |-> Idle]
  /\ UNCHANGED <<journal, sends>>

ExecStep(e) ==
  \/ \E op \in Operations, tool \in Tools, args \in Arguments, policy \in Policies :
       Execute(e, op, tool, args, policy)
  \/ EffectivePolicy(e) \/ Begin(e) \/ Send(e) \/ BreakOff(e) \/ ToolFails(e)
  \/ At(e, "sent") /\ \E text \in Texts(exec[e].args) : Complete(e, text)

BridgeNext ==
  \/ ServerStep /\ UNCHANGED bridgeVars
  \/ \E e \in Executions : ExecStep(e)
  \/ Crash

Spec == BridgeInit /\ [][BridgeNext]_vars

-----------------------------------------------------------------------------
\* An operation whose replay is forbidden reaches the server at most once, over
\* failures, broken calls, concurrent executions and restarts: Begin records the
\* start before the call and no outcome but a completed one is ever answered.
ForbiddenSentOnce ==
  \A o \in Operations :
    journal[o].policy = "forbidden" => sends[o] <= 1

SchemaSamples ==
  [fields : UNION {[fields -> FieldSamples] : fields \in SUBSET Fields}, unknown : BOOLEAN]

\* The preflight of every call of a few fields under every sample of a schema
\* and every grant of scopes, and the redaction of every set of secrets.
ArgumentsAreGuarded ==
  /\ \A schema \in SchemaSamples, scopes \in SUBSET Scopes, args \in ArgumentMaps :
       AcceptedIsSafe(schema, scopes, args)
  /\ \A entries \in SUBSET Entries :
       RedactsWhole("before", "after", {e.value : e \in entries})

\* A secret the broker resolved never reaches the journal, whose results and
\* errors are what later calls are given and what stays on disk, although servers
\* and adapters may repeat it in either; and no call gets past the preflight with
\* a reference that the schema or the scopes do not allow, or that would fail to
\* resolve after the start has been journaled.
SecretsStayInside ==
  /\ ArgumentsAreGuarded
  /\ \A o \in Operations, e \in Entries :
       \A text \in {journal[o].result, journal[o].error} :
         text # None => ~Occurs(e.value, text)
=============================================================================
