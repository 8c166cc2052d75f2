------------------------------ MODULE McpServers ------------------------------
(***************************************************************************)
(* The MCP registry and the MCP server manager (internal/mcpregistry,      *)
(* internal/mcpmanager), for one server: both keep every entry under its   *)
(* server identity and servers do not touch each other.  The registry owns *)
(* the portable half (which package, which tools it advertised first), the *)
(* manager the local half (where it is installed, whether it is enabled,   *)
(* which tools the user granted, how its last health check went).  Each    *)
(* has a memory and an append-only file that its load reads back with      *)
(* acceptance rules of its own.                                            *)
(***************************************************************************)
EXTENDS Naturals, Sequences

CONSTANTS
  Contracts,   \* identity and runtime contract of a package, by digest
  Bindings,    \* a local installation of it, by digest
  Schemas,     \* tool lists a server may advertise, by digest
  Tools,       \* tool names
  ToolsOf,     \* the tools of each schema
  Callers,     \* goroutines that discover tools or check the health, one thing at a time
  MaxEvents,   \* bound on the events of the manager's file
  None

ASSUME McpAssumption ==
  /\ ToolsOf \in [Schemas -> SUBSET Tools]
  /\ MaxEvents \in Nat
  /\ None \notin Contracts \cup Bindings \cup Schemas

VARIABLES
  registryFile,  \* the registry's events
  registry,      \* the registry's memory
  managerFile,   \* the manager's events
  manager,       \* the manager's memory
  caller         \* what each caller holds while it has no lock: the tool list it got
                 \* and has yet to store, or the binding whose health it is checking

serverVars == <<registryFile, registry, managerFile, manager, caller>>

Statuses == {"healthy", "unhealthy"}

Unregistered == [contract |-> None, schema |-> None]

Free == [at |-> "free", value |-> None]

Unbound == [binding |-> None, enabled |-> FALSE, approval |-> None, health |-> None]

-----------------------------------------------------------------------------
\* What load accepts, event by event, and what it makes of an event.

RegistryAccepts(r, ev) ==
  CASE ev.kind = "registered" -> r.contract = None
    [] ev.kind = "discovered" -> r.contract # None /\ r.schema = None

RegistryAfter(r, ev) ==
  CASE ev.kind = "registered" -> [r EXCEPT !.contract = ev.value]
    [] ev.kind = "discovered" -> [r EXCEPT !.schema = ev.value]

\* r is the registry the manager is opened with.
ManagerAccepts(r, m, ev) ==
  /\ r.contract # None
  /\ CASE ev.kind = "bound"    -> m.binding = None
       [] ev.kind = "rebound"  -> m.binding # None /\ m.binding = ev.previous
       [] ev.kind = "enabled"  -> m.binding # None
       [] ev.kind = "disabled" -> TRUE
       [] ev.kind = "approved" -> /\ r.schema # None
                                  /\ ev.value.schema = r.schema
                                  /\ ev.value.tools \subseteq ToolsOf[r.schema]
       [] ev.kind = "health"   -> m.binding # None /\ ev.value.binding = m.binding

\* A rebinding forgets the health of the binding it replaces.
ManagerAfter(m, ev) ==
  CASE ev.kind = "bound"    -> [m EXCEPT !.binding = ev.value]
    [] ev.kind = "rebound"  -> [m EXCEPT !.binding = ev.value, !.health = None]
    [] ev.kind = "enabled"  -> [m EXCEPT !.enabled = TRUE]
    [] ev.kind = "disabled" -> [m EXCEPT !.enabled = FALSE]
    [] ev.kind = "approved" -> [m EXCEPT !.approval = ev.value]
    [] ev.kind = "health"   -> [m EXCEPT !.health = ev.value]

\* What load has made of a file after each of its lines.
RegistryReplay(file) ==
  LET load[k \in 0..Len(file)] ==
        IF k = 0 THEN Unregistered ELSE RegistryAfter(load[k - 1], file[k])
  IN load

ManagerReplay(file) ==
  LET load[k \in 0..Len(file)] ==
        IF k = 0 THEN Unbound ELSE ManagerAfter(load[k - 1], file[k])
  IN load

LoadedRegistry == RegistryReplay(registryFile)[Len(registryFile)]

LoadedManager == ManagerReplay(managerFile)[Len(managerFile)]

RegistryOpens ==
  \A k \in 1..Len(registryFile) : RegistryAccepts(RegistryReplay(registryFile)[k - 1], registryFile[k])

ManagerOpens ==
  \A k \in 1..Len(managerFile) :
    ManagerAccepts(LoadedRegistry, ManagerReplay(managerFile)[k - 1], managerFile[k])

-----------------------------------------------------------------------------
\* The registry.

Init ==
  /\ registryFile = <<>> /\ registry = Unregistered
  /\ managerFile = <<>> /\ manager = Unbound
  /\ caller = [c \in Callers |-> Free]

\* appendLocked and the change of the memory, under the registry's mutex.
RecordRegistry(ev) ==
  /\ registryFile' = Append(registryFile, ev)
  /\ registry' = RegistryAfter(registry, ev)

\* Another package under a registered identity is a conflict and changes nothing.
Register(k) ==
  /\ registry.contract = None
  /\ RecordRegistry([kind |-> "registered", value |-> k])
  /\ UNCHANGED <<managerFile, manager, caller>>

Released(c) == caller' = [caller EXCEPT ![c] = Free]

\* The discoverer is bound to the package that is registered.
BindingMatches(k) == registry.contract # None /\ registry.contract = k

\* A server started over stdio advertises its tools; a failure leaves the caller free.
Ask(c, s) ==
  /\ caller[c] = Free
  /\ caller' = [caller EXCEPT ![c] = [at |-> "listed", value |-> s]]
  /\ UNCHANGED <<registryFile, registry, managerFile, manager>>

\* Discover is content with the list the registry holds; otherwise it asks, as
\* Revalidate always does, after it gave up the lock.
Discover(c, k, s) == BindingMatches(k) /\ registry.schema = None /\ Ask(c, s)

Revalidate(c, k, s) == BindingMatches(k) /\ Ask(c, s)

\* Variant: storeDiscovery trusts the look-up its caller made before it asked the server.
StoreDiscoveryAgain(c) ==
  /\ caller[c].at = "listed"
  /\ Released(c)
  /\ RecordRegistry([kind |-> "discovered", value |-> caller[c].value])
  /\ UNCHANGED <<managerFile, manager>>

\* The first list is kept for good; a later one only agrees or is a drift.
StoreDiscovery(c) ==
  /\ caller[c].at = "listed"
  /\ Released(c)
  /\ IF registry.schema = None
     THEN RecordRegistry([kind |-> "discovered", value |-> caller[c].value])
     ELSE UNCHANGED <<registryFile, registry>>
  /\ UNCHANGED <<managerFile, manager>>

-----------------------------------------------------------------------------
\* The manager.

RecordManager(ev) ==
  /\ Len(managerFile) < MaxEvents
  /\ managerFile' = Append(managerFile, ev)
  /\ manager' = ManagerAfter(manager, ev)

\* A binding is well formed only for a registered package: absolute paths and
\* the argument slots of its contract.
ValidBinding(b) == registry.contract # None /\ b \in Bindings

\* A server that is bound already needs an explicit rebinding.
Bind(b) ==
  /\ ValidBinding(b) /\ manager.binding = None
  /\ RecordManager([kind |-> "bound", value |-> b])
  /\ UNCHANGED <<registryFile, registry, caller>>

Rebind(b) ==
  /\ ValidBinding(b) /\ manager.binding \notin {None, b}
  /\ RecordManager([kind |-> "rebound", value |-> b, previous |-> manager.binding])
  /\ UNCHANGED <<registryFile, registry, caller>>

SetEnabled(on) ==
  /\ registry.contract # None
  /\ on => manager.binding # None
  /\ manager.enabled # on
  /\ RecordManager([kind |-> IF on THEN "enabled" ELSE "disabled"])
  /\ UNCHANGED <<registryFile, registry, caller>>

Approval(s, granted) == [schema |-> s, tools |-> granted]

\* The approval names the schema the user looked at and only tools it holds.
ApproveTools(s, granted) ==
  LET approval == Approval(s, granted)
  IN /\ registry.schema = s
     /\ granted \subseteq ToolsOf[s]
     /\ manager.approval # approval
     /\ RecordManager([kind |-> "approved", value |-> approval])
     /\ UNCHANGED <<registryFile, registry, caller>>

Observation(b, status) == [binding |-> b, status |-> status]

\* CheckHealth reads the binding under the lock and checks it without.
StartCheck(c) ==
  /\ caller[c] = Free /\ manager.binding # None
  /\ caller' = [caller EXCEPT ![c] = [at |-> "checking", value |-> manager.binding]]
  /\ UNCHANGED <<registryFile, registry, managerFile, manager>>

\* Variant: the binding is not compared again after the check.
FinishCheckUnchecked(c, status) ==
  /\ caller[c].at = "checking"
  /\ Released(c)
  /\ RecordManager([kind |-> "health", value |-> Observation(caller[c].value, status)])
  /\ UNCHANGED <<registryFile, registry>>

\* An observation of a binding that was replaced meanwhile is refused.
FinishCheck(c, status) ==
  /\ caller[c].at = "checking"
  /\ Released(c)
  /\ IF manager.binding = caller[c].value
     THEN RecordManager([kind |-> "health",
                         value |-> Observation(caller[c].value, status)])
     ELSE UNCHANGED <<managerFile, manager>>
  /\ UNCHANGED <<registryFile, registry>>

\* The process dies and both stores are opened again; a store that refuses its
\* file stays closed.
Reopen ==
  /\ RegistryOpens /\ ManagerOpens
  /\ registry' = LoadedRegistry
  /\ manager' = LoadedManager
  /\ caller' = [c \in Callers |-> Free]
  /\ UNCHANGED <<registryFile, managerFile>>

ServerStep ==
  \/ \E k \in Contracts : Register(k)
  \/ \E c \in Callers, k \in Contracts, s \in Schemas : Discover(c, k, s) \/ Revalidate(c, k, s)
  \/ \E c \in Callers : StoreDiscovery(c) \/ StartCheck(c)
  \/ \E b \in Bindings : Bind(b) \/ Rebind(b)
  \/ \E on \in BOOLEAN : SetEnabled(on)
  \/ \E s \in Schemas : \E granted \in SUBSET ToolsOf[s] : ApproveTools(s, granted)
  \/ \E c \in Callers, status \in Statuses : FinishCheck(c, status)

-----------------------------------------------------------------------------
\* View and EffectivePolicy: what a caller is told of the server, each under
\* one hold of the manager's mutex.

\* Only a health observation of the current binding counts.
Healthy ==
  /\ manager.binding # None /\ manager.health # None
  /\ manager.health.binding = manager.binding
  /\ manager.health.status = "healthy"

ApprovalCurrent ==
  manager.approval # None /\ manager.approval.schema = registry.schema

Ready(tool) ==
  /\ manager.binding # None /\ manager.enabled /\ Healthy
  /\ ApprovalCurrent /\ tool \in manager.approval.tools

\* Without a current approval no tool is granted.
GrantedTools == IF ApprovalCurrent THEN manager.approval.tools ELSE {}

-----------------------------------------------------------------------------
\* The files of the registry and of the manager can always be opened, and
\* opening them gives the memory that wrote them: every operation obeys the
\* rules load has for its event, also when two callers discover tools at once,
\* when a rebinding overtakes a health check and when an approval outlives the
\* binding it was given for.
Reopens ==
  /\ RegistryOpens /\ LoadedRegistry = registry
  /\ ManagerOpens /\ LoadedManager = manager
=============================================================================
