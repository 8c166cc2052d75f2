------------------------------ MODULE KeyPool ------------------------------
(***************************************************************************)
(* pool.Pool with costguard.Guard and a provider behind                    *)
(* providerhttp.Client: goroutines execute requests on one pool of keys.   *)
(* Execute asks the guard, then walks over the keys: it selects a key      *)
(* under the pool's lock, sends the request without it, and applies what   *)
(* came back under the lock again.                                         *)
(*                                                                         *)
(* A response is what the classifier looks at: whether the transport       *)
(* failed, the status, and the error's code and scope.                     *)
(***************************************************************************)
EXTENDS Sequences, Naturals, FiniteSets

CONSTANTS
    Callers,          \* goroutines that call Execute
    KeyCount,         \* number of keys of the pool
    ConsecutiveLimit, \* costguard.Config
    Usages,           \* usages a provider reports
    Responses         \* responses a provider may give

LargeWriteMin   == 1
ExtremeWriteMin == 2
LowReadMax      == 0

ASSUME PoolAssumption ==
    /\ IsFiniteSet(Callers)
    /\ KeyCount \in Nat \ {0}
    /\ ConsecutiveLimit \in Nat \ {0}
    /\ Usages \subseteq [write : Nat, read : Nat]
    /\ Responses \subseteq [failed : BOOLEAN, status : Nat, code : STRING, scope : STRING]

VARIABLES
    keyState,  \* state of each key
    activeAt,  \* index of the key that last succeeded, 0 for none
    guard,     \* the guard: its counter and whether it blocks
    observed,  \* history: the usages the guard was told before it blocked
    passed,    \* history: requests that were under way when the guard blocked
    late,      \* history: successes that the guard was told after it blocked
    request    \* where each caller is in Execute, and what it asked so far

poolVars == <<keyState, activeAt, guard, observed, passed, late, request>>

Keys == 1..KeyCount
KeyStates == {"ready", "active", "exhausted", "invalid", "cooling_down"}
Usable == {"ready", "active"}

Classes == {"none", "key_exhausted", "invalid_key", "key_rate_limited",
            "provider_busy", "ambiguous", "non_retryable"}
KeyScoped == {"key_exhausted", "invalid_key", "key_rate_limited"}

NoUsage == [write |-> 0, read |-> 0]
NoRequest == [phase |-> "idle", index |-> 0, class |-> "none", usage |-> NoUsage,
              asked |-> <<>>, outcome |-> "none"]
Outcomes == {"none", "ok", "unavailable", "busy", "ambiguous", "blocked", "error"}
Requests == [phase : {"idle", "select", "sent", "answered", "observe", "done"},
             index : 0..KeyCount, class : Classes, usage : Usages \cup {NoUsage},
             asked : Seq([key : Keys, class : Classes]), outcome : Outcomes]

-----------------------------------------------------------------------------
\* classifyConservatively: only exact evidence of the right scope is a
\* matter of the key.
Classify(r) ==
    CASE r.failed -> "ambiguous"
      [] ~r.failed /\ r.status \in 200..299 -> "none"
      [] ~r.failed /\ r.status \notin 200..299 ->
         CASE r.code = "insufficient_balance" /\ r.scope # "provider" -> "key_exhausted"
           [] r.code = "invalid_key" /\ r.scope # "provider"          -> "invalid_key"
           [] r.code = "key_cooldown" /\ r.scope # "provider"         -> "key_rate_limited"
           [] r.code = "global_busy" /\ r.scope # "key"               -> "provider_busy"
           [] OTHER -> CASE r.status \in {429, 502, 504} -> "ambiguous"
                         [] r.status \in {503, 529}      -> "provider_busy"
                         [] OTHER                        -> "non_retryable"

-----------------------------------------------------------------------------
\* costguard.Guard.

LargeMiss(u) == u.write >= LargeWriteMin /\ u.read <= LowReadMax
Extreme(u)   == u.write >= ExtremeWriteMin /\ u.read <= LowReadMax

\* Variant: a large write counts although the request read the cache.
ObserveAnyRead(g, u) ==
    IF g.blocked \/ Extreme(u)
    THEN [g EXCEPT !.blocked = TRUE]
    ELSE LET n == IF u.write >= LargeWriteMin THEN g.consecutive + 1 ELSE 0
         IN  [consecutive |-> n, blocked |-> n >= ConsecutiveLimit]

\* Guard.Observe: an extreme write blocks at once, large misses in a row
\* block at the limit, and nothing ever unblocks.
Observe(g, u) ==
    IF g.blocked \/ Extreme(u)
    THEN [g EXCEPT !.blocked = TRUE]
    ELSE LET n == IF LargeMiss(u) THEN g.consecutive + 1 ELSE 0
         IN  [consecutive |-> n, blocked |-> n >= ConsecutiveLimit]

-----------------------------------------------------------------------------
\* Pool.Execute.

In(c, phase) == request[c].phase = phase
Finish(c, outcome) ==
    request' = [request EXCEPT ![c] = [NoRequest EXCEPT !.phase = "done", !.outcome = outcome,
                                                        !.asked = request[c].asked]]

\* setState: no other key stays active, whatever the new state of this one.
SetState(k, state) ==
    /\ keyState' = [i \in Keys |-> IF i = k THEN state
                                   ELSE IF keyState[i] = "active" THEN "ready" ELSE keyState[i]]
    /\ activeAt' = IF state = "active" THEN k ELSE activeAt

\* Variant: the guard is not asked.
AdmitUnguarded(c) ==
    /\ In(c, "idle")
    /\ request' = [request EXCEPT ![c].phase = "select"]
    /\ UNCHANGED <<keyState, activeAt, guard, observed, passed, late>>

\* Execute begins with the guard's answer.
Admit(c) ==
    /\ In(c, "idle")
    /\ IF guard.blocked THEN Finish(c, "blocked")
                        ELSE request' = [request EXCEPT ![c].phase = "select"]
    /\ UNCHANGED <<keyState, activeAt, guard, observed, passed, late>>

\* selectUsableFrom the index after the last key asked, and the send.
Select(c) ==
    LET usable == {k \in Keys : k > request[c].index /\ keyState[k] \in Usable}
    IN  /\ In(c, "select")
        /\ IF usable = {} THEN Finish(c, "unavailable")
           ELSE request' = [request EXCEPT ![c].phase = "sent",
                              ![c].index = CHOOSE k \in usable : \A j \in usable : k <= j]
        /\ UNCHANGED <<keyState, activeAt, guard, observed, passed, late>>

\* Client.Do returns, with a body that could not be decoded as an envelope if
\* "decodes" is false.
Answer(c, r, u, decodes) ==
    LET class == IF Classify(r) = "none" /\ ~decodes THEN "ambiguous" ELSE Classify(r)
    IN  /\ In(c, "sent")
        /\ request' = [request EXCEPT ![c].phase = "answered", ![c].class = class,
                         ![c].usage = IF class = "none" THEN u ELSE NoUsage,
                         ![c].asked = Append(@, [key |-> request[c].index, class |-> class])]
        /\ UNCHANGED <<keyState, activeAt, guard, observed, passed, late>>

StateFor(class) == CASE class = "none"             -> "active"
                     [] class = "key_exhausted"    -> "exhausted"
                     [] class = "invalid_key"      -> "invalid"
                     [] class = "key_rate_limited" -> "cooling_down"

\* Variant: an outcome nobody knows is tried again with the next key.
ApplyRotating(c) ==
    LET r == request[c]
    IN  /\ In(c, "answered")
        /\ IF r.class \in KeyScoped \cup {"none"}
           THEN SetState(r.index, StateFor(r.class))
           ELSE UNCHANGED <<keyState, activeAt>>
        /\ request' = [request EXCEPT ![c].phase = IF r.class = "none" THEN "observe" ELSE "select"]
        /\ UNCHANGED <<guard, observed, passed, late>>

\* What Execute does with the class: only key-scoped evidence moves it on to
\* the next key.
Apply(c) ==
    LET r == request[c]
    IN  /\ In(c, "answered")
        /\ IF r.class \in KeyScoped \cup {"none"}
           THEN /\ SetState(r.index, StateFor(r.class))
                /\ request' = [request EXCEPT
                                 ![c].phase = IF r.class = "none" THEN "observe" ELSE "select"]
           ELSE /\ Finish(c, CASE r.class = "provider_busy" -> "busy"
                               [] r.class = "ambiguous"     -> "ambiguous"
                               [] r.class = "non_retryable" -> "error")
                /\ UNCHANGED <<keyState, activeAt>>
        /\ UNCHANGED <<guard, observed, passed, late>>

\* The guard is told the usage, and Execute returns the result.
ObserveUsage(c) ==
    /\ In(c, "observe")
    /\ guard' = Observe(guard, request[c].usage)
    /\ IF guard.blocked
       THEN late' = late + 1 /\ UNCHANGED <<observed, passed>>
       ELSE /\ observed' = Append(observed, request[c].usage)
            /\ passed' = Cardinality({d \in Callers \ {c} : ~In(d, "idle") /\ ~In(d, "done")})
            /\ UNCHANGED late
    /\ Finish(c, "ok")
    /\ UNCHANGED <<keyState, activeAt>>

\* The caller takes the outcome and may execute another request later.
Take(c, outcome) ==
    /\ In(c, "done") /\ request[c].outcome = outcome
    /\ request' = [request EXCEPT ![c] = NoRequest]
    /\ UNCHANGED <<keyState, activeAt, guard, observed, passed, late>>

Execute(c) ==
    \/ Select(c) \/ Apply(c) \/ ObserveUsage(c)
    \/ \E r \in Responses, u \in Usages, decodes \in BOOLEAN : Answer(c, r, u, decodes)

PoolInit ==
    /\ keyState = [k \in Keys |-> "ready"]
    /\ activeAt = 0
    /\ guard = [consecutive |-> 0, blocked |-> FALSE]
    /\ observed = <<>>
    /\ passed = 0 /\ late = 0
    /\ request = [c \in Callers |-> NoRequest]

-----------------------------------------------------------------------------
PoolTypeOK ==
    /\ keyState \in [Keys -> KeyStates]
    /\ activeAt \in 0..KeyCount
    /\ guard \in [consecutive : Nat, blocked : BOOLEAN]
    /\ late \in Nat /\ passed \in 0..Cardinality(Callers)
    /\ request \in [Callers -> Requests]

\* The guard blocks exactly when the usages it was told, in the order in
\* which concurrent requests told them, contain an extreme write without a
\* cache hit or ConsecutiveLimit large misses in a row.
GuardFollowsUsages ==
    guard.blocked <=>
        \E i \in DOMAIN observed :
            \/ Extreme(observed[i])
            \/ /\ i >= ConsecutiveLimit
               /\ \A j \in (i - ConsecutiveLimit + 1)..i : LargeMiss(observed[j])

\* However requests overlap, the guard blocks when it should, and after it does
\* money is spent only by requests that were already under way: no more
\* successes follow than there were such requests (Guard.Observe; Execute asks
\* the guard before a request and tells it after).
BlockedSpendingIsBounded == GuardFollowsUsages /\ (guard.blocked => late <= passed)
=============================================================================
