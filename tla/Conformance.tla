---------------------------- MODULE Conformance ----------------------------
(***************************************************************************)
(* internal/conformance: what was once observed of a provider, kept as     *)
(* evidence that is sealed and expires, decides whether a failure may be   *)
(* met with a replay, another key or a continuation.  It is all pure, but  *)
(* for a clock: evidence comes from captures (Normalize...), goes to a     *)
(* file and back (Save, Load), is added to a registry at one time and      *)
(* asked at a later one; a profile made of it classifies for the pool.     *)
(*                                                                         *)
(* Evidence is [id, identity, endpoint, from, until, complete, sealed,     *)
(* failures, body]: sealed is whether its content still gives the hash     *)
(* that it carries, complete stands for the fields that are only required  *)
(* to be there (provenance, request shape, usage semantics).  A bundle has *)
(* any number of failures, a fragment one, with the body of its response.  *)
(***************************************************************************)
EXTENDS KeyPool, SequencesExt

CONSTANT Observations   \* what evidence may say was observed, and its decision

Moments == 0..2
Phases  == {"pre_output", "mid_stream", "post_output", "unknown"}
\* Provider and base are compared without regard to case, the rest exactly:
\* "aero" and "Aero" are one identity, "aero-2" another revision.
Identities == {"aero", "Aero", "aero-2", ""}
Canonical(i) == IF i = "Aero" THEN "aero" ELSE i
SameIdentity(i, j) == Canonical(i) = Canonical(j)

PolicyDecisions == [class : Classes \ {"invalid_key", "key_rate_limited"},
                    replay : BOOLEAN, rotate : BOOLEAN, continue : BOOLEAN, input : {FALSE}]
Cautious == [class |-> "ambiguous", replay |-> FALSE, rotate |-> FALSE,
             continue |-> FALSE, input |-> TRUE]

ASSUME ConformanceAssumption ==
    Observations \subseteq [scenario : STRING, phase : STRING, status : Nat, code : STRING,
                            scope : STRING, transport : STRING, partial : BOOLEAN,
                            terminal : BOOLEAN, decision : PolicyDecisions \cup {Cautious}]

\* What comes first in s among the indices in which.
First(s, which) == s[CHOOSE i \in which : \A j \in which : i <= j]

\* validateDecision: what may be decided about an observation.
DecisionFits(o) ==
    LET d == o.decision
    IN  /\ ~(o.partial /\ d.replay)
        /\ CASE d.class \in KeyScoped ->
                  /\ o.scope = "key"
                  /\ o.phase = "pre_output" => d.rotate /\ d.replay
                  /\ o.phase # "pre_output" /\ o.partial => d.continue
             [] d.class = "provider_busy" -> o.scope = "provider" /\ ~d.rotate /\ ~d.replay
             [] d.class = "ambiguous"     -> ~d.rotate /\ ~d.replay /\ ~d.continue
             [] d.class = "non_retryable" -> ~d.rotate /\ ~d.replay
             [] OTHER                     -> FALSE

ValidObservation(o) ==
    /\ o.scenario # "" /\ o.phase \in Phases
    /\ o.status # 0 \/ o.transport # "" \/ o.code # ""
    /\ DecisionFits(o)

\* Variant: the hash of a bundle is not looked at.
ValidateBundleUnsealed(e, now) ==
    CASE e.id = "" \/ e.until <= e.from \/ e.identity = "" \/ ~e.complete -> "invalid"
      [] e.failures = <<>>
         \/ \E i \in DOMAIN e.failures : ~ValidObservation(e.failures[i])   -> "invalid"
      [] now >= e.until -> "expired"
      [] OTHER          -> "valid"

\* Validate of a bundle and of a fragment, whose checks come in this order.
ValidateBundle(e, now) ==
    CASE e.id = "" \/ e.until <= e.from \/ e.identity = "" \/ ~e.complete -> "invalid"
      [] \/ e.failures = <<>>
         \/ \E i \in DOMAIN e.failures : ~ValidObservation(e.failures[i])
         \/ \E i, j \in DOMAIN e.failures :
               i # j /\ e.failures[i].scenario = e.failures[j].scenario   -> "invalid"
      [] ~e.sealed      -> "tampered"
      [] now >= e.until -> "expired"
      [] OTHER          -> "valid"
ValidateFragment(e, now) ==
    CASE \/ e.id = "" \/ e.until <= e.from \/ e.identity = "" \/ ~e.complete
         \/ ~ValidObservation(e.failures[1]) \/ e.body = ""              -> "invalid"
      [] ~e.sealed      -> "tampered"
      [] now >= e.until -> "expired"
      [] OTHER          -> "valid"

-----------------------------------------------------------------------------
\* EvidenceRegistry.

AddBundle(registry, e, now) ==
    IF \/ ValidateBundle(e, now) # "valid"
       \/ \E r \in Range(registry) : r.id = e.id \/ SameIdentity(r.identity, e.identity)
    THEN registry ELSE Append(registry, e)

Decided(d, trusted, re, id) ==
    [class |-> d.class, replay |-> d.replay, rotate |-> d.rotate, continue |-> d.continue,
     input |-> d.input, trusted |-> trusted, revalidate |-> re, evidence |-> id]
Trusting(e, o)    == Decided(o.decision, TRUE, FALSE, e.id)
Conservative(re)  == Decided(Cautious, FALSE, re, "")
SameFailure(o, p) == \A f \in DOMAIN o \ {"scenario", "decision"} : o[f] = p[f]

\* Variant: evidence is checked when it is added, not when it is used.
DecideByBundleAdded(registry, identity, seen, now) ==
    LET here  == {i \in DOMAIN registry : SameIdentity(registry[i].identity, identity)}
        e     == First(registry, here)
        known == {i \in DOMAIN e.failures : SameFailure(e.failures[i], seen)}
    IN  IF here = {} \/ known = {} THEN Conservative(FALSE) ELSE Trusting(e, First(e.failures, known))

\* Decide: the bundle of the identity answers, if it is still valid, with
\* the first of its failures that is exactly the one observed.
DecideByBundle(registry, identity, seen, now) ==
    LET here  == {i \in DOMAIN registry : SameIdentity(registry[i].identity, identity)}
        e     == First(registry, here)
        known == {i \in DOMAIN e.failures : SameFailure(e.failures[i], seen)}
    IN  IF here = {} THEN Conservative(FALSE)
        ELSE IF ValidateBundle(e, now) # "valid" THEN Conservative(TRUE)
        ELSE IF known = {} THEN Conservative(FALSE)
        ELSE Trusting(e, First(e.failures, known))

-----------------------------------------------------------------------------
\* FragmentRegistry: any number of fragments of one identity and endpoint.

AddFragment(registry, e, now) ==
    IF ValidateFragment(e, now) # "valid" \/ \E r \in Range(registry) : r.id = e.id
    THEN registry ELSE Append(registry, e)

ExactResponse(e, answer) ==
    LET o == e.failures[1]
    IN  o.phase = answer.phase /\ o.status = answer.status /\ e.body = answer.body

\* Decide: the first valid fragment of this very response answers; else an
\* expired one of it, or an invalid one of this endpoint, asks to revalidate.
DecideByFragment(registry, identity, endpoint, answer, now) ==
    LET here  == {i \in DOMAIN registry : /\ SameIdentity(registry[i].identity, identity)
                                         /\ registry[i].endpoint = endpoint}
        exact == {i \in here : ExactResponse(registry[i], answer)}
        fresh == {i \in exact : ValidateFragment(registry[i], now) = "valid"}
    IN  IF answer.failed THEN Conservative(FALSE)
        ELSE IF fresh # {} THEN Trusting(First(registry, fresh), First(registry, fresh).failures[1])
        ELSE Conservative(
                \/ \E i \in exact : ValidateFragment(registry[i], now) = "expired"
                \/ \E i \in here : ValidateFragment(registry[i], now) \in {"invalid", "tampered"})

-----------------------------------------------------------------------------
\* ProviderProfile: the pool's classifier, made of a bundle that is valid
\* when it is made.

Rule(o) == [status |-> o.status, code |-> o.code, scope |-> o.scope, class |-> o.decision.class]
RuleFits(r) ==
    /\ r.status > 0 /\ r.code # "" /\ r.scope # ""
    /\ CASE r.class \in KeyScoped       -> r.scope = "key"
         [] r.class = "provider_busy"   -> r.scope = "provider"
         [] OTHER                       -> r.class = "ambiguous"

\* Variant: what was observed in the middle of a stream becomes a rule too.
RulesOfAnyPhase(e) ==
    LET usable(o) == /\ o.status > 0 /\ o.code # "" /\ o.scope # ""
                     /\ o.decision.class # "non_retryable"
    IN  [i \in {i \in DOMAIN e.failures : usable(e.failures[i])} |-> Rule(e.failures[i])]

\* ProviderProfile: the observations that become rules, each in its place.
Rules(e) ==
    LET usable(o) == /\ o.phase = "pre_output" /\ o.status > 0 /\ o.code # "" /\ o.scope # ""
                     /\ o.decision.class # "non_retryable"
    IN  [i \in {i \in DOMAIN e.failures : usable(e.failures[i])} |-> Rule(e.failures[i])]

Profiles(e, now) ==
    {rules \in {Rules(e)} : ValidateBundle(e, now) = "valid" /\ \A i \in DOMAIN rules : RuleFits(rules[i])}

\* ProviderProfile.Classify: the first rule that matches exactly, else the
\* classifier of the pool; no clock is asked.
ClassifyBy(rules, r) ==
    LET fit == {i \in DOMAIN rules : /\ rules[i].status = r.status
                                     /\ rules[i].code = r.code /\ rules[i].scope = r.scope}
    IN  IF r.failed \/ fit = {} \/ \E i \in DOMAIN rules : ~RuleFits(rules[i])
        THEN Classify(r) ELSE First(rules, fit).class

-----------------------------------------------------------------------------
\* Captures of a real provider.

\* RealProviderCapture.Validate and the demands of each normalizer; kind
\* stands for the kind of key and the body that each looks for.
Bounded(c) == c.valid /\ c.requests = 1 /\ c.retries = 0
Fragment(c, name, until, o) ==
    [id |-> name, identity |-> c.identity, endpoint |-> c.endpoint, from |-> c.at,
     until |-> until, complete |-> TRUE, sealed |-> TRUE, failures |-> <<o>>, body |-> c.body]
Before(code, scope, c, decision) ==
    [scenario |-> code, phase |-> "pre_output", status |-> c.status, code |-> code,
     scope |-> scope, transport |-> "", partial |-> FALSE, terminal |-> TRUE, decision |-> decision]
Admissible(fragment, c) == {f \in {fragment} : ValidateFragment(f, c.at) = "valid"}

NormalizeInvalidCredentialCapture(c, until) ==
    IF ~Bounded(c) \/ c.realKey \/ c.kind # "invalid_key" \/ c.status # 401 THEN {}
    ELSE Admissible(Fragment(c, "invalid-key", until,
            Before("invalid_token", "key", c,
                   [class |-> "invalid_key", replay |-> TRUE, rotate |-> TRUE,
                    continue |-> FALSE, input |-> FALSE])), c)

NormalizeUsageWindowLimitCapture(c, until) ==
    IF ~Bounded(c) \/ ~c.realKey \/ c.persisted \/ c.kind # "window_limit" \/ c.status # 402 THEN {}
    ELSE Admissible(Fragment(c, "usage-window", until,
            Before("included_usage_window_limit", "unknown", c, Cautious)), c)

\* PairedScopeCapture.Validate: a limited key and then another one, asked
\* the same; what a replacement that did not answer shows is kept apart.
ValidatePaired(c) ==
    /\ c.limited.valid /\ c.limited.status = 402 /\ c.limited.transport = ""
    /\ c.replacement.valid /\ c.sameShape /\ c.requests = 2 /\ c.retries = 0 /\ ~c.persisted
    /\ IF c.succeeded THEN c.replacement.status \in 200..299 /\ c.replacement.transport = ""
       ELSE c.replacement.status = 0 => c.replacement.transport # ""
TransportKind(transport) ==
    CASE transport = ""        -> "none"
      [] transport = "timeout" -> "timeout"
      [] OTHER                 -> "other_ambiguous_transport"
NormalizePairedScopeCapture(c) ==
    IF ~ValidatePaired(c) \/ c.succeeded \/ TransportKind(c.replacement.transport) = "none" THEN {}
    ELSE {[kind |-> TransportKind(c.replacement.transport), decision |-> Cautious]}
ValidatePairedEvidence(e) ==
    /\ e.decision.class = "ambiguous" /\ e.decision.input
    /\ ~e.decision.replay /\ ~e.decision.rotate /\ ~e.decision.continue

\* The stores: what is not valid is neither saved nor loaded, and the file
\* is replaced as a whole.  Later it may hold what was saved, or that with
\* something changed, its expiry say, and the hash that it had.
OnDisk(file) == file \cup {[e EXCEPT !.sealed = FALSE, !.until = 2] : e \in file}
SaveEvidence(file, e, now) == IF ValidateBundle(e, now) = "valid" THEN {e} ELSE file
LoadEvidence(file, now)    == {e \in file : ValidateBundle(e, now) = "valid"}
SaveFragment(file, e, now) == IF ValidateFragment(e, now) = "valid" THEN {e} ELSE file
LoadFragment(file, now)    == {e \in file : ValidateFragment(e, now) = "valid"}

-----------------------------------------------------------------------------
\* Optimizer.Apply, of a request: what is sent, and whether it was changed.
ApplyOptimizer(evidence, transform, mode, version, sent) ==
    IF /\ mode = "on" /\ evidence.version = version /\ evidence.dated
       /\ evidence.status = "verified" /\ evidence.correct /\ evidence.benefit
       /\ transform[sent] # "failed"
    THEN [sent |-> transform[sent], active |-> TRUE]
    ELSE [sent |-> sent, active |-> FALSE]

-----------------------------------------------------------------------------
\* What a caller may be handed, and what it may ask.

Known == [scenario |-> "known", phase |-> "pre_output", status |-> 429, code |-> "quota",
          scope |-> "provider", transport |-> "", partial |-> FALSE, terminal |-> TRUE,
          decision |-> [class |-> "provider_busy", replay |-> FALSE, rotate |-> FALSE,
                        continue |-> TRUE, input |-> FALSE]]
Evidence(id, identities, failures) ==
    [id : {id}, identity : identities, endpoint : {"messages"}, from : {0}, until : Moments,
     complete : {TRUE}, sealed : BOOLEAN, failures : failures, body : {"body", "other"}]
Bundles   == Evidence("b", {"aero"}, {<<>>} \cup {<<o>> : o \in Observations}
                                            \cup {<<Known, o>> : o \in Observations})
Fragments == Evidence("f", {"aero"}, {<<o>> : o \in {p \in Observations :
                      /\ p.phase = "pre_output" /\ ~p.partial /\ p.scope # "provider"
                      /\ p.decision.class \in {"key_exhausted", "ambiguous"}
                      /\ p.decision.rotate = p.decision.replay /\ ~p.decision.continue}})
Captures  == [valid : BOOLEAN, requests : {1, 2}, retries : {0, 1}, realKey : BOOLEAN,
              persisted : BOOLEAN, kind : {"invalid_key", "window_limit"}, status : {401, 402},
              identity : {"aero"}, endpoint : {"messages"}, body : {"body"}, at : {1}]
Pairs     == LET asked == [valid : BOOLEAN, status : {0, 200, 402}, transport : {"", "timeout"}]
             IN  [limited : asked, replacement : asked, sameShape : BOOLEAN, requests : {2, 3},
                  retries : {0}, persisted : BOOLEAN, succeeded : BOOLEAN]

\* A decision by evidence allows something only while the evidence is what
\* it was and not older than it may be, and for a failure that it holds.
Backed(d, e, now, fits) ==
    /\ d.replay \/ d.rotate \/ d.continue => d.trusted
    /\ ~d.trusted => d.input
    /\ d.trusted => e.sealed /\ now < e.until /\ fits.decision.class = d.class
    /\ d.replay => fits.scope = "key" /\ ~fits.partial
    /\ d.rotate => fits.scope = "key"

BundlesBack ==
    \A e \in Bundles : \A then \in Moments : \A now \in then..2 :
        LET disk == LoadEvidence(OnDisk(SaveEvidence({}, e, 0)), then)
        IN  \A registry \in {<<>>} \cup {AddBundle(<<>>, b, then) : b \in disk} :
            \A i \in DOMAIN e.failures :
                /\ ~DecideByBundle(registry, "aero-2", e.failures[i], now).trusted
                /\ \A seen \in {e.failures[i], [e.failures[i] EXCEPT !.terminal = ~@]} :
                      LET d == DecideByBundle(registry, "Aero", seen, now)
                      IN  \E o \in Range(e.failures) :
                              /\ Backed(d, e, now, o)
                              /\ d.trusted => [o EXCEPT !.scenario = "", !.decision = Cautious]
                                                = [seen EXCEPT !.scenario = "", !.decision = Cautious]

FragmentsBack ==
    \A e, other \in Fragments : \A now \in 1..2 :
        LET f        == [other EXCEPT !.id = "g"]
            disk     == LoadFragment(OnDisk(SaveFragment({}, f, 0)), 1)
            added    == AddFragment(<<>>, e, 0)
            answer   == [failed |-> FALSE, phase |-> e.failures[1].phase,
                         status |-> e.failures[1].status, body |-> e.body]
        IN  \A registry \in {added} \cup {AddFragment(added, x, 1) : x \in disk} :
                LET d    == DecideByFragment(registry, "aero", "messages", answer, now)
                    from == IF d.evidence = f.id THEN f ELSE e
                IN  /\ Backed(d, from, now, from.failures[1])
                    /\ d.trusted => ExactResponse(from, answer)
                    /\ ValidateFragment(e, 0) = "valid" /\ now < e.until => d.trusted

\* A profile is asked later than it was made: its rules are of evidence that was
\* valid then, and once this expired the registry of bundles would not say so any more.
ProfilesBack ==
    \A e \in Bundles : \A made \in Moments : \A rules \in Profiles(e, made) : \A asked \in made..2 :
        \A status \in {401, 429}, code \in {"quota", "busy"}, scope \in {"key", "provider"} :
            LET r == [failed |-> FALSE, status |-> status, code |-> code, scope |-> scope]
            IN  ClassifyBy(rules, r) \in KeyScoped \ {Classify(r)} =>
                    /\ e.sealed /\ made < e.until
                    /\ \E o \in Range(e.failures) :
                          /\ o.phase = "pre_output" /\ o.status = status /\ o.code = code
                          /\ o.scope = scope /\ scope = "key"
                          /\ o.decision.rotate /\ o.decision.replay /\ ~o.partial
                          /\ (DecideByBundle(<<e>>, e.identity, o, asked).rotate <=> asked < e.until)

CapturesBack ==
    /\ \A c \in Captures : \A until \in Moments :
          /\ \A f \in NormalizeInvalidCredentialCapture(c, until) :
                ~c.realKey /\ c.retries = 0 /\ ValidateFragment(f, c.at) = "valid"
          /\ \A f \in NormalizeUsageWindowLimitCapture(c, until) :
                ~Backed([Trusting(f, f.failures[1]) EXCEPT !.rotate = TRUE], f, c.at, f.failures[1])
    /\ \A c \in Pairs : \A e \in NormalizePairedScopeCapture(c) : ValidatePairedEvidence(e)

OptimizerBack ==
    \A status \in {"verified", "experimental", "blocked"} : \A correct, benefit, dated \in BOOLEAN :
        \A mode \in {"off", "on"} : \A answer \in {"sent", "shorter", "failed"} :
            LET evidence == [version |-> 1, dated |-> dated, status |-> status,
                             correct |-> correct, benefit |-> benefit]
                out(version) == ApplyOptimizer(evidence, [sent |-> answer], mode, version, "sent")
            IN  /\ ~out(2).active
                /\ out(1).sent \in {"sent", answer} \ {"failed"}
                /\ out(1).sent # "sent" => mode = "on" /\ correct /\ benefit /\ out(1).active

\* Somebody holds an answer that blames key k.
BlamesKey(k) ==
    \E c \in Callers : In(c, "answered") /\ request[c].index = k /\ request[c].class \in KeyScoped

\* Nothing is replayed, moved to another key or continued without evidence
\* that is sealed, has not expired, and says so of this very failure, with
\* a scope that is the key's and no output before it: by bundles and
\* fragments that come from a file, in which they may have been changed, whatever
\* else their registry holds.  The profile that the pool classifies with keeps to
\* such evidence but for its date: it must have been valid when the profile was
\* made, and the profile goes on when it has expired, which the registry does not
\* (PROOF_0.15_SPEC.md:24 asks all to stop).  A capture gives no more than
\* that, and no request is changed by an optimizer that is not proven; and
\* the pool takes no key out of use but for an answer that blames this key
\* (Decide, Validate, ProviderProfile, Classify, Normalize...).
ReplayIsEvidenced ==
    [][/\ BundlesBack /\ FragmentsBack /\ ProfilesBack /\ CapturesBack /\ OptimizerBack
       /\ \A k \in Keys : keyState[k] \in Usable /\ keyState'[k] \notin Usable => BlamesKey(k)]_poolVars
=============================================================================
