----------------------------- MODULE McpArguments -----------------------------
(***************************************************************************)
(* The arguments of an MCP tool call: the schema policy of the bridge      *)
(* (internal/mcpbridge/schema.go) and the secret broker                    *)
(* (internal/secretbroker).  Arguments hold references to secrets; the     *)
(* bridge checks them before it journals the call, and the broker puts the *)
(* secrets in their place only at the adapter.                             *)
(*                                                                         *)
(* An argument is a leaf, or an object or an array around another one: the *)
(* code walks the items of a container one by one and treats them alike,   *)
(* so a container holds one item here, and containers nest twice.          *)
(***************************************************************************)
EXTENDS Integers, Sequences, SequencesExt

CONSTANTS
  Fields,      \* names of arguments
  Strings,     \* texts an argument may be, as sequences of letters
  Scopes,      \* scopes of secrets
  SecretNames, \* names of secrets
  Entries      \* what the broker was given: [scope, name, value], value a text

ASSUME ArgumentAssumption ==
  /\ \A s \in Strings : s # <<>>
  /\ IsFiniteSet(Entries)
  /\ \A e \in Entries :
       e.scope \in Scopes /\ e.name \in SecretNames /\ e.value \in Seq(STRING) \ {<<>>}
  /\ \A e, f \in Entries : e.scope = f.scope /\ e.name = f.name => e = f

-----------------------------------------------------------------------------
\* Arguments.

Text(s) == [kind |-> "string", text |-> s]

Number == [kind |-> "number"]

Reference(scope, name) == [kind |-> "reference", scope |-> scope, name |-> name]

\* An object with the reference's key in it that is not a reference.
Malformed == [kind |-> "malformed"]

Leaves ==
  {Text(s) : s \in Strings} \cup {Number, Malformed}
    \cup {Reference(scope, name) : scope \in Scopes, name \in SecretNames}

Around(values) == {[kind |-> k, item |-> v] : k \in {"object", "array"}, v \in values}

Values == Leaves \cup Around(Leaves) \cup Around(Around(Leaves))

ArgumentMaps == UNION {[fields -> Values] : fields \in SUBSET Fields}

IsContainer(v) == v.kind \in {"object", "array"}

\* Where the walk through a value ends.
Leaf(v) ==
  IF ~IsContainer(v) THEN v
  ELSE IF IsContainer(v.item) THEN v.item.item ELSE v.item

\* v with w where its leaf is.
WithLeaf(v, w) ==
  IF ~IsContainer(v) THEN w
  ELSE IF IsContainer(v.item) THEN [v EXCEPT !.item.item = w] ELSE [v EXCEPT !.item = w]

CollectReferences(args) ==
  {r \in {Leaf(args[f]) : f \in DOMAIN args} : r.kind = "reference"}

WellFormed(args) == \A f \in DOMAIN args : Leaf(args[f]).kind # "malformed"

-----------------------------------------------------------------------------
\* The schema policy.  A field has a type, may be required, may ask for a
\* secret reference, may be sensitive, and may bound its text.

AnyField ==
  [type |-> "any", required |-> FALSE, reference |-> FALSE, sensitive |-> FALSE,
   max |-> 0, allowed |-> {}]

MatchesType(v, type) == type \in {"any", v.kind}

BoundsText(v, p) ==
  /\ p.max > 0 => v.kind = "string" /\ Len(v.text) <= p.max
  /\ p.allowed # {} => v.kind = "string" /\ v.text \in p.allowed

\* Variant: the value of an ordinary field is not searched for references.
ValidateFieldOnTop(v, p) ==
  /\ v.kind # "malformed"
  /\ p.reference <=> v.kind = "reference"
  /\ ~p.reference => MatchesType(v, p.type) /\ BoundsText(v, p)

ValidateField(v, p) ==
  /\ Leaf(v).kind # "malformed"
  /\ IF p.reference THEN v.kind = "reference" ELSE Leaf(v).kind # "reference"
  /\ ~p.reference => MatchesType(v, p.type) /\ BoundsText(v, p)

\* A schema is [fields: policies by name, unknown: whether other fields may come].
ValidateToolArguments(schema, args) ==
  /\ \A f \in DOMAIN schema.fields :
       IF f \in DOMAIN args THEN ValidateField(args[f], schema.fields[f])
       ELSE ~schema.fields[f].required
  /\ schema.unknown \/ DOMAIN args \subseteq DOMAIN schema.fields

Hides(schema, f) ==
  f \in DOMAIN schema.fields /\ (schema.fields[f].sensitive \/ schema.fields[f].reference)

\* What the timeline shows of the arguments of a call that starts.
RedactedArguments(schema, args) ==
  [f \in DOMAIN args |-> IF Hides(schema, f) THEN [kind |-> "hidden"] ELSE args[f]]

-----------------------------------------------------------------------------
\* The broker.  scopes are those its policy grants to the tool.

Holds(r) == \E e \in Entries : e.scope = r.scope /\ e.name = r.name

SecretOf(r) == (CHOOSE e \in Entries : e.scope = r.scope /\ e.name = r.name).value

Authorized(scopes, r) == r.scope \in scopes /\ Holds(r)

PlanArguments(scopes, args) == \A r \in CollectReferences(args) : Authorized(scopes, r)

\* What the bridge asks before it journals a call.
Accepts(schema, scopes, args) ==
  ValidateToolArguments(schema, args) /\ WellFormed(args) /\ PlanArguments(scopes, args)

IsReference(v) == Leaf(v).kind = "reference"

\* Resolving asks again, at every reference it comes to.
Resolves(scopes, args) ==
  \A f \in DOMAIN args :
    /\ Leaf(args[f]).kind # "malformed"
    /\ IsReference(args[f]) => Authorized(scopes, Leaf(args[f]))

ResolveArguments(args) ==
  [f \in DOMAIN args |->
     IF IsReference(args[f]) THEN WithLeaf(args[f], Text(SecretOf(Leaf(args[f])))) ELSE args[f]]

SecretValues(args) == {SecretOf(r) : r \in CollectReferences(args)}

Marker == "[REDACTED_SECRET]"

StandsAt(s, text, i) == i + Len(s) - 1 <= Len(text) /\ SubSeq(text, i, i + Len(s) - 1) = s

Occurs(s, text) == \E i \in DOMAIN text : StandsAt(s, text, i)

Redacted(text, s) ==
  LET From[i \in 1..Len(text) + 1] ==
        IF i > Len(text) THEN <<>>
        ELSE IF StandsAt(s, text, i) THEN <<Marker>> \o From[i + Len(s)]
        ELSE <<text[i]>> \o From[i + 1]
  IN From[1]

\* Variant: the shortest secret goes first.
RedactTextShortFirst(text, secrets) ==
  FoldLeft(Redacted, text, SetToSortSeq(secrets, LAMBDA s, t : Len(s) < Len(t)))

LongestFirst(secrets) ==
  CHOOSE order \in [1..Cardinality(secrets) -> secrets] :
    /\ \A s \in secrets : \E n \in DOMAIN order : order[n] = s
    /\ \A m, n \in DOMAIN order : m < n => Len(order[m]) >= Len(order[n])

\* The longest secret goes first.
RedactText(text, secrets) ==
  LET order == LongestFirst(secrets)
      after[n \in 0..Cardinality(secrets)] ==
        IF n = 0 THEN text ELSE Redacted(after[n - 1], order[n])
  IN after[Cardinality(secrets)]

-----------------------------------------------------------------------------
\* Whatever preflight accepts, the broker can resolve later, from scopes the
\* tool is granted only, and into fields that ask for a secret or, under a schema
\* that allows other fields than its own, into these; what the timeline shows of
\* the schema's own fields has no sensitive value.
AcceptedIsSafe(schema, scopes, args) ==
  Accepts(schema, scopes, args) =>
    /\ Resolves(scopes, args)
    /\ \A f \in DOMAIN args :
         ResolveArguments(args)[f] # args[f] =>
           /\ Leaf(args[f]).scope \in scopes
           /\ IF f \in DOMAIN schema.fields THEN schema.fields[f].reference ELSE schema.unknown
    /\ \A f \in DOMAIN schema.fields \cap DOMAIN args :
         schema.fields[f].sensitive => RedactedArguments(schema, args)[f] # args[f]

\* An answer that repeats one of the secrets of a call, between other text,
\* keeps no letter of it, whatever the other secrets of that call are.
RedactsWhole(before, after, secrets) ==
  \A s \in secrets :
    LET text == RedactText(<<before>> \o s \o <<after>>, secrets)
    IN text = <<before, Marker, after>> /\ ~\E t \in secrets : Occurs(t, text)
=============================================================================
