------------------------------- MODULE Routing -------------------------------
(***************************************************************************)
(* The routing package: the deterministic choice of an engine among the    *)
(* candidates a resolver lists, the check of a plan against what is listed *)
(* now, and the plan by which a response continues on another route.       *)
(*                                                                         *)
(* Known are the candidates there are; what changes is the order in which  *)
(* they are listed, which of them are listed, and which are available and  *)
(* healthy.  Ids are numbers, for their order; the number of a candidate   *)
(* stands for its digest.                                                  *)
(***************************************************************************)
EXTENDS SequencesExt, Integers

CONSTANTS
    Known,   \* the candidates: engine, provider, score and capabilities
    Needed,  \* capabilities a task requires
    Lists    \* lists of candidates that Select is checked on

ASSUME RoutingAssumption ==
    Known \in Seq([engine : Nat, provider : Nat, score : Int, caps : SUBSET STRING])

\* A listed candidate is the number of a known one and its condition.
Entries == [id : 1..Len(Known), fit : BOOLEAN]

ASSUME ListsAssumption == Lists \subseteq Seq(Entries)

NoPlan == [engine |-> 0, provider |-> 0, score |-> 0, listed |-> <<>>, excluded |-> {}]

Engine(c)   == Known[c.id].engine
Provider(c) == Known[c.id].provider
Score(c)    == Known[c.id].score

-----------------------------------------------------------------------------
\* Select.

\* A candidate without an engine or a provider is skipped.
Named(c) == Engine(c) # 0 /\ Provider(c) # 0

\* The order of the candidate set: by engine, provider and digest.
Before(a, b) ==
    \/ Engine(a) < Engine(b)
    \/ Engine(a) = Engine(b) /\ Provider(a) < Provider(b)
    \/ /\ Engine(a) = Engine(b) /\ Provider(a) = Provider(b)
       /\ a.id < b.id \/ (a.id = b.id /\ ~a.fit /\ b.fit)

NamedAt(list) == {i \in DOMAIN list : Named(list[i])}

Candidates(list) == {list[i] : i \in NamedAt(list)}

\* The named ones in order, by places: how many go before a candidate, and how
\* many there are up to it.
Normalized(list) ==
    LET named      == NamedAt(list)
        earlier(c) == Cardinality({i \in named : Before(list[i], c)})
        upTo(c)    == Cardinality({i \in named : ~Before(c, list[i])})
    IN  [p \in 1..Cardinality(named) |->
            CHOOSE c \in Candidates(list) : earlier(c) < p /\ p <= upTo(c)]

Qualifies(c, excluded) ==
    c.fit /\ Needed \subseteq Known[c.id].caps /\ Engine(c) \notin excluded

Qualified(list, excluded) == {c \in Candidates(list) : Qualifies(c, excluded)}

\* The order of preference.
Better(a, b) ==
    \/ Score(a) > Score(b)
    \/ Score(a) = Score(b) /\ Engine(a) < Engine(b)
    \/ Score(a) = Score(b) /\ Engine(a) = Engine(b) /\ Provider(a) < Provider(b)

\* A stable sort leaves equals in the order they had.
Ahead(a, b) == Better(a, b) \/ (~Better(b, a) /\ Before(a, b))

\* The first of the sorted ones.
Foremost(qualified) == CHOOSE c \in qualified : \A d \in qualified \ {c} : Ahead(c, d)

PlanOf(c, set, excluded) ==
    [engine |-> Engine(c), provider |-> Provider(c), score |-> Score(c), listed |-> set,
     excluded |-> excluded]

\* Variant: the candidate set is identified as it was listed.
SelectAsListed(list, excluded) ==
    LET qualified == Qualified(list, excluded)
    IN  IF qualified = {} THEN NoPlan ELSE PlanOf(Foremost(qualified), list, excluded)

\* A plan holds the whole candidate set by its digest, so it goes stale when
\* any candidate changes.
Select(list, excluded) ==
    LET qualified == Qualified(list, excluded)
    IN  IF qualified = {} THEN NoPlan
        ELSE PlanOf(Foremost(qualified), Normalized(list), excluded)

\* Validate selects again.
Valid(plan, list) == plan # NoPlan /\ plan = Select(list, plan.excluded)

-----------------------------------------------------------------------------
\* PlanContinuation.

Failures == {"key_exhausted", "provider_busy", "ambiguous_transport", "engine_interrupted"}

Continues(failure, from, to) ==
    /\ from # NoPlan /\ to # NoPlan
    /\ failure \in Failures
    /\ from # to /\ from.engine # to.engine
    /\ failure = "provider_busy" => from.provider # to.provider

-----------------------------------------------------------------------------
\* The lists for which the order of the list matters, or a plan is not valid
\* against what it was made from, or a fit candidate has a better score.
Misrouted == {list \in Lists :
    LET plan == Select(list, {})
        fit == Qualified(list, {})
    IN  \/ \E order \in Bijection(DOMAIN list, DOMAIN list) :
              LET other == [i \in DOMAIN list |-> list[order[i]]]
              IN  Select(other, {}) # plan \/ (plan # NoPlan /\ ~Valid(plan, other))
        \/ (plan = NoPlan) # (fit = {})
        \/ \E c \in fit : Score(c) > plan.score}
=============================================================================
