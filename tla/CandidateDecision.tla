------------------------- MODULE CandidateDecision -------------------------
(***************************************************************************)
(* What candidate collection promises (docs/PROOF_0.31_RECONSTRUCTED_SPEC: *)
(* results enter the canonical session only through a decision; majority   *)
(* agreement never establishes truth over conflicting evidence): for every *)
(* scope, a task and a handoff package, one candidate is decided on, while *)
(* the set of candidates is open, by the agreement of all of them or by a  *)
(* review of exactly that set; from then on the set is closed, and only    *)
(* the result decided on becomes canonical, once.                          *)
(***************************************************************************)
EXTENDS Sequences, Naturals

CONSTANTS
    Scopes,
    Candidates,  \* records with exec, scope and verified
    Undecided

VARIABLES
    payload,  \* what each execution produced
    offered,  \* candidates collected so far
    reviews,  \* reviews: a set of candidates and the choice made among them
    decided,  \* the candidate decided on in each scope
    canon     \* executions whose result is canonical

vars == <<payload, offered, reviews, decided, canon>>

Of(s)      == {c \in offered : c.scope = s}
Agree(C)   == \A c, d \in C : c.verified /\ payload[c.exec] = payload[d.exec]
Reviewed(C, c) == [set |-> C, choice |-> c] \in reviews

Offer(c) ==
    /\ decided[c.scope] = Undecided
    /\ offered' = offered \cup {c}
    /\ UNCHANGED <<payload, reviews, decided, canon>>

Review(s, c) ==
    /\ decided[s] = Undecided
    /\ c \in Of(s)
    /\ \A r \in reviews : r.set # Of(s)
    /\ reviews' = reviews \cup {[set |-> Of(s), choice |-> c]}
    /\ UNCHANGED <<payload, offered, decided, canon>>

Decide(s, c) ==
    /\ decided[s] = Undecided
    /\ c \in Of(s)
    /\ Agree(Of(s)) \/ Reviewed(Of(s), c)
    /\ decided' = [decided EXCEPT ![s] = c]
    /\ UNCHANGED <<payload, offered, reviews, canon>>

Canonize(s) ==
    /\ decided[s] # Undecided
    /\ \A i \in DOMAIN canon : canon[i] # decided[s].exec
    /\ canon' = Append(canon, decided[s].exec)
    /\ UNCHANGED <<payload, offered, reviews, decided>>

Init ==
    /\ offered = {} /\ reviews = {} /\ canon = <<>>
    /\ decided = [s \in Scopes |-> Undecided]

Next ==
    \/ \E c \in Candidates : Offer(c)
    \/ \E s \in Scopes, c \in Candidates : Review(s, c) \/ Decide(s, c)
    \/ \E s \in Scopes : Canonize(s)

Spec == Init /\ [][Next]_vars
=============================================================================
