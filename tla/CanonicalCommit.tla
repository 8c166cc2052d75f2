-------------------------- MODULE CanonicalCommit --------------------------
(***************************************************************************)
(* What the recovery coordinator promises about engine results             *)
(* (docs/PROOF_0.12_SPEC.md, items 5 and 6, "Exactly-once canonical result *)
(* rule"): a result that an engine produced enters the canonical session   *)
(* once, is never removed, and nothing else enters it.                     *)
(***************************************************************************)
EXTENDS Sequences, Naturals

CONSTANT Executions   \* every execution has at most one result

VARIABLES
    produced,  \* executions whose result is durable
    canon      \* the canonical session: the results it absorbed, in order

InCanon(e) == \E i \in DOMAIN canon : canon[i] = e

Produce(e) ==
    /\ produced' = produced \cup {e}
    /\ UNCHANGED canon

Commit(e) ==
    /\ e \in produced
    /\ ~InCanon(e)
    /\ canon' = Append(canon, e)
    /\ UNCHANGED produced

Init == produced = {} /\ canon = <<>>

Next == \E e \in Executions : Produce(e) \/ Commit(e)

Spec == Init /\ [][Next]_<<produced, canon>>
=============================================================================
