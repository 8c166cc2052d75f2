------------------------------ MODULE MCContext ------------------------------
\* Bounds for the model checker.
EXTENDS ContextScout

MCSources == <<[read |-> TRUE, counts |-> <<1, 0>>, excerpt |-> 2],
               [read |-> TRUE, counts |-> <<1, 7>>, excerpt |-> 3],
               [read |-> TRUE, counts |-> <<0, 0>>, excerpt |-> 1],
               [read |-> FALSE, counts |-> <<2, 0>>, excerpt |-> 1]>>

\* The output of a search is not cut, nor is that of a trace.
MCEvidenceMax == [t \in Tools |-> CASE t = "index" -> 3
                                   [] t = "architecture" -> 4
                                   [] OTHER -> 5]

MCLimits == <<3, 2, 1>>

MCAnswers == {Failed, [ok |-> TRUE, size |-> 5, symbols |-> 1, paths |-> {1, 3}]}

Perms == Permutations(Drivers) \cup Permutations(Versions)
=============================================================================
