------------------------------ MODULE MCHandoff ------------------------------
\* Bounds for the model checker.
EXTENDS Handoff

MCSources == <<[read |-> TRUE, counts |-> <<1, 0>>, excerpt |-> 2],
               [read |-> TRUE, counts |-> <<1, 7>>, excerpt |-> 3],
               [read |-> TRUE, counts |-> <<0, 0>>, excerpt |-> 1],
               [read |-> FALSE, counts |-> <<2, 0>>, excerpt |-> 1]>>

\* The output of a search is not cut, nor is that of a trace.
MCEvidenceMax == [t \in Tools |-> CASE t = "index" -> 3
                                   [] t = "architecture" -> 4
                                   [] OTHER -> 5]

MCLimits == <<3, 2, 1>>

MCAnswers == {[ok |-> TRUE, size |-> 5, symbols |-> 1, paths |-> {1, 3}]}

\* Two engines of equal score; the third is too weak for the task, the fourth
\* has no name.
MCKnown == <<[engine |-> 2, provider |-> 1, score |-> 5, caps |-> {"text"}],
             [engine |-> 1, provider |-> 2, score |-> 5, caps |-> {"text", "tools"}],
             [engine |-> 3, provider |-> 2, score |-> 9, caps |-> {"tools"}],
             [engine |-> 0, provider |-> 1, score |-> 9, caps |-> {"text"}]>>

Up(i)   == [id |-> i, fit |-> TRUE]
Down(i) == [id |-> i, fit |-> FALSE]

MCListings == <<<<Up(1), Up(2), Up(3), Up(4)>>, <<Up(2), Down(1)>>>>

\* Every list of up to three entries.
MCLists == UNION {[1..n -> [id : 1..4, fit : BOOLEAN]] : n \in 0..3}

Perms == Permutations(Drivers) \cup Permutations(Versions)
=============================================================================
