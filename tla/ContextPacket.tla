---------------------------- MODULE ContextPacket ----------------------------
(***************************************************************************)
(* What contextcompiler.Compiler makes of the answers of a structural      *)
(* provider and of the project's files, and the check of a packet by       *)
(* contextscout.ValidateHygiene.  A text is its length, in units; every    *)
(* line a rendering adds around a text is one unit.                        *)
(***************************************************************************)
EXTENDS SequencesExt, Integers

CONSTANTS
    MaxChars,     \* character budget of a packet
    MaxFiles,     \* file budget of a packet
    Sources,      \* the source files, in the order of their paths
    EvidenceMax,  \* where callEvidence cuts an output, for each tool
    OutputLimits, \* the three limits outputs are compacted to
    SnippetLimit  \* the limit a snippet is cut to

\* Of a file: whether it is read (a large or binary one is not), how often
\* each keyword occurs, and the length of the excerpt around the first match.
ASSUME PacketAssumption ==
    /\ MaxChars \in Nat /\ MaxFiles \in Nat \ {0} /\ SnippetLimit \in Nat
    /\ Sources \in Seq([read : BOOLEAN, counts : Seq(Nat), excerpt : Nat])
    /\ OutputLimits \in [1..3 -> Nat]

Tools == {"index", "architecture", "search", "broad search", "trace"}

ASSUME EvidenceAssumption == EvidenceMax \in [Tools -> Nat]

\* What a provider answers: an error, or an output in which so many symbols
\* (extractSymbolNames asks for two at most) and these files are found.
Failed == [ok |-> FALSE, size |-> 0, symbols |-> 0, paths |-> {}]
Outputs == [ok : {TRUE}, size : Nat, symbols : 0..2, paths : SUBSET DOMAIN Sources]

CutTo(limit, size) == Min({limit, size})

\* callEvidence.
Receipt(tool, answer) ==
    [tool |-> tool, ok |-> answer.ok, size |-> CutTo(EvidenceMax[tool], answer.size)]

\* An output that was cut no longer parses, and nothing is found in it.
Found(call) == call.answer.ok /\ call.answer.size <= EvidenceMax[call.tool]

-----------------------------------------------------------------------------
\* Compile's calls: given the answers so far, in order, the tool called next.
\* A failed index ends them; a failed search is tried once more, broadly; the
\* symbols of the search that succeeded last are traced.

Count(answers, tool) == Cardinality({i \in DOMAIN answers : answers[i].tool = tool})

SymbolsFound(answers) ==
    LET searches == {i \in DOMAIN answers : answers[i].tool \in {"search", "broad search"}
                                             /\ Found(answers[i])}
    IN  IF searches = {} THEN 0 ELSE answers[Max(searches)].answer.symbols

NextTool(answers) ==
    LET n == Len(answers)
        retry == n = 3 /\ ~answers[3].answer.ok
    IN  CASE n = 0 -> "index"
          [] n = 1 -> IF answers[1].answer.ok THEN "architecture" ELSE "none"
          [] n = 2 -> "search"
          [] retry -> "broad search"
          [] n > 2 /\ ~retry ->
             IF Count(answers, "trace") < SymbolsFound(answers) THEN "trace" ELSE "none"

-----------------------------------------------------------------------------
\* A packet is what it holds of the receipts, of the snippets and how many
\* items it says it omits.

Sum(lengths) == FoldSeq(LAMBDA a, b : a + b, 0, lengths)

\* Packet.Render, as the length of its text: a heading for every receipt and
\* snippet, an error line for a failed call, and a last line when something
\* was omitted.
Rendered(p) ==
    Sum([i \in DOMAIN p.receipts |-> p.receipts[i].size + IF p.receipts[i].ok THEN 1 ELSE 2])
      + Sum([i \in DOMAIN p.snippets |-> p.snippets[i].size + 1])
      + IF p.omitted > 0 THEN 1 ELSE 0

Fits(p) == Rendered(p) <= MaxChars

\* How relevant scoutSource finds a file: what the provider named, but for
\* the index, weighs more than any one keyword.
Relevance(f, calls) ==
    8 * Cardinality({i \in DOMAIN calls : calls[i].tool # "index" /\ Found(calls[i])
                                           /\ f \in calls[i].answer.paths})
      + Sum([k \in DOMAIN Sources[f].counts |-> CutTo(5, Sources[f].counts[k])])

\* The relevant files, the best first: the place of one is how many go before it.
Ranked(calls) ==
    LET matches == {m \in {<<Relevance(f, calls), f>> : f \in DOMAIN Sources} :
                        m[1] > 0 /\ Sources[m[2]].read}
        before(m) == {n \in matches : n[1] > m[1] \/ (n[1] = m[1] /\ n[2] < m[2])}
    IN  [i \in 1..Cardinality(matches) |->
            (CHOOSE m \in matches : Cardinality(before(m)) = i - 1)[2]]

Snippet(f) == [file |-> f, size |-> Sources[f].excerpt]

\* The best files are excerpted, the rest is counted.
Scouted(calls) ==
    LET ranked == Ranked(calls)
        n == Min({MaxFiles, Len(ranked)})
    IN  [receipts |-> [i \in DOMAIN calls |-> Receipt(calls[i].tool, calls[i].answer)],
         snippets |-> [i \in 1..n |-> Snippet(ranked[i])],
         omitted |-> Len(ranked) - n]

Shortened(text, limit) == [text EXCEPT !.size = CutTo(limit, @)]

\* compactStructuralOutputs.
Compact(p, limit) ==
    [p EXCEPT !.receipts = [i \in DOMAIN p.receipts |-> Shortened(p.receipts[i], limit)]]

KeepFirst(p, k) ==
    [p EXCEPT !.snippets = SubSeq(@, 1, k), !.omitted = @ + Len(p.snippets) - k]

\* Snippets are dropped from the end while the packet is too long and more
\* than "least" are left.
DropTo(p, least) ==
    LET n == Len(p.snippets)
        enough == {k \in least..n : Fits(KeepFirst(p, k))}
    IN  IF n <= least THEN p
        ELSE KeepFirst(p, IF enough = {} THEN least ELSE Max(enough))

CutFirst(p, k) ==
    [p EXCEPT !.snippets = [i \in DOMAIN p.snippets |->
        IF i <= k THEN Shortened(p.snippets[i], SnippetLimit) ELSE p.snippets[i]]]

\* Snippets are cut from the front while the packet is too long.
CutSnippets(p) ==
    CutFirst(p, Min({k \in 0..Len(p.snippets) : Fits(CutFirst(p, k))} \cup {Len(p.snippets)}))

Unless(p, smaller) == IF Fits(p) THEN p ELSE smaller

\* Variant: receipts of failed calls make room first.
TrimFailures(p) ==
    CutSnippets(DropTo([p EXCEPT !.receipts = SelectSeq(@, LAMBDA r : r.ok)], 1))

\* trimToBudget.
Trim(p) ==
    LET p1 == CutSnippets(DropTo(Compact(p, OutputLimits[1]), 2))
        p2 == Unless(p1, Compact(p1, OutputLimits[2]))
        p3 == Unless(p2, Compact(p2, OutputLimits[3]))
    IN  DropTo(p3, 1)

\* The end of Compile.
Compiled(calls) == LET p == Scouted(calls) IN Unless(p, Trim(p))

\* ValidateHygiene, but for the forbidden values and the paths: the budgets,
\* and a receipt at least.
Hygienic(p) == Fits(p) /\ Len(p.snippets) <= MaxFiles /\ p.receipts # <<>>

-----------------------------------------------------------------------------
\* The least that trimming may leave of a packet.
Floor(p) == Compact(CutFirst(KeepFirst(p, Min({1, Len(p.snippets)})), 1), OutputLimits[3])

\* Whatever Compile drops to meet the budget, it says so, in a packet made of
\* these calls: every call is still receipted with its outcome, every file
\* that matched is excerpted or counted, the best ones first; and the budget
\* is missed only where not even the least packet meets it.
Accounts(p, calls) ==
    LET ranked == Ranked(calls)
    IN  /\ Len(p.receipts) = Len(calls)
        /\ \A i \in DOMAIN calls :
              /\ p.receipts[i].tool = calls[i].tool /\ p.receipts[i].ok = calls[i].answer.ok
              /\ p.receipts[i].size <= calls[i].answer.size
        /\ Len(p.snippets) + p.omitted = Len(ranked)
        /\ \A i \in DOMAIN p.snippets : p.snippets[i].file = ranked[i]
        /\ Fits(p) \/ ~Fits(Floor(Scouted(calls)))
=============================================================================
