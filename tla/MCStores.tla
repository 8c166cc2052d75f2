------------------------------- MODULE MCStores -------------------------------
\* Bounds for the model checker.
EXTENDS Stores

Event(op, id, val) == [op |-> op, id |-> id, val |-> val]

\* Two keys, one with two contents.
Keyed == {Event("save", 1, 1), Event("save", 1, 2), Event("save", 2, 1)}

\* The key is a digest of the content.
Digested == {Event("save", id, id) : id \in 1..2}

Started == {Event("start", 1, 1), Event("start", 1, 2), Event("start", 2, 1)}

MCAsks == [k \in Stores |->
    CASE k = "tasks" -> {Event(op, 1, 1) : op \in {"created", "status", "started", "completed"}}
      [] k = "ledger" -> Started \cup {Event("result", 1, 1), Event("result", 2, 2),
                                       Event("commit", 1, 1)}
      [] k = "runtime" -> Started \cup {Event("binding", 1, 1), Event("completed", 1, 1),
                                        Event("resume_required", 1, 1)}
      [] k = "handoffs" -> {Event("save", 1, 1), Event("save", 2, 1), Event("bind", 1, 1),
                            Event("bind", 1, 2), Event("cancel", 1, 1)}
      [] k = "collection" ->
         {Event(op, id, {}) : op \in {"collected", "reused"}, id \in 1..2}
           \cup {Event("assessed", 0, S) : S \in {{1}, {1, 2}}}
           \cup {Event("resolved", 2, {1, 2})}
           \cup {Event(op, 1, {1}) : op \in {"prepared", "committed"}}
           \cup {Event(op, 2, {1, 2}) : op \in {"prepared", "committed"}}
      [] k = "routes" -> Digested
      [] k = "packets" -> Digested \cup {Event("save", 3, 1)}
      [] OTHER -> Keyed]

Perms == Permutations(Handles)
===============================================================================
