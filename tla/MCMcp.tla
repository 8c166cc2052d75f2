--------------------------------- MODULE MCMcp ---------------------------------
\* Bounds for the model checker.
EXTENDS McpBridge, TLC

CONSTANTS s1, read

MCToolsOf == (s1 :> {read})

MCWordsIn == (read :> {"read"})

MCEntries ==
  {[scope |-> "own", name |-> "key", value |-> <<"a", "b">>],
   [scope |-> "other", name |-> "key", value |-> <<"a">>],
   [scope |-> "other", name |-> "token", value |-> <<"b", "c">>]}

SecretField == [AnyField EXCEPT !.reference = TRUE, !.required = TRUE]

MCFieldSamples ==
  {AnyField, SecretField, [AnyField EXCEPT !.sensitive = TRUE],
   [AnyField EXCEPT !.type = "string", !.max = 1], [AnyField EXCEPT !.allowed = {<<"a">>}]}

MCSchemaOf == (read :> [fields |-> ("f" :> AnyField @@ "g" :> [SecretField EXCEPT !.required = FALSE]), unknown |-> FALSE])

MCToolScopes == (read :> {"own"})

MCStrings == {<<"a">>}

\* A plain call, one with a secret, and one that hides a reference in a list.
MCArguments ==
  {("f" :> Text(<<"a">>)), ("g" :> Reference("own", "key")),
   ("f" :> [kind |-> "array", item |-> Reference("own", "key")])}

Perms == Permutations(Callers) \cup Permutations(Bindings) \cup Permutations(Executions)
=============================================================================
