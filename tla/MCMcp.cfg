CONSTANTS
    None = None
    Contracts = {k1}
    Bindings = {b1, b2}
    s1 = s1
    Schemas = {s1}
    read = read
    Tools = {read}
    ToolsOf <- MCToolsOf
    Callers = {c1, c2}
    MaxEvents = 5
    Executions = {e1, e2}
    Operations = {o1}
    WordsIn <- MCWordsIn
    Profile = 1
    Arguments <- MCArguments
    SchemaOf <- MCSchemaOf
    ToolScopes <- MCToolScopes
    FieldSamples <- MCFieldSamples
    Fields = {"f", "g"}
    Strings <- MCStrings
    Scopes = {"own", "other"}
    SecretNames = {"key", "token"}
    Entries <- MCEntries
    MaxSends = 2
SPECIFICATION Spec
SYMMETRY Perms
INVARIANTS
    Reopens
    ForbiddenSentOnce
    SecretsStayInside
CHECK_DEADLOCK FALSE
