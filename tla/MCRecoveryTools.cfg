CONSTANTS
    Steps = {s1}
    Checks = {c1}
    Callers = {k1}
    Policies = {"forbidden", "idempotent"}
    Executions = {1}
    Resumable = {}
    MaxLines = 4
    MaxUpdates = 1
    MaxCrashes = 2
SPECIFICATION Spec
SYMMETRY Symmetry
INVARIANTS
    StoresAgree
PROPERTIES
    RepeatIsSilent
    InterruptedStaysBlocked
