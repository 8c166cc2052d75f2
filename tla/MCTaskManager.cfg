CONSTANTS
    Steps = {s1}
    Checks = {c1, c2}
    Callers = {k1, k2}
    Policies = {"forbidden", "idempotent"}
    MaxLines = 3
    MaxUpdates = 2
    MaxCrashes = 1
SPECIFICATION MSpec
SYMMETRY Symmetry
INVARIANTS
    ForbiddenRunsOnce
    WriteAhead
    CompletedStepHasJournal
PROPERTIES
    CompletionIsFinal
    CompletionNeedsEvidence
