CONSTANTS
    Steps = {}
    Checks = {c1}
    Callers = {}
    Policies = {"forbidden"}
    Executions = {1, 2}
    Resumable = {2}
    MaxLines = 0
    MaxUpdates = 1
    MaxCrashes = 2
SPECIFICATION FairSpec
INVARIANTS
    CommittedExactlyOnce
    OneCommitDecision
PROPERTIES
    CanonicalSpec
    ResultsGetCommitted
