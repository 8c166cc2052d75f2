CONSTANTS
    Executions = {e1}
    Callers = {k1, k2}
    Handles = {h1, h2}
    MaxResumes = 2
    MaxCrashes = 1
SPECIFICATION FairSpec
INVARIANTS
    StartedOnce
    DispositionIsBacked
PROPERTIES
    FinalIsFinal
    RunningEnds
CHECK_DEADLOCK FALSE
