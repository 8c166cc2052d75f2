CONSTANTS
    Callers = {s1, s2}
    Runners = {s1, s2}
    Streamers = {s2}
    KeyCount = 2
    ConsecutiveLimit = 2
    Observations <- MCObservations
    Usages <- MCUsages
    Responses <- MCResponses
    NoteCap = 3
    MaxTimeouts = 1
    MaxCalls = 3
    MaxPrompts = 2
    MaxTokens = 3
SPECIFICATION Spec
INVARIANTS
    CarriedOutOnce
    BlockedSpendingIsBounded
    PendingIsAwaited
    AnswerKeepsConfirmed
PROPERTIES
    ReplayIsEvidenced
CHECK_DEADLOCK FALSE
