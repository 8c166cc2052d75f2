CONSTANTS
    MaxChars = 14
    MaxFiles = 2
    Sources <- MCSources
    EvidenceMax <- MCEvidenceMax
    OutputLimits <- MCLimits
    SnippetLimit = 2
    Drivers = {d1, d2}
    Versions = {v1, v2}
    Schemas = {s1}
    Answers <- MCAnswers
    MaxCompiles = 1
    MaxEvents = 2
    Known <- MCKnown
    Needed = {"text"}
    Lists <- MCLists
    Listings <- MCListings
SPECIFICATION Spec
SYMMETRY Perms
INVARIANTS
    RouteIsDeterministic
    StartsAreBacked
    StartedOnce
    CancelledStays
CHECK_DEADLOCK FALSE
