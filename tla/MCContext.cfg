CONSTANTS
    MaxChars = 14
    MaxFiles = 2
    Sources <- MCSources
    EvidenceMax <- MCEvidenceMax
    OutputLimits <- MCLimits
    SnippetLimit = 2
    Drivers = {d1, d2}
    Versions = {v1, v2}
    Schemas = {s1}
    Answers <- MCAnswers
    MaxCompiles = 2
    MaxEvents = 2
SPECIFICATION ScoutSpec
SYMMETRY Perms
PROPERTIES
    PacketsAreAccounted
CHECK_DEADLOCK FALSE
