CONSTANTS
    Instances = {i1, i2, i3}
    StaleAfter = 1
    MaxTime = 4
SPECIFICATION Spec
SYMMETRY Symmetry
INVARIANTS
    LeaseIsExclusive
CHECK_DEADLOCK FALSE
