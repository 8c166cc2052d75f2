CONSTANTS
    Kinds = {"tasks", "timeline", "ledger", "artifacts", "receipts", "runtime", "handoffs",
             "routes", "packets", "brain", "requests", "collection"}
    Asks <- MCAsks
    Handles = {i1, i2}
    MaxLines = 5
    MaxFaults = 2
SPECIFICATION StoreSpec
SYMMETRY Perms
INVARIANTS
    FailsClosed
    StaysOpenable
CHECK_DEADLOCK FALSE
