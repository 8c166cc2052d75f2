CONSTANTS
    Scopes = {"s1", "s2"}
    Executions <- MCExecutions
    Payloads = {"p", "q"}
    Requests <- MCRequests
    MaxFaults = 2
SPECIFICATION Spec
INVARIANTS
    ReceiptBindsDecision
PROPERTIES
    DecisionSpec
    PreparedGetsCommitted
CHECK_DEADLOCK FALSE
