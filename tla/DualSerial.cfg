\* One writer at a time, and any two faults outside a rollback.
SPECIFICATION Spec
CONSTANTS
    d1 = d1
    d2 = d2
    v1 = v1
    v2 = v2
    Doc = {d1}
    Version = {v1, v2}
    Size <- MCSize
    Loop = loop
    Scanner = {}
    Ops = {"index", "delete", "restore"}
    Analyze = FALSE
    BatchSize = 1
    RollbackFaults = FALSE
    BadDoc = {}
    MaxOps = 2
    MaxFaults = 2
    MaxCrashes = 0
    MaxOvertakes = 0
INVARIANTS
    AcknowledgedSurvives
PROPERTIES
    ImplementsDocumentStore
CHECK_DEADLOCK FALSE
