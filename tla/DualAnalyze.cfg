\* The ANALYZE after an insert fails.
SPECIFICATION Spec
CONSTANTS
    d1 = d1
    d2 = d2
    v1 = v1
    v2 = v2
    Doc = {d1}
    Version = {v1}
    Size <- MCSize
    Loop = loop
    Scanner = {}
    Ops = {"index"}
    Analyze = TRUE
    BatchSize = 1
    RollbackFaults = FALSE
    BadDoc = {}
    MaxOps = 1
    MaxFaults = 1
    MaxCrashes = 0
    MaxOvertakes = 0
INVARIANTS
    AcknowledgedSurvives
CHECK_DEADLOCK FALSE
