\* Two writers replace one document; nothing fails.
SPECIFICATION Spec
CONSTANTS
    d1 = d1
    d2 = d2
    v1 = v1
    v2 = v2
    Doc = {d1}
    Version = {v1, v2}
    Size <- MCSize
    Loop = loop
    Scanner = {s1}
    Ops = {"index"}
    Analyze = FALSE
    BatchSize = 1
    RollbackFaults = FALSE
    BadDoc = {}
    MaxOps = 2
    MaxFaults = 0
    MaxCrashes = 0
    MaxOvertakes = 0
INVARIANTS
    NoDocumentLost
CHECK_DEADLOCK FALSE
