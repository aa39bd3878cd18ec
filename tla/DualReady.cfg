\* A check in flight while the repair or another writer ends.
SPECIFICATION Spec
CONSTANTS
    d1 = d1
    d2 = d2
    v1 = v1
    v2 = v2
    Doc = {d1, d2}
    Version = {v1, v2}
    Size <- MCSize
    Loop = loop
    Scanner = {}
    Ops = {"delete"}
    Analyze = FALSE
    BatchSize = 1
    RollbackFaults = FALSE
    BadDoc = {}
    MaxOps = 1
    MaxFaults = 0
    MaxCrashes = 0
    MaxOvertakes = 1
INVARIANTS
    ReadyMeansCountsAgree
CHECK_DEADLOCK FALSE
