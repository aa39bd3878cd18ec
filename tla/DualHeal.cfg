\* The repair, with a document LanceDB cannot store, and one fault anywhere.
SPECIFICATION FairSpec
CONSTANTS
    d1 = d1
    d2 = d2
    v1 = v1
    v2 = v2
    Doc = {d1, d2}
    Version = {v2}
    Size <- MCSize
    Loop = loop
    Scanner = {}
    Ops = {"index", "delete", "restore", "purge"}
    Analyze = TRUE
    BatchSize = 1
    RollbackFaults = TRUE
    BadDoc = {d2}
    MaxOps = 1
    MaxFaults = 1
    MaxCrashes = 0
    MaxOvertakes = 1
INVARIANTS
    CleanRepairIsExact
PROPERTIES
    Settles
CHECK_DEADLOCK FALSE
