\* Two writers of one document beside the checks, the repair and a crash.
SPECIFICATION Spec
CONSTANTS
    d1 = d1
    d2 = d2
    v1 = v1
    v2 = v2
    Doc = {d1}
    Version = {v1, v2}
    Size <- MCSize
    Loop = loop
    Scanner = {s1}
    Ops = {"index", "delete", "purge"}
    Analyze = FALSE
    BatchSize = 1
    RollbackFaults = FALSE
    BadDoc = {}
    MaxOps = 2
    MaxFaults = 0
    MaxCrashes = 1
    MaxOvertakes = 0
INVARIANTS
    TypeOK
    SingleVersion
    MutationCountExact
    ReadyUnlessInvalidationMissed
CHECK_DEADLOCK FALSE
