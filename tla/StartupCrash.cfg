\* Starts with clients beside them, crashes, failed steps and a lost volume.
SPECIFICATION Spec
CONSTANTS
    Doc = {d1, d2}
    Head = 2
    KeepMigrate = 2
    KeepStartup = 1
    MaxOps = 2
    MaxFaults = 1
    MaxBoots = 3
    MaxWipes = 1
SYMMETRY Symmetry
INVARIANTS
    TypeOK
    AcknowledgedSurvive
    WholeBackupRemains
CHECK_DEADLOCK FALSE
