\* The volume is lost after a start that made its backup; nothing fails.
SPECIFICATION Spec
CONSTANTS
    Doc = {d1}
    Head = 1
    KeepMigrate = 5
    KeepStartup = 3
    MaxOps = 1
    MaxFaults = 0
    MaxBoots = 3
    MaxWipes = 1
INVARIANTS
    RestoredAfterWipe
CHECK_DEADLOCK FALSE
