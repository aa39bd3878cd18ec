\* Every part of the desktop application, each by itself.
SPECIFICATION FairSpec
CONSTANTS
    Parts = {"installer", "backend", "list", "tree", "scope", "uploads", "wizard"}
    Releases = {r1, r2}
    Custom = Custom
    NoTag = NoTag
    NoState = NoState
    MaxMishaps = 2
    LastVersion = 2
    MaxWaits = 2
    MaxSetbacks = 1
    NoStart = NoStart
    NoSample = NoSample
    Readers = {a1, a2}
    MaxDocs = 2
    MaxTroubles = 1
    NoRows = NoRows
    Viewers = {b1}
    MaxGrumbles = 1
    MaxAsked = 2
    Blank = Blank
    fa = fa
    fab = fab
    fabc = fabc
    fd = fd
    fdb = fdb
    Folders = {fa, fab, fabc, fd, fdb}
    Above <- MCAbove
    Files = {f1, f2}
    MaxEdits = 1
    MaxRecent = 1
    MaxUploads = 2
    MaxLosses = 1
    NoFile = NoFile
    Backends = {v1, v2}
    NoBackend = NoBackend
INVARIANTS
    DesktopTypeOK
    
    UpdateTakesEffect
    ScopeIsHonest
    DoneIsIndexed
    
PROPERTIES
    EventuallyInstalled
    
    ListSettles
    
CHECK_DEADLOCK FALSE
