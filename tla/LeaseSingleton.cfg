\* Two replicas with a pool that holds more connections than it keeps.
SPECIFICATION Spec
CONSTANTS
    Parts = {"lease"}
    Clients = {c1, c2}
    Uris = {u1}
    TTLs = {1, 2}
    NoLock = NoLock
    MaxTime = 3
    MaxRows = 2
    Replicas = {p1, p2}
    Capacity = 2
    MinConn = 1
    NoConn = NoConn
    MaxRequests = 1
    MaxStarts = 2
    Roots = {r1, r2}
    Executors = {e1}
    NoExecutor = NoExecutor
    NoRoot = NoRoot
    Callers = {h1, h2}
    MaxStreak = 1
    Interval = 1
    Backoff = 1
    MaxEdits = 5
    Files = {f1}
    Unreadable = {}
    MaxVer = 1
    Retention = 1
    NotMarked = NotMarked
    MaxEvents = 2
    Users = {m1, m2}
    Groups = {g1}
    Servers = {s1}
    Builtin = {"sre"}
    Custom = {"dev"}
    NoUser = NoUser
    NoRole = NoRole
    NotLoaded = NotLoaded
    MaxChanges = 3
    MaxFaults = 1
    Kids = {k1}
    Seats = {1}
    NoKid = NoKid
    NoKey = NoKey
    Torn = Torn
    MaxStack = 2
    MaxActive = 1
    MaxTurns = 2
    MaxSlips = 1
    KeyServers = {s1, s2}
    Owners = {o1}
    MaxKeys = 3
    MaxSessions = 1
    Grace = 1
    Lifetime = 1
    MaxHours = 1
    Never = Never
    NoKeyRow = NoKeyRow
    NoSession = NoSession
    Threads = {t1, t2, t3}
    PoolCapacity = 1
    MaxManagers = 2
    MaxPools = 2
    MaxUses = 4
    Docs = {d1}
    SpaceOf <- MCSpaceOf
    Persons = {v1, v2}
    Chiefs = {v2}
    Jobs = {j1}
    MaxChunks = 2
    Anyone = Anyone
    Nobody = Nobody
    NoJobYet = NoJobYet
    ApiClients = {a1, a2}
    Limit = 2
    Window = 2
    MaxSleep = 2
    MaxRetries = 2
    MaxHalves = 10
    Chunks = {1, 2, 3}
    SourceOf <- MCSourceOf
    QueryTerms = {q1, q2}
    Nearness <- MCNearness
    TopK = 2
    MaxUpdates = 1
    MaxWrites = 1
    MaxPasses = 2
    NoText = NoText
INVARIANTS
    OneScheduler
CHECK_DEADLOCK FALSE
