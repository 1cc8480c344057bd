SPECIFICATION MCSpec
CONSTANTS
    None = None
    Deleted = Deleted
    Requests = {r1, r2}
    Words = {w1, w2}
    Secrets = {s1, s2}
    Links = {k1, k2, k3}
    Callers = {r1, r2}
    Keys = {w1, w2}
    SeatLimits = {1, 2}
    MaxRows = 2
    Exchanges = {w1, w2}
    Apis = {r1, r2}
    Addresses = {a1}
    Buckets = {b1}
    Limit = 2
    BanHits = 2
    MaxCount = 4
    Targets = {"production", "staging"}
    MaxEdits = 3
    LastCommit = 5
    HeadsOf <- MCHeadsOf
    Buyers = {r1, r2}
    Customers = {u1, u2}
    Nobody = Nobody
    Subs = {u1, u2}
    NoSub = NoSub
    MaxSent = 3
SYMMETRY Sym
CHECK_DEADLOCK FALSE
INVARIANTS
    PlatformTypeOK
    PasswordsKept
    EnabledSecretProved
    LimitsKept
    
    ConfigKept
    DeployKept
PROPERTIES
    DeletedIssuesNothing
