SPECIFICATION MCSpec
CONSTANTS
    Calls = {c1, c2}
    Fetches = {c1, c2}
    Chats = {c1, c2}
    Convs = {v1, v2}
    NoRow = NoRow
    MonthLimit = 1
    MaxCredits = 1
    Pages = {c1, c2, c3}
    Drivers = {d1, d2}
    Browsers = {b1, b2}
    PoolSize = 2
    Absent = Absent
    Setups = {c1}
    Items = {"plan", "pack"}
    Order <- MCOrder
    KindsOf <- MCKindsOf
    MaxMade = 6
    MaxTariff = 2
    MaxStarts = 3
    Fetchers = {f1, f2}
    ProxyList <- MCProxyList
    Addresses <- MCAddresses
    MaxRedirects = 1
    RiskThreshold = 75
    Direct = Direct
    Catalog = {"decision_engine", "ghost_agency", "operator"}
    KeyOrder <- MCKeyOrder
    MoreAgents = {"knowledge_weapon"}
    Stranger = Stranger
    Senders = {s1}
    MaxHits = 3
    Texts = {x1, x2}
    Campaigns = {g1, g2}
    Archive = Archive
    NoText = NoText
CHECK_DEADLOCK FALSE
INVARIANTS
    ServicesTypeOK
    UserKeeps
    
PROPERTIES
    CallsEnd
