SPECIFICATION MCSpec
CONSTANTS
    Requests = {r1, r2}
    Workers = {w1}
    Urls = {u1}
    Jobs = {j1, j2}
    Api = Api
    Wrk = Wrk
    Redis = Redis
    None = None
    MaxDepth = 1
    MaxFaults = 1
    t1 = t1
    t2 = t2
    Scrapers = {t1, t2}
    Processes = {Api, Wrk}
    HostOf <- Host
    Pages = {u1}
    Shared = Redis
    Nobody = None
    MaxAttempts = 2
    Threshold = 2
    MaxFailures = 3
    MaxOutages = 1
INVARIANTS
    ScrapingTypeOK
    QueueBounded
    PendingIsCarried
    OneFetchPerUrl
    CircuitCountsFailures
PROPERTIES
    FinishedStaysFinished
    AloneNeverDuplicates
    JobsEnd
