\* Two requests at once over two subscriptions and every kind of request.
SPECIFICATION Spec
CONSTANTS
    s1 = s1
    s2 = s2
    r1 = r1
    r2 = r2
    Sub = {s1, s2}
    Plan = {pro, business}
    Comp = {business}
    Runner = {r1, r2}
    MaxEvents = 2
    NoSub = NoSub
    Free = free
    Unknown = Unknown
    None = None
SYMMETRY Interchangeable
CHECK_DEADLOCK FALSE
INVARIANTS
    TypeOK
    GrantedWasPaid
    ProcessedIsStored
    SoleSubscriberKeepsPlan
PROPERTIES
    SyncAloneMirrorsStripe
