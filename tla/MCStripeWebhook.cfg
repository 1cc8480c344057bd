\* Two deliveries and two administrators at once over two events of one checkout.
SPECIFICATION Spec
CONSTANTS
    u1 = u1
    k1 = k1
    e1 = e1
    e2 = e2
    d1 = d1
    d2 = d2
    a1 = a1
    a2 = a2
    User = {u1}
    Key = {k1}
    NoKey = NoKey
    Amount = {50}
    Event = {e1, e2}
    Delivery = {d1, d2}
    Admin = {a1, a2}
    NoEvent = NoEvent
    CheckoutOf <- SameCheckout
    BuyerOf <- Buyers
    CreditsOf <- Packs
    MaxDeliveries = 2
    MaxReplays = 2
    MaxFaults = 2
SYMMETRY Interchangeable
\* The bounds end every behaviour.
CHECK_DEADLOCK FALSE
INVARIANTS
    TypeOK
    CreditedOnce
    ProcessedMeansApplied
    DeliveryRunsAlone
    AckedIsStored
PROPERTIES
    RedeliveryNeverReopens
