\* Stripe's retries against one fault, an administrator's replay in between.
SPECIFICATION FairSpec
CONSTANTS
    u1 = u1
    k1 = k1
    e1 = e1
    e2 = e2
    d1 = d1
    d2 = d2
    a1 = a1
    a2 = a2
    User = {u1}
    Key = {k1}
    NoKey = NoKey
    Amount = {50}
    Event = {e1, e2}
    Delivery = {d1, d2}
    Admin = {a1}
    NoEvent = NoEvent
    CheckoutOf <- OneIgnored
    BuyerOf <- Buyers
    CreditsOf <- Packs
    MaxDeliveries = 2
    MaxReplays = 1
    MaxFaults = 1
CHECK_DEADLOCK FALSE
PROPERTIES
    DeliveriesEnd
