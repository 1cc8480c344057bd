\* Two requests at once over one subscription, nothing given away.
SPECIFICATION Spec
CONSTANTS
    s1 = s1
    s2 = s2
    r1 = r1
    r2 = r2
    Sub = {s1}
    Plan = {pro, business}
    Comp = {}
    Runner = {r1, r2}
    MaxEvents = 2
    NoSub = NoSub
    Free = free
    Unknown = Unknown
    None = None
CHECK_DEADLOCK FALSE
INVARIANT PlanMatchesRow
