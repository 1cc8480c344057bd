\* One request at a time over two subscriptions of one plan.
SPECIFICATION Spec
CONSTANTS
    s1 = s1
    s2 = s2
    r1 = r1
    r2 = r2
    Sub = {s1, s2}
    Plan = {pro}
    Comp = {}
    Runner = {r1}
    MaxEvents = 3
    NoSub = NoSub
    Free = free
    Unknown = Unknown
    None = None
CHECK_DEADLOCK FALSE
INVARIANT PayingKeepsPlan
