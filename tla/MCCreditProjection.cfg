\* The workspace projection after record_usage, with no request left open.
SPECIFICATION Spec
CONSTANTS
    u1 = u1
    u2 = u2
    k1 = k1
    k2 = k2
    k3 = k3
    k4 = k4
    User = {u1, u2}
    Request = {r1, r2}
    Key = {k1, k2, k3, k4}
    NoKey = NoKey
    Nobody = Nobody
    NoOp = NoOp
    Operation <- Operations
    MaxEntries = 2
INVARIANTS
    WorkspaceBalanceAligned
