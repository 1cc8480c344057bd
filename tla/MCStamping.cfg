SPECIFICATION DeploySpec
CONSTANTS
    LastCommit = 5
    HeadsOf <- MCHeadsOf
CHECK_DEADLOCK FALSE
INVARIANTS
    StampNeverGoesBack
