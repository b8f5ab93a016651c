SPECIFICATION LimiterFairSpec
CONSTANTS
    r1 = r1
    r2 = r2
    Requests = {r1, r2}
    limit = 2
    window_secs = 3
    MaxFaults = 1
INVARIANTS
    DeniedForRecentUse
    AtMostTwice
PROPERTY
    AllowedAgain
