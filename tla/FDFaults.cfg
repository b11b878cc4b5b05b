SPECIFICATION Spec
CONSTANTS
    a1 = a1
    Analyses = {x1, x2}
    Accounts = {a1}
    AccountOf <- MCAccountOf
    VelocityWindow = 2
    DeviationCacheTTL = 1
    Burst = 1
    MaxThrottleWait = 1
    ClientTimeout = 1
    MaxConnsPerHost = 1
    MaxPayments = 1
    MaxConns = 2
    Faults = TRUE
    Cancels = TRUE
    None = None
INVARIANTS TypeOK CallsWithinRate
PROPERTIES JudgedOnWindow  CacheHeals
