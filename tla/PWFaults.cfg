SPECIFICATION WShutdownSpec
CONSTANTS
    Procs = {p1, q1}
    RetryProcs = {q1}
    o1 = o1
    o2 = o2
    o3 = o3
    a1 = a1
    Orders = {o1}
    Accounts = {a1}
    Readers = {r1}
    AccountOf <- MCAccountOf
    Amount <- MCAmount
    InitialBalance <- MCInitialBalance
    BadOrders = {}
    Garbled = {}
    FraudFlags = {"clean", "unknown"}
    MaxRetryCount = 1
    MaxCalls = 3
    MaxConns = 3
    SharedPool = TRUE
    MaxCrashes = 1
    LeaseExpires = FALSE
    ReplicaLags = FALSE
    Faults = TRUE
    Cancels = TRUE
    ProduceFails = TRUE
    None = None
INVARIANTS LostIsDeadLettered AttemptsBounded PaidOnce LockExclusion
PROPERTIES ShutdownEnds
