SPECIFICATION WSpec
CONSTANTS
    Procs = {p1, p2, q1}
    RetryProcs = {q1}
    o1 = o1
    o2 = o2
    o3 = o3
    a1 = a1
    Orders = {o1, o2, o3}
    Accounts = {a1}
    Readers = {r1}
    AccountOf <- MCAccountOf
    Amount <- MCAmount
    InitialBalance <- MCInitialBalance
    BadOrders = {}
    Garbled = {o3}
    FraudFlags = {"clean", "unknown"}
    MaxRetryCount = 2
    MaxCalls = 4
    MaxConns = 3
    SharedPool = TRUE
    MaxCrashes = 0
    LeaseExpires = TRUE
    ReplicaLags = FALSE
    Faults = FALSE
    Cancels = FALSE
    ProduceFails = FALSE
    None = None
INVARIANTS WTypeOK
PROPERTIES ImplementsLifecycle CallsReturn
