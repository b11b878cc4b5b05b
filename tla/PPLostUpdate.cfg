SPECIFICATION Spec
CONSTANTS
    Procs = {g1, g2}
    o1 = o1
    o2 = o2
    a1 = a1
    Orders = {o1, o2}
    Accounts = {a1}
    Readers = {r1}
    AccountOf <- MCAccountOf
    Amount <- MCAmount
    InitialBalance <- MCInitialBalance
    BadOrders = {}
    FraudFlags = {"clean"}
    MaxCalls = 1
    MaxConns = 2
    SharedPool = FALSE
    LeaseExpires = FALSE
    ReplicaLags = FALSE
    Faults = FALSE
    Cancels = FALSE
    None = None
INVARIANTS NoLostUpdate
