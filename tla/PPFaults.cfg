SPECIFICATION Spec
CONSTANTS
    Procs = {g1, g2}
    o1 = o1
    o2 = o2
    a1 = a1
    Orders = {o1, o2}
    Accounts = {a1}
    Readers = {r1}
    AccountOf <- MCAccountOf
    Amount <- MCAmount
    InitialBalance <- MCInitialBalance
    BadOrders = {}
    FraudFlags = {"clean", "unknown", "suspicious"}
    MaxCalls = 2
    MaxConns = 2
    SharedPool = FALSE
    LeaseExpires = TRUE
    ReplicaLags = TRUE
    Faults = TRUE
    Cancels = TRUE
    None = None
SYMMETRY Symmetry
INVARIANTS TypeOK NeverOverdebited NeverNegative BooksAgree SuccessIsPaid
