SPECIFICATION SSpec
CONSTANTS
    NoOfUsers = 3
    MaxAccounts = 2
    MaxDatasetOrders = 1
    ExportPageSize = 2
    Faults = TRUE
    ReplicaLags = TRUE
    MaxRuns = 2
    w1 = w1
    w2 = w2
    Workers <- MCWorkers
    TotalOrders = 4
    UserPageSize = 2
    AccountsPerUser = 2
    OrdersPerAccount = 1
    ChanCap = 1
INVARIANTS STypeOK SeededWhole ExportWhole AllSeeded AllAnswered
PROPERTIES SeedersEnd
