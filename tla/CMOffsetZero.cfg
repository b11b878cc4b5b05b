SPECIFICATION Spec
CONSTANTS
    Workers = {w1}
    Slots = {s1, s2}
    LogEnd = 3
    CommitsFail = FALSE
    WorkersFail = TRUE
    Rebalances = FALSE
    None = None
PROPERTIES AbandonedIsRedelivered
