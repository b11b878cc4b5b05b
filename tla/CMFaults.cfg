SPECIFICATION Spec
CONSTANTS
    Workers = {w1, w2}
    Slots = {s1, s2}
    LogEnd = 3
    CommitsFail = FALSE
    WorkersFail = TRUE
    Rebalances = TRUE
    None = None
SYMMETRY Symmetry
INVARIANTS TypeOK NoSkip ExactPrefix
