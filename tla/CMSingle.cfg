SPECIFICATION Spec
CONSTANTS
    Workers = {w1}
    Slots = {s1, s2, s3}
    LogEnd = 4
    CommitsFail = TRUE
    WorkersFail = TRUE
    Rebalances = FALSE
    None = None
INVARIANTS NoSkip
PROPERTIES StaleNeverCommits CommitMonotone
