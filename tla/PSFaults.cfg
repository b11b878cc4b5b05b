SPECIFICATION SysSpec
CONSTANTS
    r1 = r1
    r2 = r2
    r3 = r3
    r4 = r4
    k1 = k1
    k2 = k2
    Requests = {r1, r2, r3, r4}
    Keys = {k1, k2}
    KeyOf <- MCKeyOf
    Patient = {k1}
    MaxConns = 2
    SharedPool = FALSE
    ReplicaLags = TRUE
    Faults = TRUE
    ProduceFails = TRUE
    MaxPaid = 1
INVARIANTS SysTypeOK JobsHaveRows ConflictHasTwin OneOrderPerKey DebitsAreAccepted
PROPERTIES OwnJobWrites RequestsAnswered
