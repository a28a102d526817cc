SPECIFICATION Spec
CONSTANTS
    NDB = 2
    Keys = {k}
    Clients = {c1, c2}
    Jobs = {j1, j2}
    Policies = {"always", "everysec", "no"}
    NoJob = NoJob
    QueueSize = 1
    MaxOps = 2
    MaxRewrites = 2
    MaxBoots = 2
    MaxFails = 1
INVARIANTS TypeOK Recoverable FileInCurrentDB
PROPERTIES RestartIsPast RestartKeepsAnswered
SYMMETRY Symmetry
CHECK_DEADLOCK FALSE
