SPECIFICATION Spec
CONSTANTS
    n1 = n1  n2 = n2  t1 = t1  t2 = t2  t3 = t3  x = x  y = y
    Nodes = {n1, n2}
    Txs = {t1, t2, t3}
    Keys = {x, y}
    Nil = Nil  Old = Old  NoNode = NoNode
    PrepareFails = {t3}
    MaxStarts = 2
    MaxTimeOuts = 1
    KeysOf <- MCKeysOf
    NodeOf <- MCNodeOf
    Self <- MCSelf
    InitData <- MCInitData
INVARIANTS
    PreparedExclusive
    CommitNeedsAll
    AckedExecuted
PROPERTIES
    Isolation
    CleanAbort
CHECK_DEADLOCK FALSE
