SPECIFICATION FairSpec
CONSTANTS
    n1 = n1  n2 = n2  t1 = t1  t2 = t2  t3 = t3  x = x  y = y
    Nodes = {n1, n2}
    Txs = {t1, t2}
    Keys = {x, y}
    Nil = Nil  Old = Old  NoNode = NoNode
    PrepareFails = {}
    MaxStarts = 2
    MaxTimeOuts = 0
    KeysOf <- MCKeysOf
    NodeOf <- MCNodeOf
    Self <- MCSelf
    InitData <- MCInitData
PROPERTIES
    LocksReleased
    Answered
CHECK_DEADLOCK FALSE
