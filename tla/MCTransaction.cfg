SPECIFICATION FairSpec
CONSTANTS
    c1 = c1  c2 = c2  c3 = c3  a = a  b = b
    Conns = {c1, c2, c3}
    Keys = {a, b}
    Nil = Nil  Text = Text
    IntMod = 2
    MaxQueue = 2
    MaxVersion = 1
    InitData <- MCData
    Normal <- MCNormal
    Queued <- MCQueued
    WatchKeys <- MCWatchKeys
INVARIANTS
    TypeOK
    SuccessIsSerial
    WatchDetects
    AbortCreatesNothing
PROPERTIES
    Answered
    Isolation
