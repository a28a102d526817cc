SPECIFICATION FairSpec
CONSTANTS
    p1 = p1  p2 = p2  p3 = p3
    a = a  b = b  c = c
    Procs = {p1, p2, p3}
    Keys = {a, b, c}
    NoProc = NoProc
    TableSize = 2
    Hash <- MCHash
    Requests <- MCRequests
INVARIANTS
    TypeOK
    KeyExclusion
    NoCircularWait
    NoLeak
PROPERTIES
    ImplementsKeyLocks
    EveryRequestGranted
