SPECIFICATION Spec
CONSTANTS
    e1 = e1  e2 = e2  c1 = c1  c2 = c2  d0 = d0  d1 = d1  x = x
    Elements = {e1, e2}
    Clients = {c1, c2}
    Keys <- MCKeys
    SlotNum = 2
    Second = 2
    Delays = {2, 5}
    MaxTime = 7
    MaxOps = 3
    Nil = Nil
SYMMETRY MCSymmetry
INVARIANTS
    TypeOK
    OnTime
PROPERTIES
    KeysLiveOut
CHECK_DEADLOCK FALSE
