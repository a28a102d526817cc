SPECIFICATION Spec
CONSTANTS
    a = a
    b = b
    m1 = m1
    m2 = m2
    Keys = {a, b}
    Members = {m1, m2}
    Nil = Nil
    Text = Text
    IntMod = 2
    Spare = 1
    Second = 2
    Cmds <- MCCmds
    Files <- MCFiles
    MaxTime = 3
    MaxOps = 2
    MaxBoots = 1
    MaxRewrites = 1
INVARIANTS TypeOK ReplayExact UndoRestores LocksCover
CHECK_DEADLOCK FALSE
