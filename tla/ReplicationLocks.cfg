SPECIFICATION Spec
CONSTANTS
    r1 = r1
    c1 = c1
    c2 = c2
    c3 = c3
    Replicas = {r1}
    Conns = {c1, c2, c3}
    Savers = {1, 2}
    Rewriter = 0
    Nil = Nil
    MaxBacklog = 1
    MaxEvents = 3
INVARIANT NoLockInversion
CHECK_DEADLOCK FALSE
