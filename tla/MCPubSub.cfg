SPECIFICATION Spec
CONSTANTS
    x = x  y = y  z = z  a = a  b = b  o1 = o1  o2 = o2
    Clients = {x, y, z}
    Objects = {o1, o2}
    Channels = {a, b}
    Topics <- MCTopics
    Talk <- MCTalk
    Nil = Nil
    MaxRequests <- MCRequests
INVARIANTS
    HubAgrees
    NothingMissed
PROPERTIES
    InOrder
SYMMETRY Alike
CHECK_DEADLOCK FALSE
