SPECIFICATION RoleSpec
CONSTANTS
    h1 = h1
    h2 = h2
    g1 = g1
    g2 = g2
    Hosts = {h1, h2}
    Setups = {g1, g2}
    None = None
    Nobody = Nobody
    Client = Client
    SlaveCron = SlaveCron
    MaxVersion = 4
    MaxExecs = 2
SYMMETRY MCSymmetry
INVARIANTS RoleMatches
PROPERTIES AppliedFromMaster
CHECK_DEADLOCK FALSE
