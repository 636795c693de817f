SPECIFICATION FairSpec
CONSTANTS
    k1 = k1
    k2 = k2
    c1 = c1
    c2 = c2
    None = None
    Keys = {k1, k2}
    Clients = {c1, c2}
    Development = TRUE
    MaxFailures = 1
INVARIANTS
    TypeOK
    RevocationHolds
    ShownKeyIsStored
PROPERTIES
    OnlyAdminsMakeAdmins
    EveryRequestEnds
