\* Two runs of a job of two batches, one subgraph request at a time.
SPECIFICATION Spec
CONSTANTS
    class = class
    method = method
    site = site
    other = other
    Runs = {r1, r2}
    Entities <- All
    Links <- Joined
    BatchOf <- TwoFiles
    Chunk = 3
    MethodLimit = 0
    FewMethods = 1
    EnvyLimit = 0
    Private = {method}
    Accessors = {method}
    Prefix <- Named
    Flagged <- Long
    Unstorable = {method}
    Requests <- Asked
SYMMETRY Symmetric
INVARIANTS TypeOK CountsAreBacked OnlyRefusedIsLost DetectorSeesOwnGraph SubgraphIsBall
\* Every run ends: the system may rest.
CHECK_DEADLOCK FALSE
