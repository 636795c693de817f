\* Two patches of one file, two clients that mark, two that push one branch.
SPECIFICATION ReviewSpec
CONSTANTS
    None = None
    file = file
    Plans = {p1}
    Tasks = {t1}
    Reviewers = {}
    Patches = {c1, c2}
    Generators = {g1}
    Markers = {m1, m2}
    Pushers = {u1, u2}
    Branches = {b1}
    Files = {file}
    FileOf <- OneFile
    Automated = {t1}
SYMMETRY Symmetric
INVARIANTS PatchTypeOK StaleMarkIsHarmless PatchCountIsBacked ReportedBranchExists
\* Ids run out: the system may rest.
CHECK_DEADLOCK FALSE
