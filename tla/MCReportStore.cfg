SPECIFICATION FairSpec
CONSTANTS
    q1 = q1
    q2 = q2
    p1 = p1
    p2 = p2
    s1 = s1
    w1 = w1
    None = None
    Requests = {q1, q2}
    Kinds <- MCKinds
    Smells = {s1}
    Critical = {s1}
    Patches = {p1, p2}
    Early = {p1}
    Shape <- MCShape
    Runs = {w1}
    MaxChanges = 1
    MaxFailures = 1
INVARIANTS
    TypeOK
    ReportIsCoherent
    StoredReportIsFinal
    RefusedVerdictCostsItself
PROPERTY
    StaleCopiesEnd
