\* Up to three plans, two reviewers.
SPECIFICATION Spec
CONSTANTS
    Plans = {p1, p2, p3}
    Tasks = {t1, t2}
    Reviewers = {r1, r2}
    None = None
SYMMETRY Symmetric
INVARIANTS StaleCheckIsHarmless NoVersionGap OrderCoversTasks
\* Ids run out: the system may rest.
CHECK_DEADLOCK FALSE
