\* Four calls that may all overlap; a page with up to two requests under way,
\* each answered with up to two entries.
SPECIFICATION Spec
CONSTANTS
    Calls = {e1, e2, e3, e4}
    Clients = {c1}
    Polls = {p1, p2}
    Limit = 2
SYMMETRY Symmetric
INVARIANTS SeqHasNoGap NothingSkipped
PROPERTY ImplementsAppendLog
\* Every call made and the job deleted: the system may rest.
CHECK_DEADLOCK FALSE
