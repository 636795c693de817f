\* Two jobs, two workers, every kind of failure.
SPECIFICATION FairSpec
CONSTANTS
    Jobs = {j1, j2}
    Workers = {w1, w2}
    NoMsg = NoMsg
    MaxRetries = 3
    MaxFaults = 4
CONSTANT Faults <- AllFaults
INVARIANT NothingIsLost
PROPERTY EveryMessageIsSettled
\* Every message settled: the consumers rest.
CHECK_DEADLOCK FALSE
