\* One job, two workers, every kind of failure.
SPECIFICATION Spec
CONSTANTS
    Jobs = {j1}
    Workers = {w1, w2}
    NoMsg = NoMsg
    MaxRetries = 3
    MaxFaults = 2
CONSTANT Faults <- AllFaults
INVARIANT PendingIsAccountedFor
PROPERTIES NeverResurrected CancelSticks ResultStays
\* Every request made and every message settled: the system may rest.
CHECK_DEADLOCK FALSE
