\* No failure at all: a stop request against a running job.
SPECIFICATION FairSpec
CONSTANTS
    Jobs = {j1}
    Workers = {w1}
    NoMsg = NoMsg
    MaxRetries = 3
    MaxFaults = 1
CONSTANT Faults <- NoFaults
PROPERTY StopIsHonoured
CHECK_DEADLOCK FALSE
