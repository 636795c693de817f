\* Two jobs sharing one worker, recoverable failures, fair scheduling.
SPECIFICATION FairSpec
CONSTANTS
    Jobs = {j1, j2}
    Workers = {w1}
    NoMsg = NoMsg
    MaxRetries = 3
    MaxFaults = 3
CONSTANT Faults <- RecoverableFaults
INVARIANTS RunOwnsJob FailureNamesStage DeadLetterIsStopped
PROPERTIES ActiveJobSettles ImplementsLifecycle
CHECK_DEADLOCK FALSE
