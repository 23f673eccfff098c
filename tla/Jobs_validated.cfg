SPECIFICATION FairSpec
CONSTANTS
    Jobs = {a}
    Claim <- MCClaim
    Capacity = 2
    Posts <- OnePost
    MaxAttempts <- Twice
    Retryable <- RetryFailures
    Timed = {a}
    After <- NoOrder
    MaxGenerations = 2
    MaxFaults = 0
INVARIANTS TypeOK RunningCovered SucceededValidated
PROPERTIES CancelFences CancelSettles LeaseReturns
CHECK_DEADLOCK FALSE
