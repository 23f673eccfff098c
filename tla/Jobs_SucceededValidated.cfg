SPECIFICATION Spec
CONSTANTS
    Jobs = {a}
    Claim <- MCClaim
    Capacity = 1
    Posts <- OnePost
    MaxAttempts <- Once
    Retryable <- NeverRetry
    Timed = {}
    After <- NoOrder
    MaxGenerations = 1
    MaxFaults = 1
INVARIANTS SucceededValidated
CHECK_DEADLOCK FALSE
