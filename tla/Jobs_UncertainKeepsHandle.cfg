SPECIFICATION Spec
CONSTANTS
    Jobs = {a}
    Claim <- MCClaim
    Capacity = 1
    Posts <- NoPosts
    MaxAttempts <- Once
    Retryable <- NeverRetry
    Timed = {}
    After <- NoOrder
    MaxGenerations = 1
    MaxFaults = 1
INVARIANTS UncertainKeepsHandle
CHECK_DEADLOCK FALSE
