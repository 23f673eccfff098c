SPECIFICATION FairSpec
CONSTANTS
    Jobs = {a}
    Claim <- MCClaim
    Capacity = 1
    Posts <- NoPosts
    MaxAttempts <- Once
    Retryable <- NeverRetry
    Timed = {}
    After <- NoOrder
    MaxGenerations = 1
    MaxFaults = 0
PROPERTIES UncertaintyRecorded
CHECK_DEADLOCK FALSE
