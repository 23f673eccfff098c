SPECIFICATION Spec
CONSTANTS
    Jobs = {a}
    Claim <- MCClaim
    Capacity = 1
    Posts <- OnePost
    MaxAttempts <- Twice
    Retryable <- RetryFailures
    Timed = {a}
    After <- NoOrder
    MaxGenerations = 2
    MaxFaults = 2
INVARIANTS OneTreePerJob LeaseAccounted StartFailedNeverRan SucceededHonest
PROPERTIES RecordsStay
CHECK_DEADLOCK FALSE
