SPECIFICATION Spec
CONSTANTS
    Jobs = {"a", "b", "c"}
    Claim <- MCClaim
    Capacity = 1
    Posts <- NoPosts
    MaxAttempts <- ForkOnce
    Retryable <- RetryExits
    Timed = {}
    After <- Fork
    MaxGenerations = 2
    MaxFaults = 0
CONSTRAINT LastRuns
INVARIANTS DependenciesHold MachineFits
CHECK_DEADLOCK FALSE
