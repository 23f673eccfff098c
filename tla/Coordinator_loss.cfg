SPECIFICATION MCSpec
CONSTANTS
    Domains = {d1}
    Keys = {1}
    Invocations = {i1}
    Scenarios <- RepairAndReconnection
    TicketLimit = 2
    DomainOf <- MCDomainOf
    EpochOf <- FirstEpoch
    Owner <- AllWork
    Claim <- UnitClaims
    Capacity = 1
    Fences <- NoFences
    DomainLimit = 2
    MachineLimit = 2
    HistoryLimit = 7
    PageLimit = 1
    MaxSequence = 6
    MaxConnection = 2
    MaxNonce = 1
    MaxCrashes = 1
    MaxLosses = 1
INVARIANTS DurableRights ReleasedForGood OldEpochsSettled StoresInStep
PROPERTIES DropNeedsProof StaleConnectionSilent
CHECK_DEADLOCK FALSE
