SPECIFICATION FairSpec
CONSTANTS
    Domains = {d1, d2}
    Keys = {1, 2, 3}
    Invocations = {i1}
    Scenarios <- LifeAndCompetition
    TicketLimit = 2
    DomainOf <- MCDomainOf
    EpochOf <- FirstEpoch
    Owner <- AllWork
    Claim <- UnitClaims
    Capacity = 2
    Fences <- PairFence
    DomainLimit = 3
    MachineLimit = 3
    HistoryLimit = 3
    PageLimit = 1
    MaxSequence = 5
    MaxConnection = 1
    MaxNonce = 2
    MaxCrashes = 1
    MaxLosses = 0
INVARIANTS TypeOK DurableRights InventoriesAgree OneOutcome CapacityRespected CrashKeepsHistory HistoryBounded
PROPERTIES DropNeedsProof ImplementsService PendingResolved
CHECK_DEADLOCK FALSE
