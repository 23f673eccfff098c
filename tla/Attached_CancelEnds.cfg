SPECIFICATION AttachedSpec
CONSTANTS
    Invocations = {11}
    TicketLimit = 2
    Domains = {w}
    Home = w
    Keys = {1}
    DomainOf <- MCDomainOf
    EpochOf <- MCEpochOf
    Owner <- MCOwner
    Claim <- MCClaim
    Capacity = 1
    Fences <- MCFences
    DomainLimit = 1
    MachineLimit = 1
    HistoryLimit = 100
    PageLimit = 1
    MaxNonce = 2
    KeyOf <- MCKeyOf
    AckLimit = 100
    Work <- MCWork
    MaxSequence = 14
    MaxConnection = 3
    MaxRestarts = 1
VIEW View
INVARIANTS CancelEnds
CHECK_DEADLOCK FALSE
