SPECIFICATION FairRunningSpec
CONSTANTS
    Invocations = {11, 21}
    TicketLimit = 2
    Domains = {w}
    Home = w
    Keys = {1, 2}
    DomainOf <- MCDomainOf
    EpochOf <- MCEpochOf
    Owner <- MCOwner
    Claim <- MCClaim
    Capacity = 2
    Fences <- MCFences
    DomainLimit = 2
    MachineLimit = 2
    HistoryLimit = 100
    PageLimit = 1
    MaxNonce = 2
    KeyOf <- MCKeyOf
    AckLimit = 8
    Work <- MCWork
    MaxSequence = 40
    MaxConnection = 3
    MaxRestarts = 1
INVARIANTS LeaseBacked SealsAccepted
CHECK_DEADLOCK FALSE
PROPERTIES ReleaseConverges
