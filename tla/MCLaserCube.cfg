SPECIFICATION FairSpec
CONSTANTS
    Scenarios <- AllScenarios
    BufferTotal = 4
    Cutoff = 3
    FullPacket = 2
    SeqMod = 8
    HostCapacity = 3
    TxCapacity = 2
    DrainLimit = 2
    PlayRate = 2
    PollActive = 2
    PollInactive = 1
    StaleAfter = 5
    NameMod = 9
    MaxGen = 2
    MaxPriority = 2
    MaxDelay = 2
INVARIANTS
    QueueSound
    OneLossTolerated
PROPERTIES
    AcksSound
    TransportSettles
CHECK_DEADLOCK FALSE
