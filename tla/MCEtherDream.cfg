SPECIFICATION FairSpec
CONSTANTS
    Scenarios <- AllScenarios
    Ring = 4
    WarmupTime = 1
    MaxRate = 2
    CeilingPercent = 80
    BeginTicks = 2
    MinBegin = 1
    PingInterval = 1
    EstopRetry = 2
INVARIANTS
    StatusSound
PROPERTIES
    WrittenLanded
    StreamRecovers
CHECK_DEADLOCK FALSE
