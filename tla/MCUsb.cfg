SPECIFICATION FairSpec
CONSTANTS
    Setups <- AllScenarios
    StatusErrorLimit = 2
    MaxTransient = 1
    OutAttempts = 2
    InAttempts = 2
    MaxDacRate = 3
    Pps = {2, 3}
    Version = 1
    RunnerCmds = 2
    Packets = 2
    RingPackets = 1
INVARIANTS
    UsbSound
    UnownedDark
PROPERTIES
    UsbRecovers
CHECK_DEADLOCK FALSE
