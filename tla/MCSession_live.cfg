SPECIFICATION LiveSpec
CONSTANTS
    h1 = h1
    h2 = h2
    Handles <- OneHandle
    Calls = {"arm", "disarm", "stop"}
    Rates <- OneRate
    MaxWord = 4
    MaxQueue = 1
    Setups <- EveryAdapter
    BlankSlices = 1
    RingSlices = 1
    CapsSet <- OneRange
    MaxFaults = 1
PROPERTIES
    DisarmDarkens
    StopReturns
    ArmOpens
CHECK_DEADLOCK FALSE
