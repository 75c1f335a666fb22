SPECIFICATION LiveSpec
CONSTANTS
    h1 = h1
    h2 = h2
    Handles <- OneHandle
    Calls = {"arm", "disarm", "stop"}
    Rates <- OneRate
    MaxWord = 7
    MaxQueue = 2
    Setups <- BlockingOnly
    BlankSlices = 1
    RingSlices = 1
    CapsSet <- OneRange
    MaxFaults = 0
PROPERTIES
    StopAlwaysReturns
CHECK_DEADLOCK FALSE
