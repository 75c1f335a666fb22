SPECIFICATION Spec
CONSTANTS
    h1 = h1
    h2 = h2
    Handles <- TwoHandles
    Calls = {"arm", "disarm", "set_pps", "stop"}
    Rates <- ThreeRates
    MaxWord = 7
    MaxQueue = 1
    Setups <- EveryQuestion
    BlankSlices = 1
    RingSlices = 1
    CapsSet <- ThreeRanges
    MaxFaults = 1
SYMMETRY HandleSymmetry
CONSTRAINT OneQuestion
INVARIANTS
    SessionSound
    ShutterTruth
    FreshStart
    RetainedIsCached
    NoLostWake
PROPERTIES
    TransitionsClean
CHECK_DEADLOCK FALSE
