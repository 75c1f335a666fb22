SPECIFICATION FairSpec
CONSTANTS
    Setups <- AsioSetups
    Threads <- MCThreads
    Nobody <- MCNobody
    Rates = {2, 3, 4}
    OutRates = {2, 3}
    ChunkLens = {1, 2}
    Conns = {1, 2}
    Capacity = 3
    Units = {1}
    CbFrames = 2
PROPERTIES
    Reconnects
CHECK_DEADLOCK FALSE
