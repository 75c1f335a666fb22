SPECIFICATION FairSpec
CONSTANTS
    Setups <- AllScenarios
    Threads <- MCThreads
    Nobody <- MCNobody
    Rates = {2, 3, 4}
    OutRates = {2, 3}
    ChunkLens = {1, 2}
    Conns = {1, 2}
    Capacity = 3
    Units = {1}
    CbFrames = 2
INVARIANTS
    SharingSound
    NothingStray
    ReadsTrue
PROPERTIES
    AudioRecovers
CHECK_DEADLOCK FALSE
