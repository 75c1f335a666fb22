SPECIFICATION Spec
CONSTANTS
    Links <- Connections
    SampleSize <- IdnSampleSize
    Messages <- ChannelMessages
    Queries <- Asked
    Kit <- Cupboard
    AskedRates = {1, 2, 3}
    MaxLosses = 2
    MaxStarts = 3
    Casts <- Players
    Slugs <- Spellings
    Places = {1, 2}
    RegistryOrders <- Orders
    MaxMoves = 3
    Fleets <- Receivers
    ScanBursts = 2
    MapAttempts = 2
    Lans <- Wires
    MaxDevices = 2
    MaxNoise = 2
    Plans <- Scripts
    MaxConns = 4
    Handles = {h1, h2}
    Calls = {"arm", "disarm", "stop", "set_pps"}
    Rates = {1, 2}
    MaxWord = 4
    MaxQueue = 2
    PointTime = 3
    MostQueued = 3
    LongestGap = 11
    StatusPointTime = 3
    MostSent = 3
    MostHeld = 4
    AckCapacity = 3
    LATENCY_POINT_ADJUSTMENT = 1
    MIN_SENDABLE_POINTS = 1
    STALE_ENTRY_TIMEOUT = 3
    MessageNumbers = 2
    MaxDelay = 1
    MostLetters = 2
    MostLeft = 4
    OldestAge = 3
    Second = 6
    StartupLead = 2
    ReanchorMinGap = 4
    MinSamples = 2
    DurationLimit = 8
    Speeds = {2, 5}
    Grain = 10
    ChunkPoints = {1, 3}
    LastInstant = 9
    MostWrites = 3
    MaxAccepts = 2
    Parcels <- Shipments
    CubesToMeet <- CubesOnSale
    CONNECT_HANDSHAKE_RETRIES = 2
INVARIANTS
    WireAgrees
    Owned
    FoundTrue
    HarnessSound
    EstimateExact
    EstimatesSafe
    StampsFollow
PROPERTIES
    EdgesCounted
    ImplementsControl
