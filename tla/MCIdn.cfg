SPECIFICATION FairSpec
CONSTANTS
    Scenarios <- AllScenarios
    SampleSize <- MCSampleSize
    Sockets = {1, 2, 3}
    LinkTimeout = 10
    BanWindow = 2
    ConfigRefresh = 2
    KeepaliveInterval = 5
    MaxWithConfig = 35
    MaxPlain = 36
    QueueCapacity = 2
    AckCheck = 5
    AckTimeout = 1
    MaxMisses = 3
    ConnectTimeout = 3
    ConnectRetries = 1
    Lengths = {20, 36}
    BlankLength = 20
    WritesPerTick = 2
INVARIANTS
    LinkSound
    NeverMisread
PROPERTIES
    ProbeTruth
    LinkRecovers
