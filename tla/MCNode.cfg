SPECIFICATION Spec
CONSTANTS
    QueueDepth = 2
    MaxEvents = 2
    Console = Console
    Httpd = Httpd
    None = None
    Aps = 2
    Capacity = 1
    ScanQueueDepth = 1
    MaxGeneration = 6
    Bytes = {1, 2}
    Zero = 0
    RingSize = 4
    LineMax = 3
    Room = 4
    Rssi = {1}
    NoReading = 0
    Samples = 3
    Slots = {1}
    Ids = {0, 1, 2}
    MaxQueries = 2
    Width = 4
    Off = Off
    DefaultSubnet <- MCDefaultSubnet
    FactorySoftap <- MCFactorySoftap
    Uplinks <- MCUplinks
    Softaps <- MCSoftaps
    HalowAps <- MCHalowAps
INVARIANTS
    StaticStaysStatic
    OneRetry
    CompleteIsWhole
    PlanIsSound
PROPERTIES
    Recovers
    LossIsReported
    ConsoleReturns
    NoneHeldForEver
    LogIsRecent
    HistoryIsRecent
CHECK_DEADLOCK FALSE
