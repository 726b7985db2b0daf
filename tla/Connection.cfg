CONSTANTS
    Player = {p}
    Conn = {c, d}
    Identity = {1}
    Claims <- OneIdentity
    Secrets <- Informed
    Pins <- AnyPin
    ServerSecret = "good"
    ServerStatic = TRUE
    Settings = {"always", "only_if_dropped", "never", "unknown"}
    Graces = {TRUE, FALSE}
    MaxJoins = 3
    MaxQueue = 2
    Window = 3
    Width = 8
    MaxKey = 2
    Ids <- MCIds
    Size <- MCSize
    Declared <- MCDeclared
    StateLane = {1}
    Owned = {3}
    Budget = 4
    Sections = {0, 2}
    MaxPasses = 2
    AgeCap = 20
    PriorityMax = 4
    WeightOwned = 4
    MaxEdits = 1
    StarveBound = 10
    Bodies <- MCBodies
    Length <- MCLength
    Payload = 6
    BlockCap = 2
    ForeignCap = 1
    Stride = 1
    MaxWire = 3
    MaxFaults = 2
    MaxMoves = 1
    QuietBound = 12
    MaxTargets = 7
    Parallelism = 3
    PoolPeers = 2
    MinPerThread = 2
    MaxThreads = 4
    MaxFlushes = 2
SPECIFICATION ConnectionSpec
INVARIANTS
    OneHolder NothingOutlives KeysAgree
    AtMostOnce NonceOnce NoFalseRefusal
    NobodyStarves TailIsDriven
    SplitIsInvisible UnloadedAfterTheLast
PROPERTIES TakenByToken RecordTokenIsKept JoinConverges
CHECK_DEADLOCK FALSE
