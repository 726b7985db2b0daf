CONSTANTS
    Entity <- MCOneEntity
    Channel = {x}
    Value = {a, b}
    NoRow = NoRow
    Tier <- Untiered
    Interval = 2
    Span = 8
    AckWindow = 2
    LogDepth = 2
    Strides <- EveryTick
    Selective = FALSE
    Lag = 1
    MaxTick = 5
    MaxChurn = 2
    MaxLoss = 1
    QuietTick = 3
    Unit = 2
    FrameCap = 4
    CatchUp = 2
    MaxBacklog = 12
    Panic = 13
    StretchWindow = 6
    MaxStretch = 2
    ClockCap = 2
    LeadCap = 2
    InitialLead = 2
    BiasLow = 1
    BiasHigh = 2
    SlewCooldown = 2
    SeekHorizon = 6
    PingInterval = 2
    Deltas = {2}
    Hitches = {9, 23}
    Trips = {2}
    Latency = 3
    Tears = {20}
    Modes = {"decoupled", "coupled"}
    MaxFaults = 1
SPECIFICATION MCSpec
INVARIANT SamplesAreCurrent
PROPERTIES Converges Settles
CHECK_DEADLOCK FALSE
