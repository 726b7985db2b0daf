CONSTANTS
    Entity = {a}
    Slot = {s1}
    NoEntity = NoEntity
    Quarantine = 3
    RetryTicks = 2
    PerFrame = 1
    PendingMax = 1
    MaxPasses = 1
    Drives = FALSE
    Lag = 1
    MaxTick = 9
    MaxChurn = 2
    MaxLoss = 1
    QuietTick = 3
SPECIFICATION EstablishedFairSpec
PROPERTY Converges
CHECK_DEADLOCK FALSE
