CONSTANTS
    Entity = {a, b}
    Slot = {s1, s2}
    NoEntity = NoEntity
    Quarantine = 3
    RetryTicks = 2
    PerFrame = 1
    PendingMax = 1
    MaxPasses = 2
    Drives = FALSE
    Lag = 2
    MaxTick = 5
    MaxChurn = 2
    MaxLoss = 1
    QuietTick = 5
SPECIFICATION EstablishedSpec
SYMMETRY Symmetry
INVARIANT NoSilentDivergence
CHECK_DEADLOCK FALSE
