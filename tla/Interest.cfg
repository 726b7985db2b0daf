CONSTANTS
    Entity = {a, b}
    Slot = {s1, s2}
    NoEntity = NoEntity
    Quarantine = 3
    RetryTicks = 2
    PerFrame = 1
    PendingMax = 1
    MaxPasses = 1
    Drives = FALSE
    Lag = 2
    MaxTick = 4
    MaxChurn = 2
    MaxLoss = 1
    QuietTick = 4
SPECIFICATION EitherSpec
SYMMETRY Symmetry
INVARIANTS
    NoSilentDivergence
    LaneIsSound
CHECK_DEADLOCK FALSE
