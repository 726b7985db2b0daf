CONSTANTS
    Entity <- MCEntity
    Slot <- MCSlot
    NoEntity = 0
    Quarantine = 3
    MaxSlots = 2
    Owner = {o1, o2}
    RetryTicks = 1
    UnboundMax = 2
    Selective = FALSE
    Lag = 1
    MaxTick = 9
    MaxChurn = 2
    MaxLoss = 1
    MaxRefused = 1
    QuietTick = 3
    AllocEntity <- MCAllocEntity
    AllocQuarantine = 2
    AllocMaxTick = 8
    AllocMaxChurn = 5
    AllocQuietTick = 6
    QueueEntity = {a, b, c, d}
    PerFrame = 2
    PendingMax = 2
    HardMax = 3
SPECIFICATION MCSpec
INVARIANT NamesAreTrue
PROPERTIES Repairs ImplementsNaming EventuallyNamed ImplementsHalves
CHECK_DEADLOCK FALSE
