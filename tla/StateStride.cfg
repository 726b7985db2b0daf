SPECIFICATION Spec
CONSTANTS
    Entity <- MCOneEntity
    Channel = {x}
    Value = {a, b}
    NoRow = NoRow
    Tier <- Untiered
    Interval = 2
    Span = 5
    AckWindow = 2
    LogDepth = 2
    Strides <- TwoTicks
    Selective = FALSE
    Lag = 2
    MaxTick = 8
    MaxChurn = 0
    MaxLoss = 0
    QuietTick = 9
INVARIANT KeyframesComeDue
CHECK_DEADLOCK FALSE
