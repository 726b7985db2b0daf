CONSTANTS
    Entity <- MCOneEntity
    Channel = {x, y}
    OneChannel = {z}
    Value = {a, b}
    NoRow = NoRow
    Tier <- Untiered
    Interval = 4
    Span = 3
    AckWindow = 2
    LogDepth = 2
    Strides <- EveryTick
    Selective = FALSE
    Lag = 2
    MaxTick = 4
    MaxChurn = 2
    MaxLoss = 1
    QuietTick = 4
    Scale = 10
    Band = 3
    Gap = 6
    FracBits = 4
    HalfBits = 2
    HalfMin <- MCHalfMin
    HalfTop = 1
    MaxTicks = 2
    Drifted = Drifted
    Declarations <- MCDeclarations
    Samples <- MCSamples
    Declared <- MCDeclared
    DigitBits = 2
    Frames <- MCFrames
    RowAt <- MCRowAt
    Widths <- MCWidths
    Receivers <- MCReceivers
SPECIFICATION MCSpec
SYMMETRY RowSymmetry
INVARIANTS
    RowsAreTrue ProvenBaseArrived
    ReceivedIsStored RowsLandWhole FramesAreReadExactly
CHECK_DEADLOCK FALSE
