CONSTANTS
    RollbackIds = {1, 2}
    Channels = {3}
    Viewers = {1, 2}
    SeatIndices = {0, 1}
    Points <- MCPoints
    Worlds = {0, 1, 2}
    Radii = {0, 4}
    Caps = {0}
    Crowd = 100
    GridEnterSpans = 2
    GridLeaveSpans = 1
    GridMaxOverrides = 1
    Layouts <- MCLayouts
    MaxEdits = 2
SPECIFICATION FilterSpec
PROPERTY SeatKeepsItsBand
CHECK_DEADLOCK FALSE
