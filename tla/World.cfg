CONSTANTS
    Cap = 5
    Poses = {0, 1}
    Inputs = {0, 1}
    Neutral = 0
    Step <- MCStep
    FirstPose = 0
    Horizon = 2
    Future = 2
    Redundancy = 3
    Delays = {0, 1}
    ResimForce = 0
    Batch = 2
    LeadLow = 0
    LeadHigh = 1
    MaxTick = 6
    Quiet = 2
    InFlightUp = 2
    InFlightDown = 1
    MaxResets = 1
    Peers = {p7, p8}
    ServerPeer = srv
    Identities = {ann, bob}
    NoIdentity = nobody
    Bodies = {b1, b2}
    Labels = {0, 1}
    Policies = {"hold", "expiry", "drop"}
    Modes = {"server", "host"}
    MaxConnections = 3
    MaxWire = 1
    MaxAssigns = 2
    RollbackIds = {1, 2}
    Channels = {3}
    Viewers = {1, 2}
    SeatIndices = {0, 1}
    Points <- MCPoints
    Worlds = {0, 1, 2}
    Radii = {0, 4}
    Caps = {0, 1}
    Crowd = 100
    GridEnterSpans = 2
    GridLeaveSpans = 1
    GridMaxOverrides = 1
    Layouts <- MCLayouts
    MaxEdits = 2
SPECIFICATION MCSpec
SYMMETRY Symmetry
INVARIANTS
    ReplayIsExact InputsKeepTheirTick FreshOnce OrphanIsHeld
    AnnouncementsAddUp FilterPathsAgree
PROPERTIES
    SnapshotIsTheBase
    ReleaseSparesTheLiving ReleaseIsAnnouncedAtOnce
    JoinsThroughTheFilter OwnBodiesAreCarried
CHECK_DEADLOCK FALSE
