CONSTANTS
    Peers = {p7, p8}
    ServerPeer = srv
    Identities = {ann, bob}
    NoIdentity = nobody
    Bodies = {b1}
    Labels = {0}
    Policies = {"expiry"}
    Modes = {"server"}
    MaxConnections = 2
    MaxWire = 1
    MaxAssigns = 1
SPECIFICATION SeatSpec
PROPERTY GraceIsKept
CHECK_DEADLOCK FALSE
