SPECIFICATION Spec
CONSTANTS
    Conns = {c1, c2, c3}
    Services = {s1}
    SessionLimit = 3
    Capacity = 2
    MaxFrames = 4
    MaxEvents = 1
    MaxFailures = 0
    NoConn = NoConn
    NoRoute = NoRoute
    FrameKinds = {"Declare", "Revoke", "Service"}
SYMMETRY Symmetry
INVARIANT TypeOK
INVARIANT RoutingSymmetric
INVARIANT RouteAnnounced
INVARIANT NoCrossTalk
INVARIANT SessionOrder
INVARIANT SessionIdsFresh
CHECK_DEADLOCK FALSE
