SPECIFICATION Spec
CONSTANTS
    Conns = {c1, c2}
    Services = {s1}
    SessionLimit = 3
    Capacity = 1
    MaxFrames = 4
    MaxEvents = 1
    MaxFailures = 0
    NoConn = NoConn
    NoRoute = NoRoute
    FrameKinds = {"Declare"}
SYMMETRY Symmetry
INVARIANT OverflowDrained
CHECK_DEADLOCK FALSE
