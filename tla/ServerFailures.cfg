SPECIFICATION FairSpec
CONSTANTS
    Conns = {c1, c2}
    Services = {s1}
    SessionLimit = 3
    Capacity = 1
    MaxFrames = 2
    MaxEvents = 2
    MaxFailures = 1
    NoConn = NoConn
    NoRoute = NoRoute
    FrameKinds = {"Declare", "Revoke", "Service", "Watch", "Unwatch", "Ignored"}
INVARIANT RouteEndsLive
INVARIANT NoPhantomSession
INVARIANT ClosedForgotten
INVARIANT WatchSymmetric
INVARIANT WatchNeverLost
PROPERTY ActorReturns
PROPERTY VanishedForgotten
PROPERTY WatchAnswered
CHECK_DEADLOCK FALSE
