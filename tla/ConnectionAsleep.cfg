SPECIFICATION FairSpec
CONSTANTS
    PrefixBytes = 2
    ServiceBytes = 1
    MaxMessage = 2
    ChannelCapacity = 1
    Highwater = 3
    SocketBytes = 3
    OutLengths = {1}
    PeerFrames <- MCPeerFrames
    MaxFrames = 2
PROPERTY QueuedArrives
CHECK_DEADLOCK FALSE
