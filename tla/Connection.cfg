SPECIFICATION FairSpec
CONSTANTS
    PrefixBytes = 2
    ServiceBytes = 1
    MaxMessage = 2
    ChannelCapacity = 1
    Highwater = 3
    SocketBytes = 3
    OutLengths = {1}
    PeerFrames <- MCPeerFrames
    MaxFrames = 3
INVARIANT TypeOK
INVARIANT BytesInOrder
INVARIANT RemovalHasCause
INVARIANT NeverAsleepOnBytes
INVARIANT BackpressureKept
PROPERTY OutboundLink
PROPERTY InboundLink
PROPERTY SentAwakeTaken
PROPERTY FramesArrive
CHECK_DEADLOCK FALSE
