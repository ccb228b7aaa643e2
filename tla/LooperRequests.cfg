SPECIFICATION FairSpec
CONSTANTS
    Sessions = {s1, s2}
    Opened = {s1}
    Calls = {k1}
    Handler = Handler
    NoSession = NoSession
    NoEntry = NoEntry
    MaxTokens = 2
    RequestCap = 1
    MsgLimit = 2
    MaxSends = 1
    MaxArrivals = 3
    Kinds = {"Reply", "Failed", "Teardown", "Accepted", "PaneExited", "Lifecycle", "LocalRevoke", "Request", "Notification"}
INVARIANT TypeOK
INVARIANT TablesAgree
INVARIANT ExitSettles
INVARIANT NoCallStranded
INVARIANT EarlierReplyWins
INVARIANT SubscribersKnown
PROPERTY SettledOnce
PROPERTY CloseEnds
PROPERTY AnsweredSettles
CHECK_DEADLOCK FALSE
