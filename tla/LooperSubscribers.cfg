SPECIFICATION Spec
CONSTANTS
    Sessions = {s1, s2}
    Opened = {s1}
    Calls = {k1}
    Handler = Handler
    NoSession = NoSession
    NoEntry = NoEntry
    MaxTokens = 2
    RequestCap = 0
    MsgLimit = 2
    MaxSends = 1
    MaxArrivals = 3
    Kinds = {"Teardown", "Accepted"}
INVARIANT SubscribersCurrent
CHECK_DEADLOCK FALSE
