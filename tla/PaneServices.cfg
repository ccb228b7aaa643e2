SPECIFICATION Spec
CONSTANTS
    Services = {sa, sb}
    Requesting = {sa}
    Provided = {sb}
    OneSocket = TRUE
    WriteCapacity = 1
    MaxArrivals = 2
    NoService = NoService
INVARIANTS
    TypeOK
    RequestAccounted
    OwnSession
    ReceiverKnown
    RequestsInOrder
    RevokeAccounted
CHECK_DEADLOCK FALSE
