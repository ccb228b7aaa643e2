SPECIFICATION Spec
CONSTANTS
    Services = {sa}
    Requesting = {sa}
    Provided = {}
    OneSocket = TRUE
    WriteCapacity = 1
    MaxArrivals = 2
    NoService = NoService
INVARIANT RequestAnswered
CHECK_DEADLOCK FALSE
