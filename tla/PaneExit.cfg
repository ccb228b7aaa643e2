SPECIFICATION FairSpec
CONSTANTS
    Services = {sa}
    Requesting = {sa}
    Provided = {}
    OneSocket = TRUE
    WriteCapacity = 1
    MaxArrivals = 1
    NoService = NoService
PROPERTY ExitNoticed
CHECK_DEADLOCK FALSE
