SPECIFICATION FairSpec
CONSTANTS
    Services = {sa}
    Requesting = {sa}
    Provided = {sa}
    OneSocket = TRUE
    WriteCapacity = 1
    MaxArrivals = 3
    NoService = NoService
PROPERTY OpenReturns
PROPERTY ExitNoticedOrReading
CHECK_DEADLOCK FALSE
