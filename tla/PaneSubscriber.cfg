SPECIFICATION Spec
CONSTANTS
    Services = {sa}
    Requesting = {sa}
    Provided = {sa}
    OneSocket = TRUE
    WriteCapacity = 1
    MaxArrivals = 1
    NoService = NoService
INVARIANT HandleConfirmed
CHECK_DEADLOCK FALSE
