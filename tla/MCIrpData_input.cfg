\* One request: is its input captured as it was sent?
SPECIFICATION DataSpec
CONSTANTS
    MaxLength = 1
    MaxRequests = 1
    MaxPath = 2
    None = None
INVARIANT InputAsSent
CHECK_DEADLOCK FALSE
