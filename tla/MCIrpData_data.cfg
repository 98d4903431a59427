\* Two requests, whose buffers have two bytes at most.
SPECIFICATION DataSpec
CONSTANTS
    MaxLength = 2
    MaxRequests = 2
    MaxPath = 2
    None = None
INVARIANT SystemInputAsSent
INVARIANT WholeOrEmpty
INVARIANT RoundTrip
CHECK_DEADLOCK FALSE
