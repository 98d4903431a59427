\* Two clients, two requests, and some failures.
SPECIFICATION FairSpec
CONSTANTS
    MaxIrps = 1
    MaxSlots = 2
    None = None
    Clients = {c1, c2}
    Requests = {"pending"}
    MaxRequests = 2
    MaxHandles = 4
    Failures = {"Accept", "SendSynchronous"}
PROPERTY ListenerStops
PROPERTY ClientsReaped
PROPERTY RequestsAnswered
CHECK_DEADLOCK FALSE
