\* Two clients, of which the second takes one handle too many, and two IRPs.
SPECIFICATION Spec
CONSTANTS
    MaxIrps = 2
    MaxSlots = 3
    None = None
    Clients = {c1, c2}
    Requests = {"pending", "command", "ill", "piece"}
    MaxRequests = 2
    MaxHandles = 3
    Failures = {"Listen", "ListenerWait", "Accept", "Select", "ClientWait", "SendSynchronous"}
INVARIANT TypeOK
INVARIANT IrpsOnce
CHECK_DEADLOCK FALSE
