\* Two brokers, a client, a process without the privileges; a broker is
\* killed once and a call fails once.
SPECIFICATION FairServiceSpec
CONSTANTS
    b1 = b1
    b2 = b2
    c = c
    u = u
    None = None
    Brokers = {b1, b2}
    Processes = {b1, b2, c, u}
    Privileged = {b1, b2, c}
    MaxHandles = 2
    Width = 2
    MaxCrashes = 1
    MaxFailures = 1
INVARIANT ServiceTypeOK
INVARIANT OwnerIsPresent
INVARIANT Exclusive
INVARIANT NothingLeft
PROPERTY SessionPerOwner
PROPERTY ImplementsSessions
PROPERTY Recovers
