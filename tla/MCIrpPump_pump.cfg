\* Two capturing threads and the broker: the queue keeps what it promises one
\* reader, the broker stores what the driver delivered, gets out of its reads,
\* and wastes no wake-up.
SPECIFICATION FairPumpSpec
CONSTANTS
    p1 = p1
    p2 = p2
    r1 = r1
    e1 = e1
    None = None
    Producers = {p1, p2}
    Readers = {r1}
    Events = {e1}
    Event = e1
    LengthWidth <- MCWidth
    Irps <- MCIrps
    Size <- MCSize
    Lengths <- MCLengths
INVARIANT PumpTypeOK
INVARIANT CountersAgree
INVARIANT SignalMeansData
INVARIANT DeliveryInOrder
INVARIANT SnapshotHolds
INVARIANT StoredInOrder
PROPERTY ImplementsChannel
PROPERTY ReadTerminates
PROPERTY SignalledIsRead
