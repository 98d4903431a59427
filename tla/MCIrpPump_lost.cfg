\* An IRP queued between the read and the reset of the event stays there.
SPECIFICATION FairPumpSpec
CONSTANTS
    p1 = p1
    r1 = r1
    e1 = e1
    None = None
    Producers = {p1}
    Readers = {r1}
    Events = {e1}
    Event = e1
    LengthWidth <- MCWidth
    Irps <- MCIrps
    Size <- MCSize
    Lengths <- MCLengths
PROPERTY CapturedIsRead
