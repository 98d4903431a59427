\* One driver, one refresher, two IRPs: what is shown, lost, and waited for.
SPECIFICATION FairGuiSpec
CONSTANTS
    Drivers = {d}
    Minifilters = {}
    Refreshers = {r1}
    MaxIrps = 2
    MaxTogether = 2
    MaxTroubles = 1
    None = None
INVARIANT GuiTypeOK
INVARIANT Matched
INVARIANT ShownIsHooked
INVARIANT CapturedOnceInOrder
INVARIANT NothingLost
PROPERTY CommandsEnd
PROPERTY QueueDrains
CHECK_DEADLOCK FALSE
