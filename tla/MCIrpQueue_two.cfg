\* Two reads in flight at once: no IRP is duplicated or unaccounted for.
SPECIFICATION Spec
CONSTANTS
    p1 = p1
    r1 = r1
    r2 = r2
    e1 = e1
    None = None
    Producers = {p1}
    Readers = {r1, r2}
    Events = {e1}
    Irps <- MCIrps
    Size <- MCSize
    Lengths <- MCLengths
INVARIANT Conservation
