\* Two IOCTL threads and one that does I/O; a driver hooked again after its
\* removal, and another that stays.
SPECIFICATION Spec
CONSTANTS
    a1 = a1
    a2 = a2
    x1 = x1
    t1 = t1
    t2 = t2
    h1 = h1
    h2 = h2
    h3 = h3
    None = None
    Targets = {t1, t2}
    FastTargets = {t1}
    Hooks = {h1, h2, h3}
    Admins = {a1, a2}
    Threads = {x1}
    MaxHooked = 2
    MaxDepth = 1
SYMMETRY MCSymmetry
INVARIANT TypeOK
INVARIANT HookedOnce
INVARIANT DispatchSound
INVARIANT ReferencesBalanced
CHECK_DEADLOCK FALSE
