\* A wait ends at the first state change, whatever the state.
SPECIFICATION Spec
CONSTANTS
    Modes = {"run-standalone"}
    MayFail = FALSE
PROPERTY WaitIsKept
CHECK_DEADLOCK FALSE
