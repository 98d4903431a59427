\* A broker in any mode starts, fails, ends; the driver may be there already.
SPECIFICATION FairSpec
CONSTANTS
    Modes = {"run-standalone", "install-service", "run-as-service"}
    MayFail = TRUE
INVARIANT TypeOK
INVARIANT DriverOutlivesHandles
PROPERTY StartupServes
PROPERTY StopEnds
CHECK_DEADLOCK FALSE
