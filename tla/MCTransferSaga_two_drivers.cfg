\* The worker's tick meets the request that is still being executed.
CONSTANTS
    Drivers = {d1, d2}
    Extras = "nothing"
    OpsCompensates = FALSE
    Outages = FALSE
    MaxFailures = 0
    MaxCrashes = 0
SPECIFICATION Spec
SYMMETRY AnyDriver
INVARIANTS AllOrNothing
CHECK_DEADLOCK FALSE
