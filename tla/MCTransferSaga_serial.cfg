\* One driver at a time, with failed legs and crashes: the saga implements AtomicTransfer.
CONSTANTS
    Drivers = {d1}
    Extras = "nothing"
    OpsCompensates = FALSE
    Outages = FALSE
    MaxFailures = 4
    MaxCrashes = 4
SPECIFICATION FairSpec
PROPERTIES Implements Answered
CHECK_DEADLOCK FALSE
