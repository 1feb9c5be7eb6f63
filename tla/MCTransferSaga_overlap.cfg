\* Two drivers at once, every fault: what still holds.
CONSTANTS
    Drivers = {d1, d2}
    Extras = "to_asset_code"
    OpsCompensates = TRUE
    Outages = TRUE
    MaxFailures = 2
    MaxCrashes = 2
SPECIFICATION Spec
SYMMETRY AnyDriver
INVARIANTS LegsOnce PaidFirst AnswerBacked
CHECK_DEADLOCK FALSE
