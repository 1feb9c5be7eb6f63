\* Two requests, two changes of the file, and one failing statement or crash.
CONSTANTS
    o1 = o1  o2 = o2
    d1 = d1
    t1 = t1  t2 = t2
    none = none
    Request = {o1, o2}
    Watcher = watcher
    Diff = {d1}
    Tenant = {t1, t2}
    Ask <- MCAsk
    Owner <- MCOwner
    Content = {c1, c2, bad}
    Bad = bad
    None = none
    Shipped = c1
    MaxEdits = 2
    MaxFaults = 1
SPECIFICATION Spec
CHECK_DEADLOCK FALSE
INVARIANTS TicketsOnRecord InForceRecorded
PROPERTIES FileTakesEffect
