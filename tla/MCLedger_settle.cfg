\* Full captures, releases and reversals of two orders by two handlers.
CONSTANTS
    u1 = u1  u2 = u2
    c1 = c1  c2 = c2  f1 = f1  f2 = f2  k1 = k1  k2 = k2  l1 = l1
    t1 = t1  d1 = d1  v1 = v1  v2 = v2
    Users = {u1}
    Disableable = {u1}
    BizNos = {c1, c2, f1, f2, k1, k2, l1, t1, d1, v1, v2}
    Menu <- SettleMenu
    Handlers = {h1, h2}
    OverdraftAllowed = FALSE
    FreezeSupported = TRUE
    MaxPostings = 7
    NoBiz = NoBiz
    Idle = Idle
SPECIFICATION Spec
SYMMETRY Handlers2
INVARIANTS TypeOK FreezeTieOut OrderAccounted ValueAccounted
PROPERTIES OrderLifecycle DisabledUntouched
CHECK_DEADLOCK FALSE
