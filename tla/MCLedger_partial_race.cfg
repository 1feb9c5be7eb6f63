\* Two handlers settle one order, one of them in part.
CONSTANTS
    u1 = u1  u2 = u2
    c1 = c1  c2 = c2  f1 = f1  f2 = f2  k1 = k1  k2 = k2  l1 = l1
    t1 = t1  d1 = d1  v1 = v1  v2 = v2
    Users = {u1}
    Disableable = {}
    BizNos = {c1, c2, f1, f2, k1, k2, l1, t1, d1, v1, v2}
    Menu <- PartialMenu
    Handlers = {h1, h2}
    OverdraftAllowed = FALSE
    FreezeSupported = TRUE
    MaxPostings = 6
    NoBiz = NoBiz
    Idle = Idle
SPECIFICATION Spec
SYMMETRY Handlers2
INVARIANTS FreezeTieOut
CHECK_DEADLOCK FALSE
