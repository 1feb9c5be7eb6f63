\* Four calls of two clients through one limiter, a copy, a fault, a change of tenants or rules.
CONSTANTS
    sdk = sdk  script = script  bare = bare  torn = torn
    order = order  pay = pay
    t1 = t1  t2 = t2
    None = None
    Call = {sdk, script, bare, torn}
    Client = {order, pay}
    Tenant = {t1, t2}
    After <- MCAfter
    By <- MCBy
    Source <- MCSource
    Parses = {sdk, script, bare}
    Header <- MCHeader
    Body <- MCBody
    Signed <- MCHeader
    Version <- MCVersion
    Tries <- MCTries
    Granted <- MCGranted
    GatewayDefault = t1
    ApiDefault = t2
    Limiter = {"global"}
    LimiterOf <- MCLimiterOf
    Rps <- MCRps
    Window = 1
    Drift <- MCDrift
    Copied = {sdk}
    Disableable = {t1}
    InitRules = {order, pay}
    RuleSets = {{pay}}
    MaxClock = 2
    MaxFaults = 1
    MaxCopies = 1
    MaxChanges = 1
SPECIFICATION Spec
INVARIANTS TypeOK RateKept PostedAsMeant ToldTrue
PROPERTIES NonceHeld
CHECK_DEADLOCK FALSE
