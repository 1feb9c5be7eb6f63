SPECIFICATION Spec

CONSTANTS
    u1 = u1
    u2 = u2
    CNY = CNY
    USD = USD
    PTS = PTS
    spot = spot
    back = back
    Users <- MCUsers
    Assets <- MCAssets
    Overdraft = {}
    Opening <- MCOpening
    Exchanges <- MCExchanges
    Reversals <- MCReversals
    RateIds = {spot, back}
    Quotes <- MCQuotes
    Loaded <- MCLoaded
    Handlers = {h1, h2}
    MaxPostings = 3
    MaxQuotes = 2
    None = none
    Idle = idle

SYMMETRY Symmetry

INVARIANTS
    BalancesFromEntries
    UsersCovered
    WithinDailyAmount
    UsageOfPosted
    PricedAtLegRate
    FeelessTieOut
