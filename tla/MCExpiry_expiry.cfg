\* A rolling and a year-end asset, three credits, a debit, two runners, four days.
CONSTANTS
    alice = alice
    shop = shop
    bob = bob
    c1 = c1  c2 = c2  c3 = c3  d1 = d1
    Account = {alice, shop, bob}
    HolderId <- MCHolderId
    Lists <- MCLists
    Days = 1
    NewYear = {2}
    Request = {c1, c2, c3, d1}
    Holder <- MCHolder
    Change <- MCChange
    FirstDays <- MCFirstDays
    Disableable = {shop}
    Bars <- MCBars
    Runner = {"worker", "operator"}
    MaxAttempts = 1
    RetryDays = 1
    Retain = 1
    RunDays = 1
    MaxDay = 3
    MaxFaults = 1
SPECIFICATION FairSpec
INVARIANTS RecentPointsKept PostedOnce DoneMeansExpired
PROPERTIES OverduePointsGo
CHECK_DEADLOCK FALSE
