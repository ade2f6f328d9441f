SPECIFICATION EngineSpec
CONSTANTS
 x1 = x1
 x2 = x2
 b1 = b1
 b2 = b2
 t1 = t1
 t2 = t2
 s1 = s1
 s2 = s2
 Cron = Cron
 Manager = Manager
 NoBid = NoBid
 NoTab = NoTab
 Cluster = {x1,x2}
 V2 = {"preview","live"}
 Inputs <- Turns
 Overtaking = {}
 MaxEvents = 2
 Bucket = {b1,b2}
 MaxCpo = 2
 LastDay = 3
 MaxSpend = 2
 MaxOrders = 1
 MaxReruns = 1
 MaxPrices = 1
 MinBid = 2050
 MaxWbBid = 2450
 Coarse = 10
 Fine = 5
 MinDelta = 100
 BaseBid = 2150
 Thresholds = {0,11,15}
 Accruals <- Sales
 Offers = {1800,2600}
 Positions = {0,4,5}
 MaxOffers = 1
 Tab = {t1,t2}
 Save = {s1,s2}
 MaxTrials = 2
SYMMETRY Alike
INVARIANT EnginesTypeOK
INVARIANT QuarantineKept
INVARIANT InstructionsObeyed
INVARIANT EachDayOnce
INVARIANT OwnTable
INVARIANT SavedIsShown
PROPERTY MovesForPosition
CHECK_DEADLOCK FALSE
