SPECIFICATION FairRuns
CONSTANTS
 tick = tick
 c1 = c1
 c2 = c2
 None = None
 Call = {tick,c1,c2}
 Cron = tick
 MaxFaults = 1
INVARIANT RunTypeOK
INVARIANT FlagIsLive
INVARIANT FinalIsTruth
PROPERTY StaleSettles
