SPECIFICATION FairSpec
CONSTANTS
 k1 = k1
 k2 = k2
 k3 = k3
 g1 = g1
 g2 = g2
 j1 = j1
 j2 = j2
 j3 = j3
 None = None
 Key = {k1}
 Group = {g1}
 GroupOf <-OneCampaign
 Job = {j1,j2}
 Requests <-Singletons
 PassLimit = 2
 BatchLimit = 2
 MaxAttempts = 2
 WbOutcomes = {"accepted","ignored","throttled","lost","rejected"}
 ReadbackMode = "enforce"
 ReadbackFails = TRUE
 Faults = {"crash","query","command"}
 MaxFaults = 1
PROPERTY JobsSettle
PROPERTY RowsSettle
