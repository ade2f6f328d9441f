SPECIFICATION FairSpec
CONSTANTS
 k1 = k1
 k2 = k2
 k3 = k3
 g1 = g1
 g2 = g2
 j1 = j1
 j2 = j2
 j3 = j3
 None = None
 Key = {k1,k2}
 Group = {g1,g2}
 GroupOf <-TwoCampaigns
 Job = {j1,j2}
 Excludes = {j1}
 Requests <-SameOrOther
 GroupLimit = 2
 MaxAttempts = 2
 WbOutcomes = {"accepted","ignored","rejected"}
 ReadbackMode = "enforce"
 ReadbackFails = FALSE
 Refreshing = TRUE
 Faults = {"crash","query","command"}
 MaxFaults = 1
PROPERTY JobsSettle
PROPERTY RowsSettle
