SPECIFICATION Spec
CONSTANTS
 k1 = k1
 k2 = k2
 k3 = k3
 g1 = g1
 g2 = g2
 j1 = j1
 j2 = j2
 j3 = j3
 None = None
 Key = {k1,k2,k3}
 Group = {g1,g2}
 GroupOf <-TwoCampaigns
 Job = {j1,j2}
 Requests <-Overlapping
 PassLimit = 2
 BatchLimit = 2
 MaxAttempts = 2
 WbOutcomes = {"accepted","rejected"}
 ReadbackMode = "observe"
 ReadbackFails = TRUE
 Faults = {"crash","query","command"}
 MaxFaults = 1
PROPERTY LatestStateSpec
