SPECIFICATION HistorySpec
CONSTANTS
 k1 = k1
 k2 = k2
 k3 = k3
 g1 = g1
 g2 = g2
 j1 = j1
 j2 = j2
 j3 = j3
 None = None
 Key = {k1,k2,k3}
 Group = {g1,g2}
 GroupOf <-TwoCampaigns
 Job = {j1,j2,j3}
 Excludes = {j1,j3}
 Requests <-TwoAndOne
 GroupLimit = 2
 MaxAttempts = 1
 WbOutcomes = {"accepted","throttled","rejected"}
 ReadbackMode = "observe"
 ReadbackFails = TRUE
 Refreshing = FALSE
 Faults = {}
 MaxFaults = 0
INVARIANT TypeOK
INVARIANT ConfirmedStands
PROPERTY LatestStateSpec
PROPERTY OnlyNamedChange
