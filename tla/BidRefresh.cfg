SPECIFICATION RefreshSpec
CONSTANTS
 k1 = k1
 k2 = k2
 g1 = g1
 j1 = j1
 j2 = j2
 None = None
 Key = {k1}
 Group = {g1}
 GroupOf <-OneCampaign
 Job = {j1,j2}
 Requests <-Singletons
 PassLimit = 2
 BatchLimit = 2
 MaxAttempts = 2
 WbOutcomes = {"accepted","throttled"}
 ReadbackMode = "off"
 ReadbackFails = FALSE
 Faults = {"crash","query","command"}
 MaxFaults = 1
INVARIANT RefreshTypeOK
INVARIANT MirrorIsLive
INVARIANT RefreshedRowsOwned
