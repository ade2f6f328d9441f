SPECIFICATION Spec
CONSTANTS
 k1 = k1
 k2 = k2
 k3 = k3
 g1 = g1
 g2 = g2
 j1 = j1
 j2 = j2
 j3 = j3
 None = None
 Key = {k1,k2}
 Group = {g1}
 GroupOf <-OneCampaign
 Job = {j1,j2}
 Requests <-OneOrBoth
 PassLimit = 2
 BatchLimit = 1
 MaxAttempts = 2
 WbOutcomes = {"accepted","throttled"}
 ReadbackMode = "observe"
 ReadbackFails = TRUE
 Faults = {"crash","query","command"}
 MaxFaults = 1
SYMMETRY JobSymmetry
INVARIANT TypeOK
INVARIANT ConfirmedIsLive
INVARIANT AttemptsBounded
INVARIANT RowOwned
