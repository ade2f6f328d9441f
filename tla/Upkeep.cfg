SPECIFICATION UpkeepSpec
CONSTANTS
 x1 = x1
 x2 = x2
 j1 = j1
 j2 = j2
 m1 = m1
 m2 = m2
 p1 = p1
 p2 = p2
 r1 = r1
 r2 = r2
 Nobody = Nobody
 Campaign = {1,2,3}
 Cpm = {1}
 Cpc = {2}
 MaxRelists = 1
 MaxStops = 1
 Cluster = {x1,x2}
 MaxMoves = 2
 MaxTorn = 1
 Export = {j1,j2}
 Method = {m1,m2}
 MaxCrashes = 1
 Product = {p1,p2}
 MaxSnapRequests = 2
 MaxSnapCrashes = 1
 Reader = {r1,r2}
 MaxWrites = 1
 MaxVersion = 2
SYMMETRY AlikeReaders
INVARIANT UpkeepTypeOK
INVARIANT RoundRobin
INVARIANT SteadyShown
INVARIANT FailedIsOver
INVARIANT SucceededHasResult
INVARIANT OneWorker
INVARIANT RunningIsWorked
INVARIANT DropsAreSeen
PROPERTY SteadyStays
CHECK_DEADLOCK FALSE
