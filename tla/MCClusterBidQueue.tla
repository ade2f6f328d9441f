-------------------------- MODULE MCClusterBidQueue --------------------------
(* Small instances of ClusterBidQueue for TLC. *)
EXTENDS ClusterBidQueue, TLC
CONSTANTS k1, k2, k3, g1, g2, j1, j2, j3

OneCampaign  == [k \in Key |-> g1]
TwoCampaigns == [k \in Key |-> IF k = k3 THEN g2 ELSE g1]

\* Requests for single clusters, for one cluster or both of a campaign, and
\* the same with a second campaign.
Singletons  == {{k} : k \in Key}
OneOrBoth   == {{k1}, {k1, k2}}
Overlapping == OneOrBoth \union {{k3}}

JobSymmetry == Permutations(Job)
=============================================================================
