------------------------- MODULE MCClusterActionQueue -------------------------
(* Small instances of ClusterActionQueue for TLC. *)
EXTENDS ClusterActionQueue
CONSTANTS k1, k2, k3, g1, g2, j1, j2, j3

\* k1 and k3 belong to one campaign, k2 to another.
TwoCampaigns == [k \in Key |-> IF k = k2 THEN g2 ELSE g1]

\* A command for one cluster, and one that overtakes it or is for the other campaign.
SameOrOther == [j \in Job |-> IF j = j1 THEN {{k1}} ELSE {{k1}, {k2}}]
=============================================================================
