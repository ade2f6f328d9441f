--------------------------- MODULE MCActionHistory ---------------------------
(* A small instance of ClusterActionHistory for TLC. *)
EXTENDS ClusterActionHistory, MCClusterActionQueue

\* Two commands for clusters of two campaigns, and one that either follows the
\* first or is for another cluster of its campaign.
TwoAndOne == [j \in Job |-> CASE j = j1 -> {{k1}} [] j = j2 -> {{k2}} [] OTHER -> {{k1}, {k3}}]
=============================================================================
