------------------------------ MODULE Clusters ------------------------------
(***************************************************************************)
(* The search clusters of one product in one campaign.                     *)
(***************************************************************************)
EXTENDS FiniteSets

CONSTANT Cluster

ASSUME ClusterAssumption == IsFiniteSet(Cluster)
=============================================================================
