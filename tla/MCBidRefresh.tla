---------------------------- MODULE MCBidRefresh ----------------------------
(* Small instances of BidRefresh for TLC. *)
EXTENDS BidRefresh
CONSTANTS k1, k2, g1, j1, j2

OneCampaign == [k \in Key |-> g1]
Singletons  == {{k} : k \in Key}
=============================================================================
