----------------------------- MODULE MCSyncRuns -----------------------------
(* A small instance of SyncRuns for TLC. *)
EXTENDS SyncRuns
CONSTANTS tick, c1, c2
=============================================================================
