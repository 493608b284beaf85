----------------------- MODULE MCReplicationRefinement -----------------------
(* Instances of ReplicationRefinement for TLC.                             *)
EXTENDS MCReplication, ReplicationRefinement
=============================================================================
