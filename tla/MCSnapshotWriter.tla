-------------------------- MODULE MCSnapshotWriter --------------------------
(* The writer and its store with a few threads, for TLC.                   *)
EXTENDS SinkRefinement

=============================================================================
