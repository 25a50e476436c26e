---------------------------- MODULE MCSnapshots ----------------------------
(* Model-checking instance of Snapshots. *)
EXTENDS Snapshots
=============================================================================
