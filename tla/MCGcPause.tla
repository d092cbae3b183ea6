----------------------------- MODULE MCGcPause -----------------------------
(* GcPause with two threads that each nest the two blocks of a scan.       *)
EXTENDS GcPause
=============================================================================
