--------------------------- MODULE MCScanService ---------------------------
(* ScanService on a small host.                                            *)
EXTENDS ScanService

CONSTANTS r1, r2, r3, k1

OneDevice == [r \in Runs |-> k1]
=============================================================================
