---------------------------- MODULE MCScanEvents ----------------------------
(* ScanEvents with a mailbox that fills up and two consumers.              *)
EXTENDS ScanEvents
=============================================================================
