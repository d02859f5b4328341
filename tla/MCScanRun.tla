----------------------------- MODULE MCScanRun -----------------------------
(* Small instances of ScanRun for TLC.                                     *)
EXTENDS ScanRun
=============================================================================
