---------------------------- MODULE MCKgslSyncObj ----------------------------
(* A sync object for TLC: one point of each kind, and both failures.         *)
EXTENDS KgslSyncObj, TLC

AllFailures == {"add", "detach"}
=============================================================================
