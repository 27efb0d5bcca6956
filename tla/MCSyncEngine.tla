---------------------------- MODULE MCSyncEngine ----------------------------
(* SyncEngine for TLC: three instances, so that two slaves contend for the *)
(* one slot of the semaphore.  No symmetry: the runs check liveness.       *)
EXTENDS SyncEngine
=============================================================================
