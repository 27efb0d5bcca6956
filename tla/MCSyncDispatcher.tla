-------------------------- MODULE MCSyncDispatcher --------------------------
(* SyncDispatcher for TLC: callers are interchangeable in safety runs.     *)
EXTENDS SyncDispatcher, TLC

CallerSymmetry == Permutations(Callers)
=============================================================================
