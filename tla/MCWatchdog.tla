----------------------------- MODULE MCWatchdog -----------------------------
(* Watchdog for TLC: two files in one directory, so that a goroutine has   *)
(* events to ignore.                                                       *)
EXTENDS Watchdog, TLC

HandlerSymmetry == Permutations(Handlers)
=============================================================================
