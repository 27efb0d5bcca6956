---------------------------- MODULE MCWebSession ----------------------------
(* WebSession for TLC.                                                     *)
EXTENDS WebSession
=============================================================================
