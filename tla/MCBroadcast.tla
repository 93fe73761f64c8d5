---------------------------- MODULE MCBroadcast ----------------------------
(* Broadcast for TLC.                                                      *)
EXTENDS Broadcast
=============================================================================
