------------------------------ MODULE MCLobby ------------------------------
(* Lobby for TLC: ids are naturals because the code orders them.           *)
EXTENDS Lobby
=============================================================================
