------------------------- MODULE MCRequestContract -------------------------
(* RequestContract for TLC, with enough players for every end a request    *)
(* may have.  The rest is narrowed: nobody is dead in the game, the first  *)
(* thing the script does is a request to everyone, before which any        *)
(* connections may break, and the server stops, if it does, in the         *)
(* request's launching loop.                                               *)
EXTENDS RequestContract

Narrow ==
  /\ pc = "script" => requests = 0 /\ UNCHANGED <<leader, alive, running>>
  /\ requests' = 1 => targets' = players
  /\ dead' # dead => pc = "script"
  /\ loopUp' # loopUp => pc = "launch"

ContractOnce ==
  ContractInit /\ alive = Players /\ [][ContractNext /\ Narrow]_<<vars, found>>
=============================================================================
