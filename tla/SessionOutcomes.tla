-------------------------- MODULE SessionOutcomes --------------------------
(***************************************************************************)
(* What Session::start promises to the lobby that calls it                 *)
(* (Lobby::runSession, server/Lobby.cpp:610-649): one step from the        *)
(* members whose sockets are given to it, to a result and to what is left  *)
(* of the entrants.  SessionCall states it as a specification, which       *)
(* Session.tla implements; Preparation.tla takes it as a step.             *)
(***************************************************************************)
EXTENDS Integers, FiniteSets

CONSTANT Ids

\* SessionResult: the errors after which the master may revise the parameters.
ParametersErrors ==
  {"CheckpointLoadingError", "LessMembers", "UnknownPlayer", "NoPlayerAlive"}
SessionResults == {"Ok", "Crashed"} \cup ParametersErrors

\* The ends of a session started by "members", whose checkpoint holds the
\* players of "saved" (none: a new game), connections of "dead" being broken.
\*   - An error in the parameters is found before anyone is lost.
\*   - Otherwise the entrants left are exactly those whose socket comes back,
\*     and only broken connections are lost ...
\*   - ... unless the session fails at its very beginning, or while it ends:
\*     then no entrant is removed and none gets its socket back.
SessionOutcomes(members, dead, saved, missing) ==
  { e \in [ result : SessionResults, entrants : SUBSET members,
            sockets : SUBSET members ] :
      \/ /\ e.result \in ParametersErrors
         /\ e.entrants = members /\ e.sockets = members
         /\ saved # {}
         /\ e.result = "UnknownPlayer" => ~(members \subseteq saved)
         /\ e.result = "LessMembers" =>
              members \subseteq saved /\ members # saved /\ ~missing
         /\ e.result = "NoPlayerAlive" =>
              members \subseteq saved /\ (members = saved \/ missing)
      \/ /\ e.result \in {"Ok", "Crashed"}
         /\ e.sockets = e.entrants
         /\ members \ e.entrants \subseteq dead
         /\ e.result = "Ok" => e.entrants # {}
      \/ /\ e.result = "Crashed"
         /\ e.entrants = members /\ e.sockets = {}
         /\ members \cap dead # {} }
=============================================================================
