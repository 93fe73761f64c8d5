-------------------------- MODULE SessionBroadcast --------------------------
(***************************************************************************)
(* What a message sent to several players of a Session may do to it, as    *)
(* one step.  Session::sendToAll, sendToAlivePlayers and sendTo disconnect *)
(* a player as soon as a send to it fails; the disconnection announces the *)
(* crash, and possibly a new leader, with broadcasts of its own, which may *)
(* fail in turn (rbo/Session.cpp:48-66, 457-465, 652-695).                 *)
(*                                                                         *)
(* Broadcast.tla models that recursion send by send and is checked to      *)
(* implement the outcomes below; Request.tla and Session.tla use them as   *)
(* single steps.                                                           *)
(***************************************************************************)
EXTENDS Integers, FiniteSets, FiniteSetsExt

CONSTANT NoLeader     \* std::optional<byte> leader_ without a value

ASSUME NoLeaderAssumption == NoLeader \notin Nat

\* How a broadcast ends: normally, or with the exception that leaves it.
BroadcastResults ==
  { "sent",           \* returned to its caller
    "nobody",         \* NoPlayerRemaining, disconnect(): the last player left
    "uninitialized",  \* UninitializedLeader, leader() called by disconnect()
    "stale" }         \* connection() asked for a player already removed

\* players_ is a std::map<byte, Player>: cbegin() is its smallest id.
FirstOf(players) == Min(players)

\* A fault: the first player is chosen before the lost ones are removed.
LeaderAmongLost(players, lost, leader) ==
  IF leader \in lost THEN FirstOf(players) ELSE leader

\* The leader once the players of "lost" are gone: disconnect() gives the role
\* of a lost leader to the first player that is left.
LeaderAfter(players, lost, leader) ==
  IF leader \in lost THEN FirstOf(players \ lost) ELSE leader

\* Whether a message to the players of "to" may end in "result" after the loss
\* of the players of "lost".  A player can be lost without being in "to", for
\* the announcements of a loss go to everyone, but the first one is in it.
EndsWith(players, to, leader, lost, result) ==
  /\ lost = {} \/ lost \cap to # {}
  /\ \/ /\ result = "sent"
        /\ lost # players
        /\ lost = {} \/ leader # NoLeader
     \/ /\ result = "nobody"
        /\ lost = players
        /\ leader # NoLeader \/ Cardinality(lost) = 1
     \/ /\ result = "uninitialized"
        /\ leader = NoLeader
        /\ Cardinality(lost) = 1 /\ lost # players
     \/ /\ result = "stale"
        /\ leader # NoLeader
        /\ lost # players
        /\ \/ Cardinality(lost) > 2
           \/ Cardinality(lost) = 2 /\ lost \subseteq to

\* The ways it can end when the connections of "dead" are broken: a send to a
\* dead player may still succeed (it only fills the socket's buffer), a send to
\* any other does.  Once nobody is left nobody leads.
BroadcastOutcomes(players, to, leader, dead) ==
  { [ players |-> players \ e.lost,
      leader  |-> IF e.result \in {"sent", "stale"}
                  THEN LeaderAfter(players, e.lost, leader) ELSE NoLeader,
      result  |-> e.result ] :
    e \in { end \in [ lost : SUBSET (dead \cap players),
                      result : BroadcastResults ] :
              EndsWith(players, to, leader, end.lost, end.result) } }

-----------------------------------------------------------------------------
(* What a whole request may do to the session (Session::request): lose any  *)
(* player whose connection is broken, target or not, in the request itself  *)
(* or in the announcements of its clean-up.  Module Request models it;      *)
(* RequestContract checks that it ends in one of these outcomes.            *)

RequestResults == BroadcastResults \cup { "canceled" }      \* CanceledRequest

\* Whether a request may end in "result" after the loss of "lost", when it
\* returns with the session running or not.
RequestEndsWith(players, leader, running, lost, result) ==
  \/ result = "nobody" /\ lost = players
  \/ result = "uninitialized" /\ lost # players /\ leader = NoLeader
  \/ result = "stale" /\ lost # players /\ leader # NoLeader
       /\ Cardinality(lost) > 2
  \/ /\ result = IF running THEN "sent" ELSE "canceled"
     /\ lost # players /\ leader # NoLeader

RequestOutcomes(players, leader, running, dead) ==
  { [ players |-> players \ e.lost,
      leader  |-> IF e.result \in {"sent", "canceled", "stale"}
                  THEN LeaderAfter(players, e.lost, leader) ELSE NoLeader,
      result  |-> e.result ] :
    e \in { end \in [ lost : SUBSET (dead \cap players),
                      result : RequestResults ] :
              RequestEndsWith(players, leader, running, end.lost,
                              end.result) } }
=============================================================================
