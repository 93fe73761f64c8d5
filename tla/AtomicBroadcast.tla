-------------------------- MODULE AtomicBroadcast --------------------------
(***************************************************************************)
(* What Session promises of a broadcast: between its call and its end the  *)
(* players it could not reach are lost, all at once, the role of leader    *)
(* goes to the first player left when its holder is lost, and there is a   *)
(* single end (the outcomes of SessionBroadcast).  It is the step that the *)
(* specifications of the session's other operations take.                  *)
(***************************************************************************)
EXTENDS SessionBroadcast

CONSTANT Players

VARIABLES players, leader, dead,
          to,         \* the players addressed
          outcome     \* "none" before the end, then how the broadcast ended

aVars == <<players, leader, dead, to, outcome>>

AInit ==
  /\ players \in (SUBSET Players) \ {{}}
  /\ leader \in players \cup {NoLeader}
  /\ dead \in SUBSET players
  /\ to \in SUBSET players
  /\ outcome = "none"

\* A connection breaks.
ADrop ==
  /\ outcome = "none"
  /\ \E p \in Players : dead' = dead \cup {p}
  /\ UNCHANGED <<players, leader, to, outcome>>

\* The whole broadcast.
ABroadcast ==
  /\ outcome = "none"
  /\ \E o \in BroadcastOutcomes(players, to, leader, dead) :
       /\ players' = o.players
       /\ leader' = o.leader
       /\ outcome' = o.result
  /\ UNCHANGED <<dead, to>>

ANext == ADrop \/ ABroadcast

ASpec == AInit /\ [][ANext]_aVars

\* Under weak fairness of the broadcast it ends.
AFairSpec == ASpec /\ WF_aVars(ABroadcast)
=============================================================================
