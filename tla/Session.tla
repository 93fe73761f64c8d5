------------------------------ MODULE Session ------------------------------
(***************************************************************************)
(* The life of a session: Session::start, from the sockets the lobby gives *)
(* it to those it gives back (rbo/Session.cpp:82-448), with the gameplay   *)
(* calls that change it: votes for a leader, deaths, the end of the game   *)
(* (rbo/Gameplay.cpp:76-191).                                              *)
(*                                                                         *)
(* It runs on the session thread.  A broadcast and a request are one step  *)
(* each, with the outcomes of SessionBroadcast; connections break between  *)
(* them and Executor::stop may stop the session.  Exceptions end it, most  *)
(* of them through Session::end.                                           *)
(***************************************************************************)
EXTENDS SessionBroadcast, SessionCall

ASSUME IdsAssumption == Ids \subseteq Nat      \* bytes, the keys of std::map

VARIABLES
  game,        \* the parameters and the checkpoint
  boarded,     \* the entrants at the call of start, for the properties
  players,     \* keys of Session::players_ and Session::connections_
  leader,      \* Session::leader_
  alive,       \* players who are not dead in the game
  running,     \* Session::running_
  pc,          \* where the session thread is
  thrown,      \* the exception that leads to the end, or "none"
  pending,     \* players the loop of updates has not reached
  chosen       \* a player just voted for, or whose death is being checked

lobbyVars == <<entrants, sockets, result>>
sessionVars == <<players, leader, alive>>
scriptVars == <<pending, chosen>>
vars == <<callVars, game, boarded, sessionVars, running, pc, thrown,
          scriptVars>>

Places ==
  { "idle", "begin", "init", "load", "rolls", "vote", "cache", "update",
    "stats", "scenes", "scene", "died", "confirm", "end", "over", "undefined" }

\* What leaves the try block of start: one of its own errors, the end of a
\* broadcast or of a request, or any other exception of the script.
Exceptions ==
  ParametersErrors \cup RequestResults \cup {"error"}

TypeOK ==
  /\ boarded \subseteq Ids /\ entrants \subseteq boarded
  /\ sockets \subseteq entrants
  /\ dead \subseteq boarded
  /\ players \subseteq boarded
  /\ leader \in Ids \cup {NoLeader}
  /\ alive \subseteq boarded
  /\ running \in BOOLEAN
  /\ pc \in Places
  /\ thrown \in Exceptions \cup {"none"}
  /\ result \in SessionResults \cup {"none"}
  /\ pending \subseteq Ids
  /\ chosen \in Ids \cup {NoLeader}

\* A game: new, or restored from a checkpoint that holds the players of
\* "saved", those of "living" alive, "boss" leading.
NewGames == [ living : {{}}, boss : {NoLeader}, vote : BOOLEAN ]
Restored(ids) == [ living : SUBSET ids, boss : ids, vote : BOOLEAN ]

Init ==
  /\ entrants \in (SUBSET Ids) \ {{}}
  /\ boarded = entrants /\ sockets = entrants
  /\ dead = {}
  /\ saved \in SUBSET Ids
  /\ missing \in BOOLEAN
  /\ IF saved = {} THEN game \in NewGames
                   ELSE game \in Restored(saved)
  /\ players = {} /\ leader = NoLeader /\ alive = {}
  /\ running = FALSE
  /\ pc = "idle" /\ thrown = "none" /\ result = "none"
  /\ pending = {} /\ chosen = NoLeader

-----------------------------------------------------------------------------
(* The environment.                                                        *)

Going == pc \notin {"over", "undefined"}

\* The connection of an entrant breaks.
Drop(p) ==
  /\ Going
  /\ p \in boarded \ dead
  /\ dead' = dead \cup {p}
  /\ UNCHANGED <<lobbyVars, saved, missing, game, boarded, sessionVars,
                 running, pc, thrown, scriptVars>>

\* Executor::stop calls Session::stop.
StopSession ==
  /\ Going /\ running
  /\ running' = FALSE
  /\ UNCHANGED <<callVars, game, boarded, sessionVars, pc, thrown,
                 scriptVars>>

-----------------------------------------------------------------------------
(* Steps of the session thread.  What they leave alone:                    *)

Unchanged ==
  UNCHANGED <<lobbyVars, dead, saved, missing, game, boarded>>

\* The session goes on at "next", or is led to its end by an exception.
GoesOn(next) == pc' = next /\ UNCHANGED thrown
Throws(exception) == pc' = "end" /\ thrown' = exception

\* Broadcast to "to", "boss" leading, and go on at "next".
Broadcast(to, boss, next) ==
  \E o \in BroadcastOutcomes(players, to, boss, dead) :
    /\ players' = o.players /\ leader' = o.leader
    /\ IF o.result = "sent" THEN GoesOn(next) ELSE Throws(o.result)

\* A request that fails.  Cancelled in a scene, it ends the instruction and,
\* the session being stopped, the scene; it is an error anywhere else.
AskFails(failure) ==
  IF failure = "canceled" /\ pc \in {"scene", "confirm"}
  THEN GoesOn("end") ELSE Throws(failure)

\* Make a request, and go on at "next" when it returns its replies.
Ask(next) ==
  \E o \in RequestOutcomes(players, leader, running, dead) :
    /\ players' = o.players /\ leader' = o.leader
    /\ IF o.result = "sent" THEN GoesOn(next) ELSE AskFails(o.result)

\* start: the session runs, and begin() moves the entrants' sockets.
Start ==
  /\ pc = "idle"
  /\ running' = TRUE
  /\ players' = entrants /\ alive' = entrants
  /\ sockets' = {}
  /\ GoesOn("begin")
  /\ UNCHANGED <<entrants, result, dead, saved, missing, game, boarded, leader,
                 scriptVars>>

\* begin() announces the session.  It is called before the try block: what it
\* throws leaves start at once, for runSession to report a crash.
Begin ==
  /\ pc = "begin"
  /\ \E o \in BroadcastOutcomes(players, players, leader, dead) :
       /\ players' = o.players /\ leader' = o.leader
       /\ \/ o.result = "sent" /\ pc' = "init" /\ UNCHANGED result
          \/ o.result # "sent" /\ pc' = "over" /\ result' = "Crashed"
  /\ UNCHANGED <<entrants, sockets, dead, saved, missing, game, boarded, alive,
                 running, thrown, scriptVars>>

\* newGame: statistics are drawn, and the first player leads.
NewGame ==
  /\ pc = "init" /\ saved = {}
  /\ Broadcast(players, FirstOf(players), "rolls")
  /\ Unchanged
  /\ UNCHANGED <<alive, running, scriptVars>>

\* gameFromCheckpoint: the checkpoint is loaded ...
LoadCheckpoint ==
  /\ pc = "init" /\ saved # {}
  /\ GoesOn("load") \/ Throws("CheckpointLoadingError")
  /\ Unchanged
  /\ UNCHANGED <<sessionVars, running, scriptVars>>

\* ... each global statistic is sent to everyone ...
SendSavedStat ==
  /\ pc = "load"
  /\ Broadcast(players, leader, "load")
  /\ Unchanged
  /\ UNCHANGED <<alive, running, scriptVars>>

\* ... the entrants are compared with the players saved (checkEntrants) ...
EntrantsRefused ==
  /\ pc = "load"
  /\ \/ ~(players \subseteq saved) /\ Throws("UnknownPlayer")
     \/ /\ players \subseteq saved /\ players # saved /\ ~missing
        /\ Throws("LessMembers")
  /\ Unchanged
  /\ UNCHANGED <<sessionVars, running, scriptVars>>

\* A fault: checkEntrants finds no one missing.
NobodyMissing == players \subseteq saved

\* checkEntrants finds nothing to refuse.
EntrantsAccepted == players \subseteq saved /\ (players = saved \/ missing)

\* The players restored alive.
ComeBack == players \cap game.living

\* ... who are restored, at least one of them alive, and the leader who saved
\* leads if it is here.
Restore ==
  /\ pc = "load"
  /\ EntrantsAccepted
  /\ alive' = ComeBack
  /\ \/ /\ alive' = {}
        /\ Throws("NoPlayerAlive")
        /\ UNCHANGED <<players, leader>>
     \/ /\ alive' # {} /\ game.boss \in players
        /\ Broadcast(players, game.boss, "vote")
     \/ /\ alive' # {} /\ game.boss \notin players
        /\ GoesOn("vote")
        /\ UNCHANGED <<players, leader>>
  /\ Unchanged
  /\ UNCHANGED <<running, scriptVars>>

\* globalDiceRolls asks the leader, playersDiceRolls the living players.
AskRoll ==
  /\ pc = "rolls"
  /\ Ask("rolls")
  /\ Unchanged
  /\ UNCHANGED <<alive, running, scriptVars>>

RollsDone ==
  /\ pc = "rolls"
  /\ GoesOn(IF game.vote THEN "vote" ELSE "cache")
  /\ Unchanged
  /\ UNCHANGED <<sessionVars, running, scriptVars>>

\* A fault: a game without a vote needs no leader.
LedOrUnvoted == leader # NoLeader \/ ~game.vote

\* The restored game has its leader.
Led == leader # NoLeader

\* A restored game that has a leader goes on; without one, the first player
\* leads unless the game wants a vote.
LeaderKnown ==
  /\ pc = "vote" /\ saved # {} /\ chosen = NoLeader
  /\ \/ /\ Led
        /\ GoesOn("cache")
        /\ UNCHANGED <<players, leader>>
     \/ /\ ~Led /\ ~game.vote
        /\ Broadcast(players, FirstOf(players), "cache")
  /\ Unchanged
  /\ UNCHANGED <<alive, running, scriptVars>>

\* Gameplay::voteForLeader asks the living players for the name of a player it
\* had before the question.  No reply: nothing changes.  The name of a player
\* who is gone by then: the assertion fails or, without assertions, the end of
\* a vector is read.
AskVote(next) ==
  /\ \E o \in RequestOutcomes(players, leader, running, dead) :
       /\ players' = o.players /\ leader' = o.leader
       /\ \/ /\ o.result # "sent"
             /\ AskFails(o.result)
             /\ UNCHANGED chosen
          \/ /\ o.result = "sent"
             /\ GoesOn(next)
             /\ UNCHANGED chosen
          \/ /\ o.result = "sent"
             /\ chosen' \in players
             /\ UNCHANGED thrown
             /\ IF chosen' \in players' THEN UNCHANGED pc
                                        ELSE pc' = "undefined"
  /\ Unchanged
  /\ UNCHANGED <<alive, running, pending>>

FirstVote ==
  /\ pc = "vote" /\ chosen = NoLeader
  /\ game.vote /\ (saved = {} \/ leader = NoLeader)
  /\ AskVote("cache")

\* The player voted for leads.
Elect ==
  /\ pc \in {"vote", "scene"} /\ chosen # NoLeader
  /\ Broadcast(players, chosen, IF pc = "vote" THEN "cache" ELSE "scene")
  /\ chosen' = NoLeader
  /\ Unchanged
  /\ UNCHANGED <<alive, running, pending>>

BeginUpdates ==
  /\ pc = "cache"
  /\ GoesOn("update")
  /\ pending' = players
  /\ Unchanged
  /\ UNCHANGED <<sessionVars, running, chosen>>

\* The players' states are sent, in a range-for over players_: when the player
\* whose turn it is gets lost, the iterator is no longer valid.
SendUpdate ==
  /\ pc = "update" /\ pending # {}
  /\ \E o \in BroadcastOutcomes(players, players, leader, dead) :
       /\ players' = o.players /\ leader' = o.leader
       /\ pending' = (pending \ {FirstOf(pending)}) \cap players'
       /\ \/ o.result # "sent" /\ Throws(o.result)
          \/ o.result = "sent" /\ GoesOn("update")
          \/ /\ o.result = "sent" /\ FirstOf(pending) \notin players'
             /\ GoesOn("undefined")
  /\ Unchanged
  /\ UNCHANGED <<alive, running, chosen>>

UpdatesDone ==
  /\ pc = "update" /\ pending = {}
  /\ GoesOn("stats")
  /\ Unchanged
  /\ UNCHANGED <<sessionVars, running, scriptVars>>

SendGlobalStat ==
  /\ pc = "stats"
  /\ \/ Broadcast(players, leader, "stats")
     \/ GoesOn("scenes") /\ UNCHANGED <<players, leader>>
  /\ Unchanged
  /\ UNCHANGED <<alive, running, scriptVars>>

\* A fault: a scene that leads to another one is always followed by it.
AlwaysPlays == TRUE

\* The loop on the scenes goes on.
Plays == running

\* playScene: the scene is built and announced, if the session still runs.
PlayScene ==
  /\ pc = "scenes"
  /\ \/ Plays /\ Broadcast(players, leader, "scene")
     \/ Plays /\ Throws("error") /\ UNCHANGED <<players, leader>>
     \/ ~Plays /\ GoesOn("end") /\ UNCHANGED <<players, leader>>
  /\ Unchanged
  /\ UNCHANGED <<alive, running, scriptVars>>

-----------------------------------------------------------------------------
(* A scene's instructions.  Each may take several of these steps; when the  *)
(* session is stopped meanwhile, it ends after the instruction.             *)

\* The script is in an instruction and may take any step.
InScene == pc = "scene" /\ chosen = NoLeader

SceneSends ==
  /\ InScene
  /\ \E to \in {players, players \cap alive} \cup { {p} : p \in players } :
       Broadcast(to, leader, "scene")
  /\ Unchanged
  /\ UNCHANGED <<alive, running, scriptVars>>

SceneAsks ==
  /\ InScene
  /\ Ask("scene")
  /\ Unchanged
  /\ UNCHANGED <<alive, running, scriptVars>>

SceneVotes == InScene /\ AskVote("scene")

SceneSwitchesLeader ==
  /\ InScene
  /\ \E p \in players : Broadcast(players, p, "scene")
  /\ Unchanged
  /\ UNCHANGED <<alive, running, scriptVars>>

\* Gameplay::checkPlayer finds that a player dies, and sends its state.
Die(p) ==
  /\ InScene
  /\ p \in players
  /\ alive' = alive \ {p}
  /\ chosen' = p
  /\ Broadcast(players, leader, "died")
  /\ Unchanged
  /\ UNCHANGED <<running, pending>>

\* Then, when nobody is alive any more, the end of the game is announced;
\* otherwise the first living player replaces the dead one if it led.
AfterDeath ==
  /\ pc = "died"
  /\ \/ /\ players \cap alive = {}
        /\ Broadcast(players, leader, "confirm")
     \/ /\ players \cap alive # {} /\ leader = chosen
        /\ Broadcast(players, FirstOf(players \cap alive), "scene")
     \/ /\ players \cap alive # {} /\ leader # chosen
        /\ GoesOn("scene")
        /\ UNCHANGED <<players, leader>>
  /\ chosen' = NoLeader
  /\ Unchanged
  /\ UNCHANGED <<alive, running, pending>>

\* Everyone confirms, and the session is stopped.
GameOver ==
  /\ pc = "confirm"
  /\ Ask("scene")
  /\ running' = (running /\ pc' # "scene")
  /\ Unchanged
  /\ UNCHANGED <<alive, scriptVars>>

\* Gameplay::checkGame stops the session, then says why.
GameEnds ==
  /\ InScene
  /\ running' = FALSE
  /\ Broadcast(players, leader, "scene")
  /\ Unchanged
  /\ UNCHANGED <<alive, scriptVars>>

\* An instruction fails: an error of the script, an unknown player, a
\* checkpoint in the introduction.
SceneFails ==
  /\ InScene
  /\ Throws("error")
  /\ Unchanged
  /\ UNCHANGED <<sessionVars, running, scriptVars>>

\* The scene leads to another one, or to the end; a stopped session plays no
\* other instruction.
SceneOver ==
  /\ InScene
  /\ GoesOn("scenes") \/ GoesOn("end")
  /\ Unchanged
  /\ UNCHANGED <<sessionVars, running, scriptVars>>

\* What runSession makes of the way start ended.
Result ==
  CASE thrown = "none"              -> "Ok"
    [] thrown \in ParametersErrors -> thrown
    [] OTHER                        -> "Crashed"

\* A fault: the entrants who are lost are not removed.
LostKept == entrants

\* The entrants who get their socket back.
HandedBack == entrants \cap players'

\* The session has ended and what start throws, if it throws, is what led
\* here.
Stopped == result' = Result /\ running' = FALSE

\* end: the end is announced, the players left get their sockets back, the
\* others are no longer entrants.  What the announcement throws replaces the
\* exception that led here, and nothing is handed back.
End ==
  /\ pc = "end"
  /\ pc' = "over"
  /\ \/ /\ players = {}
        /\ entrants' = {} /\ sockets' = {}
        /\ Stopped
        /\ UNCHANGED <<players, leader>>
     \/ /\ players # {}
        /\ \E o \in BroadcastOutcomes(players, players, leader, dead) :
             /\ players' = o.players /\ leader' = o.leader
             /\ \/ /\ o.result = "sent"
                   /\ entrants' = HandedBack
                   /\ sockets' = entrants \cap players'
                   /\ Stopped
                \/ /\ o.result # "sent"
                   /\ result' = "Crashed"
                   /\ UNCHANGED <<entrants, sockets, running>>
  /\ UNCHANGED <<dead, saved, missing, game, boarded, alive, thrown,
                 scriptVars>>

-----------------------------------------------------------------------------
Script ==
  \/ SceneSends \/ SceneAsks \/ SceneVotes \/ SceneSwitchesLeader
  \/ \E p \in Ids : Die(p)
  \/ GameEnds \/ SceneFails \/ SceneOver

SessionThread ==
  \/ Start \/ Begin \/ NewGame \/ LoadCheckpoint \/ SendSavedStat
  \/ EntrantsRefused \/ Restore \/ AskRoll \/ RollsDone \/ LeaderKnown
  \/ FirstVote \/ Elect \/ BeginUpdates \/ SendUpdate \/ UpdatesDone
  \/ SendGlobalStat \/ PlayScene \/ AfterDeath \/ GameOver \/ End

Environment == StopSession \/ \E p \in Ids : Drop(p)
Over == ~Going /\ UNCHANGED vars

Next == SessionThread \/ Script \/ Environment \/ Over

Spec == Init /\ [][Next]_vars

\* The session thread goes on where it can, and no instruction of a scene goes
\* on for ever: a script that keeps coming back to its start ends it at last.
Fairness ==
  /\ WF_vars(SessionThread)
  /\ SF_vars(SceneOver)
FairSpec == Spec /\ Fairness

-----------------------------------------------------------------------------
(* Properties.                                                             *)

\* Whatever fails, and wherever, the lobby gets from the session what
\* SessionCall says: the sockets of exactly the entrants left, or all of the
\* entrants without any socket.
Promise == INSTANCE SessionCall WITH
  sockets <- IF result = "none" THEN entrants ELSE sockets
KeepsPromise == Promise!CSpec

\* While the game is played its leader is one of the players, and unless the
\* session stops it has players.
LeaderWhilePlaying ==
  pc \in {"cache", "update", "stats", "scenes", "scene", "died", "confirm"}
    => leader \in players

\* A restored game is played by players it was saved with, and by all of them
\* unless some may be missing: those who are not here were lost on the way.
RestoredWithItsPlayers ==
  saved # {} /\ pc \in {"vote", "cache", "update", "stats", "scenes", "scene"}
    => /\ boarded \subseteq saved
       /\ missing \/ saved \ players \subseteq dead
       /\ alive \subseteq game.living

\* A session that is stopped after it has begun to run ends.
StoppedSessionEnds ==
  (pc # "idle" /\ ~running) ~> ~Going

\* rbo/Gameplay.cpp:93, assert(selected_player != players_id.cend()): who wins
\* a vote is a player.
VotedIsPlayer == chosen # NoLeader /\ pc # "died" => chosen \in players
=============================================================================
