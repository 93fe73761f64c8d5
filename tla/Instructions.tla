---------------------------- MODULE Instructions ----------------------------
(***************************************************************************)
(* Instructions of a scene, as the Lua scripts of the repository write     *)
(* them with Gameplay (server/instructions/Base.lua and Custom.lua,        *)
(* rbo/Gameplay.cpp): texts, paths, conditions on players, an event that   *)
(* changes their hit points, the surprise attack of a group of enemies,    *)
(* and the deaths these cause.                                             *)
(*                                                                         *)
(* Session.tla lets a scene take any step at any time; here each           *)
(* instruction takes its own, in its order.  As there, a broadcast and a   *)
(* request are one step, connections break between the steps, and the      *)
(* session may be stopped.  It is played from the end of its introduction; *)
(* what comes before is one step, and so is what follows its end.          *)
(***************************************************************************)
EXTENDS SessionBroadcast, EnemiesGroup

CONSTANTS
  Ids,         \* the players who may take part
  MaxHp,       \* limit of the hit points, and what a new player has
  Groups,      \* the descriptors of the groups of enemies in the game
  Changes      \* what events may add to the hit points

ASSUME IdsAssumption == Ids \subseteq Nat /\ IsFiniteSet(Ids)
ASSUME MaxHpAssumption == MaxHp \in Nat \ {0}
ASSUME GroupsAssumption == Groups \subseteq Descriptors
ASSUME ChangesAssumption == Changes \subseteq Int

VARIABLES
  dead,        \* players whose connection is broken
  players,     \* keys of Session::players_
  leader,      \* Session::leader_
  alive,       \* players who are not dead in the game (Player::alive)
  hp,          \* their hit points
  running,     \* Session::running_
  pc,          \* where the session thread is
  thrown,      \* the exception that leads to the end, or "none"
  chosen,      \* a player whose death is being checked
  group,       \* the enemies of a surprise attack, <<>> in another instruction
  current,     \* EnemiesGroup::current_
  change,      \* what the instruction adds to the hit points
  left,        \* the targets it has not done with
  struck       \* the enemies that have attacked each player, in order

sessionVars == <<players, leader, alive>>
attackVars == <<group, current, struck>>
taskVars == <<attackVars, change, left>>
playVars == <<dead, sessionVars, hp, running, pc, thrown, chosen, taskVars>>

\* "scene" is between two instructions; in one: "ask", a question is about to
\* be asked; "global", the session's statistics have changed; "test", "asked"
\* and "count", a condition on players; "attack", the current enemy attacks;
\* "targets" and "check", the loop on its targets; "died" and "confirm", a
\* death; "write" and "tell", a checkpoint is saved.
Places ==
  { "lobby", "scenes", "scene", "ask", "global", "test", "asked", "count",
    "attack", "targets", "check", "died", "confirm", "write", "tell", "end" }
InInstruction == pc \notin {"lobby", "scenes", "scene", "end"}

PlayTypeOK ==
  /\ players \subseteq Ids /\ dead \subseteq Ids /\ alive \subseteq Ids
  /\ leader \in Ids \cup {NoLeader} /\ chosen \in Ids \cup {NoLeader}
  /\ hp \in [Ids -> 0 .. MaxHp]
  /\ running \in BOOLEAN /\ pc \in Places
  /\ thrown \in RequestResults \cup {"none", "error"}
  /\ change \in Int
  /\ left \subseteq Ids
  /\ current \in Nat
  /\ struck \in [Ids -> Seq(Nat)]

NobodyStruck == [p \in Ids |-> <<>>]
NoHp == [p \in Ids |-> 0]

\* Between two sessions.
NoSession ==
  /\ pc = "lobby" /\ running = FALSE /\ thrown = "none"
  /\ players = {} /\ leader = NoLeader /\ alive = {} /\ dead = {}
  /\ hp = NoHp /\ chosen = NoLeader
  /\ group = <<>> /\ current = 0 /\ struck = NobodyStruck
  /\ change = 0 /\ left = {}

\* An instruction leaves nothing to the next one, nor a session.
TaskEnds ==
  /\ group' = <<>> /\ current' = 0 /\ struck' = NobodyStruck
  /\ change' = 0 /\ left' = {}
SessionEnds ==
  /\ pc' = "lobby" /\ running' = FALSE /\ thrown' = "none"
  /\ players' = {} /\ leader' = NoLeader /\ alive' = {} /\ dead' = {}
  /\ hp' = NoHp /\ chosen' = NoLeader
  /\ TaskEnds

-----------------------------------------------------------------------------
(* The environment: connections that break, and Executor::stop.            *)

Drop(p) ==
  /\ pc # "lobby"
  /\ p \in players \ dead
  /\ dead' = dead \cup {p}
  /\ UNCHANGED <<sessionVars, hp, running, pc, thrown, chosen, taskVars>>

StopSession ==
  /\ running
  /\ running' = FALSE
  /\ UNCHANGED <<dead, sessionVars, hp, pc, thrown, chosen, taskVars>>

-----------------------------------------------------------------------------
(* Steps of the session thread.                                            *)

\* It goes on at "next", or is led to its end by an exception.
GoesOn(next) == pc' = next /\ UNCHANGED thrown
Throws(exception) == pc' = "end" /\ thrown' = exception

\* Broadcast to everyone, "boss" leading, and go on at "next".
Broadcast(boss, next) ==
  \E o \in BroadcastOutcomes(players, players, boss, dead) :
    /\ players' = o.players /\ leader' = o.leader
    /\ IF o.result = "sent" THEN GoesOn(next) ELSE Throws(o.result)

\* Make a request and go on at "next" when it returns.  Cancelled, it ends the
\* instruction, and the session as well, which is stopped then.
Ask(next) ==
  \E o \in RequestOutcomes(players, leader, running, dead) :
    /\ players' = o.players /\ leader' = o.leader
    /\ CASE o.result = "sent"     -> GoesOn(next)
         [] o.result = "canceled" -> GoesOn("end")
         [] OTHER                 -> Throws(o.result)

\* A session begins with a party: the hit points of its players, those of them
\* alive, and who leads.
SessionBegins(party) ==
  /\ pc = "lobby"
  /\ GoesOn("scenes")
  /\ players' = DOMAIN party.hp
  /\ alive' = party.alive
  /\ leader' = party.boss
  /\ hp' = [p \in Ids |-> IF p \in players' THEN party.hp[p] ELSE 0]
  /\ running' = TRUE
  /\ UNCHANGED <<dead, chosen, taskVars>>

\* A new game, led by the first player or by one they have voted for.
NewGame ==
  \E entrants \in (SUBSET Ids) \ {{}}, boss \in Ids :
    /\ boss \in entrants
    /\ SessionBegins([ hp    |-> [p \in entrants |-> MaxHp],
                       alive |-> entrants,
                       boss  |-> boss ])

\* playScene: the scene is built and announced, if the session still runs.
PlayScene ==
  /\ pc = "scenes"
  /\ \/ running /\ Broadcast(leader, "scene")
     \/ running /\ Throws("error") /\ UNCHANGED <<players, leader>>
     \/ ~running /\ GoesOn("end") /\ UNCHANGED <<players, leader>>
  /\ UNCHANGED <<dead, alive, hp, running, chosen, taskVars>>

\* The scene has no instruction left, or the session is stopped.
SceneOver ==
  /\ pc = "scene"
  /\ GoesOn("end")
  /\ UNCHANGED <<dead, sessionVars, hp, running, chosen, taskVars>>

\* Session::end, and the lobby is back.
End == pc = "end" /\ SessionEnds

\* A stopped session begins no instruction.
Begins == pc = "scene" /\ running

\* Goto: the instruction returns the next scene.
Goto ==
  /\ Begins
  /\ GoesOn("scenes")
  /\ UNCHANGED <<dead, sessionVars, hp, running, chosen, taskVars>>

\* Text, Alert, Title and Note: a message to everyone, and a confirmation that
\* is waited for or not.
Text ==
  /\ Begins
  /\ \E next \in {"scene", "ask"} : Broadcast(leader, next)
  /\ UNCHANGED <<dead, alive, hp, running, chosen, taskVars>>

\* The question of PathChoice and YesOrNoDecision.  The scene it leads to, if
\* any, is played as after Goto.
Choice ==
  /\ Begins
  /\ Ask("scene")
  /\ UNCHANGED <<dead, alive, hp, running, chosen, taskVars>>

\* The confirmation of a message.
Confirm ==
  /\ pc = "ask"
  /\ Ask("scene")
  /\ UNCHANGED <<dead, alive, hp, running, chosen, taskVars>>

\* EventTo, for the session: its statistics change and are sent to everyone,
\* which an effect on items cannot do ...
GlobalEvent ==
  /\ Begins
  /\ \/ Broadcast(leader, "global")
     \/ Throws("error") /\ UNCHANGED <<players, leader>>
  /\ UNCHANGED <<dead, alive, hp, running, chosen, taskVars>>

\* ... then checkGame may stop the session, and say so.
CheckGame ==
  /\ pc = "global"
  /\ \/ GoesOn("scene") /\ UNCHANGED <<players, leader, running>>
     \/ Broadcast(leader, "scene") /\ running' = FALSE
  /\ UNCHANGED <<dead, alive, hp, chosen, taskVars>>

\* ActionVote calls a function, votePlayer, that the scripts do not have.
ActionVote ==
  /\ Begins
  /\ Throws("error")
  /\ UNCHANGED <<dead, sessionVars, hp, running, chosen, taskVars>>

\* Test and IfHas: a message to everyone ...
Test ==
  /\ Begins
  /\ Broadcast(leader, "test")
  /\ UNCHANGED <<dead, alive, hp, running, chosen, taskVars>>

\* ... then who is tested: every player, the leader or an id that the script
\* names, who may have to confirm.  Again a vote is an error.
Tested ==
  /\ pc = "test"
  /\ \/ /\ Throws("error")
        /\ UNCHANGED left
     \/ /\ GoesOn("asked") \/ GoesOn("count")
        /\ left' \in {players} \cup { {p} : p \in Ids }
  /\ UNCHANGED <<dead, sessionVars, hp, running, chosen, attackVars, change>>

\* The confirmation, in which the players tested may be lost.
ConfirmTest ==
  /\ pc = "asked"
  /\ Ask("count")
  /\ UNCHANGED <<dead, alive, hp, running, chosen, taskVars>>

-----------------------------------------------------------------------------
(* EventTo and SurpriseAttack: a loop on players, taken before it.         *)

\* EventTo, for the living, for the leader or for an id that the script names.
EventTo ==
  /\ Begins
  /\ GoesOn("targets")
  /\ change' \in Changes
  /\ left' \in {players \cap alive} \cup { {p} : p \in Ids }
  /\ UNCHANGED <<dead, sessionVars, hp, running, chosen, attackVars>>

\* SurpriseAttack makes its group of enemies.  An empty group does not attack.
SurpriseAttack ==
  /\ Begins
  /\ \E descriptor \in Groups :
       \/ /\ ~NamesDiffer(descriptor)
          /\ Throws("error")
          /\ UNCHANGED <<group, current>>
       \/ /\ NamesDiffer(descriptor)
          /\ group' = GroupMade(descriptor)
          /\ IF group' = <<>>
             THEN GoesOn("scene") /\ UNCHANGED current
             ELSE GoesOn("attack") /\ current' = 1
  /\ UNCHANGED <<dead, sessionVars, hp, running, chosen, struck, change, left>>

\* A fault: the players to attack are those of the first round.
AttackSameTargets ==
  /\ pc = "attack"
  /\ Broadcast(leader, "targets")
  /\ change' = -group[current].skill
  /\ left' = players' \cap
       (IF current = 1 THEN alive ELSE { p \in Ids : struck[p] # <<>> })
  /\ UNCHANGED <<dead, alive, hp, running, chosen, attackVars>>

\* The current enemy is announced, then every player who is alive is attacked.
Attack ==
  /\ pc = "attack"
  /\ Broadcast(leader, "targets")
  /\ change' = -group[current].skill
  /\ left' = players' \cap alive
  /\ UNCHANGED <<dead, alive, hp, running, chosen, attackVars>>

\* The statistics or the items of the players tested are counted, which gives
\* the scene that follows.  One player may lose items, and hit points that they
\* were a bonus for.
Count ==
  /\ pc = "count"
  /\ \/ /\ ~(left \subseteq players)
        /\ Throws("error")
        /\ UNCHANGED taskVars
     \/ /\ left \subseteq players
        /\ GoesOn("scene")
        /\ TaskEnds
     \/ /\ left \subseteq players /\ Cardinality(left) = 1
        /\ GoesOn("targets")
        /\ change' \in Changes
        /\ UNCHANGED <<attackVars, left>>
  /\ UNCHANGED <<dead, sessionVars, hp, running, chosen>>

\* The targets come in the order of their ids.
Target == Min(left)

\* Session::player of a target who is gone throws UnknownPlayer.
TargetGone ==
  /\ Target \notin players
  /\ Throws("error")

\* The hit points are within their limits.
Changed(value) == Max({0, Min({MaxHp, value + change})})

\* The hit points of a target change, and everyone is told.  An event whose
\* item changes cannot be made may lead to another scene instead.
Strike ==
  /\ pc = "targets" /\ left # {}
  /\ \/ /\ TargetGone
        /\ UNCHANGED <<players, leader, hp, taskVars>>
     \/ /\ Target \in players /\ group = <<>>
        /\ GoesOn("scenes")
        /\ TaskEnds
        /\ UNCHANGED <<players, leader, hp>>
     \/ /\ Target \in players
        /\ hp' = [hp EXCEPT ![Target] = Changed(@)]
        /\ struck' = IF group = <<>> THEN struck
                     ELSE [struck EXCEPT ![Target] = Append(@, current)]
        /\ Broadcast(leader, "check")
        /\ UNCHANGED <<group, current, change, left>>
  /\ UNCHANGED <<dead, alive, running, chosen>>

\* checkPlayer: a player without hit points dies, and everyone is told.
CheckTarget ==
  /\ pc = "check"
  /\ left' = left \ {Target}
  /\ \/ /\ TargetGone
        /\ UNCHANGED <<sessionVars, chosen>>
     \/ /\ Target \in players /\ hp[Target] # 0
        /\ GoesOn("targets")
        /\ UNCHANGED <<sessionVars, chosen>>
     \/ /\ Target \in players /\ hp[Target] = 0
        /\ alive' = alive \ {Target}
        /\ chosen' = Target
        /\ Broadcast(leader, "died")
  /\ UNCHANGED <<dead, hp, running, attackVars, change>>

\* A fault: the leader's death is not looked at.
AfterDeathLeaderKept ==
  /\ pc = "died"
  /\ \/ players \cap alive = {} /\ Broadcast(leader, "confirm")
     \/ players \cap alive # {} /\ GoesOn("targets")
          /\ UNCHANGED <<players, leader>>
  /\ chosen' = NoLeader
  /\ UNCHANGED <<dead, alive, hp, running, taskVars>>

\* Then, when nobody is alive any more, the end of the game is announced;
\* otherwise the first living player replaces the dead one if it led.
AfterDeath ==
  /\ pc = "died"
  /\ \/ players \cap alive = {} /\ Broadcast(leader, "confirm")
     \/ players \cap alive # {} /\ leader = chosen
          /\ Broadcast(Min(players \cap alive), "targets")
     \/ players \cap alive # {} /\ leader # chosen /\ GoesOn("targets")
          /\ UNCHANGED <<players, leader>>
  /\ chosen' = NoLeader
  /\ UNCHANGED <<dead, alive, hp, running, taskVars>>

\* A fault: the session is not stopped.
GameGoesOn ==
  /\ pc = "confirm"
  /\ Ask("targets")
  /\ UNCHANGED <<dead, alive, hp, running, chosen, taskVars>>

\* Everyone confirms, and the session is stopped.
GameOver ==
  /\ pc = "confirm"
  /\ Ask("targets")
  /\ running' = (running /\ pc' # "targets")
  /\ UNCHANGED <<dead, alive, hp, chosen, taskVars>>

\* No target is left.  The next living enemy attacks, unless all have; a group
\* of dead enemies is an error (NoMoreEnemies) after its first attack.
TargetsDone ==
  /\ pc = "targets" /\ left = {}
  /\ \/ group = <<>> /\ GoesOn("scene") /\ TaskEnds
     \/ group # <<>> /\ Defeated(group)
          /\ Throws("error") /\ UNCHANGED taskVars
     \/ /\ group # <<>> /\ ~Defeated(group)
        /\ LET next == NextAlive(group, current, FALSE)
           IN IF next.looped THEN GoesOn("scene") /\ TaskEnds
              ELSE GoesOn("attack") /\ current' = next.current
                     /\ UNCHANGED <<group, struck, change, left>>
  /\ UNCHANGED <<dead, sessionVars, hp, running, chosen>>

-----------------------------------------------------------------------------
(* The steps of the session thread while a session is played.              *)

Play ==
  \/ PlayScene \/ SceneOver \/ End
  \/ Goto \/ Text \/ Choice \/ Confirm \/ GlobalEvent \/ CheckGame
  \/ ActionVote \/ Test \/ Tested \/ ConfirmTest \/ Count
  \/ EventTo \/ SurpriseAttack
  \/ Attack \/ Strike \/ CheckTarget \/ AfterDeath \/ GameOver \/ TargetsDone

-----------------------------------------------------------------------------
(* Properties of the instructions.                                         *)

\* The enemies of a group who attack: the first, whatever its hit points are,
\* and those who are alive.
Attackers == { i \in DOMAIN group : i = 1 \/ IsAlive(group[i]) }

\* Attacks by each of the attackers up to one of them, once, in their order.
AttacksUpTo(last, attacks) ==
  /\ { attacks[n] : n \in DOMAIN attacks } = { i \in Attackers : i =< last }
  /\ \A m, n \in DOMAIN attacks : m < n => attacks[m] < attacks[n]

\* When a surprise attack is over every enemy has attacked, once and in its
\* turn, each player who is still alive; and the players who have died in the
\* meantime, up to the attack that killed them.
EnemiesAttackOnce ==
  [][ group # <<>> /\ pc = "targets" /\ pc' = "scene" =>
        \A p \in players :
          IF p \in alive THEN AttacksUpTo(Len(group), struck[p])
          ELSE \E last \in 0 .. Len(group) : AttacksUpTo(last, struck[p])
    ]_playVars

\* Nobody who is dead, or gone, is attacked by an enemy.
DeadLeftAlone ==
  [][ pc' # "lobby" =>
        \A p \in Ids : Len(struck'[p]) > Len(struck[p]) =>
                         p \in players \cap alive ]_playVars

\* The game ends with its last living player: a scene has no other instruction
\* for a party of the dead, whichever instruction killed them.
PartyDeadEnds == pc \in {"scene", "scenes"} /\ running => alive # {}

\* Every step of the instructions is one that Session.tla lets a scene take,
\* or changes nothing of the session.
Scene == INSTANCE Session WITH
  entrants <- {}, sockets <- {}, saved <- {}, missing <- FALSE,
  result <- "none", game <- {}, boarded <- Ids, pending <- {},
  pc <- IF InInstruction /\ pc \notin {"died", "confirm"} THEN "scene" ELSE pc
KeepsToScenes ==
  [][ pc # "lobby" /\ pc' # "lobby" =>
        Scene!Next \/ UNCHANGED Scene!vars ]_playVars
=============================================================================
