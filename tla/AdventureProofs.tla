-------------------------- MODULE AdventureProofs --------------------------
(***************************************************************************)
(* Proofs about what a session plays, for any set of players, of groups of *)
(* enemies, of names and of items.  The instructions and the checkpoints:  *)
(* the cursor of a group goes to the nearest living enemy, no instruction  *)
(* is played by a party of the dead, a checkpoint the players were told of *)
(* is never lost but by a write that does not end, and these sessions,     *)
(* instruction by instruction, are sessions of Session.tla, in which a     *)
(* scene may take any step at any time.  The characters: a character can   *)
(* be saved and restored as it was at any time, a simulated effect tells   *)
(* what the effect does, and the clients are shown all that changes.       *)
(***************************************************************************)
EXTENDS Checkpoints, Character, SessionBroadcastProofs

-----------------------------------------------------------------------------
(* The cursor of a group of enemies.                                       *)

LEMMA MaxOfTwo ==
  ASSUME NEW a \in Int, NEW b \in Int
  PROVE  Max({a, b}) \in {a, b} /\ Max({a, b}) >= a /\ Max({a, b}) >= b
<1>1. \E m \in {a, b} : \A y \in {a, b} : m >= y
  OBVIOUS
<1> QED
  BY <1>1 DEF Max

LEMMA MinOfTwo ==
  ASSUME NEW a \in Int, NEW b \in Int
  PROVE  Min({a, b}) \in {a, b} /\ Min({a, b}) =< a /\ Min({a, b}) =< b
<1>1. \E m \in {a, b} : \A y \in {a, b} : m =< y
  OBVIOUS
<1> QED
  BY <1>1 DEF Min

LEMMA MaxOfZero ==
  ASSUME NEW a \in Int
  PROVE  Max({0, a}) \in Nat
<1>1. Max({0, a}) \in {0, a} /\ Max({0, a}) >= 0
  BY MaxOfTwo
<1> QED
  BY <1>1

\* What the constructors make: no number is negative.
Enemies == [name : STRING, hp : Nat, skill : Nat]

LEMMA GroupMadeType ==
  ASSUME NEW descriptor \in Descriptors
  PROVE  GroupMade(descriptor) \in Seq(Enemies)
<1> DEFINE n == Len(descriptor)
<1>1. n \in Nat /\ DOMAIN descriptor = 1 .. n
  BY DEF Descriptors
<1>2. ASSUME NEW i \in 1 .. n
      PROVE  EnemyMade(descriptor[i]) \in Enemies
  <2>1. descriptor[i] \in [name : STRING, hp : Int, skill : Int]
    BY <1>1, ElementOfSeq DEF Descriptors
  <2>2. /\ Max({0, descriptor[i].hp}) \in Nat
        /\ Max({0, descriptor[i].skill}) \in Nat
    BY <2>1, MaxOfZero
  <2> QED
    BY <2>1, <2>2 DEF EnemyMade, Enemies
<1>3. GroupMade(descriptor) \in [1 .. n -> Enemies]
  BY <1>1, <1>2 DEF GroupMade
<1> QED
  BY <1>1, <1>3, SeqDef

\* A living enemy is a number of steps away, whatever the position.
LEMMA LivingAhead ==
  ASSUME NEW S, NEW g \in Seq(S), NEW c \in 1 .. Len(g),
         NEW i \in 1 .. Len(g), IsAlive(g[i])
  PROVE  /\ i > c => i - c \in StepsToLiving(g, c, FALSE)
         /\ i =< c => i - c + Len(g) \in StepsToLiving(g, c, FALSE)
<1>1. Len(g) \in Nat
  OBVIOUS
<1>2. CASE i > c
  <2>1. i - c \in 1 .. Len(g) /\ Further(g, c, i - c) = i
    BY <1>1, <1>2 DEF Further
  <2> QED
    BY <1>2, <2>1 DEF StepsToLiving
<1>3. CASE i =< c
  <2>1. /\ i - c + Len(g) \in 1 .. Len(g)
        /\ Further(g, c, i - c + Len(g)) = i
    BY <1>1, <1>3 DEF Further
  <2> QED
    BY <1>3, <2>1 DEF StepsToLiving
<1> QED
  BY <1>2, <1>3

\* EnemiesGroup::nextAlive(false), of a group that is not defeated, goes to
\* the nearest living enemy ahead in the queue; it says that it has looped
\* when it has gone back to the beginning, because nobody was left alive after
\* the cursor, and then takes the first living enemy of the queue.
THEOREM NextAliveIsNearest ==
  ASSUME NEW S, NEW g \in Seq(S), NEW c \in 1 .. Len(g), ~Defeated(g)
  PROVE  LET next == NextAlive(g, c, FALSE)
         IN /\ next.current \in 1 .. Len(g)
            /\ IsAlive(g[next.current])
            /\ next.looped = (next.current =< c)
            /\ \A i \in 1 .. Len(g) :
                 IsAlive(g[i]) =>
                   IF next.looped THEN i =< c /\ next.current =< i
                                  ELSE i =< c \/ next.current =< i
<1> DEFINE T == StepsToLiving(g, c, FALSE)
           k == Min(T)
<1>1. Len(g) \in Nat /\ DOMAIN g = 1 .. Len(g)
  OBVIOUS
<1>2. T \subseteq 1 .. Len(g)
  BY DEF StepsToLiving
<1>3. T # {}
  <2>1. PICK i \in 1 .. Len(g) : IsAlive(g[i])
    BY <1>1 DEF Defeated
  <2>2. CASE i > c
    BY <2>1, <2>2, LivingAhead
  <2>3. CASE i =< c
    BY <2>1, <2>3, LivingAhead
  <2>4. i > c \/ i =< c
    BY <1>1
  <2> QED
    BY <2>2, <2>3, <2>4
<1>4. k \in T /\ \A y \in T : k =< y
  <2> HIDE DEF T
  <2>1. T \subseteq Nat
    BY <1>1, <1>2
  <2> QED
    BY <1>3, <2>1, LeastOfNat
<1>5. k \in 1 .. Len(g) /\ IsAlive(g[Further(g, c, k)])
  BY <1>2, <1>4 DEF StepsToLiving
<1>6. /\ NextAlive(g, c, FALSE).current = Further(g, c, k)
      /\ NextAlive(g, c, FALSE).looped = (c + k > Len(g))
  BY DEF NextAlive
<1> HIDE DEF k
<1>7. /\ Further(g, c, k) \in 1 .. Len(g)
      /\ (c + k > Len(g)) = (Further(g, c, k) =< c)
  BY <1>1, <1>5 DEF Further
<1>8. ASSUME NEW i \in 1 .. Len(g), IsAlive(g[i])
      PROVE  IF c + k > Len(g) THEN i =< c /\ Further(g, c, k) =< i
                               ELSE i =< c \/ Further(g, c, k) =< i
  <2>1. /\ i > c => k =< i - c
        /\ i =< c => k =< i - c + Len(g)
    BY <1>4, <1>8, LivingAhead
  <2> QED
    BY <1>1, <1>5, <2>1 DEF Further
<1> QED
  BY <1>5, <1>6, <1>7, <1>8

-----------------------------------------------------------------------------
(* Where the session thread goes.                                          *)

\* A broadcast goes on where it is told to, or leads to the end, and loses
\* players only.
LEMMA BroadcastMoves ==
  ASSUME NEW boss, NEW next, Broadcast(boss, next)
  PROVE  /\ pc' = next \/ pc' = "end"
         /\ players' \subseteq players
<1>1. PICK o \in BroadcastOutcomes(players, players, boss, dead) :
        /\ players' = o.players
        /\ IF o.result = "sent" THEN GoesOn(next) ELSE Throws(o.result)
  BY Zenon DEF Broadcast
<1>2. o.players \subseteq players
  BY DEF BroadcastOutcomes
<1> QED
  BY <1>1, <1>2 DEF GoesOn, Throws

\* So does a request.
LEMMA AskMoves ==
  ASSUME NEW next, Ask(next)
  PROVE  /\ pc' = next \/ pc' = "end"
         /\ players' \subseteq players
<1>1. PICK o \in RequestOutcomes(players, leader, running, dead) :
        /\ players' = o.players
        /\ CASE o.result = "sent"     -> GoesOn(next)
             [] o.result = "canceled" -> GoesOn("end")
             [] OTHER                 -> Throws(o.result)
  BY Zenon DEF Ask
<1>2. o.players \subseteq players
  BY DEF RequestOutcomes
<1> QED
  BY <1>1, <1>2 DEF GoesOn, Throws

-----------------------------------------------------------------------------
(* Types, and who leads.                                                   *)

\* Outside of the instructions that make enemies there are none.
Peaceful == { "lobby", "scenes", "scene", "ask", "global", "test", "asked",
              "count", "write", "tell" }

\* PlayTypeOK is not inductive: it needs the session to have a leader while it
\* is played ...
SessionInv ==
  /\ players \subseteq Ids /\ dead \subseteq Ids /\ alive \subseteq Ids
  /\ running \in BOOLEAN /\ pc \in Places
  /\ thrown \in RequestResults \cup {"none", "error"}
  /\ leader \in players \cup {NoLeader}
  /\ pc \notin {"lobby", "end"} => leader \in players
  /\ chosen \in Ids \cup {NoLeader}
  /\ pc \notin {"died", "end"} => chosen = NoLeader

\* ... the cursor to be in the group, and a target where there is one.
TaskInv ==
  /\ hp \in [Ids -> 0 .. MaxHp]
  /\ change \in Int
  /\ left \subseteq Ids
  /\ pc = "check" => left # {}
  /\ current \in Nat
  /\ struck \in [Ids -> Seq(Nat)]
  /\ group \in Seq(Enemies)
  /\ group # <<>> => current \in 1 .. Len(group)
  /\ pc = "attack" => group # <<>>
  /\ pc \in Peaceful => group = <<>>

LEMMA PlayersAreNat ==
  ASSUME SessionInv
  PROVE  players \subseteq Nat /\ NoLeader \notin Ids
  BY IdsAssumption, NoLeaderAssumption DEF SessionInv

\* What a broadcast led by a player does.
LEMMA BroadcastFacts ==
  ASSUME SessionInv, NEW boss \in players, NEW next, Broadcast(boss, next)
  PROVE  /\ players' \subseteq players
         /\ leader' \in players' \cup {NoLeader}
         /\ \/ pc' = next /\ thrown' = thrown /\ leader' \in players'
            \/ pc' = "end" /\ thrown' \in RequestResults
<1>1. PICK o \in BroadcastOutcomes(players, players, boss, dead) :
        /\ players' = o.players /\ leader' = o.leader
        /\ IF o.result = "sent" THEN GoesOn(next) ELSE Throws(o.result)
  BY Zenon DEF Broadcast
<1>2. Regular(o, players)
  BY PlayersAreNat, OutcomeFacts, Zenon
<1>3. o.result = "sent" => o.leader \in o.players
  BY PlayersAreNat, SentKeepsLeader, Zenon
<1> QED
  BY <1>1, <1>2, <1>3 DEF Regular, GoesOn, Throws, RequestResults

\* What a request does, in a session that is led.
LEMMA AskFacts ==
  ASSUME SessionInv, leader \in players, NEW next, Ask(next)
  PROVE  /\ players' \subseteq players
         /\ leader' \in players' \cup {NoLeader}
         /\ \/ pc' = next /\ thrown' = thrown /\ leader' \in players'
            \/ pc' = "end" /\ thrown' \in RequestResults \cup {thrown}
<1>1. PICK o \in RequestOutcomes(players, leader, running, dead) :
        /\ players' = o.players /\ leader' = o.leader
        /\ CASE o.result = "sent"     -> GoesOn(next)
             [] o.result = "canceled" -> GoesOn("end")
             [] OTHER                 -> Throws(o.result)
  BY Zenon DEF Ask
<1>2. /\ o.players \subseteq players
      /\ o.result \in RequestResults
      /\ o.leader \in o.players \cup {NoLeader}
      /\ o.result \in {"sent", "canceled"} => o.leader \in o.players
  BY PlayersAreNat, RequestFacts, Zenon
<1> QED
  BY <1>1, <1>2 DEF GoesOn, Throws

\* Hit points stay within their limits.
LEMMA ChangedType ==
  ASSUME NEW v \in 0 .. MaxHp, change \in Int
  PROVE  Changed(v) \in 0 .. MaxHp
<1> DEFINE m == Min({MaxHp, v + change})
<1>1. MaxHp \in Nat /\ v + change \in Int
  BY MaxHpAssumption
<1>2. m \in Int /\ m =< MaxHp
  BY <1>1, MinOfTwo
<1>3. Changed(v) = Max({0, m})
  BY DEF Changed
<1> HIDE DEF m
<1>4. Max({0, m}) \in Nat /\ Max({0, m}) \in {0, m}
  BY <1>2, MaxOfZero, MaxOfTwo
<1> QED
  BY <1>1, <1>2, <1>3, <1>4

\* The target is one of those left.
LEMMA TargetIsLeft ==
  ASSUME TaskInv, left # {}
  PROVE  Target \in left /\ Target \in Ids
<1>1. left \subseteq Nat
  BY IdsAssumption DEF TaskInv
<1> QED
  BY <1>1, LeastOfNat DEF Target, TaskInv

\* Nothing is left of an instruction.
LEMMA TaskEndsTypes ==
  ASSUME TaskEnds
  PROVE  /\ group' = <<>> /\ current' \in Nat /\ change' \in Int
         /\ struck' \in [Ids -> Seq(Nat)] /\ left' = {}
  BY DEF TaskEnds, NobodyStruck

\* Hence each step of the session thread keeps the session in order ...
LEMMA PlayKeepsSession ==
  ASSUME SessionInv, TaskInv, Play
  PROVE  SessionInv'
<1> USE DEF GoesOn, Throws, Begins, Places, sessionVars
<1>1. ASSUME pc \notin {"lobby", "end"}, NEW boss \in players,
             NEW next \in Places, next # "lobby", Broadcast(boss, next),
             running' \in BOOLEAN, alive' \subseteq Ids, dead' = dead,
             chosen' \in Ids \cup {NoLeader},
             next # "died" => chosen' = NoLeader
      PROVE  SessionInv'
  BY <1>1, BroadcastFacts DEF SessionInv
<1>2. ASSUME pc \notin {"lobby", "end"}, NEW next \in Places, Ask(next),
             running' \in BOOLEAN, UNCHANGED <<alive, dead, chosen>>,
             chosen = NoLeader
      PROVE  SessionInv'
  <2>1. leader \in players
    BY <1>2 DEF SessionInv
  <2> QED
    BY <1>2, <2>1, AskFacts DEF SessionInv
<1>3. ASSUME UNCHANGED <<players, leader, alive, dead, running, chosen>>,
             pc \notin {"lobby", "end", "died"}, pc' \in Places \ {"lobby"},
             thrown' \in {thrown, "error"}
      PROVE  SessionInv'
  BY <1>3 DEF SessionInv
<1>4. CASE PlayScene
  <2>1. CASE Broadcast(leader, "scene")
    BY <1>1, <1>4, <2>1 DEF PlayScene, SessionInv
  <2>2. CASE ~Broadcast(leader, "scene")
    BY <1>3, <1>4, <2>2 DEF PlayScene
  <2> QED
    BY <1>4, <2>1, <2>2 DEF PlayScene
<1>5. CASE SceneOver \/ Goto \/ ActionVote \/ Tested \/ Count
         \/ EventTo \/ TargetsDone
  BY <1>3, <1>5
     DEF SceneOver, Goto, ActionVote, Tested, Count, EventTo, TargetsDone
<1>6. CASE End
  BY <1>6 DEF End, SessionEnds, SessionInv
<1>7. CASE Text
  <2>1. PICK next \in {"scene", "ask"} : Broadcast(leader, next)
    BY <1>7 DEF Text
  <2> QED
    BY <1>1, <1>7, <2>1 DEF Text, SessionInv
<1>8. CASE Choice \/ Confirm \/ ConfirmTest
  BY <1>2, <1>8 DEF Choice, Confirm, ConfirmTest, SessionInv
<1>9. CASE GlobalEvent
  <2>1. CASE Broadcast(leader, "global")
    BY <1>1, <1>9, <2>1 DEF GlobalEvent, SessionInv
  <2>2. CASE ~Broadcast(leader, "global")
    BY <1>3, <1>9, <2>2 DEF GlobalEvent
  <2> QED
    BY <1>9, <2>1, <2>2 DEF GlobalEvent
<1>10. CASE CheckGame
  <2>1. CASE Broadcast(leader, "scene") /\ running' = FALSE
    BY <1>1, <1>10, <2>1 DEF CheckGame, SessionInv
  <2>2. CASE ~(Broadcast(leader, "scene") /\ running' = FALSE)
    BY <1>3, <1>10, <2>2 DEF CheckGame
  <2> QED
    BY <1>10, <2>1, <2>2 DEF CheckGame
<1>11. CASE SurpriseAttack
  BY <1>3, <1>11 DEF SurpriseAttack
<1>12. CASE Attack \/ Test
  BY <1>1, <1>12 DEF Attack, Test, SessionInv
<1>13. CASE Strike
  <2>1. CASE Broadcast(leader, "check")
    BY <1>1, <1>13, <2>1 DEF Strike, SessionInv
  <2>2. CASE ~Broadcast(leader, "check")
    BY <1>3, <1>13, <2>2 DEF Strike, TargetGone
  <2> QED
    BY <1>13, <2>1, <2>2 DEF Strike
<1>14. CASE CheckTarget
  <2>1. Target \in Ids
    BY <1>14, TargetIsLeft DEF CheckTarget, TaskInv
  <2>2. CASE chosen' = Target /\ Broadcast(leader, "died")
    <3>1. alive' \subseteq Ids
      BY <1>14 DEF CheckTarget, SessionInv
    <3> QED
      BY <1>1, <1>14, <2>1, <2>2, <3>1 DEF CheckTarget, SessionInv
  <2>3. CASE ~(chosen' = Target /\ Broadcast(leader, "died"))
    BY <1>3, <1>14, <2>3 DEF CheckTarget, TargetGone
  <2> QED
    BY <1>14, <2>2, <2>3 DEF CheckTarget
<1>15. CASE AfterDeath
  <2>1. CASE Broadcast(leader, "confirm")
    BY <1>1, <1>15, <2>1 DEF AfterDeath, SessionInv
  <2>2. CASE /\ players \cap alive # {}
             /\ Broadcast(Min(players \cap alive), "targets")
    <3>1. Min(players \cap alive) \in players
      <4>1. players \cap alive \subseteq Nat
        BY PlayersAreNat
      <4> QED
        BY <2>2, <4>1, LeastOfNat
    <3> QED
      BY <1>1, <1>15, <2>2, <3>1 DEF AfterDeath, SessionInv
  <2>3. CASE GoesOn("targets") /\ UNCHANGED <<players, leader>>
    BY <1>15, <2>3 DEF AfterDeath, SessionInv
  <2> QED
    BY <1>15, <2>1, <2>2, <2>3 DEF AfterDeath
<1>16. CASE GameOver
  <2>1. running' \in BOOLEAN
    BY <1>16 DEF GameOver
  <2> QED
    BY <1>2, <1>16, <2>1 DEF GameOver, SessionInv
<1> QED
  BY <1>4, <1>5, <1>6, <1>7, <1>8, <1>9, <1>10, <1>11, <1>12, <1>13, <1>14,
     <1>15, <1>16 DEF Play

\* ... and the targets, the enemies and the hit points.
LEMMA PlayKeepsTask ==
  ASSUME SessionInv, TaskInv, Play
  PROVE  TaskInv'
<1> USE DEF GoesOn, Throws, Begins, Peaceful, taskVars, attackVars
<1>1. ASSUME UNCHANGED <<hp, taskVars>>, pc' \notin {"check", "attack"},
             pc' \in Peaceful => pc \in Peaceful
      PROVE  TaskInv'
  BY <1>1 DEF TaskInv
<1>2. ASSUME TaskEnds, hp' \in [Ids -> 0 .. MaxHp],
             pc' \notin {"check", "attack"}
      PROVE  TaskInv'
  <2>1. <<>> \in Seq(Enemies)
    OBVIOUS
  <2> QED
    BY <1>2, <2>1, TaskEndsTypes DEF TaskInv
<1>3. CASE PlayScene
  BY <1>1, <1>3, BroadcastMoves DEF PlayScene
<1>4. CASE SceneOver \/ Goto \/ ActionVote
  BY <1>1, <1>4 DEF SceneOver, Goto, ActionVote
<1>5. CASE End
  <2>1. hp' \in [Ids -> 0 .. MaxHp]
    BY <1>5, MaxHpAssumption DEF End, SessionEnds, NoHp
  <2> QED
    BY <1>2, <1>5, <2>1 DEF End, SessionEnds
<1>6. CASE Text \/ Test
  BY <1>1, <1>6, BroadcastMoves DEF Text, Test
<1>7. CASE Choice \/ Confirm \/ ConfirmTest
  BY <1>1, <1>7, AskMoves DEF Choice, Confirm, ConfirmTest
<1>8. CASE GlobalEvent
  BY <1>1, <1>8, BroadcastMoves DEF GlobalEvent
<1>9. CASE CheckGame
  BY <1>1, <1>9, BroadcastMoves DEF CheckGame
<1>10. CASE EventTo
  <2>1. change' \in Int
    BY <1>10, ChangesAssumption DEF EventTo
  <2>2. left' \subseteq Ids
    BY <1>10 DEF EventTo, SessionInv
  <2> QED
    BY <1>10, <2>1, <2>2 DEF EventTo, TaskInv
<1>11. CASE SurpriseAttack
  <2>1. PICK descriptor \in Groups :
          \/ /\ Throws("error")
             /\ UNCHANGED <<group, current>>
          \/ /\ group' = GroupMade(descriptor)
             /\ IF group' = <<>>
                THEN GoesOn("scene") /\ UNCHANGED current
                ELSE GoesOn("attack") /\ current' = 1
    BY <1>11 DEF SurpriseAttack
  <2>2. GroupMade(descriptor) \in Seq(Enemies)
    BY GroupsAssumption, GroupMadeType
  <2>3. CASE pc' = "end"
    BY <1>1, <1>11, <2>1, <2>3 DEF SurpriseAttack
  <2>4. CASE pc' # "end"
    <3>1. group' \in Seq(Enemies) /\ (group' # <<>> => 1 \in 1 .. Len(group'))
      BY <2>1, <2>2, <2>4, EmptySeq
    <3> QED
      BY <1>11, <2>1, <2>4, <3>1 DEF SurpriseAttack, TaskInv
  <2> QED
    BY <2>3, <2>4
<1>12. CASE Attack
  <2>1. pc' \in {"targets", "end"}
    BY <1>12, BroadcastMoves DEF Attack
  <2>2. group[current] \in Enemies
    BY <1>12, ElementOfSeq DEF Attack, TaskInv
  <2>3. change' \in Int
    BY <1>12, <2>2 DEF Attack, Enemies
  <2>4. left' \subseteq Ids
    BY <1>12 DEF Attack, SessionInv
  <2> QED
    BY <1>12, <2>1, <2>3, <2>4 DEF Attack, TaskInv
<1>13. CASE Strike
  <2>1. CASE UNCHANGED <<hp, taskVars>> /\ pc' = "end"
    BY <1>1, <2>1
  <2>2. CASE TaskEnds /\ UNCHANGED hp /\ pc' = "scenes"
    BY <1>2, <2>2 DEF TaskInv
  <2>3. CASE /\ hp' = [hp EXCEPT ![Target] = Changed(@)]
             /\ struck' = IF group = <<>> THEN struck
                          ELSE [struck EXCEPT ![Target] = Append(@, current)]
             /\ Broadcast(leader, "check")
             /\ UNCHANGED <<group, current, change, left>>
    <3>1. Target \in Ids /\ left # {}
      BY <1>13, TargetIsLeft DEF Strike
    <3>2. Changed(hp[Target]) \in 0 .. MaxHp
      BY <3>1, ChangedType DEF TaskInv
    <3>3. hp' \in [Ids -> 0 .. MaxHp]
      BY <2>3, <3>2 DEF TaskInv
    <3>4. struck' \in [Ids -> Seq(Nat)]
      <4>1. Append(struck[Target], current) \in Seq(Nat)
        BY <3>1, AppendProperties DEF TaskInv
      <4> QED
        BY <2>3, <4>1 DEF TaskInv
    <3>5. pc' \in {"check", "end"}
      BY <2>3, BroadcastMoves
    <3> QED
      BY <1>13, <2>3, <3>1, <3>3, <3>4, <3>5 DEF Strike, TaskInv
  <2> QED
    BY <1>13, <2>1, <2>2, <2>3 DEF Strike, TargetGone
<1>14. CASE CheckTarget
  <2>1. pc' \in {"targets", "died", "end"}
    BY <1>14, BroadcastMoves DEF CheckTarget, TargetGone
  <2> QED
    BY <1>14, <2>1 DEF CheckTarget, TaskInv
<1>15. CASE AfterDeath
  BY <1>1, <1>15, BroadcastMoves DEF AfterDeath
<1>16. CASE GameOver
  BY <1>1, <1>16, AskMoves DEF GameOver
<1>17. CASE TargetsDone
  <2>1. CASE UNCHANGED taskVars /\ pc' = "end"
    BY <1>1, <1>17, <2>1 DEF TargetsDone
  <2>2. CASE TaskEnds /\ pc' = "scene"
    BY <1>2, <1>17, <2>2 DEF TargetsDone, TaskInv
  <2>3. CASE /\ group # <<>> /\ ~Defeated(group)
             /\ pc' = "attack"
             /\ current' = NextAlive(group, current, FALSE).current
             /\ UNCHANGED <<group, struck, change, left>>
    <3>1. group \in Seq(Enemies) /\ current \in 1 .. Len(group)
      BY <2>3 DEF TaskInv
    <3>2. NextAlive(group, current, FALSE).current \in 1 .. Len(group)
      BY <2>3, <3>1, NextAliveIsNearest
    <3>3. UNCHANGED hp
      BY <1>17 DEF TargetsDone
    <3>4. current' \in 1 .. Len(group)
      BY <2>3, <3>2
    <3>5. current' \in Nat
      BY <3>1, <3>4
    <3> QED
      BY <2>3, <3>3, <3>4, <3>5 DEF TaskInv
  <2> QED
    BY <1>17, <2>1, <2>2, <2>3 DEF TargetsDone
<1>18. CASE Tested
  <2>1. left' \subseteq Ids
    BY <1>18 DEF Tested, SessionInv, TaskInv
  <2> QED
    BY <1>18, <2>1 DEF Tested, TaskInv
<1>19. CASE Count
  <2>1. CASE UNCHANGED taskVars /\ pc' = "end"
    BY <1>1, <1>19, <2>1 DEF Count
  <2>2. CASE TaskEnds /\ pc' = "scene"
    BY <1>2, <1>19, <2>2 DEF Count, TaskInv
  <2>3. CASE change' \in Changes /\ pc' = "targets"
    BY <1>19, <2>3, ChangesAssumption DEF Count, TaskInv
  <2> QED
    BY <1>19, <2>1, <2>2, <2>3 DEF Count
<1> QED
  BY <1>3, <1>4, <1>5, <1>6, <1>7, <1>8, <1>9, <1>10, <1>11, <1>12, <1>13,
     <1>14, <1>15, <1>16, <1>17, <1>18, <1>19 DEF Play

-----------------------------------------------------------------------------
(* The targets of a surprise attack.                                       *)

\* Those left are alive, but the one whose death is looked at.
TargetInv ==
  group # <<>> =>
    /\ pc \in {"targets", "died", "confirm"} => left \subseteq alive
    /\ pc = "check" => left \ {Target} \subseteq alive

LEMMA PlayKeepsTargets ==
  ASSUME SessionInv, TaskInv, TargetInv, Play
  PROVE  TargetInv'
<1> USE DEF GoesOn, Throws, Begins, TargetInv
<1>1. ASSUME pc' \notin {"targets", "died", "confirm", "check"}
      PROVE  TargetInv'
  BY <1>1
<1>2. CASE PlayScene
  BY <1>1, <1>2, BroadcastMoves DEF PlayScene
<1>3. CASE SceneOver \/ End \/ Goto \/ ActionVote \/ SurpriseAttack
         \/ TargetsDone
  BY <1>1, <1>3
     DEF SceneOver, End, SessionEnds, Goto, ActionVote, SurpriseAttack,
         TargetsDone
<1>4. CASE Text \/ Test
  BY <1>1, <1>4, BroadcastMoves DEF Text, Test
<1>5. CASE Choice \/ Confirm \/ ConfirmTest
  BY <1>1, <1>5, AskMoves DEF Choice, Confirm, ConfirmTest
<1>6. CASE GlobalEvent
  BY <1>1, <1>6, BroadcastMoves DEF GlobalEvent
<1>7. CASE CheckGame
  BY <1>1, <1>7, BroadcastMoves DEF CheckGame
<1>8. CASE EventTo \/ Tested \/ Count
  BY <1>8
     DEF EventTo, Tested, Count, TaskEnds, attackVars, taskVars, TaskInv,
         Peaceful
<1>9. CASE Attack
  <2>1. pc' \in {"targets", "end"}
    BY <1>9, BroadcastMoves DEF Attack
  <2> QED
    BY <1>9, <2>1 DEF Attack
<1>10. CASE Strike
  <2>1. CASE pc' = "check"
    BY <1>10, <2>1 DEF Strike, TargetGone
  <2>2. CASE pc' # "check"
    BY <1>1, <1>10, <2>2, BroadcastMoves DEF Strike, TargetGone
  <2> QED
    BY <2>1, <2>2
<1>11. CASE CheckTarget
  <2>1. pc' \in {"targets", "died", "end"}
    BY <1>11, BroadcastMoves DEF CheckTarget, TargetGone
  <2>2. /\ left' = left \ {Target} /\ group' = group
        /\ alive' \in {alive, alive \ {Target}}
    BY <1>11 DEF CheckTarget, attackVars, sessionVars
  <2> QED
    BY <1>11, <2>1, <2>2 DEF CheckTarget
<1>12. CASE AfterDeath
  <2>1. pc' \in {"targets", "confirm", "end"}
    BY <1>12, BroadcastMoves DEF AfterDeath
  <2> QED
    BY <1>12, <2>1 DEF AfterDeath, taskVars, attackVars
<1>13. CASE GameOver
  <2>1. pc' \in {"targets", "end"}
    BY <1>13, AskMoves DEF GameOver
  <2> QED
    BY <1>13, <2>1 DEF GameOver, taskVars, attackVars
<1> QED
  BY <1>2, <1>3, <1>4, <1>5, <1>6, <1>7, <1>8, <1>9, <1>10, <1>11, <1>12,
     <1>13 DEF Play

\* Only Strike adds an enemy to those that have attacked a player.
LEMMA PlayLeavesTheDeadAlone ==
  ASSUME TaskInv, TargetInv, Play, pc' # "lobby",
         NEW p \in Ids, Len(struck'[p]) > Len(struck[p])
  PROVE  p \in players \cap alive
<1> USE DEF taskVars, attackVars
<1>1. struck[p] \in Seq(Nat) /\ Len(struck[p]) \in Nat
  BY DEF TaskInv
<1>2. ASSUME struck' = struck \/ struck' = NobodyStruck
      PROVE  FALSE
  BY <1>1, <1>2 DEF NobodyStruck
<1>3. CASE Strike
  <2>1. /\ Target \in players /\ group # <<>>
        /\ struck' = [struck EXCEPT ![Target] = Append(@, current)]
    BY <1>2, <1>3 DEF Strike, TaskEnds
  <2>2. p = Target
    BY <1>1, <2>1 DEF TaskInv
  <2>3. Target \in left /\ left \subseteq alive
    BY <1>3, <2>1, TargetIsLeft DEF Strike, TargetInv
  <2> QED
    BY <2>1, <2>2, <2>3
<1>4. CASE Play /\ ~Strike
  BY <1>2, <1>4
     DEF Play, PlayScene, SceneOver, End, SessionEnds, TaskEnds, Goto, Text,
         Choice, Confirm, GlobalEvent, CheckGame, ActionVote, Test, Tested,
         ConfirmTest, Count, EventTo, SurpriseAttack, Attack, CheckTarget,
         AfterDeath, GameOver, TargetsDone
<1> QED
  BY <1>3, <1>4

-----------------------------------------------------------------------------
(* Where the session thread goes.                                          *)

\* The instructions that save nothing are not in the steps of one that does.
LEMMA PlaySavesNothing ==
  ASSUME Play
  PROVE  pc \notin {"write", "tell"} /\ pc' \notin {"write", "tell"}
<1> USE DEF GoesOn, Throws, Begins
<1>1. CASE PlayScene
  BY <1>1, BroadcastMoves DEF PlayScene
<1>2. CASE SceneOver
  BY <1>2 DEF SceneOver
<1>3. CASE End
  BY <1>3 DEF End, SessionEnds
<1>4. CASE Goto
  BY <1>4 DEF Goto
<1>5. CASE Text
  BY <1>5, BroadcastMoves DEF Text
<1>6. CASE Choice
  BY <1>6, AskMoves DEF Choice
<1>7. CASE Confirm
  BY <1>7, AskMoves DEF Confirm
<1>8. CASE GlobalEvent
  BY <1>8, BroadcastMoves DEF GlobalEvent
<1>9. CASE CheckGame
  BY <1>9, BroadcastMoves DEF CheckGame
<1>10. CASE EventTo
  BY <1>10 DEF EventTo
<1>11. CASE SurpriseAttack
  BY <1>11 DEF SurpriseAttack
<1>12. CASE Attack
  BY <1>12, BroadcastMoves DEF Attack
<1>13. CASE Strike
  BY <1>13, BroadcastMoves DEF Strike, TargetGone
<1>14. CASE CheckTarget
  BY <1>14, BroadcastMoves DEF CheckTarget, TargetGone
<1>15. CASE AfterDeath
  BY <1>15, BroadcastMoves DEF AfterDeath
<1>16. CASE GameOver
  BY <1>16, AskMoves DEF GameOver
<1>17. CASE TargetsDone
  BY <1>17 DEF TargetsDone
<1>18. CASE Test
  BY <1>18, BroadcastMoves DEF Test
<1>19. CASE ActionVote \/ Tested \/ Count
  BY <1>19 DEF ActionVote, Tested, Count
<1>20. CASE ConfirmTest
  BY <1>20, AskMoves DEF ConfirmTest
<1> QED
  BY <1>1, <1>2, <1>3, <1>4, <1>5, <1>6, <1>7, <1>8, <1>9, <1>10, <1>11,
     <1>12, <1>13, <1>14, <1>15, <1>16, <1>17, <1>18, <1>19, <1>20 DEF Play

-----------------------------------------------------------------------------
(* The store: what the file and the draft hold while a checkpoint is saved. *)

\* Every promise is kept by a set of parties.
KeptIn(parties) ==
  \A n \in DOMAIN promised :
    n \in DOMAIN parties /\ parties[n] = promised[n]

\* PromisedLoads is not inductive: it needs what is written to hold what was
\* in the file, and the party that is saved, until it is told.
StoreInv ==
  /\ whole = TRUE => KeptIn(file)
  /\ pc = "write" =>
       /\ whole = FALSE
       /\ KeptIn(draft)
       /\ name \in DOMAIN draft /\ draft[name] = Party
  /\ pc = "tell" /\ whole = TRUE =>
       name \in DOMAIN file /\ file[name] = Party

LEMMA WithPartyHas ==
  ASSUME NEW parties, NEW n
  PROVE  /\ DOMAIN WithParty(parties, n) = DOMAIN parties \cup {n}
         /\ WithParty(parties, n)[n] = Party
         /\ \A m \in DOMAIN parties :
              m # n => WithParty(parties, n)[m] = parties[m]
  BY DEF WithParty

LEMMA StoreInit == Init => StoreInv
  BY DEF Init, NoSession, StoreInv, KeptIn

LEMMA StoreNext ==
  ASSUME StoreInv, [Next]_vars
  PROVE  StoreInv'
<1>1. ASSUME UNCHANGED storeVars,
             pc \notin {"write", "tell"}, pc' \notin {"write", "tell"}
      PROVE  StoreInv'
  BY <1>1 DEF StoreInv, KeptIn, storeVars
<1>2. ASSUME UNCHANGED storeVars, UNCHANGED <<pc, players, hp, alive, leader>>
      PROVE  StoreInv'
  BY <1>2 DEF StoreInv, KeptIn, storeVars, Party
<1>3. CASE Play /\ UNCHANGED storeVars
  BY <1>1, <1>3, PlaySavesNothing
<1>4. CASE BeginSave
  <2>1. pc' = "write" /\ whole' = FALSE /\ KeptIn(file)
    BY <1>4 DEF BeginSave, NameFree, GoesOn, StoreInv
  <2>2. draft' = WithParty(file, name') /\ name' \notin DOMAIN file
    BY <1>4 DEF BeginSave, NameFree
  <2>3. promised' = promised /\ Party' = Party
    BY <1>4 DEF BeginSave, Party, sessionVars
  <2>4. /\ DOMAIN draft' = DOMAIN file \cup {name'}
        /\ draft'[name'] = Party
        /\ \A m \in DOMAIN file : draft'[m] = file[m]
    <3>1. /\ DOMAIN WithParty(file, name') = DOMAIN file \cup {name'}
          /\ WithParty(file, name')[name'] = Party
          /\ \A m \in DOMAIN file :
               m # name' => WithParty(file, name')[m] = file[m]
      BY WithPartyHas
    <3> QED
      BY <2>2, <3>1
  <2>5. KeptIn(draft)'
    BY <2>1, <2>3, <2>4 DEF KeptIn
  <2> QED
    BY <2>1, <2>3, <2>4, <2>5 DEF StoreInv
<1>5. CASE RefuseSave
  BY <1>1, <1>5 DEF RefuseSave, SaveFails, Throws, Begins
<1>6. CASE WriteFile
  <2>1. pc = "write" /\ pc' = "tell" /\ whole = FALSE
    BY <1>6 DEF WriteFile, GoesOn, StoreInv
  <2>2. name' = name /\ promised' = promised /\ Party' = Party
    BY <1>6 DEF WriteFile, Party, sessionVars
  <2>3. CASE whole' = TRUE /\ file' = draft
    BY <2>1, <2>2, <2>3 DEF StoreInv, KeptIn
  <2>4. CASE whole' = whole
    BY <2>1, <2>2, <2>4 DEF StoreInv
  <2> QED
    BY <1>6, <2>3, <2>4 DEF WriteFile
<1>7. CASE WriteFails
  BY <1>7 DEF WriteFails, SaveFails, Throws, StoreInv, KeptIn
<1>8. CASE TellName
  <2>1. pc' \in {"ask", "end"} /\ pc = "tell"
    BY <1>8, BroadcastMoves DEF TellName
  <2>2. /\ whole' = whole /\ file' = file
        /\ promised' = WithParty(promised, name)
    BY <1>8 DEF TellName
  <2>3. whole = TRUE =>
          KeptIn(file) /\ name \in DOMAIN file /\ file[name] = Party
    BY <2>1 DEF StoreInv
  <2>4. /\ DOMAIN promised' = DOMAIN promised \cup {name}
        /\ promised'[name] = Party
        /\ \A m \in DOMAIN promised : m # name => promised'[m] = promised[m]
    BY <2>2, WithPartyHas
  <2>5. whole = TRUE => KeptIn(file)'
    BY <2>2, <2>3, <2>4 DEF KeptIn
  <2> QED
    BY <2>1, <2>2, <2>5 DEF StoreInv
<1>9. CASE NewGame /\ UNCHANGED storeVars
  BY <1>1, <1>9 DEF NewGame, SessionBegins, GoesOn
<1>10. CASE LoadGame
  BY <1>1, <1>10 DEF LoadGame, SessionBegins, GoesOn
<1>11. CASE Crash
  BY <1>11 DEF Crash, SessionEnds, StoreInv, KeptIn
<1>12. CASE StopSession /\ UNCHANGED storeVars
  BY <1>2, <1>12 DEF StopSession, sessionVars
<1>13. ASSUME NEW p \in Ids, Drop(p), UNCHANGED storeVars
       PROVE  StoreInv'
  BY <1>2, <1>13 DEF Drop, sessionVars
<1>14. CASE UNCHANGED vars
  BY <1>2, <1>14 DEF vars, playVars, sessionVars
<1> QED
  BY <1>3, <1>4, <1>5, <1>6, <1>7, <1>8, <1>9, <1>10, <1>11, <1>12, <1>13,
     <1>14 DEF Next, SessionThread, Lobby, Environment

\* A checkpoint whose name the players were told (Base.lua:99-106) is in the
\* file as it was saved, as long as no write has been cut or has failed.
THEOREM PromisedCorrect == Spec => []PromisedLoads
<1>1. StoreInv => PromisedLoads
  BY DEF StoreInv, KeptIn, PromisedLoads
<1> QED
  BY StoreInit, StoreNext, <1>1, PTL DEF Spec
-----------------------------------------------------------------------------
(* The party: somebody is alive in it wherever the game may go on.         *)

\* Where an instruction may go on to the next one, or to another scene.
Onwards == { "scene", "scenes", "ask", "global", "test", "asked", "count",
             "attack", "targets", "check", "write", "tell" }

\* PartyDeadEnds is not inductive: it needs that the loops on the targets, in
\* which players die, have somebody alive when they go on.
AliveInv == running = TRUE /\ pc \in Onwards => alive # {}

LEMMA AliveInit == Init => AliveInv
  BY DEF Init, NoSession, AliveInv

\* A death is told before the game goes on, and looked at then.
LEMMA AliveNext ==
  ASSUME AliveInv, [Next]_vars
  PROVE  AliveInv'
<1> USE DEF GoesOn, Throws, Begins, AliveInv, Onwards
<1>1. ASSUME UNCHANGED <<alive, running>>, pc \in Onwards
      PROVE  AliveInv'
  BY <1>1
<1>2. ASSUME pc' \notin Onwards
      PROVE  AliveInv'
  BY <1>2
<1>3. ASSUME UNCHANGED <<pc, alive, running>>
      PROVE  AliveInv'
  BY <1>3
<1>4. ASSUME NEW party, party.alive # {}, SessionBegins(party)
      PROVE  AliveInv'
  BY <1>4 DEF SessionBegins
<1>5. CASE PlayScene
  BY <1>1, <1>5 DEF PlayScene
<1>6. CASE SceneOver \/ End \/ Crash
  BY <1>2, <1>6 DEF SceneOver, End, Crash, SessionEnds
<1>7. CASE Goto \/ Text \/ Choice \/ Confirm \/ ConfirmTest \/ GlobalEvent
  BY <1>1, <1>7, Zenon
     DEF Goto, Text, Choice, Confirm, ConfirmTest, GlobalEvent, sessionVars
<1>8. CASE CheckGame
  <2>1. CASE UNCHANGED <<alive, running>>
    BY <1>1, <1>8, <2>1 DEF CheckGame
  <2>2. CASE running' = FALSE
    BY <2>2
  <2> QED
    BY <1>8, <2>1, <2>2 DEF CheckGame
<1>9. CASE EventTo \/ SurpriseAttack \/ Attack \/ ActionVote \/ Test
         \/ Tested \/ Count
  BY <1>1, <1>9
     DEF EventTo, SurpriseAttack, Attack, ActionVote, Test, Tested, Count,
         sessionVars
<1>10. CASE Strike \/ TargetsDone
  BY <1>1, <1>10 DEF Strike, TargetsDone, sessionVars
<1>11. CASE CheckTarget
  <2>1. pc' \in {"died", "end"} \/ UNCHANGED <<alive, running>>
    BY <1>11, BroadcastMoves DEF CheckTarget, sessionVars
  <2> QED
    BY <1>1, <1>2, <1>11, <2>1 DEF CheckTarget
<1>12. CASE AfterDeath
  <2>1. CASE players \cap alive = {}
    <3>1. pc' \in {"confirm", "end"}
      BY <1>12, <2>1, BroadcastMoves DEF AfterDeath
    <3> QED
      BY <1>2, <3>1
  <2>2. CASE players \cap alive # {}
    BY <1>12, <2>2 DEF AfterDeath
  <2> QED
    BY <2>1, <2>2
<1>13. CASE GameOver
  <2>1. pc' = "targets" \/ pc' = "end"
    BY <1>13, AskMoves DEF GameOver
  <2>2. CASE pc' = "targets"
    <3>1. running' = FALSE
      BY <1>13, <2>2 DEF GameOver
    <3> QED
      BY <3>1
  <2>3. CASE pc' = "end"
    BY <1>2, <2>3
  <2> QED
    BY <2>1, <2>2, <2>3
<1>14. CASE BeginSave \/ RefuseSave \/ WriteFile \/ WriteFails \/ TellName
  BY <1>1, <1>14
     DEF BeginSave, RefuseSave, WriteFile, WriteFails, TellName, SaveFails,
         sessionVars
<1>15. CASE NewGame
  <2>1. PICK entrants \in (SUBSET Ids) \ {{}}, boss \in Ids :
          SessionBegins([ hp    |-> [p \in entrants |-> MaxHp],
                          alive |-> entrants,
                          boss  |-> boss ])
    BY <1>15 DEF NewGame
  <2> DEFINE party == [ hp    |-> [p \in entrants |-> MaxHp],
                        alive |-> entrants,
                        boss  |-> boss ]
  <2>2. party.alive # {} /\ SessionBegins(party)
    BY <2>1
  <2> HIDE DEF party
  <2> QED
    BY <1>4, <2>2
<1>16. CASE LoadGame
  <2>1. PICK n \in DOMAIN file :
          \E entrants \in SUBSET DOMAIN file[n].hp :
            /\ entrants \cap file[n].alive # {}
            /\ SessionBegins(Restored(file[n], entrants))
    BY <1>16 DEF LoadGame
  <2>2. PICK entrants \in SUBSET DOMAIN file[n].hp :
          /\ entrants \cap file[n].alive # {}
          /\ SessionBegins(Restored(file[n], entrants))
    BY <2>1
  <2>3. Restored(file[n], entrants).alive = entrants \cap file[n].alive
    BY DEF Restored
  <2> QED
    BY <1>4, <2>2, <2>3
<1>17. CASE StopSession
  BY <1>17 DEF StopSession
<1>18. ASSUME NEW p \in Ids, Drop(p)
       PROVE  AliveInv'
  BY <1>3, <1>18 DEF Drop, sessionVars
<1>19. CASE UNCHANGED vars
  BY <1>3, <1>19 DEF vars, playVars, sessionVars
<1> QED
  BY <1>5, <1>6, <1>7, <1>8, <1>9, <1>10, <1>11, <1>12, <1>13, <1>14, <1>15,
     <1>16, <1>17, <1>18, <1>19
     DEF Next, SessionThread, Play, Lobby, Environment

\* The game ends with its last living player (Gameplay::checkPlayer): no scene
\* plays another instruction for a party of the dead.
THEOREM PartyDeadEndsCorrect == Spec => []PartyDeadEnds
<1>1. AliveInv => PartyDeadEnds
  BY DEF AliveInv, Onwards, PartyDeadEnds
<1> QED
  BY AliveInit, AliveNext, <1>1, PTL DEF Spec
-----------------------------------------------------------------------------
(* Every variable of the instructions keeps its type.                      *)

\* What may be loaded, from the file or from what is written to it, is a party.
Loadable(content) == \A n \in DOMAIN content : content[n] \in Parties
PartiesInv == Loadable(file) /\ Loadable(draft)

\* The conjuncts need each other: a checkpoint has types that are those of the
\* session when it is saved, and a session those of what it is loaded from.
PlayInv == SessionInv /\ TaskInv /\ TargetInv /\ PartiesInv

LEMMA PartyFacts ==
  ASSUME NEW party \in Parties
  PROVE  /\ DOMAIN party.hp \subseteq Ids
         /\ \A p \in DOMAIN party.hp : party.hp[p] \in 0 .. MaxHp
<1>1. PICK ids \in SUBSET Ids :
        party \in [hp : [ids -> 0 .. MaxHp], alive : SUBSET ids, boss : ids]
  BY DEF Parties
<1>2. party.hp \in [ids -> 0 .. MaxHp]
  BY <1>1
<1> QED
  BY <1>2

LEMMA PlayInit == Init => PlayInv
<1> SUFFICES ASSUME Init PROVE PlayInv
  OBVIOUS
<1> USE DEF Init, NoSession
<1>1. SessionInv
  BY DEF SessionInv, Places
<1>2. TaskInv
  <2>1. hp \in [Ids -> 0 .. MaxHp] /\ struck \in [Ids -> Seq(Nat)]
    BY MaxHpAssumption DEF NoHp, NobodyStruck
  <2> QED
    BY <2>1 DEF TaskInv
<1>3. TargetInv
  BY DEF TargetInv
<1>4. PartiesInv
  BY FoundAssumption DEF PartiesInv, Loadable, Nothing
<1> QED
  BY <1>1, <1>2, <1>3, <1>4 DEF PlayInv

\* A session begins in order whatever the game is made from.
LEMMA BeginsInOrder ==
  ASSUME SessionInv, TaskInv, NEW party, SessionBegins(party),
         DOMAIN party.hp \subseteq Ids, party.alive \subseteq Ids,
         \A p \in DOMAIN party.hp : party.hp[p] \in 0 .. MaxHp,
         party.boss \in DOMAIN party.hp
  PROVE  SessionInv' /\ TaskInv' /\ TargetInv'
<1> USE DEF SessionBegins, GoesOn
<1>1. SessionInv'
  BY DEF SessionInv, Places
<1>2. TaskInv'
  <2>1. hp' \in [Ids -> 0 .. MaxHp]
    <3>1. \A p \in Ids :
            (IF p \in players' THEN party.hp[p] ELSE 0) \in 0 .. MaxHp
      BY MaxHpAssumption
    <3> QED
      BY <3>1
  <2> QED
    BY <2>1 DEF TaskInv, taskVars, attackVars, Peaceful
<1>3. TargetInv'
  BY DEF TargetInv
<1> QED
  BY <1>1, <1>2, <1>3

\* A session that ends leaves nothing.
LEMMA EndsInOrder ==
  ASSUME SessionEnds
  PROVE  SessionInv' /\ TaskInv' /\ TargetInv'
<1> USE DEF SessionEnds
<1>1. SessionInv'
  BY DEF SessionInv, Places
<1>2. TaskInv'
  <2>1. hp' \in [Ids -> 0 .. MaxHp]
    BY MaxHpAssumption DEF NoHp
  <2> QED
    BY <2>1, TaskEndsTypes DEF TaskInv, Peaceful
<1>3. TargetInv'
  BY DEF TargetInv
<1> QED
  BY <1>1, <1>2, <1>3

\* What is saved of a session in order is a party.
LEMMA SavedIsParty ==
  ASSUME SessionInv, TaskInv, leader \in players
  PROVE  Party \in Parties
<1> DEFINE kind == [hp : [players -> 0 .. MaxHp], alive : SUBSET players,
                    boss : players]
<1>1. [p \in players |-> hp[p]] \in [players -> 0 .. MaxHp]
  BY DEF SessionInv, TaskInv
<1>2. Party \in kind
  BY <1>1 DEF Party
<1>3. players \in SUBSET Ids
  BY DEF SessionInv
<1> QED
  BY <1>2, <1>3 DEF Parties

LEMMA LoadableWith ==
  ASSUME NEW content, Loadable(content), NEW n, Party \in Parties
  PROVE  Loadable(WithParty(content, n))
<1>1. DOMAIN WithParty(content, n) = DOMAIN content \cup {n}
  BY WithPartyHas
<1>2. \A m \in DOMAIN content \cup {n} : WithParty(content, n)[m] \in Parties
  BY WithPartyHas DEF Loadable
<1> QED
  BY <1>1, <1>2 DEF Loadable

\* The steps of a checkpoint go from a place without a target to another.
LEMMA SavingInOrder ==
  ASSUME SessionInv, TaskInv, UNCHANGED <<hp, taskVars>>,
         pc \in {"scene", "write", "tell"},
         pc' \in {"write", "tell", "ask", "end"}
  PROVE  TaskInv' /\ TargetInv'
  BY DEF TaskInv, TargetInv, Peaceful, taskVars, attackVars

LEMMA PlayNext ==
  ASSUME PlayInv, [Next]_vars
  PROVE  PlayInv'
<1> USE DEF PlayInv, GoesOn, Throws, Begins
<1>1. ASSUME UNCHANGED <<file, draft>>
      PROVE  PartiesInv'
  BY <1>1 DEF PartiesInv, Loadable
<1>2. ASSUME UNCHANGED <<sessionVars, hp, chosen, taskVars, pc, thrown>>,
             dead' \subseteq Ids, running' \in BOOLEAN,
             UNCHANGED <<file, draft>>
      PROVE  PlayInv'
  <2>1. SessionInv'
    BY <1>2 DEF SessionInv, sessionVars
  <2>2. TaskInv' /\ TargetInv'
    BY <1>2 DEF TaskInv, TargetInv, Target, taskVars, attackVars, sessionVars
  <2> QED
    BY <1>1, <1>2, <2>1, <2>2
<1>3. ASSUME UNCHANGED <<dead, sessionVars, running, chosen>>,
             pc \in {"scene", "write"}, pc' \in {"write", "tell", "end"},
             thrown' \in {thrown, "error"}
      PROVE  SessionInv'
  BY <1>3 DEF SessionInv, Places, sessionVars
<1>4. CASE Play /\ UNCHANGED storeVars
  BY <1>1, <1>4, PlayKeepsSession, PlayKeepsTask, PlayKeepsTargets
     DEF storeVars
<1>5. CASE BeginSave
  <2>1. Party \in Parties
    BY <1>5, SavedIsParty DEF BeginSave, SessionInv
  <2>2. PartiesInv'
    <3>1. Loadable(draft')
      BY <1>5, <2>1, LoadableWith DEF BeginSave, PartiesInv
    <3>2. file' = Nothing
      BY <1>5 DEF BeginSave
    <3> QED
      BY <3>1, <3>2 DEF PartiesInv, Loadable, Nothing
  <2> QED
    BY <1>3, <1>5, <2>2, SavingInOrder DEF BeginSave
<1>6. CASE RefuseSave
  BY <1>1, <1>3, <1>6, SavingInOrder DEF RefuseSave, SaveFails, storeVars
<1>7. CASE WriteFile
  <2>1. PartiesInv'
    BY <1>7 DEF WriteFile, PartiesInv, Loadable, Nothing
  <2> QED
    BY <1>3, <1>7, <2>1, SavingInOrder DEF WriteFile
<1>8. CASE WriteFails
  <2>1. PartiesInv'
    BY <1>8 DEF WriteFails, NotSaved, PartiesInv, Loadable, Nothing
  <2> QED
    BY <1>3, <1>8, <2>1, SavingInOrder DEF WriteFails, SaveFails
<1>9. CASE TellName
  <2>1. leader \in players /\ Broadcast(leader, "ask")
    BY <1>9 DEF TellName, SessionInv
  <2>2. /\ players' \subseteq players
        /\ leader' \in players' \cup {NoLeader}
        /\ \/ pc' = "ask" /\ thrown' = thrown /\ leader' \in players'
           \/ pc' = "end" /\ thrown' \in RequestResults
    BY <2>1, BroadcastFacts
  <2>3. SessionInv'
    BY <1>9, <2>2 DEF TellName, SessionInv, Places
  <2>4. TaskInv' /\ TargetInv'
    BY <1>9, <2>2, SavingInOrder DEF TellName
  <2> QED
    BY <1>1, <1>9, <2>3, <2>4 DEF TellName
<1>10. CASE NewGame /\ UNCHANGED storeVars
  <2>1. PICK entrants \in (SUBSET Ids) \ {{}}, boss \in Ids :
          /\ boss \in entrants
          /\ SessionBegins([ hp    |-> [p \in entrants |-> MaxHp],
                             alive |-> entrants,
                             boss  |-> boss ])
    BY <1>10 DEF NewGame
  <2> DEFINE party == [ hp    |-> [p \in entrants |-> MaxHp],
                        alive |-> entrants,
                        boss  |-> boss ]
  <2>2. /\ SessionBegins(party)
        /\ DOMAIN party.hp = entrants /\ party.alive = entrants
        /\ \A p \in entrants : party.hp[p] = MaxHp
        /\ party.boss = boss /\ boss \in entrants
    BY <2>1
  <2> HIDE DEF party
  <2> QED
    BY <1>1, <1>10, <2>2, BeginsInOrder, MaxHpAssumption DEF storeVars
<1>11. CASE LoadGame
  <2>1. PICK n \in DOMAIN file :
          \E entrants \in SUBSET DOMAIN file[n].hp :
            /\ entrants \cap file[n].alive # {}
            /\ SessionBegins(Restored(file[n], entrants))
    BY <1>11 DEF LoadGame
  <2>2. PICK entrants \in SUBSET DOMAIN file[n].hp :
          /\ entrants \cap file[n].alive # {}
          /\ SessionBegins(Restored(file[n], entrants))
    BY <2>1
  <2>3. /\ entrants \subseteq Ids
        /\ \A p \in entrants : file[n].hp[p] \in 0 .. MaxHp
    BY PartyFacts DEF PartiesInv, Loadable
  <2> DEFINE party == Restored(file[n], entrants)
  <2>4. /\ DOMAIN party.hp = entrants
        /\ \A p \in entrants : party.hp[p] = file[n].hp[p]
        /\ party.alive \subseteq entrants
        /\ party.boss \in {file[n].boss, FirstOf(entrants)}
        /\ party.boss = file[n].boss => file[n].boss \in entrants
                                        \/ file[n].boss = FirstOf(entrants)
    BY DEF Restored
  <2>5. FirstOf(entrants) \in entrants
    BY <2>2, <2>3, FirstOfIsMember, IdsAssumption
  <2>6. SessionBegins(party)
    BY <2>2
  <2> HIDE DEF party
  <2> QED
    BY <1>1, <1>11, <2>3, <2>4, <2>5, <2>6, BeginsInOrder
       DEF LoadGame, storeVars
<1>12. CASE Crash
  <2>1. PartiesInv'
    BY <1>12 DEF Crash, NotSaved, PartiesInv, Loadable, Nothing
  <2> QED
    BY <1>12, <2>1, EndsInOrder DEF Crash
<1>13. CASE StopSession /\ UNCHANGED storeVars
  BY <1>2, <1>13 DEF StopSession, storeVars, SessionInv
<1>14. ASSUME NEW p \in Ids, Drop(p), UNCHANGED storeVars
       PROVE  PlayInv'
  <2>1. dead' \subseteq Ids /\ running' \in BOOLEAN
    BY <1>14 DEF Drop, SessionInv
  <2> QED
    BY <1>2, <1>14, <2>1 DEF Drop, storeVars
<1>15. CASE UNCHANGED vars
  BY <1>2, <1>15 DEF vars, playVars, storeVars, SessionInv
<1> QED
  BY <1>4, <1>5, <1>6, <1>7, <1>8, <1>9, <1>10, <1>11, <1>12, <1>13, <1>14,
     <1>15 DEF Next, SessionThread, Lobby, Environment

LEMMA PlayInvariant == Spec => []PlayInv
  BY PlayInit, PlayNext, PTL DEF Spec

\* Every variable has its type, through any number of sessions, of games loaded
\* from the file and of crashes (Session::start, Session::reset).
THEOREM TypeCorrect == Spec => []PlayTypeOK
<1>1. PlayInv => PlayTypeOK
  BY DEF PlayInv, SessionInv, TaskInv, PlayTypeOK
<1> QED
  BY PlayInvariant, <1>1, PTL

\* Nobody who is dead, or gone, is attacked by an enemy (the loop of
\* Rbo.SurpriseAttack on the players alive, Custom.lua:83-95).
THEOREM DeadLeftAloneCorrect == Spec => DeadLeftAlone
<1>1. ASSUME PlayInv, [Next]_vars
      PROVE  [ pc' # "lobby" =>
                 \A p \in Ids : Len(struck'[p]) > Len(struck[p]) =>
                                  p \in players \cap alive ]_playVars
  <2>1. CASE Play
    BY <1>1, <2>1, PlayLeavesTheDeadAlone DEF PlayInv
  <2>2. CASE ~Play
    <3>1. struck' = struck \/ pc' = "lobby"
      BY <1>1, <2>2
         DEF Next, SessionThread, Lobby, Environment, BeginSave, RefuseSave,
             SaveFails, WriteFile, WriteFails, TellName, NewGame, LoadGame,
             SessionBegins, Crash, SessionEnds, StopSession, Drop, vars,
             playVars, taskVars, attackVars
    <3>2. struck' = struck =>
            \A p \in Ids : ~(Len(struck'[p]) > Len(struck[p]))
      <4>1. \A p \in Ids : Len(struck[p]) \in Nat
        BY <1>1 DEF PlayInv, TaskInv
      <4> QED
        BY <4>1
    <3> QED
      BY <3>1, <3>2
  <2> QED
    BY <2>1, <2>2
<1> QED
  BY PlayInvariant, <1>1, PTL DEF Spec, DeadLeftAlone

-----------------------------------------------------------------------------
(* Who has attacked whom.                                                   *)

\* A target that is left, or a player whom the current enemy has not come to,
\* has been attacked by the enemies before it; any other, by it as well.
Waiting(p) == pc = "attack" \/ (p \in left /\ ~(pc = "check" /\ p = Target))
StruckUpTo(p) == IF Waiting(p) THEN current - 1 ELSE current

\* The living have been attacked by all attackers so far; the others, by those
\* until their death.
AttackInv ==
  /\ group = <<>> => struck = NobodyStruck
  /\ group # <<>> /\ pc # "end" =>
       /\ current \in Attackers
       /\ \A p \in players :
            \E last \in 0 .. current :
              /\ AttacksUpTo(last, struck[p])
              /\ p \in alive => last = StruckUpTo(p)

\* What an instruction that is no attack does to the enemies.
LEMMA NobodyAttacks ==
  ASSUME group' = <<>>, struck' = NobodyStruck
  PROVE  AttackInv'
  BY DEF AttackInv, NobodyStruck

\* The group of an exception is looked at by nobody.
LEMMA AttackBroken ==
  ASSUME group # <<>>, group' = group, pc' = "end"
  PROVE  AttackInv'
  BY DEF AttackInv

\* Steps of an attack by which no player is attacked.
LEMMA AttackStays ==
  ASSUME AttackInv, group # <<>>, pc # "end",
         UNCHANGED <<group, current, struck>>, players' \subseteq players,
         \A p \in players' :
           p \in alive' => p \in alive /\ StruckUpTo(p)' = StruckUpTo(p)
  PROVE  AttackInv'
<1>1. current' \in Attackers' /\ group' # <<>>
  BY DEF AttackInv, Attackers
<1>2. ASSUME NEW p \in players'
      PROVE  \E last \in 0 .. current' :
               /\ AttacksUpTo(last, struck[p])'
               /\ p \in alive' => last = StruckUpTo(p)'
  <2>1. p \in players
    BY <1>2
  <2>2. PICK last \in 0 .. current :
          /\ AttacksUpTo(last, struck[p])
          /\ p \in alive => last = StruckUpTo(p)
    BY <2>1 DEF AttackInv
  <2>3. AttacksUpTo(last, struck[p])'
    BY <2>2 DEF AttacksUpTo, Attackers
  <2> QED
    BY <1>2, <2>2, <2>3
<1> QED
  BY <1>1, <1>2 DEF AttackInv

\* Of a set of numbers, those up to one of them.
LEMMA OneMoreOf ==
  ASSUME NEW S \in SUBSET Nat, NEW c \in S
  PROVE  { i \in S : i =< c } = { i \in S : i =< c - 1 } \cup {c}
<1>1. ASSUME NEW i \in S
      PROVE  i =< c <=> i =< c - 1 \/ i = c
  OBVIOUS
<1> QED
  BY <1>1

\* Up to two numbers, with none of the set between.
LEMMA NoneBetween ==
  ASSUME NEW S \in SUBSET Nat, NEW c \in Nat, NEW d \in Nat,
         c =< d, \A i \in S : i =< c \/ d < i
  PROVE  { i \in S : i =< c } = { i \in S : i =< d }
<1>1. ASSUME NEW i \in S
      PROVE  i =< c <=> i =< d
  OBVIOUS
<1> QED
  BY <1>1

\* Who is struck is attacked by all up to the current enemy.
LEMMA AttackedNext ==
  ASSUME NEW s \in Seq(Nat), NEW c \in Nat, c \in Attackers, c > 0,
         AttacksUpTo(c - 1, s), group \in Seq(Enemies)
  PROVE  AttacksUpTo(c, Append(s, c))
<1> DEFINE t == Append(s, c)
<1>1. /\ Len(s) \in Nat /\ DOMAIN s = 1 .. Len(s)
      /\ t \in Seq(Nat) /\ DOMAIN t = 1 .. Len(s) + 1
      /\ \A n \in 1 .. Len(s) : t[n] = s[n] /\ s[n] \in Nat
      /\ t[Len(s) + 1] = c
  BY AppendProperties
<1>2. /\ { s[n] : n \in DOMAIN s } = { i \in Attackers : i =< c - 1 }
      /\ \A m, n \in DOMAIN s : m < n => s[m] < s[n]
  BY DEF AttacksUpTo
<1>3. Attackers \subseteq Nat
  BY DEF Attackers
<1> HIDE DEF t
<1>4. { t[n] : n \in DOMAIN t } = { s[n] : n \in DOMAIN s } \cup {c}
  <2>1. ASSUME NEW n \in DOMAIN t
        PROVE  (n \in DOMAIN s /\ t[n] = s[n]) \/ t[n] = c
    BY <1>1
  <2>2. ASSUME NEW n \in DOMAIN s
        PROVE  n \in DOMAIN t /\ t[n] = s[n]
    BY <1>1
  <2>3. Len(s) + 1 \in DOMAIN t
    BY <1>1
  <2> QED
    BY <1>1, <2>1, <2>2, <2>3
<1>5. { i \in Attackers : i =< c } = { i \in Attackers : i =< c - 1 } \cup {c}
  BY <1>3, OneMoreOf, Zenon
<1>6. ASSUME NEW m \in DOMAIN t, NEW n \in DOMAIN t, m < n
      PROVE  t[m] < t[n]
  <2>1. m \in 1 .. Len(s) /\ t[m] = s[m] /\ s[m] \in Nat
    BY <1>1, <1>6
  <2>2. CASE n \in 1 .. Len(s)
    BY <1>1, <1>2, <1>6, <2>1, <2>2
  <2>3. CASE n = Len(s) + 1
    <3>1. s[m] \in { i \in Attackers : i =< c - 1 }
      BY <1>1, <1>2, <2>1
    <3>2. s[m] =< c - 1
      BY <3>1
    <3> QED
      BY <1>1, <2>1, <2>3, <3>2
  <2> QED
    BY <1>1, <2>2, <2>3
<1>7. AttacksUpTo(c, t)
  BY <1>2, <1>4, <1>5, <1>6, Zenon DEF AttacksUpTo
<1> QED
  BY <1>7 DEF t

SameUpTo(S, a, b) == { i \in S : i =< a } = { i \in S : i =< b }

\* Of the living A in a queue of n, d is the nearest after c, or the first.
LEMMA NobodyPassed ==
  ASSUME NEW n \in Nat, NEW c \in 1 .. n, NEW A \in SUBSET (1 .. n),
         NEW d \in A, NEW S, S = A \cup {1},
         \A i \in A : IF d =< c THEN i =< c ELSE i =< c \/ d =< i
  PROVE  /\ d =< c => SameUpTo(S, c, n)
         /\ ~(d =< c) => SameUpTo(S, c, d - 1)
<1>1. /\ S \in SUBSET Nat /\ c \in Nat /\ d \in Nat /\ 1 =< c /\ c =< n
  OBVIOUS
<1>2. ASSUME d =< c
      PROVE  \A i \in S : i =< c \/ n < i
  BY <1>1, <1>2
<1>3. ASSUME ~(d =< c), NEW e, e = d - 1
      PROVE  e \in Nat /\ c =< e /\ \A i \in S : i =< c \/ e < i
  BY <1>1, <1>3
<1>4. ASSUME d =< c
      PROVE  { i \in S : i =< c } = { i \in S : i =< n }
  BY <1>1, <1>2, <1>4, NoneBetween, Zenon
<1>5. ASSUME ~(d =< c)
      PROVE  { i \in S : i =< c } = { i \in S : i =< d - 1 }
  <2>1. PICK e : e = d - 1
    OBVIOUS
  <2>2. e \in Nat /\ c =< e /\ \A i \in S : i =< c \/ e < i
    BY <1>3, <1>5, <2>1
  <2>3. { i \in S : i =< c } = { i \in S : i =< e }
    BY <1>1, <2>2, NoneBetween, Zenon
  <2> QED
    BY <2>1, <2>3
<1> QED
  BY <1>4, <1>5, Zenon DEF SameUpTo

LEMMA NearestAttacker ==
  ASSUME group \in Seq(Enemies), current \in 1 .. Len(group),
         NEW d \in 1 .. Len(group), IsAlive(group[d]),
         \A i \in 1 .. Len(group) :
           IsAlive(group[i]) => IF d =< current THEN i =< current
                                                ELSE i =< current \/ d =< i
  PROVE  /\ d =< current => { i \in Attackers : i =< current }
                              = { i \in Attackers : i =< Len(group) }
         /\ ~(d =< current) =>
              /\ d \in Attackers /\ d > current
              /\ { i \in Attackers : i =< current }
                   = { i \in Attackers : i =< d - 1 }
<1> DEFINE A == { i \in 1 .. Len(group) : IsAlive(group[i]) }
<1>1. /\ Len(group) \in Nat /\ DOMAIN group = 1 .. Len(group)
      /\ current \in Nat /\ d \in Nat /\ 1 \in 1 .. Len(group)
  OBVIOUS
<1>2. Attackers = A \cup {1}
  BY <1>1 DEF Attackers
<1>3. /\ A \in SUBSET (1 .. Len(group)) /\ d \in A
      /\ \A i \in A : IF d =< current THEN i =< current
                                      ELSE i =< current \/ d =< i
  BY Zenon
<1> HIDE DEF A
<1>4. /\ d =< current => SameUpTo(Attackers, current, Len(group))
      /\ ~(d =< current) => SameUpTo(Attackers, current, d - 1)
  BY <1>1, <1>2, <1>3, NobodyPassed, Zenon
<1>5. d \in Attackers
  BY <1>2, <1>3
<1>6. ~(d =< current) => d > current
  BY <1>1
<1> QED
  BY <1>4, <1>5, <1>6, Zenon DEF SameUpTo

\* Where nextAlive goes, nobody is passed over who attacks.
LEMMA NextAttacker ==
  ASSUME group \in Seq(Enemies), current \in 1 .. Len(group),
         ~Defeated(group), NEW d, d = NextAlive(group, current, FALSE).current
  PROVE  /\ NextAlive(group, current, FALSE).looped
              => { i \in Attackers : i =< current }
                   = { i \in Attackers : i =< Len(group) }
         /\ ~NextAlive(group, current, FALSE).looped
              => /\ d \in Attackers /\ d > current
                 /\ { i \in Attackers : i =< current }
                      = { i \in Attackers : i =< d - 1 }
<1>1. LET next == NextAlive(group, current, FALSE)
      IN /\ next.current \in 1 .. Len(group)
         /\ IsAlive(group[next.current])
         /\ next.looped = (next.current =< current)
         /\ \A i \in 1 .. Len(group) :
              IsAlive(group[i]) =>
                IF next.looped THEN i =< current /\ next.current =< i
                               ELSE i =< current \/ next.current =< i
  BY NextAliveIsNearest
<1>2. /\ d \in 1 .. Len(group) /\ IsAlive(group[d])
      /\ \A i \in 1 .. Len(group) :
           IsAlive(group[i]) => IF d =< current THEN i =< current
                                                ELSE i =< current \/ d =< i
  BY <1>1, Zenon
<1>3. NextAlive(group, current, FALSE).looped = (d =< current)
  BY <1>1, Zenon
<1>4. CASE d =< current
  BY <1>2, <1>3, <1>4, NearestAttacker, Zenon
<1>5. CASE ~(d =< current)
  BY <1>2, <1>3, <1>5, NearestAttacker, Zenon
<1> QED
  BY <1>4, <1>5, Zenon

\* A group begins with the first of its enemies, who has attacked nobody.
LEMMA AttackBegins ==
  ASSUME group' \in Seq(Enemies), group' # <<>>, struck' = NobodyStruck,
         current' = 1, pc' = "attack", players' \subseteq Ids
  PROVE  AttackInv'
<1>1. 1 \in Attackers'
  <2>1. 1 \in 1 .. Len(group') /\ DOMAIN group' = 1 .. Len(group')
    BY EmptySeq
  <2> QED
    BY <2>1 DEF Attackers
<1>2. ASSUME NEW p \in players'
      PROVE  AttacksUpTo(0, struck[p])' /\ StruckUpTo(p)' = 0
  <2>1. struck'[p] = <<>> /\ Attackers' \subseteq 1 .. Len(group')
    BY <1>2 DEF NobodyStruck, Attackers
  <2>2. DOMAIN struck'[p] = {}
    BY <2>1
  <2>3. PICK S : S = Attackers'
    OBVIOUS
  <2>4. { i \in S : i =< 0 } = {}
    <3>1. \A i \in 1 .. Len(group') : ~(i =< 0)
      OBVIOUS
    <3> QED
      BY <2>1, <2>3, <3>1, Zenon
  <2> QED
    BY <2>2, <2>3, <2>4 DEF AttacksUpTo, StruckUpTo, Waiting
<1> QED
  BY <1>1, <1>2 DEF AttackInv

\* The current enemy strikes a target, who is alive.
LEMMA StrikeKeepsAttack ==
  ASSUME TaskInv, TargetInv, AttackInv, Strike, group # <<>>,
         players' \subseteq players, pc' = "check",
         struck' = [struck EXCEPT ![Target] = Append(@, current)],
         UNCHANGED <<group, current, left, alive>>
  PROVE  AttackInv'
<1>1. /\ pc = "targets" /\ Target \in left /\ Target \in Ids
      /\ Target' = Target /\ Target \in alive
  BY TargetIsLeft DEF Strike, Target, TargetInv
<1>2. /\ group \in Seq(Enemies) /\ current \in Nat /\ current > 0
      /\ struck \in [Ids -> Seq(Nat)]
      /\ current \in Attackers /\ Attackers' = Attackers
      /\ \A p \in players :
           \E last \in 0 .. current :
             /\ AttacksUpTo(last, struck[p])
             /\ p \in alive => last = StruckUpTo(p)
  BY <1>1 DEF AttackInv, TaskInv, Attackers
<1>3. ASSUME NEW p \in players'
      PROVE  \E last \in 0 .. current' :
               /\ AttacksUpTo(last, struck[p])'
               /\ p \in alive' => last = StruckUpTo(p)'
  <2>1. PICK last \in 0 .. current :
          /\ AttacksUpTo(last, struck[p])
          /\ p \in alive => last = StruckUpTo(p)
    BY <1>2
  <2>2. \A l : AttacksUpTo(l, struck[p])'
                 = AttacksUpTo(l, struck'[p])
    BY <1>2 DEF AttacksUpTo
  <2>3. CASE p # Target
    <3>1. struck'[p] = struck[p] /\ StruckUpTo(p)' = StruckUpTo(p)
      BY <1>1, <1>2, <2>3 DEF StruckUpTo, Waiting
    <3> QED
      BY <2>1, <2>2, <3>1
  <2>4. CASE p = Target
    <3>1. /\ StruckUpTo(p) = current - 1 /\ StruckUpTo(p)' = current
          /\ struck'[p] = Append(struck[p], current)
          /\ struck[p] \in Seq(Nat)
      BY <1>1, <1>2, <2>4 DEF StruckUpTo, Waiting
    <3> QED
      <4>1. AttacksUpTo(current - 1, struck[p])
        BY <1>1, <2>1, <2>4, <3>1
      <4>2. AttacksUpTo(current, struck'[p])
        BY <1>2, <3>1, <4>1, AttackedNext
      <4> QED
        BY <1>2, <2>2, <3>1, <4>2
  <2> QED
    BY <2>3, <2>4
<1> QED
  BY <1>2, <1>3 DEF AttackInv

\* The next enemy begins with everyone who is alive waiting.
LEMMA NextKeepsAttack ==
  ASSUME TaskInv, AttackInv, group # <<>>, pc = "targets", left = {},
         pc' = "attack", NEW d \in Attackers, d > current, current' = d,
         SameUpTo(Attackers, current, d - 1),
         UNCHANGED <<group, struck, players, alive>>
  PROVE  AttackInv'
<1>1. /\ current \in Nat /\ d \in Nat /\ Attackers' = Attackers
  BY DEF TaskInv, Attackers
<1>2. ASSUME NEW p \in players'
      PROVE  \E last \in 0 .. current' :
               /\ AttacksUpTo(last, struck[p])'
               /\ p \in alive' => last = StruckUpTo(p)'
  <2>1. PICK last \in 0 .. current :
          /\ AttacksUpTo(last, struck[p])
          /\ p \in alive => last = StruckUpTo(p)
    BY DEF AttackInv
  <2>2. \A l : AttacksUpTo(l, struck[p])' = AttacksUpTo(l, struck[p])
    BY <1>1 DEF AttacksUpTo
  <2>3. CASE p \in alive
    <3>1. last = current /\ StruckUpTo(p)' = d - 1 /\ d - 1 \in 0 .. current'
      BY <1>1, <2>1, <2>3 DEF StruckUpTo, Waiting
    <3>2. AttacksUpTo(d - 1, struck[p])
      BY <2>1, <3>1, Zenon DEF AttacksUpTo, SameUpTo
    <3> QED
      BY <2>2, <3>1, <3>2
  <2>4. CASE p \notin alive
    <3>1. last \in 0 .. current'
      BY <1>1
    <3> QED
      BY <2>1, <2>2, <2>4, <3>1
  <2> QED
    BY <2>3, <2>4
<1> QED
  BY <1>1, <1>2 DEF AttackInv

\* Every step of the instructions keeps to the order of the attack.
LEMMA PlayKeepsAttack ==
  ASSUME SessionInv, TaskInv, TargetInv, AttackInv, Play
  PROVE  AttackInv'
<1> USE DEF GoesOn, Throws, Begins
<1>1. ASSUME TaskEnds
      PROVE  AttackInv'
  BY <1>1, NobodyAttacks DEF TaskEnds
<1>2. ASSUME pc \in Peaceful
      PROVE  group = <<>> /\ struck = NobodyStruck
  BY <1>2 DEF TaskInv, AttackInv
<1>3. ASSUME pc \in Peaceful, UNCHANGED <<group, struck>>
      PROVE  AttackInv'
  BY <1>2, <1>3, NobodyAttacks
<1>4. ASSUME group = <<>>, UNCHANGED <<group, struck>>
      PROVE  AttackInv'
  BY <1>4, NobodyAttacks DEF AttackInv
<1>5. CASE PlayScene \/ SceneOver \/ Goto \/ Text \/ Choice \/ Confirm
  BY <1>3, <1>5
     DEF PlayScene, SceneOver, Goto, Text, Choice, Confirm, taskVars,
         attackVars, Peaceful
<1>6. CASE GlobalEvent \/ CheckGame \/ ActionVote \/ Test \/ ConfirmTest
  BY <1>3, <1>6
     DEF GlobalEvent, CheckGame, ActionVote, Test, ConfirmTest, taskVars,
         attackVars, Peaceful
<1>7. CASE Tested \/ Count \/ EventTo
  BY <1>1, <1>3, <1>7
     DEF Tested, Count, EventTo, taskVars, attackVars, Peaceful
<1>8. CASE End
  BY <1>1, <1>8 DEF End, SessionEnds
<1>9. CASE SurpriseAttack
  <2>1. PICK descriptor \in Groups :
          \/ /\ Throws("error")
             /\ UNCHANGED <<group, current>>
          \/ /\ group' = GroupMade(descriptor)
             /\ IF group' = <<>>
                THEN GoesOn("scene") /\ UNCHANGED current
                ELSE GoesOn("attack") /\ current' = 1
    BY <1>9 DEF SurpriseAttack
  <2>2. /\ group = <<>> /\ struck = NobodyStruck /\ struck' = struck
        /\ players' \subseteq Ids
    BY <1>2, <1>9 DEF SurpriseAttack, Peaceful, SessionInv, sessionVars
  <2>3. CASE group' = <<>>
    BY <2>2, <2>3, NobodyAttacks
  <2>4. CASE group' # <<>>
    <3>1. /\ group' \in Seq(Enemies)
          /\ pc' = "attack" /\ current' = 1
      BY <2>1, <2>2, <2>4, GroupsAssumption, GroupMadeType
    <3> QED
      BY <2>2, <2>4, <3>1, AttackBegins
  <2> QED
    BY <2>3, <2>4
<1>10. CASE Attack
  <2>1. pc' \in {"targets", "end"} /\ players' \subseteq players
    BY <1>10, BroadcastMoves DEF Attack
  <2>2. /\ group # <<>> /\ pc = "attack" /\ left' = players' \cap alive
        /\ UNCHANGED <<alive, group, current, struck>>
    BY <1>10 DEF Attack, attackVars, TaskInv
  <2>3. CASE pc' = "end"
    BY <2>2, <2>3, AttackBroken
  <2>4. CASE pc' = "targets"
    BY <2>1, <2>2, <2>4, AttackStays DEF StruckUpTo, Waiting
  <2> QED
    BY <2>1, <2>3, <2>4
<1>11. CASE Strike
  <2>1. CASE TaskEnds
    BY <1>1, <2>1
  <2>2. CASE group = <<>> /\ ~TaskEnds
    BY <1>4, <1>11, <2>2 DEF Strike, taskVars, attackVars
  <2>3. CASE group # <<>> /\ pc' = "end"
    BY <1>11, <2>3, AttackBroken DEF Strike, taskVars, attackVars
  <2>4. CASE group # <<>> /\ pc' # "end"
    <3>1. /\ struck' = [struck EXCEPT ![Target] = Append(@, current)]
          /\ Broadcast(leader, "check")
          /\ UNCHANGED <<group, current, change, left, alive>>
      BY <1>11, <2>4 DEF Strike, TargetGone
    <3> QED
      BY <1>11, <2>4, <3>1, BroadcastMoves, StrikeKeepsAttack
  <2> QED
    BY <2>1, <2>2, <2>3, <2>4
<1>12. CASE CheckTarget
  <2>1. /\ pc = "check" /\ left' = left \ {Target}
        /\ alive' \subseteq alive /\ UNCHANGED <<group, current, struck>>
        /\ pc' \in {"targets", "died", "end"} /\ players' \subseteq players
    BY <1>12, BroadcastMoves
       DEF CheckTarget, TargetGone, attackVars, sessionVars
  <2>2. CASE group # <<>> /\ pc' # "end"
    BY <2>1, <2>2, AttackStays DEF StruckUpTo, Waiting
  <2> QED
    BY <1>4, <2>1, <2>2, AttackBroken
<1>13. CASE AfterDeath
  <2>1. /\ pc = "died" /\ UNCHANGED <<group, current, struck, left, alive>>
        /\ pc' \in {"targets", "confirm", "end"} /\ players' \subseteq players
    BY <1>13, BroadcastMoves DEF AfterDeath, taskVars, attackVars
  <2>2. CASE group # <<>> /\ pc' # "end"
    BY <2>1, <2>2, AttackStays DEF StruckUpTo, Waiting
  <2> QED
    BY <1>4, <2>1, <2>2, AttackBroken
<1>14. CASE GameOver
  <2>1. /\ pc = "confirm" /\ UNCHANGED <<group, current, struck, left, alive>>
        /\ pc' \in {"targets", "end"} /\ players' \subseteq players
    BY <1>14, AskMoves DEF GameOver, taskVars, attackVars
  <2>2. CASE group # <<>> /\ pc' # "end"
    BY <2>1, <2>2, AttackStays DEF StruckUpTo, Waiting
  <2> QED
    BY <1>4, <2>1, <2>2, AttackBroken
<1>15. CASE TargetsDone
  <2>1. /\ pc = "targets" /\ left = {}
        /\ UNCHANGED <<players, alive>>
        /\ \/ TaskEnds
           \/ group # <<>> /\ pc' = "end" /\ UNCHANGED group
           \/ /\ group # <<>> /\ ~Defeated(group)
              /\ ~NextAlive(group, current, FALSE).looped
              /\ pc' = "attack"
              /\ current' = NextAlive(group, current, FALSE).current
              /\ UNCHANGED <<group, struck>>
    BY <1>15 DEF TargetsDone, taskVars, attackVars, sessionVars
  <2>2. CASE /\ group # <<>> /\ ~Defeated(group)
             /\ ~NextAlive(group, current, FALSE).looped
             /\ pc' = "attack"
             /\ current' = NextAlive(group, current, FALSE).current
             /\ UNCHANGED <<group, struck>>
    <3>1. group \in Seq(Enemies) /\ current \in 1 .. Len(group)
      BY <2>2 DEF TaskInv
    <3>2. PICK d : d = NextAlive(group, current, FALSE).current
      OBVIOUS
    <3>3. /\ d \in Attackers /\ d > current
          /\ SameUpTo(Attackers, current, d - 1)
      BY <2>2, <3>1, <3>2, NextAttacker, Zenon DEF SameUpTo
    <3>4. current' = d
      BY <2>2, <3>2, Zenon
    <3> QED
      BY <2>1, <2>2, <3>3, <3>4, NextKeepsAttack, Zenon
  <2> QED
    BY <1>1, <2>1, <2>2, AttackBroken, Zenon
<1> QED
  BY <1>5, <1>6, <1>7, <1>8, <1>9, <1>10, <1>11, <1>12, <1>13, <1>14, <1>15,
     Zenon DEF Play

LEMMA AttackInit == Init => AttackInv
  BY DEF Init, NoSession, AttackInv

LEMMA AttackNext ==
  ASSUME PlayInv, AttackInv, [Next]_vars
  PROVE  AttackInv'
<1> USE DEF GoesOn, Throws, Begins
<1>1. ASSUME pc \in Peaceful, UNCHANGED <<group, struck>>
      PROVE  AttackInv'
  BY <1>1, NobodyAttacks DEF PlayInv, TaskInv, AttackInv
<1>2. ASSUME UNCHANGED <<players, alive, pc, taskVars>>
      PROVE  AttackInv'
  BY <1>2 DEF AttackInv, AttacksUpTo, Attackers, StruckUpTo, Waiting, Target,
              taskVars, attackVars
<1>3. CASE Play
  BY <1>3, PlayKeepsAttack, Zenon DEF PlayInv
<1>4. CASE BeginSave \/ RefuseSave \/ WriteFile \/ WriteFails \/ TellName
  BY <1>1, <1>4
     DEF BeginSave, RefuseSave, SaveFails, WriteFile, WriteFails, TellName,
         taskVars, attackVars, Peaceful
<1>5. CASE NewGame
  BY <1>1, <1>5 DEF NewGame, SessionBegins, taskVars, attackVars, Peaceful
<1>6. CASE LoadGame
  BY <1>1, <1>6 DEF LoadGame, SessionBegins, taskVars, attackVars, Peaceful
<1>7. CASE Crash
  BY <1>7, NobodyAttacks DEF Crash, SessionEnds, TaskEnds
<1>8. CASE StopSession
  BY <1>2, <1>8 DEF StopSession, sessionVars
<1>9. ASSUME NEW p \in Ids, Drop(p)
      PROVE  AttackInv'
  BY <1>2, <1>9 DEF Drop, sessionVars
<1>10. CASE UNCHANGED vars
  BY <1>2, <1>10 DEF vars, playVars, sessionVars
<1> QED
  BY <1>3, <1>4, <1>5, <1>6, <1>7, <1>8, <1>9, <1>10
     DEF Next, SessionThread, Lobby, Environment

LEMMA AttackInvariant == Spec => []AttackInv
<1>1. PlayInv /\ AttackInv /\ [Next]_vars => AttackInv'
  BY AttackNext
<1> QED
  BY AttackInit, PlayInvariant, <1>1, PTL DEF Spec

\* Whoever dies or is lost in a surprise attack, of a group of any size: each
\* enemy who attacks comes once, in its turn, to each player still alive, and
\* to the others until their death (Custom.lua:77-95, EnemiesGroup::nextAlive).
THEOREM EnemiesAttackOnceCorrect == Spec => EnemiesAttackOnce
<1>1. ASSUME PlayInv, AttackInv, [Next]_vars
      PROVE  [ group # <<>> /\ pc = "targets" /\ pc' = "scene" =>
                 \A p \in players :
                   IF p \in alive THEN AttacksUpTo(Len(group), struck[p])
                   ELSE \E last \in 0 .. Len(group) :
                          AttacksUpTo(last, struck[p]) ]_playVars
  <2> SUFFICES ASSUME group # <<>>, pc = "targets", pc' = "scene",
                      playVars' # playVars, NEW p \in players
               PROVE  IF p \in alive
                      THEN AttacksUpTo(Len(group), struck[p])
                      ELSE \E last \in 0 .. Len(group) :
                             AttacksUpTo(last, struck[p])
    OBVIOUS
  <2>1. TargetsDone
    <3> USE DEF GoesOn, Throws, Begins
    <3>1. CASE Play
      <4>1. CASE Strike
        BY <4>1, BroadcastMoves DEF Strike, TargetGone
      <4> QED
        BY <3>1, <4>1
           DEF Play, PlayScene, SceneOver, End, Goto, Text, Choice, Confirm,
               GlobalEvent, CheckGame, ActionVote, Test, Tested, ConfirmTest,
               Count, EventTo, SurpriseAttack, Attack, CheckTarget,
               AfterDeath, GameOver
    <3>2. CASE ~Play
      BY <1>1, <3>2
         DEF Next, SessionThread, Lobby, Environment, vars, BeginSave,
             RefuseSave, SaveFails, WriteFile, WriteFails, TellName, NewGame,
             LoadGame, SessionBegins, Crash, SessionEnds, StopSession, Drop
    <3> QED
      BY <3>1, <3>2
  <2>2. /\ left = {} /\ ~Defeated(group)
        /\ NextAlive(group, current, FALSE).looped
    BY <2>1 DEF TargetsDone, GoesOn, Throws
  <2>3. group \in Seq(Enemies) /\ current \in 1 .. Len(group)
    BY <1>1 DEF PlayInv, TaskInv
  <2>4. SameUpTo(Attackers, current, Len(group))
    <3>1. PICK d : d = NextAlive(group, current, FALSE).current
      OBVIOUS
    <3> QED
      BY <2>2, <2>3, <3>1, NextAttacker, Zenon DEF SameUpTo
  <2>5. PICK last \in 0 .. current :
          /\ AttacksUpTo(last, struck[p])
          /\ p \in alive => last = StruckUpTo(p)
    BY <1>1, Zenon DEF AttackInv
  <2>6. last \in 0 .. Len(group)
    BY <2>3
  <2>7. CASE p \in alive
    <3>1. last = current
      BY <2>2, <2>5, <2>7, Zenon DEF StruckUpTo, Waiting
    <3>2. AttacksUpTo(Len(group), struck[p])
      BY <2>4, <2>5, <3>1, Zenon DEF AttacksUpTo, SameUpTo
    <3> QED
      BY <2>7, <3>2, Zenon
  <2> QED
    BY <2>5, <2>6, <2>7, Zenon
<1> QED
  BY PlayInvariant, AttackInvariant, <1>1, PTL DEF Spec, EnemiesAttackOnce

-----------------------------------------------------------------------------
(* Both modules take their broadcasts and requests from SessionBroadcast.  *)

LEMMA SameParts ==
  ASSUME NEW P, NEW l, NEW lost
  PROVE  /\ Scene!Cardinality(lost) = Cardinality(lost)
         /\ Scene!FirstOf(P) = FirstOf(P)
         /\ Scene!LeaderAfter(P, lost, l) = LeaderAfter(P, lost, l)
<1>1. Scene!Cardinality(lost) = Cardinality(lost)
  BY Zenon DEF Scene!Cardinality, Cardinality
<1>2. ASSUME NEW S
      PROVE  Scene!FirstOf(S) = FirstOf(S)
  BY Zenon DEF Scene!FirstOf, FirstOf, Scene!Min, Min
<1>3. Scene!LeaderAfter(P, lost, l) = LeaderAfter(P, lost, l)
  BY <1>2, Zenon DEF Scene!LeaderAfter, LeaderAfter
<1> QED
  BY <1>1, <1>2, <1>3

LEMMA SameBroadcast ==
  ASSUME NEW P, NEW to, NEW l, NEW D
  PROVE  Scene!BroadcastOutcomes(P, to, l, D) = BroadcastOutcomes(P, to, l, D)
<1>1. ASSUME NEW lost, NEW r
      PROVE  Scene!EndsWith(P, to, l, lost, r) = EndsWith(P, to, l, lost, r)
  <2>1. Scene!Cardinality(lost) = Cardinality(lost)
    BY SameParts
  <2> QED
    BY <2>1, Zenon DEF Scene!EndsWith, EndsWith
<1>2. ASSUME NEW lost
      PROVE  Scene!LeaderAfter(P, lost, l) = LeaderAfter(P, lost, l)
  BY SameParts, Zenon
<1> QED
  BY <1>1, <1>2
     DEF Scene!BroadcastOutcomes, BroadcastOutcomes, Scene!BroadcastResults,
         BroadcastResults

LEMMA SameRequest ==
  ASSUME NEW P, NEW l, NEW r, NEW D
  PROVE  Scene!RequestOutcomes(P, l, r, D) = RequestOutcomes(P, l, r, D)
<1>1. ASSUME NEW lost, NEW result
      PROVE  Scene!RequestEndsWith(P, l, r, lost, result)
               = RequestEndsWith(P, l, r, lost, result)
  <2>1. Scene!Cardinality(lost) = Cardinality(lost)
    BY SameParts
  <2> QED
    BY <2>1, Zenon DEF Scene!RequestEndsWith, RequestEndsWith
<1>2. ASSUME NEW lost
      PROVE  Scene!LeaderAfter(P, lost, l) = LeaderAfter(P, lost, l)
  BY SameParts, Zenon
<1> QED
  BY <1>1, <1>2
     DEF Scene!RequestOutcomes, RequestOutcomes, Scene!RequestResults,
         RequestResults, Scene!BroadcastResults, BroadcastResults

-----------------------------------------------------------------------------
(* The steps of the session thread.                                        *)

\* Where Session.tla is when the instructions are at a place.
SceneAt(place) ==
  IF place \in {"lobby", "scenes", "scene", "died", "confirm", "end"}
  THEN place ELSE "scene"

\* A broadcast here is one there.
LEMMA SceneBroadcasts ==
  ASSUME NEW boss, NEW next, Broadcast(boss, next)
  PROVE  Scene!Broadcast(players, boss, SceneAt(next))
<1>1. PICK o \in BroadcastOutcomes(players, players, boss, dead) :
        /\ players' = o.players /\ leader' = o.leader
        /\ IF o.result = "sent" THEN GoesOn(next) ELSE Throws(o.result)
  BY Zenon DEF Broadcast
<1>2. o \in Scene!BroadcastOutcomes(players, players, boss, dead)
  BY SameBroadcast, Zenon
<1>3. IF o.result = "sent" THEN Scene!GoesOn(SceneAt(next))
                           ELSE Scene!Throws(o.result)
  BY <1>1
     DEF GoesOn, Throws, Scene!GoesOn, Scene!Throws, InInstruction, SceneAt
<1> QED
  BY <1>1, <1>2, <1>3, Zenon DEF Scene!Broadcast

\* So is a request, of a scene or of the end of the game.
LEMMA SceneAsksToo ==
  ASSUME NEW next, Ask(next), SceneAt(pc) \in {"scene", "confirm"}
  PROVE  Scene!Ask(SceneAt(next))
<1>1. PICK o \in RequestOutcomes(players, leader, running, dead) :
        /\ players' = o.players /\ leader' = o.leader
        /\ CASE o.result = "sent"     -> GoesOn(next)
             [] o.result = "canceled" -> GoesOn("end")
             [] OTHER                 -> Throws(o.result)
  BY Zenon DEF Ask
<1>2. o \in Scene!RequestOutcomes(players, leader, running, dead)
  BY SameRequest, Zenon
<1>3. IF o.result = "sent" THEN Scene!GoesOn(SceneAt(next))
                           ELSE Scene!AskFails(o.result)
  BY <1>1
     DEF GoesOn, Throws, Scene!GoesOn, Scene!Throws, Scene!AskFails,
         InInstruction, SceneAt
<1> QED
  BY <1>1, <1>2, <1>3, Zenon DEF Scene!Ask

\* The variables of the lobby are constants here.
LEMMA SceneUnchanged ==
  ASSUME dead' = dead
  PROVE  Scene!Unchanged
  BY DEF Scene!Unchanged, Scene!lobbyVars

\* A step that only goes on in the scene is none of Session.tla ...
LEMMA SceneStays ==
  ASSUME UNCHANGED <<dead, sessionVars, running, chosen, thrown>>,
         SceneAt(pc) = "scene", SceneAt(pc') = "scene"
  PROVE  UNCHANGED Scene!vars
  BY DEF Scene!vars, Scene!callVars, Scene!sessionVars, Scene!scriptVars,
         sessionVars, SceneAt, InInstruction

\* ... a message to everyone is one of a scene ...
LEMMA SceneSendsToo ==
  ASSUME UNCHANGED <<dead, alive, running, chosen>>, chosen = NoLeader,
         SceneAt(pc) = "scene", NEW next, SceneAt(next) = "scene",
         Broadcast(leader, next)
  PROVE  Scene!Next
<1>1. Scene!Broadcast(players, leader, "scene")
  BY SceneBroadcasts
<1>2. Scene!InScene
  BY DEF Scene!InScene, SceneAt, InInstruction
<1>3. Scene!SceneSends
  BY <1>1, <1>2, SceneUnchanged DEF Scene!SceneSends, Scene!scriptVars
<1> QED
  BY <1>3, Zenon DEF Scene!Next, Scene!Script

\* ... so is a question ...
LEMMA SceneAsksNext ==
  ASSUME UNCHANGED <<dead, alive, running, chosen>>, chosen = NoLeader,
         SceneAt(pc) = "scene", NEW next, SceneAt(next) = "scene",
         Ask(next)
  PROVE  Scene!Next
<1>1. Scene!Ask("scene")
  BY SceneAsksToo
<1>2. Scene!InScene
  BY DEF Scene!InScene, SceneAt, InInstruction
<1>3. Scene!SceneAsks
  BY <1>1, <1>2, SceneUnchanged DEF Scene!SceneAsks, Scene!scriptVars
<1> QED
  BY <1>3, Zenon DEF Scene!Next, Scene!Script

\* ... an error, and the end of the scene or the way to another.
LEMMA SceneLeaves ==
  ASSUME UNCHANGED <<dead, sessionVars, running, chosen>>, chosen = NoLeader,
         SceneAt(pc) = "scene",
         \/ Throws("error")
         \/ GoesOn("scenes")
         \/ GoesOn("end")
  PROVE  Scene!Next
<1>1. Scene!InScene
  BY DEF Scene!InScene, SceneAt, InInstruction
<1>2. CASE Throws("error")
  <2>1. Scene!SceneFails
    BY <1>1, <1>2, SceneUnchanged
       DEF Scene!SceneFails, Scene!Throws, Throws, Scene!sessionVars,
           sessionVars, Scene!scriptVars, InInstruction
  <2> QED
    BY <2>1, Zenon DEF Scene!Next, Scene!Script
<1>3. CASE GoesOn("scenes") \/ GoesOn("end")
  <2>1. Scene!SceneOver
    BY <1>1, <1>3, SceneUnchanged
       DEF Scene!SceneOver, Scene!GoesOn, GoesOn, Scene!sessionVars,
           sessionVars, Scene!scriptVars, InInstruction
  <2> QED
    BY <2>1, Zenon DEF Scene!Next, Scene!Script
<1> QED
  BY <1>2, <1>3

\* A death, and what follows it, is as there.
LEMMA DeathKeepsToScenes ==
  ASSUME SessionInv, TaskInv, CheckTarget \/ AfterDeath \/ GameOver
  PROVE  Scene!Next \/ UNCHANGED Scene!vars
<1> USE DEF GoesOn
<1>1. CASE CheckTarget
  <2>1. SceneAt(pc) = "scene" /\ chosen = NoLeader /\ Target \in Ids
    BY <1>1, TargetIsLeft DEF CheckTarget, SceneAt, SessionInv, TaskInv
  <2>2. CASE TargetGone /\ UNCHANGED <<sessionVars, chosen>>
    BY <1>1, <2>1, <2>2, SceneLeaves DEF CheckTarget, TargetGone
  <2>3. CASE GoesOn("targets") /\ UNCHANGED <<sessionVars, chosen>>
    BY <1>1, <2>1, <2>3, SceneStays DEF CheckTarget, SceneAt
  <2>4. CASE /\ Target \in players
             /\ alive' = alive \ {Target} /\ chosen' = Target
             /\ Broadcast(leader, "died")
    <3>1. Scene!Broadcast(players, leader, "died")
      BY <2>4, SceneBroadcasts DEF SceneAt
    <3>2. Scene!InScene
      BY <2>1 DEF Scene!InScene, SceneAt, InInstruction
    <3>3. Scene!Die(Target)
      BY <1>1, <2>4, <3>1, <3>2, SceneUnchanged DEF CheckTarget, Scene!Die
    <3> QED
      BY <2>1, <3>3, Zenon DEF Scene!Next, Scene!Script
  <2> QED
    BY <1>1, <2>2, <2>3, <2>4 DEF CheckTarget
<1>2. CASE AfterDeath
  <2>1. Scene!Unchanged /\ UNCHANGED <<alive, running>> /\ chosen' = NoLeader
    BY <1>2, SceneUnchanged DEF AfterDeath
  <2>2. InInstruction /\ pc = "died"
    BY <1>2 DEF AfterDeath, InInstruction
  <2>3. CASE players \cap alive = {} /\ Broadcast(leader, "confirm")
    <3>1. Scene!Broadcast(players, leader, "confirm")
      BY <2>3, SceneBroadcasts DEF SceneAt
    <3> QED
      BY <2>1, <2>2, <2>3, <3>1
         DEF Scene!AfterDeath, Scene!Next, Scene!SessionThread
  <2>4. CASE /\ players \cap alive # {} /\ leader = chosen
             /\ Broadcast(Min(players \cap alive), "targets")
    <3>1. Scene!FirstOf(players \cap alive) = Min(players \cap alive)
      BY SameParts DEF FirstOf
    <3>2. Scene!Broadcast(players, Min(players \cap alive), "scene")
      BY <2>4, SceneBroadcasts DEF SceneAt
    <3> QED
      BY <2>1, <2>2, <2>4, <3>1, <3>2
         DEF Scene!AfterDeath, Scene!Next, Scene!SessionThread
  <2>5. CASE /\ players \cap alive # {} /\ leader # chosen
             /\ GoesOn("targets") /\ UNCHANGED <<players, leader>>
    <3>1. Scene!GoesOn("scene")
      BY <2>5 DEF Scene!GoesOn, InInstruction
    <3> QED
      BY <2>1, <2>2, <2>5, <3>1
         DEF Scene!AfterDeath, Scene!Next, Scene!SessionThread
  <2> QED
    BY <1>2, <2>3, <2>4, <2>5 DEF AfterDeath
<1>3. CASE GameOver
  <2>1. Scene!Ask("scene")
    BY <1>3, SceneAsksToo DEF GameOver, SceneAt
  <2>2. pc' \in {"targets", "end"}
    BY <1>3, AskMoves DEF GameOver
  <2>3. Scene!GameOver
    BY <1>3, <2>1, <2>2, SceneUnchanged
       DEF GameOver, Scene!GameOver, Scene!scriptVars, InInstruction
  <2> QED
    BY <2>3, Zenon DEF Scene!Next, Scene!SessionThread
<1> QED
  BY <1>1, <1>2, <1>3

\* The other steps of the session thread, but its end.
LEMMA PlayKeepsToScenes ==
  ASSUME SessionInv, TaskInv, Play, pc' # "lobby"
  PROVE  Scene!Next \/ UNCHANGED Scene!vars
<1> USE DEF GoesOn, Begins
<1>1. CASE PlayScene
  <2>1. Scene!PlayScene
    <3>1. CASE running /\ Broadcast(leader, "scene")
      <4>1. Scene!Broadcast(players, leader, "scene")
        BY <3>1, SceneBroadcasts DEF SceneAt
      <4> QED
        BY <1>1, <3>1, <4>1, SceneUnchanged
           DEF PlayScene, Scene!PlayScene, Scene!Plays, Scene!scriptVars,
               InInstruction
    <3>2. CASE ~(running /\ Broadcast(leader, "scene"))
      BY <1>1, <3>2, SceneUnchanged
         DEF PlayScene, Scene!PlayScene, Scene!Plays, Scene!scriptVars,
             InInstruction, Throws, Scene!Throws, Scene!GoesOn
    <3> QED
      BY <3>1, <3>2
  <2> QED
    BY <2>1, Zenon DEF Scene!Next, Scene!SessionThread
<1>2. CASE SceneOver \/ Goto \/ ActionVote
  <2>1. chosen = NoLeader /\ SceneAt(pc) = "scene"
    BY <1>2 DEF SceneOver, Goto, ActionVote, SessionInv, SceneAt
  <2> QED
    BY <1>2, <2>1, SceneLeaves DEF SceneOver, Goto, ActionVote
<1>3. CASE Text
  <2>1. chosen = NoLeader /\ SceneAt(pc) = "scene"
    BY <1>3 DEF Text, SessionInv, SceneAt
  <2>2. PICK next \in {"scene", "ask"} : Broadcast(leader, next)
    BY <1>3 DEF Text
  <2> QED
    BY <1>3, <2>1, <2>2, SceneSendsToo DEF Text, SceneAt
<1>4. CASE Choice \/ Confirm \/ ConfirmTest
  <2>1. chosen = NoLeader /\ SceneAt(pc) = "scene"
    BY <1>4 DEF Choice, Confirm, ConfirmTest, SessionInv, SceneAt
  <2> QED
    BY <1>4, <2>1, SceneAsksNext DEF Choice, Confirm, ConfirmTest, SceneAt
<1>5. CASE GlobalEvent
  <2>1. chosen = NoLeader /\ SceneAt(pc) = "scene"
    BY <1>5 DEF GlobalEvent, SessionInv, SceneAt
  <2>2. CASE Broadcast(leader, "global")
    BY <1>5, <2>1, <2>2, SceneSendsToo DEF GlobalEvent, SceneAt
  <2>3. CASE ~Broadcast(leader, "global")
    BY <1>5, <2>1, <2>3, SceneLeaves DEF GlobalEvent, sessionVars
  <2> QED
    BY <2>2, <2>3
<1>6. CASE CheckGame
  <2>1. chosen = NoLeader /\ SceneAt(pc) = "scene"
    BY <1>6 DEF CheckGame, SessionInv, SceneAt
  <2>2. CASE GoesOn("scene") /\ UNCHANGED <<players, leader, running>>
    BY <1>6, <2>1, <2>2, SceneStays DEF CheckGame, SceneAt, sessionVars
  <2>3. CASE Broadcast(leader, "scene") /\ running' = FALSE
    <3>1. Scene!Broadcast(players, leader, "scene")
      BY <2>3, SceneBroadcasts DEF SceneAt
    <3>2. Scene!InScene
      BY <2>1 DEF Scene!InScene, SceneAt, InInstruction
    <3>3. Scene!GameEnds
      BY <1>6, <2>3, <3>1, <3>2, SceneUnchanged
         DEF CheckGame, Scene!GameEnds, Scene!scriptVars
    <3> QED
      BY <3>3, Zenon DEF Scene!Next, Scene!Script
  <2> QED
    BY <1>6, <2>2, <2>3 DEF CheckGame
<1>7. CASE EventTo
  <2>1. SceneAt(pc) = "scene" /\ SceneAt(pc') = "scene"
    BY <1>7 DEF EventTo, SceneAt
  <2> QED
    BY <1>7, <2>1, SceneStays DEF EventTo
<1>8. CASE SurpriseAttack \/ TargetsDone \/ Tested \/ Count
  <2>1. chosen = NoLeader /\ SceneAt(pc) = "scene"
    BY <1>8
       DEF SurpriseAttack, TargetsDone, Tested, Count, SessionInv, SceneAt
  <2>2. UNCHANGED <<dead, sessionVars, running, chosen>>
    BY <1>8 DEF SurpriseAttack, TargetsDone, Tested, Count
  <2>3. CASE Throws("error")
    BY <2>1, <2>2, <2>3, SceneLeaves
  <2>4. CASE ~Throws("error")
    <3>1. SceneAt(pc') = "scene" /\ thrown' = thrown
      BY <1>8, <2>4 DEF SurpriseAttack, TargetsDone, Tested, Count, SceneAt
    <3> QED
      BY <2>1, <2>2, <3>1, SceneStays
  <2> QED
    BY <2>3, <2>4
<1>9. CASE Attack \/ Test
  <2>1. chosen = NoLeader /\ SceneAt(pc) = "scene"
    BY <1>9 DEF Attack, Test, SessionInv, SceneAt
  <2> QED
    BY <1>9, <2>1, SceneSendsToo DEF Attack, Test, SceneAt
<1>10. CASE Strike
  <2>1. chosen = NoLeader /\ SceneAt(pc) = "scene"
    BY <1>10 DEF Strike, SessionInv, SceneAt
  <2>2. CASE Broadcast(leader, "check")
    BY <1>10, <2>1, <2>2, SceneSendsToo DEF Strike, SceneAt
  <2>3. CASE ~Broadcast(leader, "check")
    BY <1>10, <2>1, <2>3, SceneLeaves DEF Strike, TargetGone, sessionVars
  <2> QED
    BY <2>2, <2>3
<1>11. CASE CheckTarget \/ AfterDeath \/ GameOver
  BY <1>11, DeathKeepsToScenes
<1>12. CASE End
  BY <1>12 DEF End, SessionEnds
<1> QED
  BY <1>1, <1>2, <1>3, <1>4, <1>5, <1>6, <1>7, <1>8, <1>9, <1>10, <1>11,
     <1>12 DEF Play

\* The steps of a checkpoint are those of a scene, or none.
LEMMA SavingKeepsToScenes ==
  ASSUME SessionInv,
         BeginSave \/ RefuseSave \/ WriteFile \/ WriteFails \/ TellName
  PROVE  Scene!Next \/ UNCHANGED Scene!vars
<1>1. chosen = NoLeader /\ SceneAt(pc) = "scene"
  BY DEF BeginSave, RefuseSave, SaveFails, WriteFile, WriteFails, TellName,
         Begins, SessionInv, SceneAt
<1>2. CASE BeginSave \/ WriteFile
  BY <1>1, <1>2, SceneStays DEF BeginSave, WriteFile, GoesOn, SceneAt
<1>3. CASE RefuseSave \/ WriteFails
  BY <1>1, <1>3, SceneLeaves DEF RefuseSave, WriteFails, SaveFails
<1>4. CASE TellName
  BY <1>1, <1>4, SceneSendsToo DEF TellName, SceneAt
<1> QED
  BY <1>2, <1>3, <1>4

\* Session.tla's scene, whose script takes any step at any time, allows every
\* step of the instructions and of the checkpoints in them (Base.lua,
\* Custom.lua, Gameplay.cpp): what it shows of any script holds of these.
THEOREM KeepsToScenesCorrect == Spec => KeepsToScenes
<1>1. ASSUME PlayInv, [Next]_vars
      PROVE  [ pc # "lobby" /\ pc' # "lobby" =>
                 Scene!Next \/ UNCHANGED Scene!vars ]_playVars
  <2> SUFFICES ASSUME pc # "lobby", pc' # "lobby", playVars' # playVars
               PROVE  Scene!Next \/ UNCHANGED Scene!vars
    OBVIOUS
  <2>1. CASE Play
    BY <1>1, <2>1, PlayKeepsToScenes DEF PlayInv
  <2>2. CASE BeginSave \/ RefuseSave \/ WriteFile \/ WriteFails \/ TellName
    BY <1>1, <2>2, SavingKeepsToScenes DEF PlayInv
  <2>3. CASE Lobby \/ Crash
    BY <2>3
       DEF Lobby, NewGame, LoadGame, SessionBegins, Crash, SessionEnds
  <2>4. CASE StopSession
    <3>1. Scene!StopSession
      BY <1>1, <2>4
         DEF StopSession, Scene!StopSession, Scene!Going, Scene!callVars,
             Scene!sessionVars, sessionVars, Scene!scriptVars, InInstruction,
             PlayInv, SessionInv, Places
    <3> QED
      BY <3>1, Zenon DEF Scene!Next, Scene!Environment
  <2>5. ASSUME NEW p \in Ids, Drop(p)
        PROVE  Scene!Next
    <3>1. Scene!Drop(p)
      BY <1>1, <2>5
         DEF Drop, Scene!Drop, Scene!Going, Scene!lobbyVars,
             Scene!sessionVars, sessionVars, Scene!scriptVars, InInstruction,
             PlayInv, SessionInv, Places
    <3> QED
      BY <3>1, Zenon DEF Scene!Next, Scene!Environment
  <2>6. ~UNCHANGED vars
    BY DEF vars
  <2> QED
    BY <1>1, <2>1, <2>2, <2>3, <2>4, <2>5, <2>6
       DEF Next, SessionThread, Environment
<1> QED
  BY PlayInvariant, <1>1, PTL DEF Spec, KeepsToScenes

-----------------------------------------------------------------------------
(* Sums over the items.                                                     *)

\* The sum of the model is a fold that FoldExists says is defined.
LEMMA SumIsFold ==
  ASSUME NEW c \in [Items -> Int]
  PROVE  \E g \in [SUBSET Items -> Int] :
           /\ SumOver(c) = g[Items]
           /\ \A s \in SUBSET Items :
                g[s] = IF s = {} THEN 0
                       ELSE c[CHOOSE x \in s : TRUE]
                              + g[s \ {CHOOSE x \in s : TRUE}]
<1> DEFINE G == [v \in Int |-> [x \in Items |-> c[x] + v]]
<1>2. \A v \in Int, x \in Items : G[v][x] = c[x] + v /\ G[v][x] \in Int
  <2>1. ASSUME NEW v \in Int, NEW x \in Items
        PROVE  G[v][x] = c[x] + v /\ c[x] + v \in Int
    OBVIOUS
  <2> QED
    BY <2>1
<1> HIDE DEF G
<1> DEFINE ch == [s \in SUBSET Items |-> CHOOSE x \in s : TRUE]
           iter == CHOOSE g : g = [ s \in SUBSET Items |->
                     IF s = {} THEN 0
                     ELSE c[CHOOSE x \in s : TRUE]
                            + g[s \ {CHOOSE x \in s : TRUE}] ]
<1>1. SumOver(c) = iter[Items]
  BY DEF SumOver, FoldFunction, FoldFunctionOnSet, MapThenFoldSet
<1>3. \A s \in SUBSET Items :
        s # {} => /\ ch[s] = (CHOOSE x \in s : TRUE) /\ ch[s] \in s
                  /\ ch[s] \in Items /\ s \ {ch[s]} \in SUBSET Items
  <2>1. ASSUME NEW s \in SUBSET Items, s # {}
        PROVE  /\ ch[s] = (CHOOSE x \in s : TRUE) /\ ch[s] \in s
               /\ ch[s] \in Items
    <3>1. (CHOOSE x \in s : TRUE) \in s
      BY <2>1, Zenon
    <3> QED
      BY <3>1
  <2> QED
    BY <2>1
<1> HIDE DEF ch
<1>4. PICK g \in [SUBSET Items -> Int] : FoldOf(g, Items, 0, G, ch)
  <2>1. 0 \in Int
    OBVIOUS
  <2>2. StepsWithin(G, Int, Items) /\ Chooses(ch, Items)
    BY <1>2, <1>3, Zenon DEF StepsWithin, Chooses
  <2> QED
    BY <2>1, <2>2, ItemsAssumption, FoldExists, Zenon
<1>5. \A s \in SUBSET Items :
        g[s] = IF s = {} THEN 0
               ELSE c[CHOOSE x \in s : TRUE]
                      + g[s \ {CHOOSE x \in s : TRUE}]
  <2> SUFFICES ASSUME NEW s \in SUBSET Items, s # {}
               PROVE  g[s] = c[ch[s]] + g[s \ {ch[s]}]
    BY <1>3, <1>4, Zenon DEF FoldOf
  <2>1. ch[s] \in Items /\ s \ {ch[s]} \in SUBSET Items
    BY <1>3, Zenon
  <2>2. g[s \ {ch[s]}] \in Int
    BY <1>4, <2>1, Zenon
  <2> QED
    BY <1>2, <1>4, <2>1, <2>2, Zenon DEF FoldOf
<1>6. g = [ s \in SUBSET Items |->
              IF s = {} THEN 0
              ELSE c[CHOOSE x \in s : TRUE]
                     + g[s \ {CHOOSE x \in s : TRUE}] ]
  BY <1>5
<1>7. iter = [ s \in SUBSET Items |->
                 IF s = {} THEN 0
                 ELSE c[CHOOSE x \in s : TRUE]
                        + iter[s \ {CHOOSE x \in s : TRUE}] ]
  BY <1>6, Zenon
<1> HIDE DEF iter
<1> DEFINE K == { s \in SUBSET Items : iter[s] = g[s] }
<1>8. \A s \in SUBSET Items : s \in K
  <2>1. ASSUME NEW s \in SUBSET Items, \A x \in s : s \ {x} \in K
        PROVE  s \in K
    <3>1. CASE s = {}
      BY <1>5, <1>7, <3>1
    <3>2. CASE s # {}
      <4>1. ch[s] \in s /\ ch[s] = (CHOOSE x \in s : TRUE)
        BY <1>3, <3>2
      <4>2. iter[s \ {ch[s]}] = g[s \ {ch[s]}]
        BY <2>1, <4>1
      <4>3. iter[s] = c[ch[s]] + iter[s \ {ch[s]}]
        BY <1>7, <3>2, <4>1, Zenon
      <4>4. g[s] = c[ch[s]] + g[s \ {ch[s]}]
        BY <1>5, <3>2, <4>1, Zenon
      <4> QED
        BY <4>2, <4>3, <4>4
    <3> QED
      BY <3>1, <3>2
  <2> HIDE DEF K
  <2> QED
    BY <2>1, ItemsAssumption, OfSubsets, Zenon
<1>9. SumOver(c) = g[Items]
  BY <1>1, <1>8
<1> QED
  BY <1>5, <1>9, Zenon

\* The sums of the parts of the items, any item of which may come first.
Sums(g, c) ==
  /\ g \in [SUBSET Items -> Int] /\ SumOver(c) = g[Items]
  /\ g[{}] = 0
  /\ \A s \in SUBSET Items : \A x \in s : g[s] = c[x] + g[s \ {x}]

\* The sum of a set is that of the set without an item, and this item.
LEMMA SumsExist ==
  ASSUME NEW c \in [Items -> Int]
  PROVE  \E g : Sums(g, c)
<1>1. PICK g \in [SUBSET Items -> Int] :
        /\ SumOver(c) = g[Items]
        /\ \A s \in SUBSET Items :
             g[s] = IF s = {} THEN 0
                    ELSE c[CHOOSE x \in s : TRUE]
                           + g[s \ {CHOOSE x \in s : TRUE}]
  BY SumIsFold
<1> DEFINE K == { s \in SUBSET Items :
                    \A x \in s : g[s] = c[x] + g[s \ {x}] }
<1>2. \A s \in SUBSET Items : s \in K
  <2>1. ASSUME NEW s \in SUBSET Items, \A x \in s : s \ {x} \in K, NEW x \in s
        PROVE  g[s] = c[x] + g[s \ {x}]
    <3>1. PICK y : y = CHOOSE z \in s : TRUE
      OBVIOUS
    <3>2. y \in s /\ g[s] = c[y] + g[s \ {y}]
      BY <1>1, <3>1, Zenon
    <3>3. CASE x = y
      BY <3>2, <3>3
    <3>4. CASE x # y
      <4>1. x \in s \ {y} /\ y \in s \ {x}
        BY <3>2, <3>4
      <4>2. /\ g[s \ {y}] = c[x] + g[(s \ {y}) \ {x}]
            /\ g[s \ {x}] = c[y] + g[(s \ {x}) \ {y}]
        BY <2>1, <3>2, <4>1
      <4>3. (s \ {y}) \ {x} = (s \ {x}) \ {y}
        OBVIOUS
      <4>4. PICK rest \in Int : rest = g[(s \ {x}) \ {y}]
        BY <1>1
      <4>5. PICK cx \in Int, cy \in Int : cx = c[x] /\ cy = c[y]
        BY <3>2
      <4>6. g[s] = cy + (cx + rest)
        BY <3>2, <4>2, <4>3, <4>4, <4>5, Zenon
      <4>7. c[x] + g[s \ {x}] = cx + (cy + rest)
        BY <4>2, <4>4, <4>5, Zenon
      <4>8. cy + (cx + rest) = cx + (cy + rest)
        BY <4>4, <4>5
      <4> QED
        BY <4>6, <4>7, <4>8, Zenon
    <3> QED
      BY <3>3, <3>4
  <2>2. ASSUME NEW s \in SUBSET Items, \A x \in s : s \ {x} \in K
        PROVE  s \in K
    BY <2>1, <2>2
  <2> HIDE DEF K
  <2> QED
    BY <2>2, ItemsAssumption, OfSubsets, Zenon
<1>3. g[{}] = 0
  BY <1>1
<1>4. \A s \in SUBSET Items : \A x \in s : g[s] = c[x] + g[s \ {x}]
  BY <1>2
<1> HIDE DEF K
<1>5. Sums(g, c)
  BY <1>1, <1>3, <1>4 DEF Sums
<1> QED
  BY <1>5, Zenon

LEMMA SumIsInt ==
  ASSUME NEW c \in [Items -> Int]
  PROVE  SumOver(c) \in Int
<1>1. PICK g : Sums(g, c)
  BY SumsExist
<1> QED
  BY <1>1 DEF Sums

\* The sum of the changes is the change of the sum.
LEMMA SumOfChanges ==
  ASSUME NEW c \in [Items -> Int], NEW d \in [Items -> Int],
         NEW e \in [Items -> Int], \A x \in Items : e[x] = c[x] + d[x]
  PROVE  SumOver(e) = SumOver(c) + SumOver(d)
<1>1. PICK f : Sums(f, c)
  BY SumsExist
<1>2. PICK g : Sums(g, d)
  BY SumsExist
<1>3. PICK h : Sums(h, e)
  BY SumsExist
<1> DEFINE K == { s \in SUBSET Items : h[s] = f[s] + g[s] }
<1>4. ASSUME NEW s \in SUBSET Items, \A x \in s : s \ {x} \in K
      PROVE  s \in K
  <2>1. CASE s = {}
    BY <1>1, <1>2, <1>3, <2>1 DEF Sums
  <2>2. CASE s # {}
    <3>1. PICK x \in s : TRUE
      BY <2>2
    <3>2. /\ f[s] = c[x] + f[s \ {x}] /\ g[s] = d[x] + g[s \ {x}]
          /\ h[s] = e[x] + h[s \ {x}]
      BY <1>1, <1>2, <1>3, Zenon DEF Sums
    <3>3. h[s \ {x}] = f[s \ {x}] + g[s \ {x}]
      BY <1>4
    <3>4. /\ c[x] \in Int /\ d[x] \in Int /\ e[x] = c[x] + d[x]
          /\ f[s \ {x}] \in Int /\ g[s \ {x}] \in Int
      BY <1>1, <1>2 DEF Sums
    <3> QED
      BY <3>2, <3>3, <3>4
  <2> QED
    BY <2>1, <2>2
<1>5. \A s \in SUBSET Items : s \in K
  <2> HIDE DEF K
  <2> QED
    BY <1>4, ItemsAssumption, OfSubsets, Zenon
<1> QED
  BY <1>1, <1>2, <1>3, <1>5 DEF Sums

\* Of smaller summands, the sum is smaller.
LEMMA SumAtMost ==
  ASSUME NEW c \in [Items -> Int], NEW d \in [Items -> Int],
         \A x \in Items : c[x] <= d[x]
  PROVE  SumOver(c) <= SumOver(d)
<1>1. PICK f : Sums(f, c)
  BY SumsExist
<1>2. PICK g : Sums(g, d)
  BY SumsExist
<1> DEFINE K == { s \in SUBSET Items : f[s] <= g[s] }
<1>4. ASSUME NEW s \in SUBSET Items, \A x \in s : s \ {x} \in K
      PROVE  s \in K
  <2>1. CASE s = {}
    BY <1>1, <1>2, <2>1 DEF Sums
  <2>2. CASE s # {}
    <3>1. PICK x \in s : TRUE
      BY <2>2
    <3>2. f[s] = c[x] + f[s \ {x}] /\ g[s] = d[x] + g[s \ {x}]
      BY <1>1, <1>2, Zenon DEF Sums
    <3>3. f[s \ {x}] <= g[s \ {x}]
      BY <1>4
    <3>4. /\ c[x] \in Int /\ d[x] \in Int /\ c[x] <= d[x]
          /\ f[s \ {x}] \in Int /\ g[s \ {x}] \in Int
      BY <1>1, <1>2 DEF Sums
    <3> QED
      BY <3>2, <3>3, <3>4
  <2> QED
    BY <2>1, <2>2
<1>5. \A s \in SUBSET Items : s \in K
  <2> HIDE DEF K
  <2> QED
    BY <1>4, ItemsAssumption, OfSubsets, Zenon
<1> QED
  BY <1>1, <1>2, <1>5 DEF Sums

\* The sum of one summand, the others being 0, is this summand.
LEMMA SumOfOne ==
  ASSUME NEW c \in [Items -> Int], NEW i \in Items,
         \A x \in Items : x # i => c[x] = 0
  PROVE  SumOver(c) = c[i]
<1>1. PICK f : Sums(f, c)
  BY SumsExist
<1> DEFINE K == { s \in SUBSET Items :
                    f[s] = IF i \in s THEN c[i] ELSE 0 }
<1>4. ASSUME NEW s \in SUBSET Items, \A x \in s : s \ {x} \in K
      PROVE  s \in K
  <2>1. CASE s = {}
    BY <1>1, <2>1 DEF Sums
  <2>2. CASE s # {}
    <3>1. PICK x \in s : TRUE
      BY <2>2
    <3>2. f[s] = c[x] + f[s \ {x}]
      BY <1>1, Zenon DEF Sums
    <3>3. f[s \ {x}] = IF i \in s \ {x} THEN c[i] ELSE 0
      BY <1>4
    <3>4. c[x] \in Int /\ c[i] \in Int /\ (x # i => c[x] = 0)
      OBVIOUS
    <3>5. CASE x = i
      BY <3>2, <3>3, <3>4, <3>5
    <3>6. CASE x # i
      BY <3>2, <3>3, <3>4, <3>6
    <3> QED
      BY <3>5, <3>6
  <2> QED
    BY <2>1, <2>2
<1>5. \A s \in SUBSET Items : s \in K
  <2> HIDE DEF K
  <2> QED
    BY <1>4, ItemsAssumption, OfSubsets, Zenon
<1> QED
  BY <1>1, <1>5 DEF Sums

LEMMA SumOfNone == SumOver([x \in Items |-> 0]) = 0
<1> DEFINE c == [x \in Items |-> 0]
<1>1. c \in [Items -> Int] /\ \A x \in Items : c[x] = c[x] + c[x]
  OBVIOUS
<1>2. SumOver(c) = SumOver(c) + SumOver(c)
  <2> HIDE DEF c
  <2> QED
    BY <1>1, SumOfChanges, Zenon
<1>3. SumOver(c) \in Int
  BY <1>1, SumIsInt
<1> QED
  BY <1>2, <1>3

\* One more of an item is one more in all.
LEMMA SumOfChanged ==
  ASSUME NEW c \in [Items -> Int], NEW i \in Items, NEW q \in Int
  PROVE  SumOver([c EXCEPT ![i] = @ + q]) = SumOver(c) + q
<1> DEFINE d == [x \in Items |-> IF x = i THEN q ELSE 0]
           e == [c EXCEPT ![i] = @ + q]
<1>1. d \in [Items -> Int] /\ e \in [Items -> Int] /\ d[i] = q
  OBVIOUS
<1>2. \A x \in Items : e[x] = c[x] + d[x]
  OBVIOUS
<1>3. \A x \in Items : x # i => d[x] = 0
  OBVIOUS
<1> HIDE DEF d, e
<1>4. SumOver(e) = SumOver(c) + SumOver(d)
  BY <1>1, <1>2, SumOfChanges, Zenon
<1>5. SumOver(d) = q
  BY <1>1, <1>3, SumOfOne, Zenon
<1> QED
  BY <1>4, <1>5, Zenon DEF e

-----------------------------------------------------------------------------
(* Folds over the items, in an order of the hash table.                     *)

\* An order of the hash table lists each item once.
LEMMA OrderFacts ==
  ASSUME NEW order \in Orders
  PROVE  /\ Cardinality(Items) \in Nat
         /\ order \in [1 .. Cardinality(Items) -> Items]
         /\ DOMAIN order = 1 .. Cardinality(Items)
         /\ \A j, k \in 1 .. Cardinality(Items) :
              order[j] = order[k] => j = k
         /\ \A x \in Items : \E k \in 1 .. Cardinality(Items) : order[k] = x
<1>1. Cardinality(Items) \in Nat
  BY ItemsAssumption, FS_CardinalityType
<1>2. PICK n \in Nat : n = Cardinality(Items)
  BY <1>1
<1>3. /\ order \in [1 .. n -> Items] /\ DOMAIN order = 1 .. n
      /\ \A j, k \in 1 .. n : order[j] = order[k] => j = k
  BY <1>2 DEF Orders, SetToSeqs
<1>4. order \in Injection(1 .. n, Items)
  BY <1>3 DEF Injection, IsInjective
<1>5. Cardinality(1 .. n) = n
  <2>1. n \in Int /\ 1 \in Int /\ ~ (1 > n /\ n # 0) /\ n - 1 + 1 = n
    OBVIOUS
  <2> QED
    BY <2>1, FS_Interval
<1>6. order \in Surjection(1 .. n, Items)
  BY <1>2, <1>4, <1>5, ItemsAssumption, FS_Injection, Zenon
<1>7. \A x \in Items : \E k \in 1 .. n : order[k] = x
  BY <1>6 DEF Surjection
<1> QED
  BY <1>1, <1>2, <1>3, <1>7

-----------------------------------------------------------------------------
(* Characters.                                                              *)

\* What a statistic is set to, within its limits, of which the highest counts.
Nearest(stat, value) ==
  IF value > stat.max THEN stat.max
  ELSE IF value < stat.min THEN stat.min ELSE value

\* StatManager::set keeps the limits of a statistic.
LEMMA SetFacts ==
  ASSUME NEW stat \in Stats, NEW value \in Int
  PROVE  /\ Set(stat, value) \in Stats
         /\ Set(stat, value).value = Nearest(stat, value)
         /\ Set(stat, value).min = stat.min
         /\ Set(stat, value).max = stat.max
         /\ Set(stat, value).hidden = stat.hidden
<1>1. /\ stat = [ value |-> stat.value, min |-> stat.min, max |-> stat.max,
                 hidden |-> stat.hidden ]
      /\ stat.value \in Int /\ stat.min \in Int /\ stat.max \in Int
      /\ stat.hidden \in BOOLEAN
  BY DEF Stats
<1>2. Set(stat, value) =
        [ value |-> Nearest(stat, value), min |-> stat.min,
          max |-> stat.max, hidden |-> stat.hidden ]
  <2>1. PICK r : r = [stat EXCEPT !.value = value]
    OBVIOUS
  <2>2. r = [ value |-> value, min |-> stat.min,
              max |-> stat.max, hidden |-> stat.hidden ]
    BY <1>1, <2>1
  <2>3. Set(stat, value) =
          [r EXCEPT !.value = IF r.value > r.max THEN r.max
                              ELSE IF r.value < r.min THEN r.min
                              ELSE r.value]
    BY <2>1 DEF Set, Readjust
  <2>4. Set(stat, value) = [r EXCEPT !.value = Nearest(stat, value)]
    BY <2>2, <2>3 DEF Nearest
  <2> QED
    BY <2>2, <2>4
<1>3. Nearest(stat, value) \in Int
  BY <1>1 DEF Nearest
<1>4. [ value |-> Nearest(stat, value), min |-> stat.min,
        max |-> stat.max, hidden |-> stat.hidden ] \in Stats
  BY <1>1, <1>3 DEF Stats
<1> QED
  BY <1>2, <1>4

LEMMA ChangeTyped ==
  ASSUME NEW stat \in Stats, NEW d \in Int
  PROVE  Change(stat, d) \in Stats
<1>1. stat.value + d \in Int
  BY DEF Stats
<1> QED
  BY <1>1, SetFacts DEF Change

\* A statistic within its limits, which contain 0; an inventory within its
\* capacity.
WithinLimits(stat) ==
  stat.min <= stat.value /\ stat.value <= stat.max
    /\ ValidLimits(stat.min, stat.max)
Holds(p) == p.capacity # Unlimited => Size(p) <= p.capacity
Good(p) == p \in Characters /\ WithinLimits(p.stat) /\ Holds(p)

LEMMA SetWithinLimits ==
  ASSUME NEW stat \in Stats, NEW value \in Int,
         ValidLimits(stat.min, stat.max)
  PROVE  WithinLimits(Set(stat, value))
<1>1. /\ Nearest(stat, value) >= stat.min
      /\ Nearest(stat, value) <= stat.max
  BY DEF Nearest, ValidLimits, Stats
<1> QED
  BY <1>1, SetFacts, Zenon DEF WithinLimits

\* Nothing is readjusted within the limits.
LEMMA ChangeByNothing ==
  ASSUME NEW stat \in Stats, WithinLimits(stat)
  PROVE  Change(stat, 0) = stat
<1>1. /\ stat = [ value |-> stat.value, min |-> stat.min, max |-> stat.max,
                  hidden |-> stat.hidden ]
      /\ stat.value \in Int /\ stat.min \in Int /\ stat.max \in Int
  BY DEF Stats
<1>2. stat.value + 0 = stat.value
  BY <1>1
<1>3. Nearest(stat, stat.value) = stat.value
  BY <1>1 DEF Nearest, WithinLimits
<1>4. PICK r : r = Set(stat, stat.value)
  OBVIOUS
<1>5. /\ r \in Stats /\ r.value = stat.value /\ r.min = stat.min
      /\ r.max = stat.max /\ r.hidden = stat.hidden
  BY <1>1, <1>3, <1>4, SetFacts, Zenon
<1>6. r = stat
  BY <1>1, <1>5 DEF Stats
<1> QED
  BY <1>2, <1>4, <1>6 DEF Change

LEMMA ChangeWithinLimits ==
  ASSUME NEW stat \in Stats, WithinLimits(stat), NEW d \in Int
  PROVE  /\ Change(stat, d) \in Stats /\ WithinLimits(Change(stat, d))
         /\ Change(stat, d).min = stat.min
         /\ Change(stat, d).max = stat.max
         /\ Change(stat, d).hidden = stat.hidden
<1>1. stat.value + d \in Int
  BY DEF Stats
<1>2. ValidLimits(stat.min, stat.max)
  BY DEF WithinLimits
<1> QED
  BY <1>1, <1>2, SetFacts, SetWithinLimits DEF Change

\* Two changes in the same direction are one.
LEMMA ChangeTwice ==
  ASSUME NEW stat \in Stats, WithinLimits(stat), NEW a \in Int, NEW b \in Int,
         (a >= 0 /\ b >= 0) \/ (a <= 0 /\ b <= 0)
  PROVE  Change(Change(stat, a), b) = Change(stat, a + b)
<1>1. /\ stat.value \in Int /\ stat.min \in Int /\ stat.max \in Int
      /\ stat.min <= stat.value /\ stat.value <= stat.max
  BY DEF Stats, WithinLimits
<1>2. PICK r : r = Change(stat, a)
  OBVIOUS
<1>3. /\ r \in Stats /\ r.min = stat.min /\ r.max = stat.max
      /\ r.hidden = stat.hidden /\ r.value = Nearest(stat, stat.value + a)
  <2>1. stat.value + a \in Int
    BY <1>1
  <2>2. r = Set(stat, stat.value + a)
    BY <1>2 DEF Change
  <2> HIDE <1>1, <1>2
  <2> QED
    BY <2>1, <2>2, SetFacts
<1>4. PICK s : s = Change(r, b)
  OBVIOUS
<1>5. r.value + b \in Int
  BY <1>3 DEF Stats
<1>6. /\ s \in Stats /\ s.min = stat.min /\ s.max = stat.max
      /\ s.hidden = stat.hidden /\ s.value = Nearest(r, r.value + b)
  BY <1>3, <1>4, <1>5, SetFacts DEF Change
<1>7. PICK t : t = Change(stat, a + b)
  OBVIOUS
<1>8. stat.value + (a + b) \in Int
  BY <1>1
<1>9. /\ t \in Stats /\ t.min = stat.min /\ t.max = stat.max
      /\ t.hidden = stat.hidden
      /\ t.value = Nearest(stat, stat.value + (a + b))
  BY <1>7, <1>8, SetFacts DEF Change
<1>10. s.value = t.value
  BY <1>1, <1>3, <1>6, <1>9 DEF Nearest
<1>11. s = t
  BY <1>6, <1>9, <1>10 DEF Stats
<1> QED
  BY <1>2, <1>4, <1>7, <1>11

\* What the bonuses of a content add up to has their sign ...
LEMMA ProductSign ==
  ASSUME NEW n \in Nat, NEW b \in Int
  PROVE  /\ n * b \in Int
         /\ b >= 0 => n * b >= 0
         /\ b <= 0 => n * b <= 0
  OBVIOUS

LEMMA RegainedSign ==
  ASSUME NEW c \in [Items -> Nat]
  PROVE  /\ Regained(c) \in Int
         /\ (\A i \in Items : c[i] # 0 => Bonus[i] >= 0) => Regained(c) >= 0
         /\ (\A i \in Items : c[i] # 0 => Bonus[i] <= 0) => Regained(c) <= 0
<1> DEFINE none == [x \in Items |-> 0]
           terms == [i \in Items |-> c[i] * Bonus[i]]
<1>1. none \in [Items -> Int] /\ SumOver(none) = 0
  BY SumOfNone
<1>2. \A i \in Items : Bonus[i] \in Int /\ c[i] \in Nat
  BY ItemsAssumption
<1>3. \A i \in Items : c[i] * Bonus[i] \in Int
  BY <1>2, ProductSign
<1>4. terms \in [Items -> Int] /\ Regained(c) = SumOver(terms)
  BY <1>3 DEF Regained
<1>5. ASSUME \A i \in Items : c[i] # 0 => Bonus[i] >= 0
      PROVE  \A i \in Items : none[i] <= terms[i]
  <2> SUFFICES ASSUME NEW i \in Items
               PROVE  0 <= c[i] * Bonus[i]
    OBVIOUS
  <2>1. CASE c[i] = 0
    BY <1>2, <2>1
  <2>2. CASE c[i] # 0
    BY <1>2, <1>5, <2>2, ProductSign
  <2> QED
    BY <2>1, <2>2
<1>6. ASSUME \A i \in Items : c[i] # 0 => Bonus[i] <= 0
      PROVE  \A i \in Items : terms[i] <= none[i]
  <2> SUFFICES ASSUME NEW i \in Items
               PROVE  c[i] * Bonus[i] <= 0
    OBVIOUS
  <2>1. CASE c[i] = 0
    BY <1>2, <2>1
  <2>2. CASE c[i] # 0
    BY <1>2, <1>6, <2>2, ProductSign
  <2> QED
    BY <2>1, <2>2
<1> HIDE DEF none, terms
<1>7. Regained(c) \in Int
  BY <1>4, SumIsInt
<1>8. ASSUME \A i \in Items : c[i] # 0 => Bonus[i] >= 0
      PROVE  Regained(c) >= 0
  <2>1. SumOver(none) <= SumOver(terms)
    BY <1>1, <1>4, <1>5, <1>8, SumAtMost, Zenon
  <2> QED
    BY <1>1, <1>4, <1>7, <2>1
<1>9. ASSUME \A i \in Items : c[i] # 0 => Bonus[i] <= 0
      PROVE  Regained(c) <= 0
  <2>1. SumOver(terms) <= SumOver(none)
    BY <1>1, <1>4, <1>6, <1>9, SumAtMost, Zenon
  <2> QED
    BY <1>1, <1>4, <1>7, <2>1
<1> QED
  BY <1>7, <1>8, <1>9, Zenon

\* ... and grows by those of the items that are put in.
LEMMA RegainedNext ==
  ASSUME NEW c \in [Items -> Nat], NEW i \in Items, NEW q \in Nat, c[i] = 0
  PROVE  Regained([c EXCEPT ![i] = @ + q]) = Regained(c) + q * Bonus[i]
<1> DEFINE d == [c EXCEPT ![i] = @ + q]
           terms == [x \in Items |-> c[x] * Bonus[x]]
           others == [x \in Items |-> d[x] * Bonus[x]]
<1>1. \A x \in Items : Bonus[x] \in Int /\ c[x] \in Nat
  BY ItemsAssumption
<1>2. \A x \in Items : c[x] * Bonus[x] \in Int
  BY <1>1, ProductSign
<1>3. terms \in [Items -> Int] /\ terms[i] = 0
  BY <1>1, <1>2
<1>4. PICK b \in Int : b = q * Bonus[i]
  BY <1>1, ProductSign
<1>5. d[i] = q /\ \A x \in Items : x # i => d[x] = c[x]
  OBVIOUS
<1> HIDE DEF d
<1>6. others = [terms EXCEPT ![i] = @ + b]
  <2>1. others[i] = terms[i] + b
    BY <1>3, <1>4, <1>5
  <2>2. \A x \in Items : x # i => others[x] = terms[x]
    BY <1>5
  <2> QED
    BY <2>1, <2>2
<1>7. Regained(c) = SumOver(terms) /\ Regained(d) = SumOver(others)
  BY DEF Regained
<1> HIDE DEF terms, others
<1>8. SumOver(others) = SumOver(terms) + b
  BY <1>3, <1>6, SumOfChanged
<1> QED
  BY <1>4, <1>7, <1>8, Zenon DEF d

LEMMA SizeTyped ==
  ASSUME NEW p \in Characters
  PROVE  Size(p) \in Nat
<1>1. p.content \in [Items -> Int] /\ \A x \in Items : 0 <= p.content[x]
  BY DEF Characters
<1> DEFINE none == [x \in Items |-> 0]
<1>2. none \in [Items -> Int] /\ \A x \in Items : none[x] <= p.content[x]
  BY <1>1
<1>3. SumOver(none) = 0
  BY SumOfNone
<1> HIDE DEF none
<1>4. SumOver(p.content) \in Int /\ SumOver(none) <= SumOver(p.content)
  BY <1>1, <1>2, SumIsInt, SumAtMost, Zenon
<1> QED
  BY <1>3, <1>4 DEF Size

\* What a change of an item, and its bonus, does to a character.
LEMMA MovedFacts ==
  ASSUME NEW p \in Characters, NEW i \in Items, NEW q \in Int,
         p.content[i] + q \in Nat
  PROVE  /\ Moved(p, i, q) \in Characters
         /\ Moved(p, i, q).content = [p.content EXCEPT ![i] = @ + q]
         /\ Moved(p, i, q).capacity = p.capacity
         /\ Moved(p, i, q).dead = p.dead
         /\ Moved(p, i, q).stat = IF Bonus[i] = 0 THEN p.stat
                                  ELSE Change(p.stat, q * Bonus[i])
         /\ Size(Moved(p, i, q)) = Size(p) + q
<1> DEFINE content == [p.content EXCEPT ![i] = @ + q]
           stat == IF Bonus[i] = 0 THEN p.stat
                   ELSE Change(p.stat, q * Bonus[i])
<1>1. q * Bonus[i] \in Int
  BY ItemsAssumption
<1>2. p = [ stat |-> p.stat, content |-> p.content,
            capacity |-> p.capacity, dead |-> p.dead ]
      /\ p.stat \in Stats /\ p.content \in [Items -> Nat]
      /\ p.capacity \in Capacities /\ p.dead \in BOOLEAN
  BY DEF Characters
<1>3. stat \in Stats
  BY <1>1, <1>2, ChangeTyped
<1>4. content \in [Items -> Nat]
  BY <1>2
<1>5. SumOver(content) = SumOver(p.content) + q
  <2>1. p.content \in [Items -> Int]
    BY <1>2
  <2> QED
    BY <2>1, SumOfChanged
<1>6. Moved(p, i, q) = [p EXCEPT !.content = content, !.stat = stat]
  BY DEF Moved
<1> HIDE DEF content, stat
<1>7. Moved(p, i, q) = [ stat |-> stat, content |-> content,
                         capacity |-> p.capacity, dead |-> p.dead ]
  BY <1>2, <1>6
<1>8. /\ Moved(p, i, q) \in Characters /\ Moved(p, i, q).stat = stat
      /\ Moved(p, i, q).content = content
      /\ Moved(p, i, q).capacity = p.capacity
      /\ Moved(p, i, q).dead = p.dead
  BY <1>2, <1>3, <1>4, <1>7 DEF Characters
<1> QED
  BY <1>5, <1>8 DEF content, stat, Size

\* Characters stay good when an item is added or lost within the capacity.
LEMMA MovedGood ==
  ASSUME NEW p, Good(p), NEW i \in Items, NEW q \in Int,
         p.content[i] + q \in Nat,
         p.capacity # Unlimited => Size(p) + q <= p.capacity
  PROVE  Good(Moved(p, i, q))
<1>1. p \in Characters /\ p.stat \in Stats /\ WithinLimits(p.stat)
  BY DEF Good, Characters
<1>2. q * Bonus[i] \in Int
  BY ItemsAssumption
<1>3. WithinLimits(Change(p.stat, q * Bonus[i]))
  BY <1>1, <1>2, ChangeWithinLimits
<1>4. /\ Moved(p, i, q) \in Characters
      /\ Moved(p, i, q).stat = IF Bonus[i] = 0 THEN p.stat
                               ELSE Change(p.stat, q * Bonus[i])
      /\ Moved(p, i, q).capacity = p.capacity
      /\ Size(Moved(p, i, q)) = Size(p) + q
  BY <1>1, MovedFacts, Zenon
<1>5. WithinLimits(Moved(p, i, q).stat)
  BY <1>1, <1>3, <1>4, Zenon
<1>6. Holds(Moved(p, i, q))
  BY <1>4, Zenon DEF Holds
<1> QED
  BY <1>4, <1>5, <1>6, Zenon DEF Good

\* ... and whatever is asked for, as Inventory refuses what it cannot hold.
LEMMA GainedGood ==
  ASSUME NEW p, Good(p), NEW i \in Items, NEW q \in Int
  PROVE  Good(Gained(p, i, q))
<1>1. p \in Characters /\ p.content[i] \in Nat /\ Size(p) \in Nat
      /\ p.capacity \in Capacities
  BY SizeTyped DEF Good, Characters
<1>2. CASE q > 0
  <2>1. p.content[i] + q \in Nat
    BY <1>1, <1>2
  <2> QED
    BY <1>2, <2>1, MovedGood DEF Gained, Added, Fits
<1>3. CASE ~ (q > 0)
  <2>1. CASE p.content[i] >= -q
    <3>1. - (-q) = q /\ p.content[i] + q \in Nat
      BY <1>1, <2>1
    <3>2. p.capacity # Unlimited => Size(p) + q <= p.capacity
      BY <1>1, <1>3 DEF Good, Holds, Capacities
    <3> QED
      BY <1>3, <2>1, <3>1, <3>2, MovedGood DEF Gained, Consumed
  <2>2. CASE ~ (p.content[i] >= -q)
    BY <1>3, <2>2 DEF Gained, Consumed
  <2> QED
    BY <2>1, <2>2
<1> QED
  BY <1>2, <1>3

LEMMA AddedGood ==
  ASSUME NEW p, Good(p), NEW i \in Items, NEW q \in Nat
  PROVE  Good(Added(p, i, q))
<1>1. p \in Characters /\ p.content[i] \in Nat
  BY DEF Good, Characters
<1>2. p.content[i] + q \in Nat
  BY <1>1
<1>3. CASE Fits(p, q)
  <2>1. Good(Moved(p, i, q))
    BY <1>2, <1>3, MovedGood DEF Fits
  <2> QED
    BY <1>3, <2>1, Zenon DEF Added
<1>4. CASE ~ Fits(p, q)
  BY <1>4, Zenon DEF Added
<1> QED
  BY <1>3, <1>4

-----------------------------------------------------------------------------
(* The characters a fold over the items goes through.                       *)

GoodCharacters == { p \in Characters : Good(p) }

\* One of the changes of a part of an effect.
PartStep(p, items, order, losses, k) ==
  IF (items[order[k]] < 0) = losses
  THEN Gained(p, order[k], items[order[k]]) ELSE p

PartTraced(t, p, items, order, losses) ==
  /\ t \in [0 .. Cardinality(Items) -> GoodCharacters]
  /\ t[0] = p
  /\ t[Cardinality(Items)] = Part(p, items, order, losses)
  /\ \A k \in 1 .. Cardinality(Items) :
       t[k] = PartStep(t[k - 1], items, order, losses, k)

\* The characters a part of an effect goes through, the first to the last.
LEMMA PartTrace ==
  ASSUME NEW p, Good(p), NEW items \in [Items -> Int],
         NEW order \in Orders, NEW losses \in BOOLEAN
  PROVE  \E t : PartTraced(t, p, items, order, losses)
<1>1. PICK n \in Nat : n = Cardinality(Items)
  BY OrderFacts
<1>2. order \in [1 .. n -> Items] /\ DOMAIN order = 1 .. n
  BY <1>1, OrderFacts
<1> DEFINE D == 1 .. n
           V == GoodCharacters
           G == [v \in V |-> [k \in D |->
                  PartStep(v, items, order, losses, k)]]
<1>3. StepsWithin(G, V, D)
  <2>1. ASSUME NEW v \in V, NEW k \in D
        PROVE  PartStep(v, items, order, losses, k) \in V
    <3>1. order[k] \in Items /\ items[order[k]] \in Int /\ Good(v)
      BY <1>2 DEF GoodCharacters
    <3>2. Good(PartStep(v, items, order, losses, k))
      BY <3>1, GainedGood DEF PartStep
    <3> QED
      BY <3>2, Zenon DEF GoodCharacters, Good
  <2> QED
    BY <2>1, Zenon DEF StepsWithin
<1>4. \A v \in V, k \in D : G[v][k] = PartStep(v, items, order, losses, k)
  BY Zenon
<1> HIDE DEF G
<1>5. p \in V
  BY DEF GoodCharacters, Good
<1>6. PICK g \in [SUBSET D -> V] : FoldedInOrder(g, n, p, G)
  BY <1>3, <1>5, FoldInOrder, Zenon
<1>7. PICK t : TraceOf(t, g, n, V, p, G)
  BY <1>5, <1>6, TraceOfFold, Zenon
<1> DEFINE Step(c, k) ==
             IF (items[order[k]] < 0) = losses
             THEN Gained(c, order[k], items[order[k]]) ELSE c
           iter == CHOOSE f : f = [ s \in SUBSET D |->
                     IF s = {} THEN p ELSE Step(f[s \ {Max(s)}], Max(s)) ]
<1>8. Part(p, items, order, losses) = iter[D]
  BY <1>2 DEF Part, FoldLeft, MapThenFoldSet
<1>9. \A s \in SUBSET D :
        g[s] = IF s = {} THEN p ELSE Step(g[s \ {Max(s)}], Max(s))
  <2> SUFFICES ASSUME NEW s \in SUBSET D, s # {}
               PROVE  g[s] = Step(g[s \ {Max(s)}], Max(s))
    BY <1>6, Zenon DEF FoldedInOrder
  <2>1. Max(s) \in D /\ s \ {Max(s)} \in SUBSET D
    BY LatestIsLast
  <2>2. g[s \ {Max(s)}] \in V
    BY <1>6, <2>1, Zenon
  <2>3. g[s] = G[g[s \ {Max(s)}]][Max(s)]
    BY <1>6, Zenon DEF FoldedInOrder
  <2> QED
    BY <1>4, <2>1, <2>2, <2>3, Zenon DEF PartStep
<1>10. g = [ s \in SUBSET D |->
              IF s = {} THEN p ELSE Step(g[s \ {Max(s)}], Max(s)) ]
  BY <1>9, Zenon
<1>11. iter = [ s \in SUBSET D |->
                 IF s = {} THEN p
                 ELSE Step(iter[s \ {Max(s)}], Max(s)) ]
  BY <1>10, Zenon
<1> HIDE DEF iter
<1> DEFINE K == { s \in SUBSET D : iter[s] = g[s] }
<1>12. ASSUME NEW s \in SUBSET D, \A x \in s : s \ {x} \in K
       PROVE  s \in K
  <2>1. CASE s = {}
    BY <1>9, <1>11, <2>1, Zenon
  <2>2. CASE s # {}
    <3>1. Max(s) \in s
      BY <2>2, LatestIsLast
    <3>2. iter[s \ {Max(s)}] = g[s \ {Max(s)}]
      BY <1>12, <3>1, Zenon
    <3> HIDE DEF Step
    <3>3. iter[s] = g[s]
      BY <1>9, <1>11, <2>2, <3>2, Zenon
    <3> QED
      BY <3>3, Zenon
  <2> QED
    BY <2>1, <2>2
<1>13. \A s \in SUBSET D : s \in K
  <2> HIDE DEF K
  <2>1. IsFiniteSet(D)
    BY FS_Interval
  <2> HIDE DEF D
  <2> QED
    BY <1>12, <2>1, OfSubsets, Zenon
<1>14. t[n] = Part(p, items, order, losses)
  BY <1>7, <1>8, <1>13, Zenon DEF TraceOf
<1>15. ASSUME NEW k \in D
       PROVE  t[k] = PartStep(t[k - 1], items, order, losses, k)
  <2>1. t[k] = G[t[k - 1]][k]
    BY <1>7, Zenon DEF TraceOf, Traced
  <2>2. k - 1 \in 0 .. n
    OBVIOUS
  <2>3. t[k - 1] \in V
    BY <1>7, <2>2, Zenon DEF TraceOf
  <2> QED
    BY <1>4, <2>1, <2>3, Zenon
<1>16. t[0] = p
  BY <1>7, Zenon DEF TraceOf, Traced
<1>17. PartTraced(t, p, items, order, losses)
  BY <1>1, <1>7, <1>14, <1>15, <1>16, Zenon DEF TraceOf, PartTraced
<1> QED
  BY <1>17, Zenon

FillTraced(t, p, content, order) ==
  /\ t \in [0 .. Cardinality(Items) -> GoodCharacters]
  /\ t[0] = p
  /\ t[Cardinality(Items)] = Fill(p, content, order)
  /\ \A k \in 1 .. Cardinality(Items) :
       t[k] = Added(t[k - 1], order[k], content[order[k]])

\* The characters an inventory that is filled goes through.
LEMMA FillTrace ==
  ASSUME NEW p, Good(p), NEW content \in [Items -> Nat], NEW order \in Orders
  PROVE  \E t : FillTraced(t, p, content, order)
<1>1. PICK n \in Nat : n = Cardinality(Items)
  BY OrderFacts
<1>2. order \in [1 .. n -> Items] /\ DOMAIN order = 1 .. n
  BY <1>1, OrderFacts
<1> DEFINE D == 1 .. n
           V == GoodCharacters
           G == [v \in V |-> [k \in D |->
                  Added(v, order[k], content[order[k]])]]
<1>3. StepsWithin(G, V, D)
  <2>1. ASSUME NEW v \in V, NEW k \in D
        PROVE  Added(v, order[k], content[order[k]]) \in V
    <3>1. order[k] \in Items /\ content[order[k]] \in Nat /\ Good(v)
      BY <1>2 DEF GoodCharacters
    <3>2. Good(Added(v, order[k], content[order[k]]))
      BY <3>1, AddedGood
    <3> QED
      BY <3>2, Zenon DEF GoodCharacters, Good
  <2> QED
    BY <2>1, Zenon DEF StepsWithin
<1>4. \A v \in V, k \in D : G[v][k] = Added(v, order[k], content[order[k]])
  BY Zenon
<1> HIDE DEF G
<1>5. p \in V
  BY DEF GoodCharacters, Good
<1>6. PICK g \in [SUBSET D -> V] : FoldedInOrder(g, n, p, G)
  BY <1>3, <1>5, FoldInOrder, Zenon
<1>7. PICK t : TraceOf(t, g, n, V, p, G)
  BY <1>5, <1>6, TraceOfFold, Zenon
<1> DEFINE Step(c, k) ==
             Added(c, order[k], content[order[k]])
           iter == CHOOSE f : f = [ s \in SUBSET D |->
                     IF s = {} THEN p ELSE Step(f[s \ {Max(s)}], Max(s)) ]
<1>8. Fill(p, content, order) = iter[D]
  BY <1>2 DEF Fill, FoldLeft, MapThenFoldSet
<1>9. \A s \in SUBSET D :
        g[s] = IF s = {} THEN p ELSE Step(g[s \ {Max(s)}], Max(s))
  <2> SUFFICES ASSUME NEW s \in SUBSET D, s # {}
               PROVE  g[s] = Step(g[s \ {Max(s)}], Max(s))
    BY <1>6, Zenon DEF FoldedInOrder
  <2>1. Max(s) \in D /\ s \ {Max(s)} \in SUBSET D
    BY LatestIsLast
  <2>2. g[s \ {Max(s)}] \in V
    BY <1>6, <2>1, Zenon
  <2>3. g[s] = G[g[s \ {Max(s)}]][Max(s)]
    BY <1>6, Zenon DEF FoldedInOrder
  <2> QED
    BY <1>4, <2>1, <2>2, <2>3, Zenon
<1>10. g = [ s \in SUBSET D |->
              IF s = {} THEN p ELSE Step(g[s \ {Max(s)}], Max(s)) ]
  BY <1>9, Zenon
<1>11. iter = [ s \in SUBSET D |->
                 IF s = {} THEN p
                 ELSE Step(iter[s \ {Max(s)}], Max(s)) ]
  BY <1>10, Zenon
<1> HIDE DEF iter
<1> DEFINE K == { s \in SUBSET D : iter[s] = g[s] }
<1>12. ASSUME NEW s \in SUBSET D, \A x \in s : s \ {x} \in K
       PROVE  s \in K
  <2>1. CASE s = {}
    BY <1>9, <1>11, <2>1, Zenon
  <2>2. CASE s # {}
    <3>1. Max(s) \in s
      BY <2>2, LatestIsLast
    <3>2. iter[s \ {Max(s)}] = g[s \ {Max(s)}]
      BY <1>12, <3>1, Zenon
    <3> HIDE DEF Step
    <3>3. iter[s] = g[s]
      BY <1>9, <1>11, <2>2, <3>2, Zenon
    <3> QED
      BY <3>3, Zenon
  <2> QED
    BY <2>1, <2>2
<1>13. \A s \in SUBSET D : s \in K
  <2> HIDE DEF K
  <2>1. IsFiniteSet(D)
    BY FS_Interval
  <2> HIDE DEF D
  <2> QED
    BY <1>12, <2>1, OfSubsets, Zenon
<1>14. t[n] = Fill(p, content, order)
  BY <1>7, <1>8, <1>13, Zenon DEF TraceOf
<1>15. ASSUME NEW k \in D
       PROVE  t[k] = Added(t[k - 1], order[k], content[order[k]])
  <2>1. t[k] = G[t[k - 1]][k]
    BY <1>7, Zenon DEF TraceOf, Traced
  <2>2. k - 1 \in 0 .. n
    OBVIOUS
  <2>3. t[k - 1] \in V
    BY <1>7, <2>2, Zenon DEF TraceOf
  <2> QED
    BY <1>4, <2>1, <2>3, Zenon
<1>16. t[0] = p
  BY <1>7, Zenon DEF TraceOf, Traced
<1>17. FillTraced(t, p, content, order)
  BY <1>1, <1>7, <1>14, <1>15, <1>16, Zenon DEF TraceOf, FillTraced
<1> QED
  BY <1>17, Zenon

\* What a change of an item leaves.
Keeps(c, p) ==
  /\ c.capacity = p.capacity /\ c.dead = p.dead
  /\ c.stat.min = p.stat.min /\ c.stat.max = p.stat.max
  /\ c.stat.hidden = p.stat.hidden

LEMMA MovedKeeps ==
  ASSUME NEW p, Good(p), NEW i \in Items, NEW q \in Int,
         p.content[i] + q \in Nat
  PROVE  Keeps(Moved(p, i, q), p)
<1>1. p \in Characters /\ p.stat \in Stats /\ WithinLimits(p.stat)
  BY DEF Good, Characters
<1>2. q * Bonus[i] \in Int
  BY ItemsAssumption
<1> QED
  <2>1. /\ Change(p.stat, q * Bonus[i]).min = p.stat.min
        /\ Change(p.stat, q * Bonus[i]).max = p.stat.max
        /\ Change(p.stat, q * Bonus[i]).hidden = p.stat.hidden
    BY <1>1, <1>2, ChangeWithinLimits, Zenon
  <2>2. /\ Moved(p, i, q).capacity = p.capacity
        /\ Moved(p, i, q).dead = p.dead
        /\ Moved(p, i, q).stat = IF Bonus[i] = 0 THEN p.stat
                                 ELSE Change(p.stat, q * Bonus[i])
    BY <1>1, MovedFacts, Zenon
  <2> QED
    BY <2>1, <2>2, Zenon DEF Keeps

LEMMA GainedKeeps ==
  ASSUME NEW p, Good(p), NEW i \in Items, NEW q \in Int
  PROVE  Keeps(Gained(p, i, q), p)
<1>1. p.content[i] \in Nat /\ Keeps(p, p)
  BY DEF Good, Characters, Keeps
<1>2. CASE q > 0
  <2>1. p.content[i] + q \in Nat
    BY <1>1, <1>2
  <2> QED
    BY <1>1, <1>2, <2>1, MovedKeeps DEF Gained, Added
<1>3. CASE ~ (q > 0)
  <2>1. CASE p.content[i] >= -q
    <3>1. - (-q) = q /\ p.content[i] + q \in Nat
      BY <1>1, <2>1
    <3> QED
      BY <1>3, <2>1, <3>1, MovedKeeps DEF Gained, Consumed
  <2>2. CASE ~ (p.content[i] >= -q)
    BY <1>1, <1>3, <2>2 DEF Gained, Consumed
  <2> QED
    BY <2>1, <2>2
<1> QED
  BY <1>2, <1>3

\* A part of an effect keeps a character good.
LEMMA PartKeeps ==
  ASSUME NEW p, Good(p), NEW items \in [Items -> Int],
         NEW order \in Orders, NEW losses \in BOOLEAN
  PROVE  /\ Good(Part(p, items, order, losses))
         /\ Keeps(Part(p, items, order, losses), p)
<1>1. PICK n \in Nat : n = Cardinality(Items)
  BY OrderFacts
<1>2. order \in [1 .. n -> Items]
  BY <1>1, OrderFacts
<1>3. PICK t : PartTraced(t, p, items, order, losses)
  BY PartTrace
<1>4. /\ t \in [0 .. n -> GoodCharacters] /\ t[0] = p
      /\ t[n] = Part(p, items, order, losses)
      /\ \A k \in 1 .. n : t[k] = PartStep(t[k - 1], items, order, losses, k)
  BY <1>1, <1>3 DEF PartTraced
<1> DEFINE K == { k \in 0 .. n : Keeps(t[k], p) }
<1>5. 0 \in K
  BY <1>4 DEF Keeps
<1>6. ASSUME NEW k \in 0 .. n - 1, k \in K
      PROVE  k + 1 \in K
  <2>1. k + 1 \in 1 .. n /\ k + 1 \in 0 .. n /\ k \in 0 .. n /\ k + 1 - 1 = k
    OBVIOUS
  <2>2. t[k + 1] = PartStep(t[k], items, order, losses, k + 1)
    BY <1>4, <2>1
  <2>3. /\ Good(t[k]) /\ Keeps(t[k], p)
        /\ order[k + 1] \in Items /\ items[order[k + 1]] \in Int
    BY <1>2, <1>4, <1>6, <2>1 DEF GoodCharacters
  <2>4. Keeps(t[k + 1], t[k]) \/ t[k + 1] = t[k]
    BY <2>2, <2>3, GainedKeeps DEF PartStep
  <2>5. Keeps(t[k + 1], p)
    BY <2>3, <2>4 DEF Keeps
  <2> QED
    BY <2>1, <2>5
<1>7. n \in K
  <2> HIDE DEF K
  <2>1. n \in 0 .. n
    OBVIOUS
  <2> QED
    BY <1>5, <1>6, <2>1, UpTo, Zenon
<1>8. n \in 0 .. n
  OBVIOUS
<1> QED
  BY <1>4, <1>7, <1>8 DEF GoodCharacters

LEMMA FillGood ==
  ASSUME NEW p, Good(p), NEW content \in [Items -> Nat], NEW order \in Orders
  PROVE  Good(Fill(p, content, order))
<1>1. PICK n \in Nat : n = Cardinality(Items)
  BY OrderFacts
<1>2. PICK t : FillTraced(t, p, content, order)
  BY FillTrace
<1>3. n \in 0 .. n
  OBVIOUS
<1> QED
  BY <1>1, <1>2, <1>3 DEF FillTraced, GoodCharacters

-----------------------------------------------------------------------------
(* The content of the inventory along a fold that makes all of its changes. *)

\* The first k items of the order have the content e, the others that of p.
Reached(c, p, e, order, k) ==
  \A x \in Items : c.content[x] = IF \E j \in 1 .. k : order[j] = x
                                  THEN e[x] ELSE p.content[x]

\* One more item of the order gets the content it should have.
LEMMA ReachedNext ==
  ASSUME NEW order \in Orders, NEW k \in 0 .. Cardinality(Items) - 1,
         NEW p, NEW e, NEW c, Reached(c, p, e, order, k)
  PROVE  /\ c.content[order[k + 1]] = p.content[order[k + 1]]
         /\ \A d : (/\ d.content[order[k + 1]] = e[order[k + 1]]
                    /\ \A y \in Items : y # order[k + 1] =>
                         d.content[y] = c.content[y])
                   => Reached(d, p, e, order, k + 1)
<1>1. PICK n \in Nat : n = Cardinality(Items)
  BY OrderFacts
<1>2. /\ order \in [1 .. n -> Items]
      /\ \A j, l \in 1 .. n : order[j] = order[l] => j = l
  BY <1>1, OrderFacts
<1>3. /\ k \in 0 .. n - 1 /\ k \in Nat /\ k + 1 \in 1 .. n
      /\ k + 1 \in 1 .. k + 1
      /\ \A j \in 1 .. k : j \in 1 .. n /\ j # k + 1 /\ j \in 1 .. k + 1
      /\ \A j \in 1 .. k + 1 : j \in 1 .. k \/ j = k + 1
  BY <1>1
<1>4. order[k + 1] \in Items /\ ~ \E j \in 1 .. k : order[j] = order[k + 1]
  BY <1>2, <1>3, Zenon
<1>5. c.content[order[k + 1]] = p.content[order[k + 1]]
  BY <1>4, Zenon DEF Reached
<1>6. ASSUME NEW d, d.content[order[k + 1]] = e[order[k + 1]],
             \A y \in Items : y # order[k + 1] =>
               d.content[y] = c.content[y]
      PROVE  Reached(d, p, e, order, k + 1)
  <2> SUFFICES ASSUME NEW y \in Items
               PROVE  d.content[y] = IF \E j \in 1 .. k + 1 : order[j] = y
                                     THEN e[y] ELSE p.content[y]
    BY Zenon DEF Reached
  <2>1. CASE y = order[k + 1]
    BY <1>3, <1>6, <2>1, Zenon
  <2>2. CASE y # order[k + 1]
    <3>1. (\E j \in 1 .. k + 1 : order[j] = y)
            <=> (\E j \in 1 .. k : order[j] = y)
      BY <1>3, <2>2, Zenon
    <3>2. d.content[y] = c.content[y]
      BY <1>6, <2>2, Zenon
    <3>3. c.content[y] = IF \E j \in 1 .. k : order[j] = y
                         THEN e[y] ELSE p.content[y]
      BY Zenon DEF Reached
    <3> QED
      BY <3>1, <3>2, <3>3, Zenon
  <2> QED
    BY <2>1, <2>2
<1> QED
  BY <1>5, <1>6, Zenon

\* After the last item of the order, every item has this content.
LEMMA ReachedEnds ==
  ASSUME NEW order \in Orders, NEW p, NEW e \in [Items -> Nat],
         NEW c \in Characters,
         Reached(c, p, e, order, Cardinality(Items))
  PROVE  c.content = e
<1>1. \A x \in Items : c.content[x] = e[x]
  BY OrderFacts, Zenon DEF Reached
<1>2. c.content \in [Items -> Nat]
  BY DEF Characters
<1> QED
  BY <1>1, <1>2

\* What the inventory holds when a part of the changes has been made.
LEMMA MovedWithin ==
  ASSUME NEW c \in Characters, NEW i \in Items, NEW q \in Int,
         NEW e \in [Items -> Nat], c.content[i] + q = e[i],
         \A y \in Items : c.content[y] <= e[y],
         c.capacity # Unlimited => SumOver(e) <= c.capacity
  PROVE  Fits(c, q)
<1>1. c.content[i] + q \in Nat
  OBVIOUS
<1> DEFINE d == Moved(c, i, q)
<1>2. /\ d \in Characters /\ d.content = [c.content EXCEPT ![i] = @ + q]
      /\ Size(d) = Size(c) + q
  BY <1>1, MovedFacts
<1> HIDE DEF d
<1>3. c.content \in [Items -> Nat] /\ d.content \in [Items -> Int]
      /\ e \in [Items -> Int]
  BY <1>2 DEF Characters
<1>4. \A y \in Items : d.content[y] <= e[y]
  BY <1>2, <1>3
<1>5. SumOver(d.content) <= SumOver(e)
  BY <1>3, <1>4, SumAtMost, Zenon
<1>6. SumOver(d.content) \in Int /\ SumOver(e) \in Int
  BY <1>3, SumIsInt, Zenon
<1>7. ASSUME c.capacity # Unlimited
      PROVE  Size(c) + q <= c.capacity
  <2>1. c.capacity \in Nat
    BY <1>7 DEF Characters, Capacities
  <2>2. Size(c) + q = SumOver(d.content) /\ SumOver(e) <= c.capacity
    BY <1>2, <1>7 DEF Size
  <2> QED
    BY <1>5, <1>6, <2>1, <2>2
<1> QED
  BY <1>7 DEF Fits

\* The content once the changes of a part are made.
Made(e, p, items, losses) ==
  \A x \in Items : e[x] = IF (items[x] < 0) = losses
                          THEN p.content[x] + items[x] ELSE p.content[x]

\* A part of an effect the inventory can bear is made whole, in any order.
LEMMA PartDoes ==
  ASSUME NEW p, Good(p), NEW items \in [Items -> Int],
         NEW order \in Orders, NEW losses \in BOOLEAN,
         NEW e \in [Items -> Nat], Made(e, p, items, losses),
         p.capacity # Unlimited => SumOver(e) <= p.capacity
  PROVE  Part(p, items, order, losses).content = e
<1>1. PICK n \in Nat : n = Cardinality(Items)
  BY OrderFacts
<1>2. order \in [1 .. n -> Items]
  BY <1>1, OrderFacts
<1>3. PICK t : PartTraced(t, p, items, order, losses)
  BY PartTrace
<1>4. /\ t \in [0 .. n -> GoodCharacters] /\ t[0] = p
      /\ t[n] = Part(p, items, order, losses)
      /\ \A k \in 1 .. n : t[k] = PartStep(t[k - 1], items, order, losses, k)
  BY <1>1, <1>3 DEF PartTraced
<1> USE DEF Made
<1> DEFINE K == { k \in 0 .. n :
                    Keeps(t[k], p) /\ Reached(t[k], p, e, order, k) }
<1>5. 0 \in K
  BY <1>4 DEF Keeps, Reached
<1>6. ASSUME NEW k \in 0 .. n - 1, k \in K
      PROVE  k + 1 \in K
  <2>1. k + 1 \in 1 .. n /\ k + 1 \in 0 .. n /\ k \in 0 .. n /\ k + 1 - 1 = k
    OBVIOUS
  <2>2. PICK c : c = t[k]
    OBVIOUS
  <2>3. PICK x \in Items : x = order[k + 1]
    BY <1>2, <2>1
  <2>4. PICK q \in Int : q = items[x]
    OBVIOUS
  <2>5. t[k + 1] = IF (q < 0) = losses THEN Gained(c, x, q) ELSE c
    BY <1>4, <2>1, <2>2, <2>3, <2>4 DEF PartStep
  <2>6. /\ Good(c) /\ c \in Characters /\ Keeps(c, p)
        /\ Reached(c, p, e, order, k)
    BY <1>4, <1>6, <2>1, <2>2 DEF GoodCharacters
  <2>7. /\ c.content[x] = p.content[x]
        /\ \A d : (/\ d.content[x] = e[x]
                   /\ \A y \in Items : y # x => d.content[y] = c.content[y])
                  => Reached(d, p, e, order, k + 1)
    <3>1. k \in 0 .. Cardinality(Items) - 1
      BY <1>1
    <3>2. /\ c.content[order[k + 1]] = p.content[order[k + 1]]
          /\ \A d : (/\ d.content[order[k + 1]] = e[order[k + 1]]
                     /\ \A y \in Items : y # order[k + 1] =>
                          d.content[y] = c.content[y])
                    => Reached(d, p, e, order, k + 1)
      BY <2>6, <3>1, ReachedNext
    <3> QED
      BY <2>3, <3>2
  <2>8. /\ p.content \in [Items -> Nat] /\ c.content \in [Items -> Nat]
    BY <2>6 DEF Good, Characters
  <2>9. CASE (q < 0) = losses
    <3>1. e[x] = c.content[x] + q /\ c.content[x] + q \in Nat
      BY <2>4, <2>7, <2>9
    <3>2. PICK d : d = Moved(c, x, q)
      OBVIOUS
    <3>3. Gained(c, x, q) = d
      <4>1. CASE q > 0
        <5>1. ASSUME NEW y \in Items
              PROVE  c.content[y] <= e[y]
          <6>1. c.content[y] = e[y] \/ c.content[y] = p.content[y]
            BY <2>6 DEF Reached
          <6>2. p.content[y] <= e[y]
            <7>1. losses = FALSE
              BY <2>9, <4>1
            <7>2. CASE items[y] < 0
              BY <2>8, <7>1, <7>2
            <7>3. CASE ~ (items[y] < 0)
              <8>1. e[y] = p.content[y] + items[y]
                BY <7>1, <7>3
              <8> QED
                BY <2>8, <7>3, <8>1
            <7> QED
              BY <7>2, <7>3
          <6> QED
            BY <6>1, <6>2
        <5>2. c.capacity # Unlimited => SumOver(e) <= c.capacity
          BY <2>6 DEF Keeps
        <5>3. Fits(c, q)
          BY <2>6, <3>1, <5>1, <5>2, MovedWithin
        <5> QED
          BY <3>2, <4>1, <5>3 DEF Gained, Added
      <4>2. CASE ~ (q > 0)
        <5>1. c.content[x] >= -q /\ - (-q) = q
          BY <2>8, <3>1
        <5> QED
          BY <3>2, <4>2, <5>1 DEF Gained, Consumed
      <4> QED
        BY <4>1, <4>2
    <3>4. d.content = [c.content EXCEPT ![x] = @ + q]
      BY <2>6, <3>1, <3>2, MovedFacts
    <3>5. /\ d.content[x] = e[x]
          /\ \A y \in Items : y # x => d.content[y] = c.content[y]
      BY <2>8, <3>1, <3>4
    <3>6. Keeps(d, c)
      BY <2>6, <3>1, <3>2, MovedKeeps, Zenon
    <3>7. t[k + 1] = d
      BY <2>5, <2>9, <3>3
    <3>8. Keeps(t[k + 1], p) /\ Reached(t[k + 1], p, e, order, k + 1)
      <4>1. Keeps(d, p)
        BY <2>6, <3>6 DEF Keeps
      <4>2. Reached(d, p, e, order, k + 1)
        BY <2>7, <3>5, Zenon
      <4> QED
        BY <3>7, <4>1, <4>2, Zenon
    <3> QED
      BY <2>1, <3>8
  <2>10. CASE ~ ((q < 0) = losses)
    <3>1. t[k + 1] = c /\ c.content[x] = e[x]
      BY <2>4, <2>5, <2>7, <2>10
    <3>2. Keeps(t[k + 1], p) /\ Reached(t[k + 1], p, e, order, k + 1)
      BY <2>6, <2>7, <3>1
    <3> QED
      BY <2>1, <3>2
  <2> QED
    BY <2>9, <2>10
<1>7. n \in K
  <2> HIDE DEF K
  <2>1. n \in 0 .. n
    OBVIOUS
  <2> QED
    BY <1>5, <1>6, <2>1, UpTo, Zenon
<1>8. t[n] \in Characters
  BY <1>4 DEF GoodCharacters
<1> QED
  BY <1>1, <1>4, <1>7, <1>8, ReachedEnds

\* An inventory that can hold a content is filled with it, in any order.
LEMMA FillDoes ==
  ASSUME NEW p, Good(p), \A x \in Items : p.content[x] = 0,
         NEW content \in [Items -> Nat], NEW order \in Orders,
         p.capacity # Unlimited => SumOver(content) <= p.capacity
  PROVE  /\ Fill(p, content, order).content = content
         /\ Keeps(Fill(p, content, order), p)
         /\ BonusesAgree(content) =>
               Fill(p, content, order).stat = Change(p.stat, Regained(content))
<1>1. PICK n \in Nat : n = Cardinality(Items)
  BY OrderFacts
<1>2. order \in [1 .. n -> Items]
  BY <1>1, OrderFacts
<1>3. PICK t : FillTraced(t, p, content, order)
  BY FillTrace
<1>4. /\ t \in [0 .. n -> GoodCharacters] /\ t[0] = p
      /\ t[n] = Fill(p, content, order)
      /\ \A k \in 1 .. n :
           t[k] = Added(t[k - 1], order[k], content[order[k]])
  BY <1>1, <1>3 DEF FillTraced
<1> DEFINE Helped(c) ==
             BonusesAgree(content) =>
               c.stat = Change(p.stat, Regained(c.content))
           Filled(c, k) == /\ Keeps(c, p) /\ Reached(c, p, content, order, k)
                           /\ Helped(c)
           K == { k \in 0 .. n : Filled(t[k], k) }
<1>5. 0 \in K
  <2>1. p.content = [x \in Items |-> 0]
    BY DEF Good, Characters
  <2>2. Regained(p.content) = 0
    <3>1. \A x \in Items : 0 * Bonus[x] = 0
      BY ItemsAssumption
    <3>2. [x \in Items |-> p.content[x] * Bonus[x]] = [x \in Items |-> 0]
      BY <2>1, <3>1
    <3> QED
      BY <3>2, SumOfNone DEF Regained
  <2>3. Change(p.stat, 0) = p.stat
    BY ChangeByNothing DEF Good, Characters
  <2>4. Helped(p)
    BY <2>2, <2>3, Zenon
  <2> HIDE DEF Helped
  <2> QED
    BY <1>4, <2>4 DEF Keeps, Reached
<1>6. ASSUME NEW k \in 0 .. n - 1, k \in K
      PROVE  k + 1 \in K
  <2>1. k + 1 \in 1 .. n /\ k + 1 \in 0 .. n /\ k \in 0 .. n /\ k + 1 - 1 = k
    OBVIOUS
  <2>2. PICK c : c = t[k]
    OBVIOUS
  <2>3. PICK x \in Items : x = order[k + 1]
    BY <1>2, <2>1
  <2>4. PICK q \in Nat : q = content[x]
    OBVIOUS
  <2>5. t[k + 1] = Added(c, x, q)
    BY <1>4, <2>1, <2>2, <2>3, <2>4
  <2>6. /\ Good(c) /\ c \in Characters /\ Keeps(c, p)
        /\ Reached(c, p, content, order, k) /\ Helped(c)
    BY <1>4, <1>6, <2>1, <2>2 DEF GoodCharacters
  <2>7. /\ c.content[x] = p.content[x]
        /\ \A d : (/\ d.content[x] = content[x]
                   /\ \A y \in Items : y # x => d.content[y] = c.content[y])
                  => Reached(d, p, content, order, k + 1)
    <3>1. k \in 0 .. Cardinality(Items) - 1
      BY <1>1
    <3>2. /\ c.content[order[k + 1]] = p.content[order[k + 1]]
          /\ \A d : (/\ d.content[order[k + 1]] = content[order[k + 1]]
                     /\ \A y \in Items : y # order[k + 1] =>
                          d.content[y] = c.content[y])
                    => Reached(d, p, content, order, k + 1)
      BY <2>6, <3>1, ReachedNext
    <3> QED
      BY <2>3, <3>2
  <2>8. c.content \in [Items -> Nat] /\ c.stat \in Stats
    BY <2>6 DEF Characters
  <2>9. content[x] = c.content[x] + q /\ c.content[x] + q \in Nat
    BY <2>4, <2>7
  <2>10. PICK d : d = Moved(c, x, q)
    OBVIOUS
  <2>11. t[k + 1] = d
    <3>1. ASSUME NEW y \in Items
          PROVE  c.content[y] <= content[y]
      <4>1. c.content[y] = content[y] \/ c.content[y] = 0
        BY <2>6 DEF Reached
      <4> QED
        BY <4>1
    <3>2. c.capacity # Unlimited => SumOver(content) <= c.capacity
      BY <2>6 DEF Keeps
    <3>3. Fits(c, q)
      BY <2>6, <2>9, <3>1, <3>2, MovedWithin
    <3> QED
      BY <2>5, <2>10, <3>3 DEF Added
  <2>12. d.content = [c.content EXCEPT ![x] = @ + q]
    BY <2>6, <2>9, <2>10, MovedFacts
  <2>13. /\ d.content[x] = content[x]
         /\ \A y \in Items : y # x => d.content[y] = c.content[y]
    BY <2>8, <2>9, <2>12
  <2>14. Keeps(d, p)
    <3>1. Keeps(d, c)
      BY <2>6, <2>9, <2>10, MovedKeeps
    <3> QED
      BY <2>6, <3>1 DEF Keeps
  <2>15. Reached(d, p, content, order, k + 1)
    BY <2>7, <2>13, Zenon
  <2>16. Helped(d)
    <3> SUFFICES ASSUME BonusesAgree(content)
                 PROVE  d.stat = Change(p.stat, Regained(d.content))
      OBVIOUS
    <3> HIDE DEF K, Filled
    <3>1. PICK b \in Int : b = q * Bonus[x]
      BY ItemsAssumption, ProductSign
    <3>2. PICK gained \in Int : gained = Regained(c.content)
      BY <2>8, RegainedSign
    <3>3. c.stat = Change(p.stat, gained)
      BY <2>6, <3>2
    <3>4. d.stat = Change(c.stat, b)
      <4>1. d.stat = IF Bonus[x] = 0 THEN c.stat ELSE Change(c.stat, b)
        <5>1. c \in Characters /\ q \in Int /\ c.content[x] + q \in Nat
          BY <2>6, <2>9
        <5>2. Moved(c, x, q).stat = IF Bonus[x] = 0 THEN c.stat
                                    ELSE Change(c.stat, q * Bonus[x])
          BY <5>1, MovedFacts, Zenon
        <5>3. d.stat = IF Bonus[x] = 0 THEN c.stat
                       ELSE Change(c.stat, q * Bonus[x])
          BY <2>10, <5>2, Zenon
        <5> QED
          BY <3>1, <5>3, Zenon
      <4>2. Bonus[x] = 0 => b = 0
        BY <3>1
      <4>3. Change(c.stat, 0) = c.stat
        BY <2>6, <2>8, ChangeByNothing DEF Good
      <4> QED
        BY <4>1, <4>2, <4>3
    <3>5. Regained(d.content) = gained + b
      <4>1. c.content[x] = 0
        BY <2>7
      <4> QED
        BY <2>8, <2>12, <3>1, <3>2, <4>1, RegainedNext
    <3>6. (gained >= 0 /\ b >= 0) \/ (gained <= 0 /\ b <= 0)
      <4>1. \A y \in Items : c.content[y] # 0 => content[y] # 0
        <5>1. \A y \in Items :
                c.content[y] = content[y] \/ c.content[y] = p.content[y]
          BY <2>6 DEF Reached
        <5> QED
          BY <5>1
      <4>2. Bonus[x] \in Int /\ (q = 0 => b = 0)
        BY <3>1, ItemsAssumption
      <4>3. CASE \A y \in Items : content[y] # 0 => Bonus[y] >= 0
        <5>1. \A y \in Items : c.content[y] # 0 => Bonus[y] >= 0
          BY <4>1, <4>3
        <5>2. gained >= 0
          BY <2>8, <3>2, <5>1, RegainedSign, Zenon
        <5>3. q # 0 => Bonus[x] >= 0
          BY <2>4, <4>3
        <5>4. b >= 0
          BY <3>1, <4>2, <5>3, ProductSign
        <5> QED
          BY <5>2, <5>4
      <4>4. CASE \A y \in Items : content[y] # 0 => Bonus[y] <= 0
        <5>1. \A y \in Items : c.content[y] # 0 => Bonus[y] <= 0
          BY <4>1, <4>4
        <5>2. gained <= 0
          BY <2>8, <3>2, <5>1, RegainedSign, Zenon
        <5>3. q # 0 => Bonus[x] <= 0
          BY <2>4, <4>4
        <5>4. b <= 0
          BY <3>1, <4>2, <5>3, ProductSign
        <5> QED
          BY <5>2, <5>4
      <4> QED
        BY <4>3, <4>4 DEF BonusesAgree
    <3>7. p.stat \in Stats /\ WithinLimits(p.stat)
      BY DEF Good, Characters
    <3>8. Change(Change(p.stat, gained), b) = Change(p.stat, gained + b)
      BY <3>6, <3>7, ChangeTwice
    <3> QED
      BY <3>3, <3>4, <3>5, <3>8
  <2>17. Filled(t[k + 1], k + 1)
    <3> HIDE DEF Helped
    <3> QED
      BY <2>6, <2>11, <2>14, <2>15, <2>16, Zenon
  <2> HIDE DEF Filled
  <2> QED
    BY <2>1, <2>17
<1>7. n \in K
  <2> HIDE DEF K
  <2>1. n \in 0 .. n
    OBVIOUS
  <2> QED
    BY <1>5, <1>6, <2>1, UpTo, Zenon
<1>8. Filled(t[n], n)
  BY <1>7
<1>9. t[n] \in Characters
  BY <1>4 DEF GoodCharacters
<1>10. t[n].content = content
  BY <1>1, <1>8, <1>9, ReachedEnds
<1> QED
  BY <1>4, <1>8, <1>10

-----------------------------------------------------------------------------
(* Effects.                                                                 *)

\* A statistic within its limits replaces that of a character.
LEMMA WithStat ==
  ASSUME NEW p, Good(p), NEW stat \in Stats, WithinLimits(stat)
  PROVE  /\ Good([p EXCEPT !.stat = stat])
         /\ [p EXCEPT !.stat = stat].content = p.content
         /\ [p EXCEPT !.stat = stat].capacity = p.capacity
         /\ [p EXCEPT !.stat = stat].dead = p.dead
         /\ [p EXCEPT !.stat = stat].stat = stat
<1>1. /\ p = [ stat |-> p.stat, content |-> p.content,
               capacity |-> p.capacity, dead |-> p.dead ]
      /\ p.content \in [Items -> Nat] /\ p.capacity \in Capacities
      /\ p.dead \in BOOLEAN
  BY DEF Good, Characters
<1>2. [p EXCEPT !.stat = stat] =
        [ stat |-> stat, content |-> p.content,
          capacity |-> p.capacity, dead |-> p.dead ]
  BY <1>1
<1>3. [p EXCEPT !.stat = stat] \in Characters
  BY <1>1, <1>2 DEF Characters
<1>4. /\ [p EXCEPT !.stat = stat].content = p.content
      /\ [p EXCEPT !.stat = stat].capacity = p.capacity
      /\ [p EXCEPT !.stat = stat].dead = p.dead
      /\ [p EXCEPT !.stat = stat].stat = stat
  BY <1>2
<1>5. Good([p EXCEPT !.stat = stat])
  BY <1>3, <1>4 DEF Good, Holds, Size
<1> QED
  BY <1>4, <1>5

\* An effect keeps a character good.
LEMMA AppliedGood ==
  ASSUME NEW p, Good(p), NEW points \in Int, NEW items \in [Items -> Int],
         NEW order \in Orders
  PROVE  /\ Good(Applied(p, points, items, order))
         /\ Applied(p, points, items, order).capacity = p.capacity
<1>1. PICK changed : changed = [p EXCEPT !.stat = Change(p.stat, points)]
  OBVIOUS
<1>2. PICK lost : lost = Part(changed, items, order, TRUE)
  OBVIOUS
<1>3. Applied(p, points, items, order) = Part(lost, items, order, FALSE)
  BY <1>1, <1>2 DEF Applied
<1>4. p.stat \in Stats /\ WithinLimits(p.stat)
  BY DEF Good, Characters
<1>5. Change(p.stat, points) \in Stats /\ WithinLimits(Change(p.stat, points))
  BY <1>4, ChangeWithinLimits
<1>6. Good(changed) /\ changed.capacity = p.capacity
  BY <1>1, <1>5, WithStat
<1>7. Good(lost) /\ lost.capacity = changed.capacity
  BY <1>2, <1>6, PartKeeps DEF Keeps
<1>8. \A b \in BOOLEAN : /\ Good(Part(lost, items, order, b))
                          /\ Keeps(Part(lost, items, order, b), lost)
  BY <1>7, PartKeeps, Zenon
<1>9. Good(Part(lost, items, order, FALSE))
        /\ Keeps(Part(lost, items, order, FALSE), lost)
  BY <1>8, Zenon
<1> QED
  BY <1>3, <1>6, <1>7, <1>9, Zenon DEF Keeps

\* An effect that the simulation accepts is made whole ...
LEMMA OkIsApplied ==
  ASSUME NEW p, Good(p), NEW items \in [Items -> Int], NEW order \in Orders,
         Simulated(p, items) = "Ok", NEW i \in Items
  PROVE  Applied(p, 0, items, order).content[i] = p.content[i] + items[i]
<1>1. PICK changed : changed = [p EXCEPT !.stat = Change(p.stat, 0)]
  OBVIOUS
<1>2. PICK lost : lost = Part(changed, items, order, TRUE)
  OBVIOUS
<1>3. Applied(p, 0, items, order) = Part(lost, items, order, FALSE)
  BY <1>1, <1>2 DEF Applied
<1>4. /\ p.stat \in Stats /\ WithinLimits(p.stat)
      /\ p.content \in [Items -> Nat] /\ p.capacity \in Capacities
      /\ p \in Characters
  BY DEF Good, Characters
<1>5. Change(p.stat, 0) \in Stats /\ WithinLimits(Change(p.stat, 0))
  BY <1>4, ChangeWithinLimits
<1>6. /\ Good(changed) /\ changed.content = p.content
      /\ changed.capacity = p.capacity
  BY <1>1, <1>5, WithStat
<1>7. /\ \A x \in Items : p.content[x] >= -items[x]
      /\ p.capacity # Unlimited => Size(p) + SumOver(items) <= p.capacity
  <2>1. /\ ~ \E x \in Items : p.content[x] < -items[x]
        /\ ~ (/\ p.capacity # Unlimited
              /\ Size(p) + SumOver(items) > p.capacity)
    BY DEF Simulated
  <2>2. /\ Size(p) \in Int /\ SumOver(items) \in Int
        /\ Size(p) + SumOver(items) \in Int
    BY <1>4, SizeTyped, SumIsInt
  <2>3. ASSUME NEW x \in Items
        PROVE  p.content[x] >= -items[x]
    BY <1>4, <2>1
  <2>4. p.capacity # Unlimited => p.capacity \in Int
    BY <1>4 DEF Capacities
  <2> QED
    BY <2>1, <2>2, <2>3, <2>4
<1> DEFINE e == [ x \in Items |-> IF items[x] < 0 THEN p.content[x] + items[x]
                                  ELSE p.content[x] ]
           f == [x \in Items |-> p.content[x] + items[x]]
<1>8. ASSUME NEW x \in Items
      PROVE  /\ p.content[x] + items[x] \in Nat
             /\ p.content[x] \in Nat /\ items[x] \in Int
  BY <1>4, <1>7
<1>9. e \in [Items -> Nat] /\ f \in [Items -> Nat]
  BY <1>8
<1>10. /\ \A x \in Items : e[x] <= p.content[x]
       /\ \A x \in Items : e[x] = IF (items[x] < 0) = TRUE
                                  THEN changed.content[x] + items[x]
                                  ELSE changed.content[x]
       /\ \A x \in Items : f[x] = IF (items[x] < 0) = FALSE
                                  THEN e[x] + items[x] ELSE e[x]
       /\ \A x \in Items : f[x] = p.content[x] + items[x]
  BY <1>6, <1>8
<1> HIDE DEF e, f
<1>11. e \in [Items -> Int] /\ f \in [Items -> Int]
         /\ p.content \in [Items -> Int]
  BY <1>4, <1>9
<1>12. p.capacity # Unlimited => SumOver(e) <= p.capacity
  <2>1. SumOver(e) <= SumOver(p.content)
    BY <1>10, <1>11, SumAtMost, Zenon
  <2>2. SumOver(e) \in Int /\ SumOver(p.content) \in Int
    BY <1>11, SumIsInt, Zenon
  <2> QED
    BY <1>4, <2>1, <2>2 DEF Good, Holds, Size, Capacities
<1>13. lost.content = e
  <2>1. changed.capacity # Unlimited => SumOver(e) <= changed.capacity
    BY <1>6, <1>12, Zenon
  <2>2. Made(e, changed, items, TRUE)
    BY <1>10 DEF Made
  <2>3. TRUE \in BOOLEAN
    OBVIOUS
  <2> QED
    BY <1>2, <1>6, <1>9, <2>1, <2>2, <2>3, PartDoes, Zenon
<1>14. Good(lost) /\ lost.capacity = p.capacity
  BY <1>2, <1>6, PartKeeps DEF Keeps
<1>15. p.capacity # Unlimited => SumOver(f) <= p.capacity
  <2>1. SumOver(f) = SumOver(p.content) + SumOver(items)
    BY <1>10, <1>11, SumOfChanges, Zenon
  <2> QED
    BY <1>7, <2>1, Zenon DEF Size
<1>16. Part(lost, items, order, FALSE).content = f
  <2>1. lost.capacity # Unlimited => SumOver(f) <= lost.capacity
    BY <1>14, <1>15, Zenon
  <2>2. Made(f, lost, items, FALSE)
    BY <1>10, <1>13, Zenon DEF Made
  <2>3. FALSE \in BOOLEAN
    OBVIOUS
  <2> QED
    BY <1>9, <1>14, <2>1, <2>2, <2>3, PartDoes, Zenon
<1> QED
  BY <1>3, <1>10, <1>16, Zenon

\* ... and one that is made whole is one that the simulation accepts.
LEMMA AppliedIsOk ==
  ASSUME NEW p, Good(p), NEW items \in [Items -> Int], NEW order \in Orders,
         \A i \in Items :
           Applied(p, 0, items, order).content[i] = p.content[i] + items[i]
  PROVE  Simulated(p, items) = "Ok"
<1>1. PICK r : r = Applied(p, 0, items, order)
  OBVIOUS
<1>2. Good(r) /\ r.capacity = p.capacity
  <2>1. 0 \in Int
    OBVIOUS
  <2>2. /\ Good(Applied(p, 0, items, order))
        /\ Applied(p, 0, items, order).capacity = p.capacity
    BY <2>1, AppliedGood, Zenon
  <2> QED
    BY <1>1, <2>2, Zenon
<1>3. /\ r.content \in [Items -> Nat] /\ p.content \in [Items -> Nat]
      /\ r.capacity \in Capacities
  BY <1>2 DEF Good, Characters
<1>4. \A i \in Items : r.content[i] = p.content[i] + items[i]
  BY <1>1, Zenon
<1>5. ~ \E i \in Items : p.content[i] < -items[i]
  <2> SUFFICES ASSUME NEW i \in Items
               PROVE  ~ (p.content[i] < -items[i])
    OBVIOUS
  <2>1. r.content[i] \in Nat /\ p.content[i] \in Nat /\ items[i] \in Int
    BY <1>3
  <2> QED
    BY <1>4, <2>1
<1>6. SumOver(r.content) = SumOver(p.content) + SumOver(items)
  <2>1. r.content \in [Items -> Int] /\ p.content \in [Items -> Int]
    BY <1>3
  <2> QED
    BY <1>4, <2>1, SumOfChanges, Zenon
<1>7. ~ (/\ p.capacity # Unlimited
         /\ Size(p) + SumOver(items) > p.capacity)
  <2>1. r.capacity # Unlimited => SumOver(r.content) <= r.capacity
    BY <1>2 DEF Good, Holds, Size
  <2>2. r.capacity # Unlimited => r.capacity \in Nat
    BY <1>3 DEF Capacities
  <2>3. SumOver(r.content) \in Int
    BY <1>3, SumIsInt
  <2> QED
    BY <1>2, <1>6, <2>1, <2>2, <2>3 DEF Size
<1> QED
  BY <1>5, <1>7, Zenon DEF Simulated

-----------------------------------------------------------------------------
(* The character of a session that begins.                                  *)

LEMMA NewPlayerFacts ==
  /\ Good(NewPlayer) /\ \A x \in Items : NewPlayer.content[x] = 0
  /\ NewPlayer.stat \in Stats
  /\ Size(NewPlayer) = 0
<1>1. /\ NewPlayer \in Characters /\ NewPlayer.stat \in Stats
      /\ NewPlayer.content = [x \in Items |-> 0]
      /\ NewPlayer.capacity = Unlimited
  BY DEF NewPlayer, Characters, Stats, Capacities
<1>2. Size(NewPlayer) = 0
  BY <1>1, SumOfNone, Zenon DEF Size
<1>3. WithinLimits(NewPlayer.stat)
  BY DEF NewPlayer, WithinLimits, ValidLimits
<1>4. Holds(NewPlayer)
  BY <1>1, Zenon DEF Holds
<1>5. \A x \in Items : NewPlayer.content[x] = 0
  BY <1>1
<1> QED
  BY <1>1, <1>2, <1>3, <1>4, <1>5, Zenon DEF Good

LEMMA SetLimitsFacts ==
  ASSUME NEW stat \in Stats, NEW min \in Int, NEW max \in Int,
         ValidLimits(min, max)
  PROVE  /\ SetLimits(stat, min, max) \in Stats
         /\ WithinLimits(SetLimits(stat, min, max))
         /\ SetLimits(stat, min, max).min = min
         /\ SetLimits(stat, min, max).max = max
<1>1. PICK limited : limited = [stat EXCEPT !.min = min, !.max = max]
  OBVIOUS
<1>2. /\ limited \in Stats /\ limited.min = min /\ limited.max = max
      /\ limited.value \in Int
  BY <1>1 DEF Stats
<1>3. SetLimits(stat, min, max) = Set(limited, limited.value)
  <2>1. [limited EXCEPT !.value = limited.value] = limited
    BY <1>2 DEF Stats
  <2> QED
    BY <1>1, <2>1, Zenon DEF SetLimits, Set
<1> QED
  BY <1>2, <1>3, SetFacts, SetWithinLimits

LEMMA DescribedFacts ==
  ASSUME player.stat \in Stats,
         NEW min \in Int, NEW max \in Int, NEW value \in Int,
         NEW hidden \in BOOLEAN, ValidLimits(min, max)
  PROVE  /\ Described(min, max, value, hidden) \in Stats
         /\ WithinLimits(Described(min, max, value, hidden))
         /\ Described(min, max, value, hidden).min = min
         /\ Described(min, max, value, hidden).max = max
         /\ Described(min, max, value, hidden).hidden = hidden
         /\ min <= value /\ value <= max =>
              Described(min, max, value, hidden).value = value
<1>1. PICK ready : ready = SetLimits(player.stat, min, max)
  OBVIOUS
<1>2. ready \in Stats /\ ready.min = min /\ ready.max = max
  BY <1>1, SetLimitsFacts
<1>3. PICK set : set = Set(ready, value)
  OBVIOUS
<1>4. /\ set \in Stats /\ set.min = min /\ set.max = max
      /\ set.value = Nearest(ready, value) /\ WithinLimits(set)
  BY <1>2, <1>3, SetFacts, SetWithinLimits
<1>5. Described(min, max, value, hidden) = [set EXCEPT !.hidden = hidden]
  BY <1>1, <1>3, Zenon DEF Described
<1>6. /\ [set EXCEPT !.hidden = hidden] \in Stats
      /\ [set EXCEPT !.hidden = hidden].min = min
      /\ [set EXCEPT !.hidden = hidden].max = max
      /\ [set EXCEPT !.hidden = hidden].value = set.value
      /\ [set EXCEPT !.hidden = hidden].hidden = hidden
  BY <1>4 DEF Stats
<1>7. WithinLimits([set EXCEPT !.hidden = hidden])
  BY <1>4, <1>6, Zenon DEF WithinLimits
<1>8. min <= value /\ value <= max => set.value = value
  BY <1>2, <1>4 DEF Nearest
<1> QED
  BY <1>5, <1>6, <1>7, <1>8, Zenon

LEMMA ResizedFacts ==
  ASSUME NEW p, Good(p), NEW capacity \in Capacities
  PROVE  /\ Good(Resized(p, capacity))
         /\ Resized(p, capacity).content = p.content
         /\ Resized(p, capacity).stat = p.stat
         /\ Resized(p, capacity).dead = p.dead
         /\ capacity = Unlimited \/ capacity >= Size(p) =>
              Resized(p, capacity).capacity = capacity
<1>1. /\ p = [ stat |-> p.stat, content |-> p.content,
               capacity |-> p.capacity, dead |-> p.dead ]
      /\ p.content \in [Items -> Nat] /\ p.stat \in Stats
      /\ p.dead \in BOOLEAN /\ p \in Characters
  BY DEF Good, Characters
<1>2. CASE capacity = Unlimited \/ capacity >= Size(p)
  <2>1. PICK r : r = Resized(p, capacity)
    OBVIOUS
  <2>2. r = [ stat |-> p.stat, content |-> p.content,
              capacity |-> capacity, dead |-> p.dead ]
    BY <1>1, <1>2, <2>1 DEF Resized
  <2>3. r \in Characters
    BY <1>1, <2>2 DEF Characters
  <2>4. /\ r.content = p.content /\ r.stat = p.stat /\ r.dead = p.dead
        /\ r.capacity = capacity
    BY <2>2
  <2>5. capacity # Unlimited => Size(p) <= capacity
    BY <1>1, <1>2, SizeTyped DEF Capacities
  <2>6. Good(r)
    BY <2>3, <2>4, <2>5, Zenon DEF Good, Holds, Size
  <2> QED
    BY <2>1, <2>4, <2>6, Zenon
<1>3. CASE ~ (capacity = Unlimited \/ capacity >= Size(p))
  <2>1. Resized(p, capacity) = p
    BY <1>3, Zenon DEF Resized
  <2> QED
    BY <1>3, <2>1, Zenon
<1> QED
  BY <1>2, <1>3

\* What a character is filled from.
Prepared(capacity, min, max, value, hidden, died) ==
  [ Resized(player, capacity) EXCEPT
      !.stat = Described(min, max, value, hidden), !.dead = died ]

LEMMA ReadyToFill ==
  ASSUME player = NewPlayer, NEW capacity \in Capacities,
         NEW min \in Int, NEW max \in Int, NEW value \in Int,
         NEW hidden \in BOOLEAN, ValidLimits(min, max), NEW died \in BOOLEAN
  PROVE  /\ Good(Prepared(capacity, min, max, value, hidden, died))
         /\ \A x \in Items :
              Prepared(capacity, min, max, value, hidden, died).content[x] = 0
         /\ Prepared(capacity, min, max, value, hidden, died).capacity
              = capacity
         /\ Prepared(capacity, min, max, value, hidden, died).dead = died
         /\ Prepared(capacity, min, max, value, hidden, died).stat
              = Described(min, max, value, hidden)
<1>0. PICK p : p = Prepared(capacity, min, max, value, hidden, died)
  OBVIOUS
<1>1. PICK r : r = Resized(player, capacity)
  OBVIOUS
<1>2. PICK stat : stat = Described(min, max, value, hidden)
  OBVIOUS
<1>3. stat \in Stats /\ WithinLimits(stat)
  BY <1>2, NewPlayerFacts, DescribedFacts
<1>4. Good(r) /\ r.content = NewPlayer.content /\ r.capacity = capacity
  <2>1. capacity = Unlimited \/ capacity >= Size(NewPlayer)
    BY NewPlayerFacts DEF Capacities
  <2> QED
    BY <1>1, <2>1, NewPlayerFacts, ResizedFacts
<1>5. r = [ stat |-> r.stat, content |-> r.content,
            capacity |-> r.capacity, dead |-> r.dead ]
      /\ r.content \in [Items -> Nat] /\ r.capacity \in Capacities
  BY <1>4 DEF Good, Characters
<1>6. p = [ stat |-> stat, content |-> r.content,
            capacity |-> r.capacity, dead |-> died ]
  BY <1>0, <1>1, <1>2, <1>5 DEF Prepared
<1>7. p \in Characters
  BY <1>3, <1>5, <1>6 DEF Characters
<1>8. /\ p.stat = stat /\ p.content = r.content /\ p.capacity = r.capacity
      /\ p.dead = died
  BY <1>6
<1>9. Good(p)
  BY <1>3, <1>4, <1>7, <1>8, Zenon DEF Good, Holds, Size
<1> QED
  BY <1>0, <1>2, <1>4, <1>8, <1>9, NewPlayerFacts, Zenon

\* The character of a new game is good.
LEMMA InitPlayerGood ==
  ASSUME player = NewPlayer, NEW l \in Limits, NEW capped \in BOOLEAN,
         NEW value \in Steps, NEW hidden \in BOOLEAN,
         NEW capacity \in Sizes \cup {Unlimited}, NEW order \in Orders,
         ValidLimits(l.min, Highest(l, value, capped))
  PROVE  Good(InitPlayer(l, capped, value, hidden, capacity, order))
<1>1. /\ capacity \in Capacities /\ l.min \in Int /\ value \in Int
      /\ Highest(l, value, capped) \in Int
  BY BoundsAssumption DEF Capacities, Highest
<1>2. PICK max \in Int : max = Highest(l, value, capped)
  BY <1>1
<1>3. PICK r : r = Resized(player, capacity)
  OBVIOUS
<1>4. /\ r.dead = FALSE /\ r \in Characters
  <2>1. Good(r) /\ r.dead = NewPlayer.dead
    BY <1>1, <1>3, NewPlayerFacts, ResizedFacts
  <2>2. NewPlayer.dead = FALSE
    BY DEF NewPlayer
  <2> QED
    BY <2>1, <2>2, Zenon DEF Good
<1>5. PICK p : p = [r EXCEPT !.stat = Described(l.min, max, value, hidden)]
  OBVIOUS
<1>6. p = [ r EXCEPT !.stat = Described(l.min, max, value, hidden),
                     !.dead = FALSE ]
  BY <1>4, <1>5 DEF Characters
<1>7. Good(p)
  <2>1. ValidLimits(l.min, max) /\ FALSE \in BOOLEAN
    BY <1>2
  <2>2. p = Prepared(capacity, l.min, max, value, hidden, FALSE)
    BY <1>3, <1>6, Zenon DEF Prepared
  <2> QED
    BY <1>1, <2>1, <2>2, ReadyToFill, Zenon
<1>8. InitPlayer(l, capped, value, hidden, capacity, order) =
        Fill(p, Initial, order)
  BY <1>2, <1>3, <1>5, Zenon DEF InitPlayer
<1> QED
  BY <1>7, <1>8, ItemsAssumption, FillGood, Zenon

\* What a restored character has of a checkpoint.
RestoredAs(p, state) ==
  /\ p.content = state.content /\ p.capacity = state.capacity
  /\ p.dead = state.dead
  /\ [p.stat EXCEPT !.value = state.stat.value] = state.stat
  /\ BonusesAgree(state.content) =>
        p.stat = Change(state.stat, Regained(state.content))

\* The checkpoints that a game may have saved hold good characters.
LEMMA CheckpointsAreGood ==
  ASSUME NEW state \in Checkpoints
  PROVE  Good(state)
<1>1. PICK l \in Limits :
        /\ ValidLimits(l.min, l.max)
        /\ state.stat \in [ value : l.min .. l.max, min : {l.min},
                            max : {l.max}, hidden : BOOLEAN ]
  BY DEF Checkpoints
<1>2. l.min \in Int /\ l.max \in Int
  BY BoundsAssumption
<1>3. state.stat \in Stats /\ WithinLimits(state.stat)
  BY <1>1, <1>2 DEF Stats, WithinLimits
<1>4. /\ state.content \in [Items -> Nat] /\ state.capacity \in Capacities
      /\ state.dead \in BOOLEAN
      /\ state = [ stat |-> state.stat, content |-> state.content,
                   capacity |-> state.capacity, dead |-> state.dead ]
  <2>1. /\ state.content \in [Items -> 0 .. MaxSize]
        /\ state.capacity \in Sizes \cup {Unlimited}
        /\ state.dead \in BOOLEAN
        /\ state = [ stat |-> state.stat, content |-> state.content,
                     capacity |-> state.capacity, dead |-> state.dead ]
    BY DEF Checkpoints
  <2>2. 0 .. MaxSize \subseteq Nat
    BY BoundsAssumption
  <2> QED
    BY <2>1, <2>2, BoundsAssumption DEF Capacities
<1>5. state \in Characters
  BY <1>3, <1>4 DEF Characters
<1>6. Holds(state)
  BY DEF Checkpoints, Holds
<1> QED
  BY <1>3, <1>5, <1>6 DEF Good

\* A restored character is good, and is that of the checkpoint.
LEMMA RestoredFacts ==
  ASSUME player = NewPlayer, NEW state \in Checkpoints, NEW order \in Orders
  PROVE  /\ Good(RestorePlayer(state, order))
         /\ RestoredAs(RestorePlayer(state, order), state)
<1>1. /\ Good(state) /\ state.stat \in Stats /\ WithinLimits(state.stat)
      /\ state.capacity \in Capacities /\ state.dead \in BOOLEAN
      /\ state.content \in [Items -> Nat]
  BY CheckpointsAreGood DEF Good, Characters
<1>2. /\ state.stat.min \in Int /\ state.stat.max \in Int
      /\ state.stat.value \in Int /\ state.stat.hidden \in BOOLEAN
      /\ ValidLimits(state.stat.min, state.stat.max)
      /\ state.stat.min <= state.stat.value
      /\ state.stat.value <= state.stat.max
  BY <1>1 DEF Stats, WithinLimits
<1>3. PICK described :
        described = Described(state.stat.min, state.stat.max,
                              state.stat.value, state.stat.hidden)
  OBVIOUS
<1>4. PICK p : p = Prepared(state.capacity, state.stat.min, state.stat.max,
                            state.stat.value, state.stat.hidden, state.dead)
  OBVIOUS
<1>5. /\ Good(p) /\ \A x \in Items : p.content[x] = 0
      /\ p.capacity = state.capacity /\ p.dead = state.dead
      /\ p.stat = described
  <2>1. /\ Good(p) /\ p.capacity = state.capacity /\ p.dead = state.dead
        /\ p.stat = described
    BY <1>1, <1>2, <1>3, <1>4, ReadyToFill
  <2>2. \A x \in Items : p.content[x] = 0
    BY <1>1, <1>2, <1>4, ReadyToFill
  <2> QED
    BY <2>1, <2>2, Zenon
<1>6. described = state.stat
  <2>1. /\ described \in Stats /\ described.min = state.stat.min
        /\ described.max = state.stat.max
        /\ described.hidden = state.stat.hidden
        /\ described.value = state.stat.value
    BY <1>2, <1>3, NewPlayerFacts, DescribedFacts
  <2> QED
    BY <1>1, <2>1 DEF Stats
<1>7. PICK r : r = Fill(p, state.content, order)
  OBVIOUS
<1>8. Good(r)
  BY <1>1, <1>5, <1>7, FillGood, Zenon
<1>9. /\ r.content = state.content /\ Keeps(r, p)
      /\ BonusesAgree(state.content) =>
            r.stat = Change(p.stat, Regained(state.content))
  <2>1. p.capacity # Unlimited => SumOver(state.content) <= p.capacity
    BY <1>1, <1>5 DEF Good, Holds, Size
  <2> QED
    BY <1>1, <1>5, <1>7, <2>1, FillDoes
<1>10. [r.stat EXCEPT !.value = state.stat.value] = state.stat
  <2>1. /\ r.stat \in Stats /\ r.stat.min = state.stat.min
        /\ r.stat.max = state.stat.max /\ r.stat.hidden = state.stat.hidden
    BY <1>5, <1>6, <1>8, <1>9 DEF Good, Characters, Keeps
  <2> QED
    BY <1>1, <2>1 DEF Stats
<1>11. RestoredAs(r, state)
  BY <1>5, <1>6, <1>9, <1>10 DEF RestoredAs, Keeps
<1>12. RestorePlayer(state, order) = r
  BY <1>4, <1>7 DEF RestorePlayer, Prepared
<1> QED
  BY <1>8, <1>11, <1>12

-----------------------------------------------------------------------------
(* What the clients are told.                                               *)

\* Clients that were told of "known" have it, but for a hidden value.
Follows(v, known) ==
  /\ v.content = known.content /\ v.capacity = known.capacity
  /\ IF known.stat.hidden THEN v.stat.hidden ELSE v.stat = known.stat

LEMMA HiddenFacts ==
  ASSUME NEW stat \in Stats, NEW hidden \in BOOLEAN
  PROVE  /\ [stat EXCEPT !.hidden = hidden] \in Stats
         /\ [stat EXCEPT !.hidden = hidden].hidden = hidden
         /\ WithinLimits(stat) => WithinLimits([stat EXCEPT !.hidden = hidden])
<1>1. /\ [stat EXCEPT !.hidden = hidden] \in Stats
      /\ [stat EXCEPT !.hidden = hidden].hidden = hidden
      /\ [stat EXCEPT !.hidden = hidden].value = stat.value
      /\ [stat EXCEPT !.hidden = hidden].min = stat.min
      /\ [stat EXCEPT !.hidden = hidden].max = stat.max
  BY DEF Stats
<1> QED
  BY <1>1, Zenon DEF WithinLimits

\* Clients that apply an update have the character it was made from.
LEMMA ToldFacts ==
  ASSUME NEW v \in Characters, NEW p \in Characters, NEW known \in Characters,
         NEW first \in BOOLEAN, first \/ Follows(v, known)
  PROVE  /\ Told(v, p, known, first) \in Characters
         /\ Shows(Told(v, p, known, first), p)
<1>1. /\ v.stat \in Stats /\ v.content \in [Items -> Nat]
      /\ v.capacity \in Capacities /\ p.dead \in BOOLEAN
      /\ p.stat \in Stats /\ p.content \in [Items -> Nat]
      /\ p.capacity \in Capacities /\ p.stat.hidden \in BOOLEAN
  BY DEF Characters, Stats
<1>2. PICK stat :
        stat = IF ~first /\ p.stat = known.stat THEN v.stat
               ELSE IF p.stat.hidden THEN [v.stat EXCEPT !.hidden = TRUE]
               ELSE p.stat
  OBVIOUS
<1>3. /\ [v.stat EXCEPT !.hidden = TRUE] \in Stats
      /\ [v.stat EXCEPT !.hidden = TRUE].hidden = TRUE
  BY <1>1 DEF Stats
<1>4. stat \in Stats
  BY <1>1, <1>2, <1>3, Zenon
<1>5. IF p.stat.hidden THEN stat.hidden ELSE stat = p.stat
  BY <1>2, <1>3, Zenon DEF Follows
<1>6. PICK content :
        content = [ i \in Items |->
                      IF ~first /\ p.content[i] = known.content[i]
                      THEN v.content[i] ELSE p.content[i] ]
  OBVIOUS
<1>7. content = p.content
  <2>1. \A i \in Items : content[i] = p.content[i]
    BY <1>6, Zenon DEF Follows
  <2> QED
    BY <1>1, <1>6, <2>1
<1>8. PICK capacity :
        capacity = IF ~first /\ p.capacity = known.capacity
                   THEN v.capacity ELSE p.capacity
  OBVIOUS
<1>9. capacity = p.capacity
  BY <1>8, Zenon DEF Follows
<1>10. PICK r : r = Told(v, p, known, first)
  OBVIOUS
<1>11. r = [ dead |-> p.dead, stat |-> stat, content |-> content,
             capacity |-> capacity ]
  BY <1>2, <1>6, <1>8, <1>10, Zenon DEF Told
<1>12. r \in Characters
  BY <1>1, <1>4, <1>7, <1>9, <1>11 DEF Characters
<1>13. /\ r.dead = p.dead /\ r.stat = stat /\ r.content = content
       /\ r.capacity = capacity
  BY <1>11
<1> QED
  BY <1>5, <1>7, <1>9, <1>10, <1>12, <1>13, Zenon DEF Shows

\* Clients that follow what was sent follow what is sent next.
LEMMA SendUpdateFacts ==
  ASSUME TypeOK, initialized => Follows(view, cache),
         NEW p, p \in Characters, SendUpdate(p)
  PROVE  /\ view' \in Characters /\ cache' \in Characters
         /\ initialized' = TRUE /\ Follows(view', cache')
<1>1. /\ view' = Told(view, p, cache, ~initialized) /\ initialized' = TRUE
      /\ cache' = [ p EXCEPT !.stat = Cached(cache.stat, p.stat),
                             !.dead = FALSE ]
  BY DEF SendUpdate
<1>2. view' \in Characters /\ Shows(view', p)
  <2>1. PICK first \in BOOLEAN : first = ~initialized
    BY Zenon
  <2>2. first \/ Follows(view, cache)
    BY <2>1, Zenon
  <2>3. /\ Told(view, p, cache, first) \in Characters
        /\ Shows(Told(view, p, cache, first), p)
    BY <2>2, ToldFacts, Zenon DEF TypeOK
  <2> QED
    BY <1>1, <2>1, <2>3, Zenon
<1>3. PICK stat : stat = Cached(cache.stat, p.stat)
  OBVIOUS
<1>4. /\ cache.stat \in Stats /\ p.stat \in Stats
      /\ p.content \in [Items -> Nat] /\ p.capacity \in Capacities
      /\ p = [ stat |-> p.stat, content |-> p.content,
               capacity |-> p.capacity, dead |-> p.dead ]
  BY DEF TypeOK, Characters
<1>5. /\ stat \in Stats
      /\ IF p.stat.hidden THEN stat.hidden = TRUE ELSE stat = p.stat
  <2>1. /\ [cache.stat EXCEPT !.hidden = TRUE] \in Stats
        /\ [cache.stat EXCEPT !.hidden = TRUE].hidden = TRUE
    BY <1>4 DEF Stats
  <2> QED
    BY <1>3, <1>4, <2>1, Zenon DEF Cached
<1>6. cache' = [ stat |-> stat, content |-> p.content,
                 capacity |-> p.capacity, dead |-> FALSE ]
  BY <1>1, <1>3, <1>4
<1>7. cache' \in Characters
  BY <1>4, <1>5, <1>6 DEF Characters
<1>8. /\ cache'.stat = stat /\ cache'.content = p.content
      /\ cache'.capacity = p.capacity
  BY <1>6
<1>9. Follows(view', cache')
  BY <1>2, <1>5, <1>8, Zenon DEF Follows, Shows
<1> QED
  BY <1>1, <1>2, <1>7, <1>9, Zenon

-----------------------------------------------------------------------------
(* The invariant.                                                           *)

\* The character can be restored at any time; it is that of a new player
\* between sessions.  Clients told once follow the cache.  What was restored is
\* what the checkpoint holds until the clients are told.
Idle == ~playing => player = NewPlayer /\ ~initialized
Following == initialized => Follows(view, cache)
Restoring == chkpt # NoCheckpoint => ~initialized /\ RestoredAs(player, chkpt)
CharacterInv == TypeOK /\ Good(player) /\ Idle /\ Following /\ Restoring

LEMMA InvInit == CharacterInit => CharacterInv
<1> SUFFICES ASSUME CharacterInit
             PROVE  CharacterInv
  OBVIOUS
<1>1. Good(NewPlayer) /\ NewPlayer \in Characters
  BY NewPlayerFacts DEF Good
<1>2. TypeOK
  BY <1>1, Zenon DEF CharacterInit, TypeOK
<1> QED
  BY <1>1, <1>2, Zenon
     DEF CharacterInit, CharacterInv, Idle, Following, Restoring

\* A script that leaves a good character keeps the invariant.
LEMMA BecomesInv ==
  ASSUME CharacterInv, NEW p, Good(p), Becomes(p)
  PROVE  CharacterInv'
<1>1. /\ initialized /\ player' = p
      /\ UNCHANGED <<cache, initialized, view, chkpt, playing>>
  BY DEF Becomes
<1>2. p \in Characters /\ playing /\ chkpt = NoCheckpoint
  BY <1>1, Zenon DEF CharacterInv, Idle, Restoring, Good
<1>3. TypeOK'
  BY <1>1, <1>2 DEF CharacterInv, TypeOK
<1>4. Good(player') /\ Idle' /\ Restoring'
  BY <1>1, <1>2, Zenon DEF Idle, Restoring
<1>5. Following'
  BY <1>1 DEF CharacterInv, Following
<1> QED
  BY <1>3, <1>4, <1>5, Zenon DEF CharacterInv, Good, Holds, Size, WithinLimits

LEMMA BecomesStatInv ==
  ASSUME CharacterInv, NEW stat \in Stats, WithinLimits(stat),
         BecomesStat(stat)
  PROVE  CharacterInv'
<1>1. Good([player EXCEPT !.stat = stat])
  BY WithStat DEF CharacterInv
<1> QED
  BY <1>1, BecomesInv DEF BecomesStat

LEMMA ChangeStatInv == CharacterInv /\ ChangeStat => CharacterInv'
<1> SUFFICES ASSUME CharacterInv, NEW d \in Steps,
                    BecomesStat(Change(player.stat, d))
             PROVE  CharacterInv'
  BY DEF ChangeStat
<1>1. d \in Int /\ player.stat \in Stats /\ WithinLimits(player.stat)
  BY BoundsAssumption DEF CharacterInv, Good, Characters
<1>2. Change(player.stat, d) \in Stats /\ WithinLimits(Change(player.stat, d))
  BY <1>1, ChangeWithinLimits
<1> QED
  BY <1>2, BecomesStatInv

LEMMA LimitStatInv == CharacterInv /\ LimitStat => CharacterInv'
<1> SUFFICES ASSUME CharacterInv, NEW l \in Limits, ValidLimits(l.min, l.max),
                    BecomesStat(SetLimits(player.stat, l.min, l.max))
             PROVE  CharacterInv'
  BY DEF LimitStat
<1>1. l.min \in Int /\ l.max \in Int /\ player.stat \in Stats
  BY BoundsAssumption DEF CharacterInv, Good, Characters
<1>2. /\ SetLimits(player.stat, l.min, l.max) \in Stats
      /\ WithinLimits(SetLimits(player.stat, l.min, l.max))
  BY <1>1, SetLimitsFacts
<1> QED
  BY <1>2, BecomesStatInv

LEMMA HideStatInv == CharacterInv /\ HideStat => CharacterInv'
<1> SUFFICES ASSUME CharacterInv, NEW h \in BOOLEAN,
                    BecomesStat([player.stat EXCEPT !.hidden = h])
             PROVE  CharacterInv'
  BY DEF HideStat
<1>1. player.stat \in Stats /\ WithinLimits(player.stat)
  BY DEF CharacterInv, Good, Characters
<1>2. /\ [player.stat EXCEPT !.hidden = h] \in Stats
      /\ WithinLimits([player.stat EXCEPT !.hidden = h])
  BY <1>1, HiddenFacts
<1> QED
  BY <1>2, BecomesStatInv

LEMMA BecomesHolderInv ==
  ASSUME CharacterInv, NEW p, Good(p), BecomesHolder(p)
  PROVE  CharacterInv'
<1>1. CASE Becomes(p)
  BY <1>1, BecomesInv
<1>2. CASE Becomes([p EXCEPT !.stat = player.stat])
  <2>1. player.stat \in Stats /\ WithinLimits(player.stat)
    BY DEF CharacterInv, Good, Characters
  <2>2. Good([p EXCEPT !.stat = player.stat])
    BY <2>1, WithStat
  <2> QED
    BY <1>2, <2>2, BecomesInv
<1> QED
  BY <1>1, <1>2 DEF BecomesHolder

LEMMA AddItemInv == CharacterInv /\ AddItem => CharacterInv'
<1> SUFFICES ASSUME CharacterInv, NEW i \in Items,
                    BecomesHolder(Added(player, i, 1))
             PROVE  CharacterInv'
  BY DEF AddItem
<1>1. Good(Added(player, i, 1))
  BY AddedGood DEF CharacterInv
<1> QED
  BY <1>1, BecomesHolderInv

LEMMA ConsumeItemInv == CharacterInv /\ ConsumeItem => CharacterInv'
<1> SUFFICES ASSUME CharacterInv, NEW i \in Items,
                    BecomesHolder(Consumed(player, i, 1))
             PROVE  CharacterInv'
  BY DEF ConsumeItem
<1>1. Gained(player, i, -1) = Consumed(player, i, 1)
  BY DEF Gained
<1>2. Good(Gained(player, i, -1))
  BY GainedGood DEF CharacterInv
<1> QED
  BY <1>1, <1>2, BecomesHolderInv

LEMMA ResizeInv == CharacterInv /\ Resize => CharacterInv'
<1> SUFFICES ASSUME CharacterInv, NEW c \in Sizes \cup {Unlimited},
                    Becomes(Resized(player, c))
             PROVE  CharacterInv'
  BY DEF Resize
<1>1. c \in Capacities
  BY BoundsAssumption DEF Capacities
<1>2. Good(Resized(player, c))
  BY <1>1, ResizedFacts DEF CharacterInv
<1> QED
  BY <1>2, BecomesInv

LEMMA ApplyEffectInv == CharacterInv /\ ApplyEffect => CharacterInv'
<1> SUFFICES ASSUME CharacterInv, NEW d \in Steps,
                    NEW items \in [Items -> Quantities], NEW order \in Orders,
                    Becomes(Applied(player, d, items, order))
             PROVE  CharacterInv'
  BY DEF ApplyEffect
<1>1. d \in Int /\ items \in [Items -> Int]
  BY BoundsAssumption
<1>2. Good(Applied(player, d, items, order))
  BY <1>1, AppliedGood DEF CharacterInv
<1> QED
  BY <1>2, BecomesInv

LEMMA SendUpdateInv ==
  ASSUME CharacterInv, NEW p, Good(p), SendUpdate(p), playing,
         player' = p, playing' = playing,
         (chkpt' = chkpt /\ initialized) \/ chkpt' = NoCheckpoint
  PROVE  CharacterInv'
<1>1. /\ view' \in Characters /\ cache' \in Characters
      /\ initialized' = TRUE /\ Follows(view', cache')
  BY SendUpdateFacts DEF CharacterInv, Following, Good
<1>2. chkpt' = NoCheckpoint
  BY Zenon DEF CharacterInv, Restoring
<1>3. TypeOK'
  BY <1>1, <1>2 DEF CharacterInv, TypeOK, Good
<1>4. Idle' /\ Following' /\ Restoring'
  BY <1>1, <1>2, Zenon DEF Idle, Following, Restoring
<1>5. Good(player')
  BY Zenon
<1> QED
  BY <1>3, <1>4, <1>5, Zenon DEF CharacterInv, Good, Holds, Size, WithinLimits

LEMMA FirstUpdateInv == CharacterInv /\ FirstUpdate => CharacterInv'
<1> SUFFICES ASSUME CharacterInv, FirstUpdate
             PROVE  CharacterInv'
  OBVIOUS
<1> QED
  BY SendUpdateInv DEF FirstUpdate, CharacterInv

LEMMA PlayerUpdateInv == CharacterInv /\ PlayerUpdate => CharacterInv'
<1> SUFFICES ASSUME CharacterInv, PlayerUpdate
             PROVE  CharacterInv'
  OBVIOUS
<1>1. playing
  BY Zenon DEF CharacterInv, Idle, PlayerUpdate
<1> QED
  BY <1>1, SendUpdateInv DEF PlayerUpdate, CharacterInv

LEMMA CheckPlayerInv == CharacterInv /\ CheckPlayer => CharacterInv'
<1> SUFFICES ASSUME CharacterInv, CheckPlayer
             PROVE  CharacterInv'
  OBVIOUS
<1>1. playing
  BY Zenon DEF CharacterInv, Idle, CheckPlayer
<1>2. PICK p : p = [player EXCEPT !.dead = TRUE]
  OBVIOUS
<1>3. /\ p \in Characters /\ p.stat = player.stat
      /\ p.content = player.content /\ p.capacity = player.capacity
  BY <1>2 DEF CharacterInv, Good, Characters
<1>4. Good(p)
  BY <1>3 DEF CharacterInv, Good, Holds, Size
<1>5. /\ initialized /\ player' = p /\ SendUpdate(p)
      /\ chkpt' = chkpt /\ playing' = playing
  BY <1>2 DEF CheckPlayer
<1> QED
  BY <1>1, <1>4, <1>5, SendUpdateInv

LEMMA BeginInv ==
  ASSUME CharacterInv, NEW p, Good(p), Begin(p),
         chkpt' = NoCheckpoint
           \/ (chkpt' \in Characters /\ RestoredAs(p, chkpt'))
  PROVE  CharacterInv'
<1>1. /\ playing' = TRUE /\ player' = p /\ initialized' = FALSE
      /\ cache' = [p EXCEPT !.dead = FALSE] /\ view' = view
  BY DEF Begin
<1>2. p \in Characters /\ [p EXCEPT !.dead = FALSE] \in Characters
  BY DEF Good, Characters
<1>3. TypeOK'
  BY <1>1, <1>2 DEF CharacterInv, TypeOK
<1>4. Good(player') /\ Idle' /\ Following'
  BY <1>1, Zenon DEF Idle, Following
<1>5. Restoring'
  BY <1>1, Zenon DEF Restoring, RestoredAs
<1> QED
  BY <1>3, <1>4, <1>5, Zenon DEF CharacterInv, Good, Holds, Size, WithinLimits

LEMMA NewCharacterInv == CharacterInv /\ NewCharacter => CharacterInv'
<1> SUFFICES ASSUME CharacterInv, NewCharacter
             PROVE  CharacterInv'
  OBVIOUS
<1>1. PICK l \in Limits, capped \in BOOLEAN, value \in Steps,
           hidden \in BOOLEAN, capacity \in Sizes \cup {Unlimited},
           order \in Orders :
        /\ ValidLimits(l.min, Highest(l, value, capped))
        /\ Begin(InitPlayer(l, capped, value, hidden, capacity, order))
  BY DEF NewCharacter
<1>2. player = NewPlayer /\ chkpt' = NoCheckpoint
  BY <1>1, Zenon DEF NewCharacter, Begin, CharacterInv, Idle
<1>3. PICK p : p = InitPlayer(l, capped, value, hidden, capacity, order)
  OBVIOUS
<1>4. Good(p)
  BY <1>1, <1>2, <1>3, InitPlayerGood
<1>5. Begin(p)
  BY <1>1, <1>3, Zenon
<1> QED
  BY <1>2, <1>4, <1>5, BeginInv, Zenon

LEMMA RestoreInv == CharacterInv /\ Restore => CharacterInv'
<1> SUFFICES ASSUME CharacterInv, NEW state \in Checkpoints,
                    NEW order \in Orders,
                    Begin(RestorePlayer(state, order)), chkpt' = state
             PROVE  CharacterInv'
  BY DEF Restore
<1>1. player = NewPlayer
  BY Zenon DEF Begin, CharacterInv, Idle
<1>2. /\ Good(RestorePlayer(state, order))
      /\ RestoredAs(RestorePlayer(state, order), state)
  BY <1>1, RestoredFacts
<1>3. state \in Characters
  BY CheckpointsAreGood DEF Good
<1> QED
  BY <1>2, <1>3, BeginInv

LEMMA EndSessionInv == CharacterInv /\ EndSession => CharacterInv'
<1> SUFFICES ASSUME CharacterInv, EndSession
             PROVE  CharacterInv'
  OBVIOUS
<1>1. /\ playing' = FALSE /\ player' = NewPlayer /\ cache' = NewPlayer
      /\ initialized' = FALSE /\ chkpt' = NoCheckpoint /\ view' = view
  BY DEF EndSession, PlayersCleared
<1>2. Good(NewPlayer) /\ NewPlayer \in Characters
  BY NewPlayerFacts DEF Good
<1>3. TypeOK'
  BY <1>1, <1>2 DEF CharacterInv, TypeOK
<1>4. Good(player') /\ Idle' /\ Following' /\ Restoring'
  BY <1>1, <1>2, Zenon DEF Idle, Following, Restoring
<1> QED
  BY <1>3, <1>4, Zenon DEF CharacterInv, Good, Holds, Size, WithinLimits

LEMMA InvUnchanged ==
  CharacterInv /\ UNCHANGED characterVars => CharacterInv'
<1> SUFFICES ASSUME CharacterInv, UNCHANGED characterVars
             PROVE  CharacterInv'
  OBVIOUS
<1> QED
  BY DEF characterVars, CharacterInv, TypeOK, Good, Holds, Size, WithinLimits,
         Idle, Following, Restoring, RestoredAs, Follows

LEMMA InvNext == CharacterInv /\ [CharacterNext]_characterVars => CharacterInv'
<1> SUFFICES ASSUME CharacterInv, [CharacterNext]_characterVars
             PROVE  CharacterInv'
  OBVIOUS
<1>1. CASE FirstUpdate
  BY <1>1, FirstUpdateInv
<1>2. CASE ChangeStat \/ LimitStat \/ HideStat
  BY <1>2, ChangeStatInv, LimitStatInv, HideStatInv
<1>3. CASE AddItem \/ ConsumeItem \/ Resize
  BY <1>3, AddItemInv, ConsumeItemInv, ResizeInv
<1>4. CASE ApplyEffect
  BY <1>4, ApplyEffectInv
<1>5. CASE PlayerUpdate
  BY <1>5, PlayerUpdateInv
<1>6. CASE CheckPlayer
  BY <1>6, CheckPlayerInv
<1>7. CASE NewCharacter
  BY <1>7, NewCharacterInv
<1>8. CASE Restore
  BY <1>8, RestoreInv
<1>9. CASE EndSession
  BY <1>9, EndSessionInv
<1>10. CASE UNCHANGED characterVars
  BY <1>10, InvUnchanged
<1> QED
  BY <1>1, <1>2, <1>3, <1>4, <1>5, <1>6, <1>7, <1>8, <1>9, <1>10, Zenon
     DEF CharacterNext

\* Every state of the session of a character satisfies the invariant.
THEOREM CharacterInvariant == CharacterSpec => []CharacterInv
<1> QED
  BY InvInit, InvNext, PTL DEF CharacterSpec

\* Whatever the scripts do, with whatever items, bonuses, limits and changes,
\* a character in a session is one that Session::restorePlayer accepts.
THEOREM AlwaysRestorable == CharacterSpec => []Restorable
<1>1. CharacterInv => Restorable
  BY Zenon DEF CharacterInv, Good, WithinLimits, Holds, Restorable
<1> QED
  BY <1>1, CharacterInvariant, PTL

\* EventEffect::simulateItemsChanges answers "Ok" for the effects that
\* EventEffect::apply makes whole, whatever the order of its hash table.
THEOREM SimulationTellsTruth == CharacterSpec => []SimulationMeansApplied
<1>1. CharacterInv => SimulationMeansApplied
  <2> SUFFICES ASSUME CharacterInv, NEW items \in [Items -> Quantities],
                      NEW order \in Orders
               PROVE  Simulated(player, items) = "Ok" <=>
                        \A i \in Items :
                          Applied(player, 0, items, order).content[i] =
                            player.content[i] + items[i]
    BY DEF SimulationMeansApplied
  <2>1. items \in [Items -> Int] /\ Good(player)
    BY BoundsAssumption DEF CharacterInv
  <2>2. Simulated(player, items) = "Ok" =>
          \A i \in Items : Applied(player, 0, items, order).content[i] =
                             player.content[i] + items[i]
    BY <2>1, OkIsApplied, Zenon
  <2>3. (\A i \in Items : Applied(player, 0, items, order).content[i] =
                            player.content[i] + items[i])
        => Simulated(player, items) = "Ok"
    BY <2>1, AppliedIsOk, Zenon
  <2> QED
    BY <2>2, <2>3, Zenon
<1> QED
  BY <1>1, CharacterInvariant, PTL

\* The update Gameplay::sendPlayerUpdate would send next always leaves the
\* clients with the character as it is, whatever was hidden or sent before.
THEOREM UpdatesShowAll == CharacterSpec => []NextUpdateShowsAll
<1>1. CharacterInv => NextUpdateShowsAll
  <2> SUFFICES ASSUME CharacterInv
               PROVE  Shows(Told(view, player, cache, ~initialized), player)
    BY DEF NextUpdateShowsAll
  <2>1. PICK first \in BOOLEAN : first = ~initialized
    BY Zenon
  <2>2. first \/ Follows(view, cache)
    BY <2>1, Zenon DEF CharacterInv, Following
  <2>3. Shows(Told(view, player, cache, first), player)
    BY <2>2, ToldFacts, Zenon DEF CharacterInv, TypeOK
  <2> QED
    BY <2>1, <2>3, Zenon
<1> QED
  BY <1>1, CharacterInvariant, PTL

\* Session::restorePlayer gives back what Session::checkpoint saved, and adds
\* the bonuses of the items to the statistic that had them already, by the same
\* amount in any order of the hash table unless some bonuses add and others
\* take away.
THEOREM SavedIsRestored == CharacterSpec => []RestoredAsSaved
<1>1. CharacterInv => RestoredAsSaved
  BY Zenon DEF CharacterInv, Restoring, RestoredAs, RestoredAsSaved
<1> QED
  BY <1>1, CharacterInvariant, PTL
=============================================================================
