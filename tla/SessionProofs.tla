--------------------------- MODULE SessionProofs ---------------------------
(***************************************************************************)
(* Proofs about the life of a session, for any set of players: who leads   *)
(* it, who plays a restored game, and that whatever fails the lobby gets   *)
(* back what SessionCall says.                                             *)
(***************************************************************************)
EXTENDS Session, SessionBroadcastProofs

\* Where the session is led by one of its players.
LedPlaces ==
  { "rolls", "cache", "update", "stats", "scenes", "scene", "died", "confirm" }

\* Where a restored game is played.
RestoredPlaces ==
  { "vote", "cache", "update", "stats", "scenes", "scene", "died", "confirm" }

\* The entrants: all of them until the session is over; their sockets are with
\* the session meanwhile, and it only loses those whose connection is broken.
Boarding ==
  /\ boarded # {}
  /\ (result = "none") = (pc # "over")
  /\ result = "none" => entrants = boarded
  /\ pc = "idle" => sockets = entrants /\ players = {}
  /\ pc \notin {"idle", "over"} => sockets = {}
  /\ pc # "idle" => boarded \ players \subseteq dead

\* The leader: nobody until a game begins, then a player wherever a game is
\* played.  The winner of a vote is a player until it leads.
Leading ==
  /\ leader \in players \cup {NoLeader}
  /\ pc = "idle" => leader = NoLeader
  /\ pc \in {"begin", "init", "load"} => players = boarded /\ leader = NoLeader
  /\ pc \in LedPlaces \cup {"vote"} => players # {}
  /\ pc \in LedPlaces => leader # NoLeader
  /\ pc = "vote" /\ saved = {} => leader # NoLeader
  /\ pc \in {"vote", "scene"} => chosen \in players \cup {NoLeader}
  /\ pc \in {"begin", "init", "load", "rolls", "idle", "cache", "update",
             "stats", "scenes", "confirm"} => chosen = NoLeader

\* A checkpoint: checked before anyone plays.
Restoring ==
  /\ pc = "load" => saved # {}
  /\ pc = "rolls" => saved = {}
  /\ saved # {} /\ pc \in RestoredPlaces =>
       /\ boarded \subseteq saved
       /\ missing \/ boarded = saved
       /\ alive \subseteq game.living

\* The end: reached with players left unless an exception led to it, and with
\* all of them when the parameters were refused.
Ending ==
  /\ thrown # "none" => pc \in {"end", "over"}
  /\ pc = "end" /\ thrown = "none" => players # {}
  /\ pc = "end" /\ thrown \in ParametersErrors =>
       /\ players = boarded /\ leader = NoLeader
       /\ saved # {}
       /\ thrown = "UnknownPlayer" => ~(boarded \subseteq saved)
       /\ thrown = "LessMembers" =>
            boarded \subseteq saved /\ boarded # saved /\ ~missing
       /\ thrown = "NoPlayerAlive" =>
            boarded \subseteq saved /\ (boarded = saved \/ missing)

Inv == TypeOK /\ Boarding /\ Leading /\ Restoring /\ Ending

-----------------------------------------------------------------------------
(* What a message or a request does to the players and to their leader.    *)

\* Only players whose connection is broken are lost, and a player leads or
\* nobody does.
Moves ==
  /\ players' \subseteq players /\ players \ players' \subseteq dead
  /\ leader' \in players' \cup {NoLeader}

LEMMA PlayersAreNat ==
  ASSUME TypeOK
  PROVE  players \subseteq Nat /\ NoLeader \notin Nat
  BY IdsAssumption, NoLeaderAssumption DEF TypeOK

LEMMA BroadcastMoves ==
  ASSUME TypeOK, NEW to, NEW boss \in players \cup {NoLeader}, NEW next,
         Broadcast(to, boss, next)
  PROVE  /\ Moves
         /\ \/ /\ GoesOn(next)
               /\ players' # {}
               /\ boss # NoLeader => leader' # NoLeader
               /\ boss = NoLeader => players' = players /\ leader' = NoLeader
            \/ \E e \in BroadcastResults \ {"sent"} : Throws(e)
<1>1. PICK o \in BroadcastOutcomes(players, to, boss, dead) :
        /\ players' = o.players /\ leader' = o.leader
        /\ IF o.result = "sent" THEN GoesOn(next) ELSE Throws(o.result)
  BY Zenon DEF Broadcast
<1>2. Regular(o, players)
  BY PlayersAreNat, OutcomeFacts, Zenon
<1>3. /\ players \ o.players \subseteq dead
      /\ o.result = "sent" => o.players # {}
      /\ o.result = "sent" /\ boss = NoLeader =>
           o.players = players /\ o.leader = NoLeader
  BY PlayersAreNat, OutcomeLosses, Zenon
<1>4. boss \in players /\ o.result = "sent" => o.leader \in o.players
  BY PlayersAreNat, SentKeepsLeader, Zenon
<1>5. NoLeader \notin players
  BY PlayersAreNat
<1> QED
  BY <1>1, <1>2, <1>3, <1>4, <1>5 DEF Regular, Moves

LEMMA AskMoves ==
  ASSUME TypeOK, leader \in players \cup {NoLeader}, NEW next, Ask(next)
  PROVE  /\ Moves
         /\ \/ GoesOn(next) /\ leader' # NoLeader
            \/ /\ GoesOn("end") /\ leader' # NoLeader
               /\ pc \in {"scene", "confirm"}
            \/ \E e \in RequestResults \ {"sent"} : Throws(e)
<1>1. PICK o \in RequestOutcomes(players, leader, running, dead) :
        /\ players' = o.players /\ leader' = o.leader
        /\ IF o.result = "sent" THEN GoesOn(next) ELSE AskFails(o.result)
  BY Zenon DEF Ask
<1>2. /\ o.players \subseteq players /\ players \ o.players \subseteq dead
      /\ o.result \in RequestResults
      /\ o.leader \in o.players \cup {NoLeader}
      /\ o.result \in {"sent", "canceled"} => o.leader \in o.players
  BY PlayersAreNat, RequestOutcomeFacts, Zenon
<1>3. NoLeader \notin players
  BY PlayersAreNat
<1> QED
  BY <1>1, <1>2, <1>3 DEF Moves, AskFails

LEMMA VoteMoves ==
  ASSUME TypeOK, leader \in players \cup {NoLeader}, NEW next, AskVote(next)
  PROVE  /\ Moves
         /\ \/ GoesOn(next) /\ leader' # NoLeader /\ chosen' = chosen
            \/ GoesOn(pc) /\ leader' # NoLeader /\ chosen' \in players'
            \/ GoesOn("undefined") /\ chosen' \in players
            \/ /\ GoesOn("end") /\ leader' # NoLeader /\ chosen' = chosen
               /\ pc \in {"scene", "confirm"}
            \/ /\ chosen' = chosen
               /\ \E e \in RequestResults \ {"sent"} : Throws(e)
<1>1. PICK o \in RequestOutcomes(players, leader, running, dead) :
        /\ players' = o.players /\ leader' = o.leader
        /\ \/ /\ o.result # "sent"
              /\ AskFails(o.result)
              /\ UNCHANGED chosen
           \/ /\ o.result = "sent"
              /\ GoesOn(next)
              /\ UNCHANGED chosen
           \/ /\ o.result = "sent"
              /\ chosen' \in players
              /\ UNCHANGED thrown
              /\ IF chosen' \in players' THEN UNCHANGED pc
                                         ELSE pc' = "undefined"
  BY Zenon DEF AskVote
<1>2. /\ o.players \subseteq players /\ players \ o.players \subseteq dead
      /\ o.result \in RequestResults
      /\ o.leader \in o.players \cup {NoLeader}
      /\ o.result \in {"sent", "canceled"} => o.leader \in o.players
  BY PlayersAreNat, RequestOutcomeFacts, Zenon
<1>3. NoLeader \notin players
  BY PlayersAreNat
<1> QED
  BY <1>1, <1>2, <1>3 DEF Moves, AskFails, GoesOn

-----------------------------------------------------------------------------
(* The invariant, action by action.                                        *)

\* A step of the session thread leaves the entrants, the checkpoint and the
\* connections alone, and its own variables well typed.
Steps ==
  /\ Unchanged /\ Moves
  /\ pc \in Places \ {"idle", "over", "undefined"}
  /\ alive' \subseteq alive /\ running' \in BOOLEAN
  /\ pending' \subseteq Ids
  /\ chosen' \in Ids \cup {NoLeader}

\* An exception, other than the refusal of the parameters, leads to the end.
LEMMA ThrowsKeepsInv ==
  ASSUME Inv, Steps, NEW e \in Exceptions \ ParametersErrors, Throws(e)
  PROVE  Inv'
<1> USE DEF Inv, Steps, Throws, Unchanged, lobbyVars
<1>1. TypeOK'
  BY DEF TypeOK, Moves, Places
<1>2. Boarding'
  BY DEF TypeOK, Boarding, Moves
<1>3. Leading'
  BY DEF Leading, Moves, LedPlaces
<1>4. Restoring'
  BY DEF Restoring, RestoredPlaces
<1>5. Ending'
  BY DEF Ending, Exceptions, ParametersErrors, RequestResults, BroadcastResults
<1> QED
  BY <1>1, <1>2, <1>3, <1>4, <1>5

\* A game that is played, and led, goes on.
LEMMA PlayedKeepsInv ==
  ASSUME Inv, Steps, NEW next \in RestoredPlaces \cup {"end"}, GoesOn(next),
         pc \in RestoredPlaces,
         leader' # NoLeader,
         next \in {"vote", "scene"} => chosen' \in players' \cup {NoLeader},
         next \notin {"vote", "scene", "died", "end"} => chosen' = NoLeader
  PROVE  Inv'
<1> USE DEF Inv, Steps, GoesOn, Unchanged, lobbyVars
<1>1. TypeOK'
  BY DEF TypeOK, Moves, Places, RestoredPlaces
<1>2. Boarding'
  BY DEF TypeOK, Boarding, Moves, RestoredPlaces
<1>3. Leading'
  BY DEF Leading, Moves, LedPlaces, RestoredPlaces
<1>4. Restoring'
  BY DEF Restoring, RestoredPlaces
<1>5. Ending'
  BY DEF Ending, Moves, RestoredPlaces, ParametersErrors
<1> QED
  BY <1>1, <1>2, <1>3, <1>4, <1>5

\* The session does something undefined.
LEMMA UndefinedKeepsInv ==
  ASSUME Inv, Steps, pc \in RestoredPlaces, GoesOn("undefined")
  PROVE  Inv'
<1> USE DEF Inv, Steps, GoesOn, Unchanged, lobbyVars
<1>1. TypeOK' /\ Boarding'
  BY DEF TypeOK, Boarding, Moves, Places, RestoredPlaces
<1>2. Leading' /\ Restoring' /\ Ending'
  BY DEF Leading, Restoring, Ending, Moves, LedPlaces, RestoredPlaces
<1> QED
  BY <1>1, <1>2

\* So a message of a led session keeps the invariant.
LEMMA MessageKeepsInv ==
  ASSUME Inv, pc \in RestoredPlaces,
         Unchanged, alive' \subseteq alive, running' \in BOOLEAN,
         pending' \subseteq Ids, chosen' \in Ids \cup {NoLeader},
         NEW to, NEW boss \in players,
         NEW next \in RestoredPlaces \cup {"end"},
         next \notin {"died", "end"} => chosen' = NoLeader,
         Broadcast(to, boss, next)
  PROVE  Inv'
<1>1. boss # NoLeader /\ boss \in players \cup {NoLeader}
  BY PlayersAreNat DEF Inv
<1>2. /\ Moves
      /\ \/ GoesOn(next) /\ leader' # NoLeader
         \/ \E e \in BroadcastResults \ {"sent"} : Throws(e)
  BY <1>1, BroadcastMoves, Zenon DEF Inv
<1>3. Steps
  BY <1>2 DEF Steps, RestoredPlaces, Places
<1>4. CASE GoesOn(next) /\ leader' # NoLeader
  BY <1>3, <1>4, PlayedKeepsInv
<1>5. CASE \E e \in BroadcastResults \ {"sent"} : Throws(e)
  BY <1>3, <1>5, ThrowsKeepsInv
     DEF Exceptions, RequestResults, BroadcastResults, ParametersErrors
<1> QED
  BY <1>2, <1>4, <1>5

\* And a request.
LEMMA QuestionKeepsInv ==
  ASSUME Inv, pc \in RestoredPlaces,
         Unchanged, alive' = alive, running' \in BOOLEAN, UNCHANGED scriptVars,
         NEW next \in RestoredPlaces, chosen = NoLeader,
         Ask(next)
  PROVE  Inv'
<1>1. leader \in players \cup {NoLeader}
  BY DEF Inv, Leading
<1>2. /\ Moves
      /\ \/ leader' # NoLeader /\ (GoesOn(next) \/ GoesOn("end"))
         \/ \E e \in RequestResults \ {"sent"} : Throws(e)
  BY <1>1, AskMoves DEF Inv
<1>3. Steps
  BY <1>2 DEF Steps, RestoredPlaces, Places, Inv, TypeOK, scriptVars
<1>4. CASE leader' # NoLeader /\ (GoesOn(next) \/ GoesOn("end"))
  BY <1>3, <1>4, PlayedKeepsInv DEF scriptVars
<1>5. CASE \E e \in RequestResults \ {"sent"} : Throws(e)
  BY <1>3, <1>5, ThrowsKeepsInv
     DEF Exceptions, RequestResults, BroadcastResults, ParametersErrors
<1> QED
  BY <1>2, <1>4, <1>5

\* What starts a session.
LEMMA StartKeepsInv ==
  ASSUME Inv, Start \/ Begin
  PROVE  Inv'
<1> USE DEF Inv
<1>1. CASE Start
  <2>1. TypeOK' /\ Boarding'
    BY <1>1 DEF Start, TypeOK, Boarding, Places, GoesOn, scriptVars
  <2>2. Leading'
    BY <1>1 DEF Start, TypeOK, Boarding, Leading, GoesOn, LedPlaces, scriptVars
  <2>3. Restoring' /\ Ending'
    BY <1>1 DEF Start, Restoring, Ending, GoesOn, RestoredPlaces,
                ParametersErrors
  <2> QED
    BY <2>1, <2>2, <2>3
<1>2. CASE Begin
  <2>1. PICK o \in BroadcastOutcomes(players, players, leader, dead) :
          /\ players' = o.players /\ leader' = o.leader
          /\ \/ o.result = "sent" /\ pc' = "init" /\ UNCHANGED result
             \/ o.result # "sent" /\ pc' = "over" /\ result' = "Crashed"
    BY <1>2, Zenon DEF Begin
  <2>2. leader = NoLeader /\ players = boarded
    BY <1>2 DEF Begin, Leading
  <2>3. Regular(o, players)
    BY <2>2, PlayersAreNat, OutcomeFacts, Zenon
  <2>4. /\ players \ o.players \subseteq dead
        /\ o.result = "sent" => o.players = players /\ o.leader = NoLeader
    BY <2>2, PlayersAreNat, OutcomeLosses, Zenon
  <2>5. TypeOK'
    BY <1>2, <2>1, <2>3, <2>4
       DEF Begin, TypeOK, Places, Regular, SessionResults, scriptVars
  <2>6. Boarding'
    BY <1>2, <2>1, <2>3, <2>4 DEF Begin, Boarding, TypeOK, Regular
  <2>7. Leading' /\ Restoring' /\ Ending'
    BY <1>2, <2>1, <2>2, <2>3, <2>4
       DEF Begin, Leading, Restoring, Ending, LedPlaces, RestoredPlaces,
           Regular, ParametersErrors, scriptVars
  <2> QED
    BY <2>5, <2>6, <2>7
<1> QED
  BY <1>1, <1>2

\* A new game.
LEMMA NewGameKeepsInv ==
  ASSUME Inv, NewGame \/ AskRoll \/ RollsDone
  PROVE  Inv'
<1> USE DEF Inv
<1>1. CASE NewGame
  <2>1. pc = "init" /\ players # {}
    BY <1>1 DEF NewGame, Leading, Boarding
  <2>2. FirstOf(players) \in players
    BY <2>1, PlayersAreNat, FirstOfIsMember
  <2>3. FirstOf(players) # NoLeader
    BY <2>2, PlayersAreNat
  <2>4. Broadcast(players, FirstOf(players), "rolls")
    BY <1>1 DEF NewGame
  <2>5. /\ Moves
        /\ \/ GoesOn("rolls") /\ players' # {} /\ leader' # NoLeader
           \/ \E e \in BroadcastResults \ {"sent"} : Throws(e)
    BY <2>2, <2>3, <2>4, BroadcastMoves
  <2>6. Steps
    BY <1>1, <2>1, <2>5 DEF NewGame, Steps, TypeOK, Places, scriptVars
  <2>7. CASE GoesOn("rolls") /\ players' # {} /\ leader' # NoLeader
    <3>1. TypeOK' /\ Boarding'
      BY <2>6, <2>7
         DEF Steps, TypeOK, Boarding, Moves, GoesOn, Places, Unchanged,
             lobbyVars
    <3>2. Leading'
      BY <1>1, <2>1, <2>6, <2>7
         DEF NewGame, Leading, LedPlaces, Steps, Moves, GoesOn, scriptVars
    <3>3. Restoring' /\ Ending'
      BY <1>1, <2>1, <2>6, <2>7
         DEF NewGame, Restoring, RestoredPlaces, Ending, GoesOn, Steps,
             Unchanged, ParametersErrors
    <3> QED
      BY <3>1, <3>2, <3>3
  <2>8. CASE \E e \in BroadcastResults \ {"sent"} : Throws(e)
    BY <2>6, <2>8, ThrowsKeepsInv
       DEF Exceptions, RequestResults, BroadcastResults, ParametersErrors
  <2> QED
    BY <2>5, <2>7, <2>8
<1>2. CASE AskRoll
  <2>1. pc = "rolls" /\ leader \in players \cup {NoLeader} /\ Ask("rolls")
    BY <1>2 DEF AskRoll, Leading
  <2>2. /\ Moves
        /\ \/ GoesOn("rolls") /\ leader' # NoLeader
           \/ \E e \in RequestResults \ {"sent"} : Throws(e)
    BY <2>1, AskMoves
  <2>3. Steps
    BY <1>2, <2>1, <2>2 DEF AskRoll, Steps, TypeOK, Places, scriptVars
  <2>4. CASE GoesOn("rolls") /\ leader' # NoLeader
    <3>1. TypeOK' /\ Boarding'
      BY <2>1, <2>3, <2>4
         DEF Steps, TypeOK, Boarding, Moves, GoesOn, Places, Unchanged,
             lobbyVars
    <3>2. Leading'
      BY <1>2, <2>1, <2>3, <2>4
         DEF AskRoll, Leading, LedPlaces, Steps, Moves, GoesOn, scriptVars
    <3>3. Restoring' /\ Ending'
      BY <2>1, <2>3, <2>4
         DEF Restoring, RestoredPlaces, Ending, GoesOn, Steps, Unchanged
    <3> QED
      BY <3>1, <3>2, <3>3
  <2>5. CASE \E e \in RequestResults \ {"sent"} : Throws(e)
    BY <2>3, <2>5, ThrowsKeepsInv
       DEF Exceptions, RequestResults, BroadcastResults, ParametersErrors
  <2> QED
    BY <2>2, <2>4, <2>5
<1>3. CASE RollsDone
  <2> USE <1>3
         DEF RollsDone, Unchanged, lobbyVars, sessionVars, scriptVars, GoesOn
  <2>1. TypeOK' /\ Boarding'
    BY DEF TypeOK, Boarding, Places
  <2>2. Leading'
    BY DEF Leading, LedPlaces
  <2>3. Restoring' /\ Ending'
    BY DEF Restoring, RestoredPlaces, Ending
  <2> QED
    BY <2>1, <2>2, <2>3
<1> QED
  BY <1>1, <1>2, <1>3

\* A game restored from a checkpoint.
LEMMA LoadKeepsInv ==
  ASSUME Inv, LoadCheckpoint \/ SendSavedStat \/ EntrantsRefused
  PROVE  Inv'
<1> USE DEF Inv
<1>1. CASE LoadCheckpoint
  <2> USE <1>1 DEF LoadCheckpoint, Unchanged, lobbyVars, sessionVars,
                   scriptVars, GoesOn, Throws
  <2>1. TypeOK' /\ Boarding'
    BY DEF TypeOK, Boarding, Places, Exceptions, ParametersErrors
  <2>2. Leading'
    BY DEF Leading, LedPlaces
  <2>3. Restoring' /\ Ending'
    BY DEF Restoring, RestoredPlaces, Ending, Leading, ParametersErrors
  <2> QED
    BY <2>1, <2>2, <2>3
<1>2. CASE SendSavedStat
  <2>1. /\ pc = "load" /\ leader = NoLeader
        /\ Broadcast(players, leader, "load")
    BY <1>2 DEF SendSavedStat, Leading
  <2>2. /\ Moves
        /\ \/ GoesOn("load") /\ players' = players /\ leader' = NoLeader
           \/ \E e \in BroadcastResults \ {"sent"} : Throws(e)
    BY <2>1, BroadcastMoves, Zenon
  <2>3. Steps
    BY <1>2, <2>1, <2>2 DEF SendSavedStat, Steps, TypeOK, Places, scriptVars
  <2>4. CASE GoesOn("load") /\ players' = players /\ leader' = NoLeader
    BY <1>2, <2>1, <2>4
       DEF SendSavedStat, Unchanged, lobbyVars, scriptVars, GoesOn,
           TypeOK, Boarding, Leading, LedPlaces, Restoring, RestoredPlaces,
           Ending
  <2>5. CASE \E e \in BroadcastResults \ {"sent"} : Throws(e)
    BY <2>3, <2>5, ThrowsKeepsInv
       DEF Exceptions, RequestResults, BroadcastResults, ParametersErrors
  <2> QED
    BY <2>2, <2>4, <2>5
<1>3. CASE EntrantsRefused
  <2> USE <1>3 DEF EntrantsRefused, Unchanged, lobbyVars, sessionVars,
                   scriptVars, Throws
  <2>1. TypeOK' /\ Boarding'
    BY DEF TypeOK, Boarding, Places, Exceptions, ParametersErrors
  <2>2. Leading'
    BY DEF Leading, LedPlaces
  <2>3. Restoring' /\ Ending'
    BY DEF Restoring, RestoredPlaces, Ending, Leading, ParametersErrors
  <2> QED
    BY <2>1, <2>2, <2>3
<1> QED
  BY <1>1, <1>2, <1>3

\* The players saved are back, with or without the leader who saved.
LEMMA RestoreKeepsInv ==
  ASSUME Inv, Restore
  PROVE  Inv'
<1> USE DEF Inv
<1>1. /\ pc = "load" /\ players = boarded /\ leader = NoLeader
      /\ chosen = NoLeader /\ saved # {} /\ players # {}
      /\ boarded \subseteq saved /\ (missing \/ boarded = saved)
  BY DEF Restore, Leading, Restoring, Boarding, EntrantsAccepted
<1>2. /\ alive' \subseteq boarded /\ alive' \subseteq game.living
      /\ UNCHANGED <<running, pending, chosen>> /\ Unchanged
  BY <1>1 DEF Restore, ComeBack, scriptVars
<1>3. CASE Throws("NoPlayerAlive") /\ UNCHANGED <<players, leader>>
  BY <1>1, <1>2, <1>3
     DEF Throws, Unchanged, lobbyVars, TypeOK, Boarding, Leading, LedPlaces,
         Restoring, RestoredPlaces, Ending, Places, Exceptions,
         ParametersErrors
<1>4. ASSUME players' # {}, Moves, GoesOn("vote")
      PROVE  Inv'
  BY <1>1, <1>2, <1>4
     DEF GoesOn, Moves, Unchanged, lobbyVars, TypeOK, Boarding, Leading,
         LedPlaces, Restoring, RestoredPlaces, Ending, Places
<1>5. CASE game.boss \in players /\ Broadcast(players, game.boss, "vote")
  <2>1. /\ Moves
        /\ \/ GoesOn("vote") /\ players' # {}
           \/ \E e \in BroadcastResults \ {"sent"} : Throws(e)
    BY <1>5, BroadcastMoves
  <2>2. CASE \E e \in BroadcastResults \ {"sent"} : Throws(e)
    <3>1. TypeOK'
      BY <1>1, <1>2, <2>1, <2>2
         DEF Throws, Moves, Unchanged, lobbyVars, TypeOK, Places, Exceptions,
             RequestResults
    <3>2. Boarding' /\ Leading'
      BY <1>1, <1>2, <2>1, <2>2
         DEF Throws, Moves, Unchanged, lobbyVars, TypeOK, Boarding, Leading,
             LedPlaces
    <3>3. Restoring' /\ Ending'
      BY <1>1, <1>2, <2>2
         DEF Throws, Unchanged, Restoring, RestoredPlaces, Ending,
             ParametersErrors, BroadcastResults
    <3> QED
      BY <3>1, <3>2, <3>3
  <2> QED
    BY <1>4, <2>1, <2>2
<1>6. CASE GoesOn("vote") /\ UNCHANGED <<players, leader>>
  BY <1>1, <1>4, <1>6 DEF Moves
<1> QED
  BY <1>3, <1>5, <1>6 DEF Restore

\* Its leader is known, or chosen.
LEMMA LeaderKnownKeepsInv ==
  ASSUME Inv, LeaderKnown
  PROVE  Inv'
<1> USE DEF Inv
<1>1. /\ pc = "vote" /\ chosen = NoLeader
      /\ players # {} /\ leader \in players \cup {NoLeader}
      /\ UNCHANGED <<alive, running, pending, chosen>> /\ Unchanged
  BY DEF LeaderKnown, Leading, scriptVars
<1>2. FirstOf(players) \in players /\ FirstOf(players) # NoLeader
  BY <1>1, PlayersAreNat, FirstOfIsMember
<1>3. \/ /\ Moves /\ leader' # NoLeader
         /\ GoesOn("cache")
      \/ Moves /\ \E e \in BroadcastResults \ {"sent"} : Throws(e)
  <2>1. CASE Led /\ GoesOn("cache") /\ UNCHANGED <<players, leader>>
    BY <1>1, <2>1 DEF Led, Moves
  <2>2. CASE Broadcast(players, FirstOf(players), "cache")
    BY <1>2, <2>2, BroadcastMoves
  <2> QED
    BY <2>1, <2>2 DEF LeaderKnown
<1>4. Steps
  BY <1>1, <1>3 DEF Steps, TypeOK, Places
<1>5. CASE leader' # NoLeader /\ GoesOn("cache")
  BY <1>1, <1>4, <1>5, PlayedKeepsInv DEF RestoredPlaces
<1>6. CASE \E e \in BroadcastResults \ {"sent"} : Throws(e)
  BY <1>4, <1>6, ThrowsKeepsInv
     DEF Exceptions, RequestResults, BroadcastResults, ParametersErrors
<1> QED
  BY <1>3, <1>5, <1>6

\* The players vote, and who wins leads.
LEMMA VoteKeepsInv ==
  ASSUME Inv, FirstVote \/ SceneVotes
  PROVE  Inv'
<1>1. PICK next \in {"cache", "scene"} :
        /\ AskVote(next) /\ chosen = NoLeader
        /\ pc \in {"vote", "scene"}
  BY DEF FirstVote, SceneVotes, InScene
<1>2. /\ leader \in players \cup {NoLeader} /\ players \subseteq Ids
      /\ Unchanged /\ UNCHANGED <<alive, running, pending>>
  BY <1>1 DEF AskVote, Inv, Leading, TypeOK
<1>3. /\ Moves
      /\ \/ GoesOn(next) /\ leader' # NoLeader /\ chosen' = chosen
         \/ GoesOn(pc) /\ leader' # NoLeader /\ chosen' \in players'
         \/ GoesOn("undefined") /\ chosen' \in players
         \/ GoesOn("end") /\ leader' # NoLeader /\ chosen' = chosen
         \/ /\ chosen' = chosen
            /\ \E e \in RequestResults \ {"sent"} : Throws(e)
  BY <1>1, <1>2, VoteMoves DEF Inv
<1>4. Steps
  BY <1>1, <1>2, <1>3 DEF Steps, Inv, TypeOK, Places, Moves
<1>5. CASE /\ leader' # NoLeader
           /\ \/ (GoesOn(next) \/ GoesOn("end")) /\ chosen' = chosen
              \/ GoesOn(pc) /\ chosen' \in players'
  BY <1>1, <1>4, <1>5, PlayedKeepsInv DEF RestoredPlaces
<1>6. CASE GoesOn("undefined")
  BY <1>1, <1>4, <1>6, UndefinedKeepsInv DEF RestoredPlaces
<1>7. CASE \E e \in RequestResults \ {"sent"} : Throws(e)
  BY <1>4, <1>7, ThrowsKeepsInv
     DEF Exceptions, RequestResults, BroadcastResults, ParametersErrors
<1> QED
  BY <1>3, <1>5, <1>6, <1>7

LEMMA ElectKeepsInv ==
  ASSUME Inv, Elect
  PROVE  Inv'
<1>1. chosen \in players
  BY DEF Elect, Inv, Leading
<1>2. PICK next \in {"cache", "scene"} : Broadcast(players, chosen, next)
  BY DEF Elect
<1> QED
  BY <1>1, <1>2, MessageKeepsInv DEF Elect, RestoredPlaces, Inv, TypeOK

\* The players get their states, then the global statistics.
LEMMA UpdatesKeepInv ==
  ASSUME Inv, BeginUpdates \/ UpdatesDone \/ SendUpdate
  PROVE  Inv'
<1>1. /\ leader \in players /\ players \subseteq Ids /\ chosen = NoLeader
      /\ leader # NoLeader
      /\ pc \in RestoredPlaces
      /\ Unchanged /\ UNCHANGED <<alive, running, chosen>>
  BY DEF BeginUpdates, UpdatesDone, SendUpdate, Inv, Leading, LedPlaces,
         RestoredPlaces, TypeOK, sessionVars, scriptVars
<1>2. CASE BeginUpdates \/ UpdatesDone
  <2>1. /\ UNCHANGED <<players, leader>>
        /\ GoesOn("update") \/ GoesOn("stats")
        /\ pending' \subseteq Ids
    BY <1>1, <1>2 DEF BeginUpdates, UpdatesDone, sessionVars, scriptVars, Inv,
                      TypeOK
  <2>2. Steps
    BY <1>1, <2>1 DEF Steps, Moves, Inv, TypeOK, RestoredPlaces, Places
  <2> QED
    BY <1>1, <2>1, <2>2, PlayedKeepsInv DEF RestoredPlaces
<1>3. CASE SendUpdate
  <2>1. PICK o \in BroadcastOutcomes(players, players, leader, dead) :
          /\ players' = o.players /\ leader' = o.leader
          /\ pending' = (pending \ {FirstOf(pending)}) \cap players'
          /\ \/ o.result # "sent" /\ Throws(o.result)
             \/ o.result = "sent" /\ GoesOn("update")
             \/ /\ o.result = "sent" /\ FirstOf(pending) \notin players'
                /\ GoesOn("undefined")
    BY <1>3, Zenon DEF SendUpdate
  <2>2. Regular(o, players) /\ players \ o.players \subseteq dead
    BY <1>1, PlayersAreNat, OutcomeFacts, OutcomeLosses DEF Inv
  <2>3. o.result = "sent" => o.leader \in o.players
    BY <1>1, PlayersAreNat, SentKeepsLeader DEF Inv
  <2>4. Steps
    BY <1>1, <2>1, <2>2
       DEF Steps, Moves, Regular, Inv, TypeOK, RestoredPlaces, Places
  <2>5. CASE o.result # "sent"
    BY <2>1, <2>2, <2>4, <2>5, ThrowsKeepsInv
       DEF Regular, Exceptions, RequestResults, BroadcastResults,
           ParametersErrors
  <2>6. CASE o.result = "sent" /\ GoesOn("update")
    <3>1. leader' # NoLeader
      BY <1>1, <2>1, <2>2, <2>3, <2>6, PlayersAreNat DEF Regular, Inv
    <3> QED
      BY <1>1, <2>4, <2>6, <3>1, PlayedKeepsInv DEF RestoredPlaces
  <2>7. CASE GoesOn("undefined")
    BY <1>1, <2>4, <2>7, UndefinedKeepsInv
  <2> QED
    BY <2>1, <2>5, <2>6, <2>7
<1> QED
  BY <1>2, <1>3

\* A step that leaves the players and their leader as they are.
LEMMA QuietKeepsInv ==
  ASSUME Inv, pc \in RestoredPlaces \cap LedPlaces,
         Unchanged, UNCHANGED <<sessionVars, running, pending>>,
         NEW next \in RestoredPlaces \cup {"end"}, chosen' = NoLeader,
         GoesOn(next)
  PROVE  Inv'
<1>1. leader' # NoLeader
  BY DEF Inv, Leading, sessionVars
<1>2. Steps
  BY DEF Steps, Moves, Inv, TypeOK, Leading, sessionVars, RestoredPlaces,
         Places
<1> QED
  BY <1>1, <1>2, PlayedKeepsInv

LEMMA ErrorKeepsInv ==
  ASSUME Inv, pc \in RestoredPlaces,
         Unchanged, UNCHANGED <<sessionVars, running, scriptVars>>,
         Throws("error")
  PROVE  Inv'
<1>1. Steps
  BY DEF Steps, Moves, Inv, TypeOK, Leading, sessionVars, scriptVars,
         RestoredPlaces, Places
<1> QED
  BY <1>1, ThrowsKeepsInv
     DEF Exceptions, ParametersErrors

LEMMA StatsKeepInv ==
  ASSUME Inv, SendGlobalStat \/ PlayScene
  PROVE  Inv'
<1>1. /\ leader \in players /\ chosen = NoLeader /\ chosen' = NoLeader
      /\ pc \in RestoredPlaces \cap LedPlaces
      /\ Unchanged /\ UNCHANGED <<alive, running, scriptVars>>
  BY DEF SendGlobalStat, PlayScene, Inv, Leading, LedPlaces, RestoredPlaces,
         scriptVars
<1>2. \/ \E next \in {"stats", "scene"} : Broadcast(players, leader, next)
      \/ /\ UNCHANGED <<players, leader>>
         /\ \/ Throws("error")
            \/ GoesOn("scenes") \/ GoesOn("end")
  BY DEF SendGlobalStat, PlayScene
<1>3. CASE \E next \in {"stats", "scene"} : Broadcast(players, leader, next)
  BY <1>1, <1>3, MessageKeepsInv
     DEF RestoredPlaces, Inv, TypeOK, scriptVars
<1>4. CASE UNCHANGED <<players, leader>> /\ Throws("error")
  BY <1>1, <1>4, ErrorKeepsInv DEF sessionVars
<1>5. CASE /\ UNCHANGED <<players, leader>>
           /\ GoesOn("scenes") \/ GoesOn("end")
  BY <1>1, <1>5, QuietKeepsInv DEF RestoredPlaces, sessionVars, scriptVars
<1> QED
  BY <1>2, <1>3, <1>4, <1>5

\* The steps of a scene.
LEMMA ScriptKeepsInv ==
  ASSUME Inv, Script
  PROVE  Inv'
<1>0. /\ pc = "scene" /\ chosen = NoLeader
      /\ pc \in RestoredPlaces \cap LedPlaces
      /\ leader \in players
  BY DEF Script, SceneSends, SceneAsks, SceneVotes, SceneSwitchesLeader, Die,
         GameEnds, SceneFails, SceneOver, InScene, Inv, Leading, LedPlaces,
         RestoredPlaces
<1>1. CASE SceneSends
  <2>1. PICK to : Broadcast(to, leader, "scene")
    BY <1>1 DEF SceneSends
  <2> QED
    BY <1>0, <1>1, <2>1, MessageKeepsInv
       DEF SceneSends, RestoredPlaces, Inv, TypeOK, scriptVars
<1>2. CASE SceneAsks
  BY <1>0, <1>2, QuestionKeepsInv DEF SceneAsks, RestoredPlaces, Inv, TypeOK
<1>3. CASE SceneVotes
  BY <1>3, VoteKeepsInv
<1>4. CASE SceneSwitchesLeader
  <2>1. PICK p \in players : Broadcast(players, p, "scene")
    BY <1>4 DEF SceneSwitchesLeader
  <2> QED
    BY <1>0, <1>4, <2>1, MessageKeepsInv
       DEF SceneSwitchesLeader, RestoredPlaces, Inv, TypeOK, scriptVars
<1>5. CASE \E p \in Ids : Die(p)
  <2>1. PICK p \in Ids : Die(p)
    BY <1>5
  <2>2. Broadcast(players, leader, "died")
    BY <2>1 DEF Die
  <2> QED
    BY <1>0, <2>1, <2>2, MessageKeepsInv DEF Die, RestoredPlaces, Inv, TypeOK
<1>6. CASE GameEnds
  BY <1>0, <1>6, MessageKeepsInv
     DEF GameEnds, RestoredPlaces, Inv, TypeOK, scriptVars
<1>7. CASE SceneFails
  BY <1>0, <1>7, ErrorKeepsInv DEF SceneFails
<1>8. CASE SceneOver
  BY <1>0, <1>8, QuietKeepsInv DEF SceneOver, RestoredPlaces, scriptVars
<1> QED
  BY <1>1, <1>2, <1>3, <1>4, <1>5, <1>6, <1>7, <1>8, Zenon DEF Script

\* What follows a death.
LEMMA DeathKeepsInv ==
  ASSUME Inv, AfterDeath \/ GameOver
  PROVE  Inv'
<1>1. /\ pc \in RestoredPlaces \cap LedPlaces /\ Unchanged
      /\ leader \in players
      /\ UNCHANGED <<alive, pending>> /\ chosen' = NoLeader
      /\ running \in BOOLEAN
  BY DEF AfterDeath, GameOver, Inv, TypeOK, Leading, LedPlaces,
         RestoredPlaces, scriptVars
<1>2. CASE AfterDeath
  <2>1. CASE Broadcast(players, leader, "confirm")
    BY <1>1, <1>2, <2>1, MessageKeepsInv
       DEF AfterDeath, RestoredPlaces, Inv, TypeOK
  <2>2. CASE /\ players \cap alive # {}
             /\ Broadcast(players, FirstOf(players \cap alive), "scene")
    <3>1. FirstOf(players \cap alive) \in players
      BY <2>2, PlayersAreNat, FirstOfIsMember DEF Inv
    <3> QED
      BY <1>1, <1>2, <2>2, <3>1, MessageKeepsInv
         DEF AfterDeath, RestoredPlaces, Inv, TypeOK
  <2>3. CASE GoesOn("scene") /\ UNCHANGED <<players, leader>>
    BY <1>1, <1>2, <2>3, QuietKeepsInv
       DEF AfterDeath, RestoredPlaces, sessionVars
  <2> QED
    BY <1>2, <2>1, <2>2, <2>3 DEF AfterDeath
<1>3. CASE GameOver
  <2>1. running' \in BOOLEAN /\ chosen = NoLeader /\ Ask("scene")
    BY <1>1, <1>3 DEF GameOver, scriptVars
  <2> QED
    BY <1>1, <1>3, <2>1, QuestionKeepsInv DEF GameOver, RestoredPlaces
<1> QED
  BY <1>2, <1>3

\* A connection breaks, or the session is stopped.
LEMMA EnvironmentKeepsInv ==
  ASSUME Inv, Environment
  PROVE  Inv'
<1> USE DEF Inv
<1>1. CASE StopSession
  BY <1>1 DEF StopSession, callVars, sessionVars, scriptVars, TypeOK, Boarding,
              Leading, Restoring, Ending
<1>2. ASSUME NEW p \in Ids, Drop(p)
      PROVE  Inv'
  <2> USE <1>2 DEF Drop, lobbyVars, sessionVars, scriptVars
  <2>1. TypeOK' /\ Boarding'
    BY DEF TypeOK, Boarding
  <2>2. Leading' /\ Restoring' /\ Ending'
    BY DEF Leading, Restoring, Ending
  <2> QED
    BY <2>1, <2>2
<1> QED
  BY <1>1, <1>2 DEF Environment

-----------------------------------------------------------------------------
(* How a session ends.                                                     *)

\* The end of a session does to the lobby what SessionCall says.
LEMMA EndIsPromised ==
  ASSUME Inv, End
  PROVE  /\ result = "none"
         /\ result' # "none"
         /\ [ result |-> result', entrants |-> entrants',
              sockets |-> sockets' ]
              \in SessionOutcomes(entrants, dead, saved, missing)
         /\ players' \subseteq players /\ players \ players' \subseteq dead
         /\ leader' \in players' \cup {NoLeader}
<1> DEFINE e == [ result |-> result', entrants |-> entrants',
                  sockets |-> sockets' ]
<1> USE DEF Inv
<1>1. /\ pc = "end" /\ result = "none" /\ entrants = boarded
      /\ boarded # {} /\ sockets = {} /\ boarded \ players \subseteq dead
      /\ leader \in players \cup {NoLeader} /\ players \subseteq boarded
      /\ thrown \in Exceptions \cup {"none"}
  BY DEF End, Boarding, Leading, TypeOK
<1>2. Result \in SessionResults /\ (Result = "Ok" => thrown = "none")
  BY DEF Result, SessionResults, ParametersErrors
<1>3. Result \in ParametersErrors => Result = thrown
  BY DEF Result, ParametersErrors
<1>4. CASE players = {} /\ entrants' = {} /\ sockets' = {} /\ Stopped
           /\ UNCHANGED <<players, leader>>
  <2>1. result' = "Crashed"
    BY <1>1, <1>2, <1>4 DEF Ending, Stopped, Result
  <2>2. e \in [ result : SessionResults, entrants : SUBSET entrants,
                sockets : SUBSET entrants ]
    BY <1>4, <2>1 DEF SessionResults
  <2>3. e \in SessionOutcomes(entrants, dead, saved, missing)
    BY <1>1, <1>4, <2>1, <2>2 DEF SessionOutcomes
  <2> QED
    BY <1>1, <1>4, <2>1, <2>3
<1>5. CASE /\ players # {}
           /\ \E o \in BroadcastOutcomes(players, players, leader, dead) :
                /\ players' = o.players /\ leader' = o.leader
                /\ \/ /\ o.result = "sent"
                      /\ entrants' = HandedBack
                      /\ sockets' = entrants \cap players'
                      /\ Stopped
                   \/ /\ o.result # "sent"
                      /\ result' = "Crashed"
                      /\ UNCHANGED <<entrants, sockets, running>>
  <2>1. PICK o \in BroadcastOutcomes(players, players, leader, dead) :
          /\ players' = o.players /\ leader' = o.leader
          /\ \/ /\ o.result = "sent"
                /\ entrants' = HandedBack
                /\ sockets' = entrants \cap players'
                /\ Stopped
             \/ /\ o.result # "sent"
                /\ result' = "Crashed"
                /\ UNCHANGED <<entrants, sockets, running>>
    BY <1>5, Zenon
  <2>2. Regular(o, players)
    BY <1>1, PlayersAreNat, OutcomeFacts, Zenon
  <2>3. /\ players \ o.players \subseteq dead
        /\ o.result = "sent" => o.players # {}
        /\ o.result = "sent" /\ leader = NoLeader => o.players = players
        /\ o.result # "sent" => players \ o.players # {}
    BY <1>1, <1>5, PlayersAreNat, OutcomeLosses
  <2>4. CASE o.result = "sent" /\ entrants' = HandedBack
             /\ sockets' = entrants \cap players' /\ Stopped
    <3>1. entrants' = players' /\ sockets' = players' /\ result' = Result
      BY <1>1, <2>1, <2>2, <2>4 DEF HandedBack, Stopped, Regular
    <3>2. e \in [ result : SessionResults, entrants : SUBSET entrants,
                  sockets : SUBSET entrants ]
      BY <1>1, <1>2, <2>1, <2>2, <3>1 DEF Regular
    <3>3. CASE Result \in ParametersErrors
      <4>1. /\ players = boarded /\ leader = NoLeader /\ saved # {}
            /\ thrown = "UnknownPlayer" => ~(boarded \subseteq saved)
            /\ thrown = "LessMembers" =>
                 boarded \subseteq saved /\ boarded # saved /\ ~missing
            /\ thrown = "NoPlayerAlive" =>
                 boarded \subseteq saved /\ (boarded = saved \/ missing)
        BY <1>1, <1>3, <3>3 DEF Ending
      <4>2. entrants' = entrants /\ sockets' = entrants
        BY <1>1, <2>1, <2>3, <2>4, <3>1, <4>1
      <4>3. /\ e.result = thrown /\ e.result \in ParametersErrors
            /\ e.entrants = entrants /\ e.sockets = entrants
        BY <1>3, <3>1, <3>3, <4>2
      <4>4. e \in SessionOutcomes(entrants, dead, saved, missing)
        BY <1>1, <3>2, <4>1, <4>3, Zenon DEF SessionOutcomes
      <4> QED
        BY <1>1, <2>1, <2>2, <2>3, <3>1, <3>3, <4>4
           DEF Regular, ParametersErrors
    <3>4. CASE Result \in {"Ok", "Crashed"}
      BY <1>1, <2>1, <2>2, <2>3, <2>4, <3>1, <3>2, <3>4
         DEF SessionOutcomes, Regular
    <3>5. Result # "none"
      BY <1>2 DEF SessionResults, ParametersErrors
    <3> QED
      BY <1>1, <1>2, <2>1, <2>2, <2>3, <3>1, <3>3, <3>4, <3>5
         DEF SessionResults, Regular
  <2>5. CASE o.result # "sent" /\ result' = "Crashed"
             /\ UNCHANGED <<entrants, sockets, running>>
    <3>1. e \in [ result : SessionResults, entrants : SUBSET entrants,
                  sockets : SUBSET entrants ]
      BY <1>1, <2>5 DEF SessionResults
    <3>2. e \in SessionOutcomes(entrants, dead, saved, missing)
      BY <1>1, <2>3, <2>5, <3>1 DEF SessionOutcomes
    <3> QED
      BY <1>1, <2>1, <2>2, <2>3, <2>5, <3>2 DEF Regular
  <2> QED
    BY <2>1, <2>4, <2>5
<1> QED
  BY <1>4, <1>5 DEF End

LEMMA EndKeepsInv ==
  ASSUME Inv, End
  PROVE  Inv'
<1> USE DEF Inv
<1>1. /\ pc = "end" /\ pc' = "over" /\ result' # "none"
      /\ entrants = boarded /\ boarded \ players \subseteq dead
      /\ players' \subseteq players /\ players \ players' \subseteq dead
      /\ leader' \in players' \cup {NoLeader}
      /\ UNCHANGED <<dead, saved, missing, game, boarded, alive, thrown,
                     scriptVars>>
  BY EndIsPromised DEF End, Boarding
<1>2. /\ result' \in SessionResults
      /\ entrants' \subseteq entrants /\ sockets' \subseteq entrants'
  BY EndIsPromised DEF SessionOutcomes
<1>3. running' \in BOOLEAN
  BY DEF End, Stopped, TypeOK
<1>4. TypeOK'
  BY <1>1, <1>2, <1>3 DEF TypeOK, Places, scriptVars
<1>5. Boarding' /\ Leading' /\ Restoring' /\ Ending'
  BY <1>1 DEF Boarding, Leading, Restoring, Ending, LedPlaces, RestoredPlaces
<1> QED
  BY <1>4, <1>5

-----------------------------------------------------------------------------
LEMMA InvInductive ==
  ASSUME Inv, [Next]_vars
  PROVE  Inv'
<1>1. CASE UNCHANGED vars
  BY <1>1
     DEF vars, callVars, sessionVars, scriptVars, Inv, TypeOK, Boarding,
         Leading, Restoring, Ending
<1>2. CASE SessionThread
  BY <1>2, StartKeepsInv, NewGameKeepsInv, LoadKeepsInv, RestoreKeepsInv,
     LeaderKnownKeepsInv, VoteKeepsInv, ElectKeepsInv, UpdatesKeepInv,
     StatsKeepInv, DeathKeepsInv, EndKeepsInv, Zenon
     DEF SessionThread
<1>3. CASE Script
  BY <1>3, ScriptKeepsInv
<1>4. CASE Environment
  BY <1>4, EnvironmentKeepsInv
<1>5. CASE Over
  BY <1>1, <1>5 DEF Over
<1> QED
  BY <1>1, <1>2, <1>3, <1>4, <1>5 DEF Next

\* The invariant holds of every session.
THEOREM SessionInvariant == Spec => []Inv
<1>1. Init => Inv
  <2> SUFFICES ASSUME Init PROVE Inv
    OBVIOUS
  <2>1. TypeOK /\ Boarding
    BY DEF Init, TypeOK, Boarding, Places
  <2>2. Leading /\ Restoring /\ Ending
    BY DEF Init, Leading, Restoring, Ending, LedPlaces, RestoredPlaces
  <2> QED
    BY <2>1, <2>2 DEF Inv
<1>2. Inv /\ [Next]_vars => Inv'
  BY InvInductive
<1> QED
  BY <1>1, <1>2, PTL DEF Spec

\* The variables have their types (rbo/Session.cpp).
THEOREM TypesOK == Spec => []TypeOK
<1>1. Inv => TypeOK
  BY DEF Inv
<1> QED
  BY <1>1, SessionInvariant, PTL

\* Wherever a game is played one of its players leads it, for any players and
\* whatever connections break.
THEOREM AlwaysLed == Spec => []LeaderWhilePlaying
<1>1. Inv => LeaderWhilePlaying
  BY DEF Inv, Leading, LedPlaces, LeaderWhilePlaying
<1> QED
  BY <1>1, SessionInvariant, PTL

\* A restored game is played by players it was saved with, all of them unless
\* some may be missing or were lost on the way, and only those saved alive are.
THEOREM AlwaysRestored == Spec => []RestoredWithItsPlayers
<1>1. Inv => RestoredWithItsPlayers
  BY DEF Inv, Restoring, RestoredPlaces, Boarding, RestoredWithItsPlayers
<1> QED
  BY <1>1, SessionInvariant, PTL

-----------------------------------------------------------------------------
(* What the lobby sees of a session.                                       *)

LEMMA SameOutcomes ==
  ASSUME NEW members, NEW broken, NEW ids, NEW less
  PROVE  Promise!SessionOutcomes(members, broken, ids, less)
           = SessionOutcomes(members, broken, ids, less)
  BY DEF Promise!SessionOutcomes, SessionOutcomes, Promise!SessionResults,
         SessionResults, Promise!ParametersErrors, ParametersErrors

\* Each step of a session that is not its end is a broken connection for the
\* lobby, or nothing.
LEMMA StepIsPromised ==
  ASSUME Inv, [Next]_vars
  PROVE  [Promise!CNext]_(Promise!callVars)
<1>1. CASE UNCHANGED vars
  BY <1>1 DEF vars, callVars, Promise!callVars
<1>2. ASSUME UNCHANGED <<entrants, dead, saved, missing, result>>,
             result = "none"
      PROVE  UNCHANGED Promise!callVars
  BY <1>2 DEF Promise!callVars
<1>3. pc # "over" => result = "none"
  BY DEF Inv, Boarding
<1>4. CASE End
  <2>1. [ result |-> result', entrants |-> entrants', sockets |-> sockets' ]
          \in Promise!SessionOutcomes(entrants, dead, saved, missing)
    BY <1>4, EndIsPromised, SameOutcomes
  <2>2. /\ result = "none" /\ result' # "none"
        /\ UNCHANGED <<dead, saved, missing>>
    BY <1>4, EndIsPromised DEF End
  <2>3. Promise!CStart
    BY <2>1, <2>2 DEF Promise!CStart
  <2> QED
    BY <2>3 DEF Promise!CNext
<1>5. CASE Begin
  <2>1. PICK o \in BroadcastOutcomes(players, players, leader, dead) :
          \/ o.result = "sent" /\ UNCHANGED result
          \/ o.result # "sent" /\ result' = "Crashed"
    BY <1>5, Zenon DEF Begin
  <2>2. /\ pc = "begin" /\ players = boarded /\ entrants = boarded
        /\ players # {} /\ result = "none" /\ sockets = {}
        /\ UNCHANGED <<entrants, sockets, dead, saved, missing>>
    BY <1>5, <1>3 DEF Begin, Inv, Leading, Boarding
  <2>3. CASE UNCHANGED result
    BY <1>2, <2>2, <2>3
  <2>4. CASE o.result # "sent" /\ result' = "Crashed"
    <3> DEFINE e == [ result |-> "Crashed", entrants |-> entrants,
                      sockets |-> {} ]
    <3>1. /\ players \ o.players # {}
          /\ players \ o.players \subseteq dead
      BY <2>2, <2>4, PlayersAreNat, OutcomeLosses DEF Inv
    <3>2. e \in [ result : SessionResults, entrants : SUBSET entrants,
                  sockets : SUBSET entrants ]
      BY DEF SessionResults
    <3>3. e \in SessionOutcomes(entrants, dead, saved, missing)
      BY <2>2, <3>1, <3>2 DEF SessionOutcomes
    <3>4. Promise!CStart
      BY <2>2, <2>4, <3>3, SameOutcomes DEF Promise!CStart
    <3> QED
      BY <3>4 DEF Promise!CNext
  <2> QED
    BY <2>1, <2>3, <2>4
<1>6. CASE Environment
  <2>1. CASE StopSession
    BY <1>2, <1>3, <1>6, <2>1 DEF StopSession, Going, callVars
  <2>2. ASSUME NEW p \in Ids, Drop(p)
        PROVE  Promise!CNext
    <3>1. result = "none"
      BY <1>3, <2>2 DEF Drop, Going
    <3>2. Promise!CDrop
      BY <2>2, <3>1 DEF Drop, Promise!CDrop, lobbyVars
    <3> QED
      BY <3>2 DEF Promise!CNext
  <2> QED
    BY <1>6, <2>1, <2>2 DEF Environment
<1>7. CASE Script
  BY <1>2, <1>3, <1>7
     DEF Script, SceneSends, SceneAsks, SceneVotes, SceneSwitchesLeader, Die,
         GameEnds, SceneFails, SceneOver, InScene, AskVote, Unchanged,
         lobbyVars
<1>8. CASE SessionThread /\ ~Begin /\ ~End
  <2>1. CASE Start
    BY <1>2, <1>3, <2>1 DEF Start
  <2>2. CASE \/ NewGame \/ LoadCheckpoint \/ SendSavedStat
             \/ EntrantsRefused \/ Restore \/ AskRoll \/ RollsDone
             \/ LeaderKnown
    BY <1>2, <1>3, <2>2
       DEF NewGame, LoadCheckpoint, SendSavedStat, EntrantsRefused, Restore,
           AskRoll, RollsDone, LeaderKnown, Unchanged, lobbyVars
  <2>3. CASE \/ FirstVote \/ Elect \/ BeginUpdates \/ SendUpdate
             \/ UpdatesDone \/ SendGlobalStat \/ PlayScene \/ AfterDeath
             \/ GameOver
    BY <1>2, <1>3, <2>3
       DEF FirstVote, Elect, BeginUpdates, SendUpdate, UpdatesDone,
           SendGlobalStat, PlayScene, AfterDeath, GameOver, AskVote,
           Unchanged, lobbyVars
  <2> QED
    BY <1>8, <2>1, <2>2, <2>3 DEF SessionThread
<1>9. CASE Over
  BY <1>1, <1>9 DEF Over
<1> QED
  BY <1>1, <1>4, <1>5, <1>6, <1>7, <1>8, <1>9 DEF Next

\* Whatever fails and wherever, a session gives back to the lobby the sockets
\* of exactly the entrants left, or all of the entrants without any socket:
\* every session implements SessionCall.
THEOREM SessionKeepsPromise == Spec => KeepsPromise
<1>1. Init => Promise!CInit
  BY DEF Init, Promise!CInit
<1>2. Inv /\ [Next]_vars => [Promise!CNext]_(Promise!callVars)
  BY StepIsPromised
<1> QED
  BY <1>1, <1>2, SessionInvariant, PTL DEF Spec, KeepsPromise, Promise!CSpec
=============================================================================
