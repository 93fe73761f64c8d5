----------------------------- MODULE Broadcast -----------------------------
(***************************************************************************)
(* A broadcast of Session, send by send: sendToAll, sendToAlivePlayers and *)
(* sendTo, disconnect and switchLeader (rbo/Session.cpp:38-71, 457-465,    *)
(* 652-695).  A failed send disconnects its player at once, which sends    *)
(* more messages to everyone before the interrupted loop goes on: the      *)
(* session thread's call stack is part of the state.                       *)
(***************************************************************************)
EXTENDS SessionBroadcast, Sequences

CONSTANT Players          \* ids the session may begin with

ASSUME PlayersAssumption == Players \subseteq Nat /\ NoLeader \notin Nat

VARIABLES
  players,    \* keys of Session::players_ and Session::connections_
  leader,     \* Session::leader_
  dead,       \* players whose connection is broken
  stack,      \* activations of the calls below, the innermost one first
  result,     \* "none" until the outermost call ends
  crashesTo,  \* crashesTo[p]: the crashes announced to p
  leaderTo,   \* leaderTo[p]: the leader p was told about last
  before      \* players, leader, addressees and message of the call

vars == <<players, leader, dead, stack, result, crashesTo, leaderTo, before>>

-----------------------------------------------------------------------------
(* Messages and activations.                                               *)

Text == [kind |-> "text"]                       \* what the caller sends
Crash(p) == [kind |-> "crash", id |-> p]        \* makeCrash
Switch(p) == [kind |-> "switch", id |-> p]      \* makeLeaderSwitch

\* A sending loop: the ids, of those it copied, that it has not reached.
Sending(ids, msg) == [call |-> "send", ids |-> ids, msg |-> msg]
\* disconnect, from the call of sendToAll that announces the crash.
Disconnecting(p) == [call |-> "disconnect", id |-> p]

Messages == {Text} \cup { Crash(p) : p \in Players }
                   \cup { Switch(p) : p \in Players }
Frames == [call : {"send"}, ids : SUBSET Players, msg : Messages]
          \cup [call : {"disconnect"}, id : Players]

TypeOK ==
  /\ players \subseteq Players
  /\ leader \in Players \cup {NoLeader}
  /\ dead \subseteq Players
  /\ stack \in Seq(Frames)
  /\ result \in BroadcastResults \cup {"none"}
  /\ crashesTo \in [Players -> SUBSET Players]
  /\ leaderTo \in [Players -> Players \cup {NoLeader}]
  /\ before \in [players : SUBSET Players, leader : Players \cup {NoLeader},
                 to : SUBSET Players, msg : Messages]

\* A broadcast is called on any set of players: by the game, with or without a
\* leader, to all of them, to those alive or to one; or by switchLeader, to
\* tell everyone about the leader it has just set.
Init ==
  /\ players \in (SUBSET Players) \ {{}}
  /\ leader \in players \cup {NoLeader}
  /\ dead \in SUBSET players
  /\ \E to \in SUBSET players, msg \in {Text, Switch(leader)} :
       /\ msg # Text => leader # NoLeader /\ to = players
       /\ stack = <<Sending(to, msg)>>
       /\ before = [players |-> players, leader |-> leader, to |-> to,
                    msg |-> msg]
       /\ leaderTo = [p \in Players |->
                        IF msg = Text THEN leader ELSE NoLeader]
  /\ result = "none"
  /\ crashesTo = [p \in Players |-> {}]

-----------------------------------------------------------------------------
Top == Head(stack)
Next1 == FirstOf(Top.ids)                      \* the loop's current id
AtSend == stack # <<>> /\ Top.call = "send" /\ Top.ids # {}
Advanced == <<[Top EXCEPT !.ids = @ \ {Next1}]>> \o Tail(stack)

\* A connection breaks while the calls are in progress.
Drop(p) ==
  /\ result = "none"
  /\ p \in players \ dead
  /\ dead' = dead \cup {p}
  /\ UNCHANGED <<players, leader, stack, result, crashesTo, leaderTo, before>>

\* trySend succeeds, as it may on a broken connection: the client, if it is
\* still there, gets the message.
Send ==
  /\ AtSend /\ Next1 \in players
  /\ stack' = Advanced
  /\ crashesTo' = IF Top.msg.kind = "crash"
                  THEN [crashesTo EXCEPT ![Next1] = @ \cup {Top.msg.id}]
                  ELSE crashesTo
  /\ leaderTo' = IF Top.msg.kind = "switch"
                 THEN [leaderTo EXCEPT ![Next1] = Top.msg.id]
                 ELSE leaderTo
  /\ UNCHANGED <<players, leader, dead, result, before>>

\* An exception unwinds every activation.
Throw(exception) == stack' = <<>> /\ result' = exception

\* A fault: a lost leader is replaced without a word.
SendFailsSilent ==
  LET left == players \ {Next1}
  IN  /\ AtSend /\ Next1 \in players \cap dead
      /\ players' = left
      /\ leader' = IF left = {} THEN leader
                   ELSE LeaderAfter(players, {Next1}, leader)
      /\ IF left = {} THEN Throw("nobody")
         ELSE /\ stack' = <<Disconnecting(Next1)>> \o Advanced
              /\ UNCHANGED result
      /\ UNCHANGED <<dead, crashesTo, leaderTo, before>>

\* A fault: a session of one player is given up.
SendFailsOneLeft ==
  LET p == Next1
      left == players \ {p}
      announce == <<Disconnecting(p)>> \o Advanced
  IN  /\ AtSend /\ p \in players \cap dead
      /\ players' = left
      /\ \/ /\ Cardinality(left) <= 1
            /\ Throw("nobody")
            /\ UNCHANGED leader
         \/ /\ Cardinality(left) > 1 /\ leader = NoLeader
            /\ Throw("uninitialized")
            /\ UNCHANGED leader
         \/ /\ Cardinality(left) > 1 /\ leader # NoLeader
            /\ leader' = LeaderAfter(players, {p}, leader)
            /\ stack' = IF leader = p
                        THEN <<Sending(left, Switch(leader'))>> \o announce
                        ELSE announce
            /\ UNCHANGED result
      /\ UNCHANGED <<dead, crashesTo, leaderTo, before>>

\* trySend fails: disconnect(id, true) removes the player, replaces it if it
\* led, and announces its crash.
SendFails ==
  LET p == Next1
      left == players \ {p}
      announce == <<Disconnecting(p)>> \o Advanced
  IN  /\ AtSend /\ p \in players \cap dead
      /\ players' = left
      /\ \/ /\ left = {}
            /\ Throw("nobody")
            /\ UNCHANGED leader
         \/ /\ left # {} /\ leader = NoLeader
            /\ Throw("uninitialized")
            /\ UNCHANGED leader
         \/ /\ left # {} /\ leader # NoLeader
            /\ leader' = LeaderAfter(players, {p}, leader)
            /\ stack' = IF leader = p
                        THEN <<Sending(left, Switch(leader'))>> \o announce
                        ELSE announce
            /\ UNCHANGED result
      /\ UNCHANGED <<dead, crashesTo, leaderTo, before>>

\* connection(id) of an id that a nested disconnection has removed: its
\* assertion fails or, without assertions, at() throws.
SendToRemoved ==
  /\ AtSend /\ Next1 \notin players
  /\ Throw("stale")
  /\ UNCHANGED <<players, leader, dead, crashesTo, leaderTo, before>>

\* A fault: the crash is announced to the addressees of the message only.
AnnounceToAddressees ==
  /\ stack # <<>> /\ Top.call = "disconnect"
  /\ stack' = <<Sending(players \cap before.to, Crash(Top.id))>> \o Tail(stack)
  /\ UNCHANGED <<players, leader, dead, result, crashesTo, leaderTo, before>>

\* disconnect calls sendToAll with the crash: its last statement.
AnnounceCrash ==
  /\ stack # <<>> /\ Top.call = "disconnect"
  /\ stack' = <<Sending(players, Crash(Top.id))>> \o Tail(stack)
  /\ UNCHANGED <<players, leader, dead, result, crashesTo, leaderTo, before>>

\* A sending loop ends and its caller goes on.
LoopEnds ==
  /\ stack # <<>> /\ Top.call = "send" /\ Top.ids = {}
  /\ stack' = Tail(stack)
  /\ result' = IF Tail(stack) = <<>> THEN "sent" ELSE result
  /\ UNCHANGED <<players, leader, dead, crashesTo, leaderTo, before>>

Done == result # "none" /\ UNCHANGED vars

SessionThread ==
  Send \/ SendFails \/ SendToRemoved \/ AnnounceCrash \/ LoopEnds

Next == SessionThread \/ Done \/ \E p \in Players : Drop(p)

Spec == Init /\ [][Next]_vars /\ WF_vars(SessionThread)

-----------------------------------------------------------------------------
(* Every broadcast is one of the outcomes of SessionBroadcast, and ends.   *)

Abstract == INSTANCE AtomicBroadcast WITH
  players <- IF result = "none" THEN before.players ELSE players,
  leader  <- IF result = "none" THEN before.leader
             ELSE IF result = "nobody" THEN NoLeader ELSE leader,
  to      <- before.to,
  outcome <- result

\* The call, its nested calls included, behaves as one atomic step.
ImplementsAtomicBroadcast == Abstract!AFairSpec

\* When the call returns, every player left has been told of every player lost
\* during it, and of no other: no nesting of announcements loses one.
SurvivorsToldOfCrashes ==
  result = "sent" =>
    \A p \in players : crashesTo[p] = before.players \ players

\* When the call returns and lost at most one player, the clients agree with
\* the server on who leads, unless that player is the one the call presents as
\* the new leader.  (Otherwise, or with two losses, the announcement of a lost
\* leader goes on after that of its successor, and clients keep the former.)
LeaderKnownAfterOneLoss ==
  LET lost == before.players \ players
  IN  result = "sent" /\ Cardinality(lost) <= 1
        /\ (\A p \in lost : before.msg # Switch(p)) =>
          \A p \in players : leaderTo[p] = leader

\* rbo/Session.cpp:39, assert(connections_.count(id) == 1): no loop reaches a
\* player who is gone.
ConnectionAsserted == AtSend => Next1 \in players
=============================================================================
