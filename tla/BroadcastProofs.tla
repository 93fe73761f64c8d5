-------------------------- MODULE BroadcastProofs --------------------------
(***************************************************************************)
(* Proofs about a broadcast and the disconnections nested in it, for any   *)
(* set of players: those left know of every one lost and of their leader,  *)
(* and the whole call has one of the outcomes of SessionBroadcast, which   *)
(* the other modules take for a single step.                               *)
(***************************************************************************)
EXTENDS Broadcast, SessionBroadcastProofs

\* The players lost since the call.
Lost == before.players \ players

\* Whether an activation is to tell p that q is lost, or who leads.
Announces(f, q, p) ==
  \/ f.call = "disconnect" /\ f.id = q
  \/ f.call = "send" /\ f.msg = Crash(q) /\ p \in f.ids
Presents(f, p) ==
  f.call = "send" /\ f.msg.kind = "switch" /\ p \in f.ids

\* A loop interrupted by the loss of a player has left it behind: a player of
\* its own addressees, or a second one lost if it announces a loss.
Interrupted(f) ==
  \/ f.ids \subseteq before.to /\ (Lost \cap before.to) \ f.ids # {}
  \/ \E q, r \in Lost \ f.ids : q # r

\* What is true of each activation.
InOrder(f) ==
  /\ f.call = "send" =>
       /\ f.ids \subseteq before.players
       /\ f.ids \subseteq before.to \/ Lost \ f.ids # {}
       /\ f.ids \subseteq players \/ Interrupted(f)
       /\ f.msg.kind = "crash" => f.msg.id \in Lost
  /\ f.call = "disconnect" => f.id \in Lost

\* The call, and who is left.
Calling ==
  /\ (result = "none") = (stack # <<>>)
  /\ players \subseteq before.players
  /\ Lost \subseteq dead /\ IsFiniteSet(Lost)
  /\ before.to \subseteq before.players
  /\ before.leader \in before.players \cup {NoLeader}
  /\ before.msg \in {Text, Switch(before.leader)}
  /\ result = "none" =>
       /\ players # {}
       /\ Lost # {} => before.leader # NoLeader /\ Lost \cap before.to # {}
       /\ leader = LeaderAfter(before.players, Lost, before.leader)

\* The activations: until someone is lost there is only the caller's loop.
Nesting ==
  /\ \A f \in Calls(stack) : InOrder(f)
  /\ stack # <<>> =>
       \A f \in Calls(Tail(stack)) : f.call = "send" => Interrupted(f)
  /\ Lost = {} =>
       \A f \in Calls(stack) :
         f.call = "send" /\ f.ids \subseteq before.to /\ f.msg = before.msg

\* Each player left knows of each player lost, or is to be told; and knows of
\* no other.
Telling ==
  result \in {"none", "sent"} =>
    \A p \in players :
      /\ crashesTo[p] \subseteq Lost
      /\ \A q \in Lost :
           q \in crashesTo[p] \/ \E f \in Calls(stack) : Announces(f, q, p)

\* At most one player is lost, and the call does not present it as the leader.
OneLost ==
  /\ \A p, q \in Lost : p = q
  /\ \A q \in Lost : before.msg # Switch(q)

\* Then each player left knows its leader, or is to be told; and is told of no
\* other.
Presenting ==
  result \in {"none", "sent"} /\ OneLost =>
    /\ \A f \in Calls(stack) :
         f.call = "send" /\ f.msg.kind = "switch" => f.msg.id = leader
    /\ \A p \in players :
         leaderTo[p] = leader \/ \E f \in Calls(stack) : Presents(f, p)

Inv == TypeOK /\ Calling /\ Nesting /\ Telling /\ Presenting

-----------------------------------------------------------------------------
(* Stacks.                                                                 *)

LEMMA CallsAreFrames ==
  ASSUME TypeOK
  PROVE  Calls(stack) \subseteq Frames
  BY DEF TypeOK, Calls

\* What the innermost activation is, and the others.
Others == Calls(Tail(stack))

LEMMA TopFacts ==
  ASSUME TypeOK, stack # <<>>
  PROVE  /\ Top \in Frames /\ Tail(stack) \in Seq(Frames)
         /\ Calls(stack) = {Top} \cup Others
         /\ Others \subseteq Frames
<1>1. stack \in Seq(Frames)
  BY DEF TypeOK
<1>2. /\ Head(stack) \in Frames /\ Tail(stack) \in Seq(Frames)
      /\ Calls(stack) = {Head(stack)} \cup Calls(Tail(stack))
  BY <1>1, PopCalls
<1>3. Calls(Tail(stack)) \subseteq Frames
  BY <1>2 DEF Calls
<1> QED
  BY <1>2, <1>3 DEF Top, Others

LEMMA SendFrames ==
  ASSUME NEW f \in Frames, f.call = "send"
  PROVE  f.ids \subseteq Players /\ f.msg \in Messages
  BY DEF Frames

\* The loop that goes on after its current player.
After == [Top EXCEPT !.ids = @ \ {Next1}]

LEMMA AtSendFacts ==
  ASSUME TypeOK, AtSend
  PROVE  /\ Top \in Frames /\ Top.call = "send"
         /\ Top.ids \subseteq Players /\ Top.msg \in Messages
         /\ Next1 \in Top.ids
         /\ After \in Frames /\ After.call = "send" /\ After.msg = Top.msg
         /\ After.ids = Top.ids \ {Next1}
         /\ Advanced \in Seq(Frames) /\ Advanced # <<>>
         /\ Tail(Advanced) = Tail(stack)
         /\ Calls(Advanced) = {After} \cup Others
<1>1. Top \in Frames /\ Tail(stack) \in Seq(Frames)
  BY TopFacts DEF AtSend
<1>2. Top.call = "send" /\ Top.ids \subseteq Players /\ Top.msg \in Messages
  BY <1>1, SendFrames DEF AtSend
<1>3. Next1 \in Top.ids
  BY <1>2, FirstOfIsMember, PlayersAssumption DEF Next1, AtSend
<1>4. Top \in [call : {"send"}, ids : SUBSET Players, msg : Messages]
  BY <1>1, <1>2 DEF Frames
<1>5. After = [call |-> "send", ids |-> Top.ids \ {Next1}, msg |-> Top.msg]
  BY <1>4 DEF After
<1>6. After \in Frames
  BY <1>2, <1>5 DEF Frames
<1>7. Advanced = <<After>> \o Tail(stack)
  BY DEF Advanced, After
<1>8. /\ Advanced \in Seq(Frames) /\ Advanced # <<>>
      /\ Tail(Advanced) = Tail(stack)
      /\ Calls(Advanced) = {After} \cup Calls(Tail(stack))
  BY <1>1, <1>6, <1>7, PushCalls, Zenon
<1>9. /\ After.call = "send" /\ After.msg = Top.msg
      /\ After.ids = Top.ids \ {Next1}
  BY <1>5
<1> QED
  BY <1>1, <1>2, <1>3, <1>6, <1>8, <1>9 DEF Others

-----------------------------------------------------------------------------
(* Who leads after the losses.                                             *)

LEMMA FirstStays ==
  ASSUME NEW S, S \subseteq Nat, NEW p \in S, p # FirstOf(S)
  PROVE  FirstOf(S \ {p}) = FirstOf(S)
<1> DEFINE T == S \ {p}
<1>1. FirstOf(S) \in S /\ \A y \in S : FirstOf(S) =< y
  BY LeastOfNat DEF FirstOf
<1>2. FirstOf(T) \in T /\ \A y \in T : FirstOf(T) =< y
  BY <1>1, LeastOfNat DEF FirstOf
<1>3. FirstOf(S) \in T
  BY <1>1
<1>4. FirstOf(T) =< FirstOf(S) /\ FirstOf(S) =< FirstOf(T)
  BY <1>1, <1>2, <1>3
<1>5. FirstOf(S) \in Nat /\ FirstOf(T) \in Nat
  BY <1>1, <1>2
<1> QED
  BY <1>4, <1>5

\* One loss more, one after the other or at once.
LEMMA LeaderAfterOneMore ==
  ASSUME NEW P, P \subseteq Nat, NEW lost \in SUBSET P, NEW l \in P,
         NEW p \in P \ lost
  PROVE  LeaderAfter(P, lost \cup {p}, l)
           = LeaderAfter(P \ lost, {p}, LeaderAfter(P, lost, l))
<1>1. P \ (lost \cup {p}) = (P \ lost) \ {p}
  OBVIOUS
<1>2. CASE l \in lost /\ FirstOf(P \ lost) # p
  <2>1. FirstOf((P \ lost) \ {p}) = FirstOf(P \ lost)
    BY <1>2, FirstStays
  <2> QED
    BY <1>1, <1>2, <2>1 DEF LeaderAfter
<1>3. CASE l \in lost /\ FirstOf(P \ lost) = p
  BY <1>1, <1>3 DEF LeaderAfter
<1>4. CASE l \notin lost
  BY <1>1, <1>4 DEF LeaderAfter
<1> QED
  BY <1>2, <1>3, <1>4

-----------------------------------------------------------------------------
(* The invariant, step by step.                                            *)

LEMMA MessageFacts ==
  ASSUME NEW m \in Messages
  PROVE  /\ m.kind \in {"text", "crash", "switch"}
         /\ m.kind = "crash" => m.id \in Players /\ m = Crash(m.id)
         /\ m.kind = "switch" => m.id \in Players /\ m = Switch(m.id)
         /\ \A q : m = Crash(q) => m.kind = "crash" /\ m.id = q
         /\ \A q : m = Switch(q) => m.kind = "switch" /\ m.id = q
         /\ \A q : m = Text => m # Switch(q) /\ m.kind = "text"
  BY DEF Messages, Text, Crash, Switch

LEMMA SamePlayers ==
  ASSUME UNCHANGED <<players, before>>
  PROVE  /\ Lost' = Lost /\ OneLost' = OneLost
         /\ \A f : Interrupted(f)' = Interrupted(f) /\ InOrder(f)' = InOrder(f)
  BY DEF Lost, OneLost, Interrupted, InOrder

\* A message reaches a player.
LEMMA SendKeepsInv ==
  ASSUME Inv, Send
  PROVE  Inv'
<1> DEFINE m == Top.msg
<1>1. /\ TypeOK /\ Calling /\ Nesting /\ Telling /\ Presenting
      /\ AtSend /\ Next1 \in players /\ stack' = Advanced
      /\ UNCHANGED <<players, leader, dead, result, before>>
  BY DEF Inv, Send
<1>2. /\ Lost' = Lost /\ OneLost' = OneLost
      /\ \A f : Interrupted(f)' = Interrupted(f) /\ InOrder(f)' = InOrder(f)
  BY <1>1, SamePlayers
<1>3. /\ Top \in Frames /\ Top.call = "send"
      /\ Top.ids \subseteq Players /\ m \in Messages
      /\ Next1 \in Top.ids
      /\ After \in Frames /\ After.call = "send" /\ After.msg = m
      /\ After.ids = Top.ids \ {Next1}
      /\ Advanced \in Seq(Frames) /\ stack' # <<>>
      /\ Tail(stack') = Tail(stack)
      /\ Calls(stack') = {After} \cup Others
  BY <1>1, AtSendFacts
<1>4. stack # <<>> /\ result = "none" /\ Calls(stack) = {Top} \cup Others
  BY <1>1, TopFacts DEF AtSend, Calling
<1>5. InOrder(Top) /\ \A f \in Others : InOrder(f)
  BY <1>1, <1>4 DEF Nesting
<1>6. m.kind = "crash" => m.id \in Players /\ m.id \in Lost /\ m = Crash(m.id)
  BY <1>3, <1>5, MessageFacts DEF InOrder
<1>7. m.kind = "switch" => m.id \in Players /\ m = Switch(m.id)
  BY <1>3, MessageFacts
<1>8. /\ crashesTo' = IF m.kind = "crash"
                      THEN [crashesTo EXCEPT ![Next1] = @ \cup {m.id}]
                      ELSE crashesTo
      /\ leaderTo' = IF m.kind = "switch"
                     THEN [leaderTo EXCEPT ![Next1] = m.id]
                     ELSE leaderTo
  BY DEF Send
<1>9. /\ crashesTo \in [Players -> SUBSET Players]
      /\ leaderTo \in [Players -> Players \cup {NoLeader}]
      /\ players \subseteq Players
  BY <1>1 DEF TypeOK
<1> HIDE DEF m
<1>10. TypeOK'
  BY <1>1, <1>3, <1>6, <1>7, <1>8, <1>9 DEF TypeOK
<1>11. Calling'
  BY <1>1, <1>2, <1>3, <1>4 DEF Calling
<1>12. Nesting'
  <2>1. InOrder(After)
    BY <1>3, <1>5 DEF InOrder, Interrupted, m
  <2>2. \A f \in Calls(stack') : InOrder(f)'
    BY <1>2, <1>3, <1>5, <2>1
  <2>3. \A f \in Calls(Tail(stack')) : f.call = "send" => Interrupted(f)'
    BY <1>1, <1>2, <1>3, <1>4 DEF Nesting
  <2>4. Lost' = {} =>
          \A f \in Calls(stack') :
            /\ f.call = "send"
            /\ f.ids \subseteq before'.to /\ f.msg = before'.msg
    BY <1>1, <1>2, <1>3, <1>4 DEF Nesting, m
  <2> QED
    BY <2>2, <2>3, <2>4 DEF Nesting
<1>13. Telling'
  <2>1. ASSUME NEW p \in players
        PROVE  crashesTo[p] \subseteq Lost /\ crashesTo'[p] \subseteq Lost
    BY <1>1, <1>4, <1>6, <1>8, <1>9, <2>1 DEF Telling
  <2>2. ASSUME NEW p \in players, NEW q \in Lost
        PROVE  \/ q \in crashesTo'[p]
               \/ \E f \in Calls(stack') : Announces(f, q, p)
    <3>1. CASE q \in crashesTo[p]
      BY <1>8, <1>9, <3>1
    <3>2. CASE \E f \in Others : Announces(f, q, p)
      BY <1>3, <3>2
    <3>3. CASE Announces(Top, q, p)
      <4>1. m = Crash(q) /\ p \in Top.ids
        BY <1>3, <3>3 DEF Announces, m
      <4>2. m.kind = "crash" /\ m.id = q
        BY <4>1 DEF Crash
      <4>3. CASE p = Next1
        BY <1>8, <1>9, <4>2, <4>3
      <4>4. CASE p # Next1
        BY <1>3, <4>1, <4>4 DEF Announces
      <4> QED
        BY <4>3, <4>4
    <3> QED
      BY <1>1, <1>4, <3>1, <3>2, <3>3 DEF Telling
  <2> QED
    BY <1>1, <1>2, <2>1, <2>2 DEF Telling, Announces
<1>14. Presenting'
  <2> SUFFICES ASSUME OneLost
               PROVE  /\ \A f \in Calls(stack') :
                           f.call = "send" /\ f.msg.kind = "switch" =>
                             f.msg.id = leader
                      /\ \A p \in players :
                           \/ leaderTo'[p] = leader
                           \/ \E f \in Calls(stack') : Presents(f, p)
    BY <1>1, <1>2 DEF Presenting, Presents
  <2>1. /\ \A f \in Calls(stack) :
             f.call = "send" /\ f.msg.kind = "switch" => f.msg.id = leader
        /\ \A p \in players :
             leaderTo[p] = leader \/ \E f \in Calls(stack) : Presents(f, p)
    BY <1>1, <1>4 DEF Presenting
  <2>2. m.kind = "switch" => m.id = leader
    BY <1>3, <1>4, <2>1 DEF m
  <2>3. \A f \in Calls(stack') :
          f.call = "send" /\ f.msg.kind = "switch" => f.msg.id = leader
    BY <1>3, <1>4, <2>1, <2>2
  <2>4. ASSUME NEW p \in players
        PROVE  leaderTo'[p] = leader \/ \E f \in Calls(stack') : Presents(f, p)
    <3>1. CASE leaderTo[p] = leader
      BY <1>8, <1>9, <2>2, <3>1
    <3>2. CASE \E f \in Others : Presents(f, p)
      BY <1>3, <3>2
    <3>3. CASE Presents(Top, p)
      <4>1. m.kind = "switch" /\ p \in Top.ids
        BY <3>3 DEF Presents, m
      <4>2. CASE p = Next1
        BY <1>8, <1>9, <2>2, <4>1, <4>2
      <4>3. CASE p # Next1
        BY <1>3, <4>1, <4>3 DEF Presents
      <4> QED
        BY <4>2, <4>3
    <3> QED
      BY <1>4, <2>1, <3>1, <3>2, <3>3
  <2> QED
    BY <2>3, <2>4
<1> QED
  BY <1>10, <1>11, <1>12, <1>13, <1>14 DEF Inv

\* The crash of a player is announced.
LEMMA AnnounceKeepsInv ==
  ASSUME Inv, AnnounceCrash
  PROVE  Inv'
<1> DEFINE new == Sending(players, Crash(Top.id))
<1>1. /\ TypeOK /\ Calling /\ Nesting /\ Telling /\ Presenting
      /\ stack # <<>> /\ Top.call = "disconnect"
      /\ stack' = <<new>> \o Tail(stack)
      /\ UNCHANGED <<players, leader, dead, result, crashesTo, leaderTo,
                     before>>
  BY DEF Inv, AnnounceCrash
<1>2. /\ Lost' = Lost /\ OneLost' = OneLost
      /\ \A f : Interrupted(f)' = Interrupted(f) /\ InOrder(f)' = InOrder(f)
  BY <1>1, SamePlayers
<1>3. /\ Top \in Frames /\ Tail(stack) \in Seq(Frames)
      /\ Calls(stack) = {Top} \cup Others
      /\ result = "none"
  BY <1>1, TopFacts DEF Calling
<1>4. Top.id \in Lost /\ \A f \in Others : InOrder(f)
  BY <1>1, <1>3 DEF Nesting, InOrder
<1>5. Top.id \in Players /\ players \subseteq Players
  BY <1>1, <1>4 DEF Lost, TypeOK
<1>6. new = [call |-> "send", ids |-> players, msg |-> Crash(Top.id)]
  BY DEF Sending
<1>7. new \in Frames
  BY <1>5, <1>6 DEF Frames, Messages
<1> HIDE DEF new
<1>8. /\ stack' \in Seq(Frames) /\ stack' # <<>> /\ Tail(stack') = Tail(stack)
      /\ Calls(stack') = {new} \cup Others
  <2> DEFINE t == <<new>> \o Tail(stack)
  <2>1. /\ t \in Seq(Frames) /\ t # <<>> /\ Tail(t) = Tail(stack)
        /\ Calls(t) = {new} \cup Calls(Tail(stack))
    BY <1>3, <1>7, PushCalls, Zenon
  <2>2. stack' = t
    BY <1>1
  <2> HIDE DEF t
  <2> QED
    BY <2>1, <2>2 DEF Others
<1>9. TypeOK' /\ Calling'
  BY <1>1, <1>2, <1>3, <1>8 DEF TypeOK, Calling
<1>10. Nesting'
  <2>1. new.msg.kind = "crash" /\ new.msg.id = Top.id /\ new.call = "send"
    BY <1>6 DEF Crash
  <2>2. InOrder(new)
    BY <1>1, <1>4, <1>6, <2>1 DEF InOrder, Calling, Lost
  <2> QED
    BY <1>1, <1>2, <1>3, <1>4, <1>8, <2>2 DEF Nesting
<1>11. Telling'
  <2>1. ASSUME NEW p \in players, NEW q \in Lost
        PROVE  \/ q \in crashesTo[p]
               \/ \E f \in Calls(stack') : Announces(f, q, p)
    <3>1. CASE Announces(Top, q, p)
      <4>1. Top.id = q
        BY <1>1, <3>1 DEF Announces
      <4>2. Announces(new, q, p)
        BY <1>6, <4>1 DEF Announces
      <4> QED
        BY <1>8, <4>2
    <3> QED
      BY <1>1, <1>3, <1>8, <3>1 DEF Telling
  <2> QED
    BY <1>1, <1>2, <1>3, <2>1 DEF Telling, Announces
<1>12. Presenting'
  <2>1. new.msg.kind # "switch"
    BY <1>6 DEF Crash
  <2> QED
    BY <1>1, <1>2, <1>3, <1>8, <2>1 DEF Presenting, Presents
<1> QED
  BY <1>9, <1>10, <1>11, <1>12 DEF Inv

\* A loop is over.
LEMMA LoopEndsKeepsInv ==
  ASSUME Inv, LoopEnds
  PROVE  Inv'
<1>1. /\ TypeOK /\ Calling /\ Nesting /\ Telling /\ Presenting
      /\ stack # <<>> /\ Top.call = "send" /\ Top.ids = {}
      /\ stack' = Tail(stack)
      /\ result' = IF Tail(stack) = <<>> THEN "sent" ELSE result
      /\ UNCHANGED <<players, leader, dead, crashesTo, leaderTo, before>>
  BY DEF Inv, LoopEnds
<1>2. /\ Lost' = Lost /\ OneLost' = OneLost
      /\ \A f : Interrupted(f)' = Interrupted(f) /\ InOrder(f)' = InOrder(f)
  BY <1>1, SamePlayers
<1>3. /\ Tail(stack) \in Seq(Frames) /\ Calls(stack) = {Top} \cup Others
      /\ result = "none" /\ Calls(stack') = Others
  BY <1>1, TopFacts DEF Calling, Others
<1>4. stack' # <<>> => Calls(Tail(stack')) \subseteq Others
  BY <1>1, <1>3, PopCalls
<1>5. TypeOK' /\ Calling'
  BY <1>1, <1>2, <1>3 DEF TypeOK, Calling, BroadcastResults
<1>6. Nesting'
  BY <1>1, <1>2, <1>3, <1>4 DEF Nesting, Others
<1>7. Telling'
  BY <1>1, <1>2, <1>3 DEF Telling, Announces
<1>8. Presenting'
  BY <1>1, <1>2, <1>3 DEF Presenting, Presents
<1> QED
  BY <1>5, <1>6, <1>7, <1>8 DEF Inv

\* An exception ends the call.
LEMMA ThrowKeepsInv ==
  ASSUME Inv, result' \in {"nobody", "uninitialized", "stale"}, stack' = <<>>,
         players' \subseteq players, leader' = leader,
         Lost' \subseteq dead, IsFiniteSet(Lost'),
         UNCHANGED <<dead, crashesTo, leaderTo, before>>
  PROVE  Inv'
<1>1. TypeOK'
  BY DEF Inv, TypeOK, BroadcastResults
<1>2. Calling'
  BY DEF Inv, Calling
<1>3. Nesting' /\ Telling' /\ Presenting'
  BY CallsOfEmpty DEF Nesting, Telling, Presenting
<1> QED
  BY <1>1, <1>2, <1>3 DEF Inv

LEMMA DropKeepsInv ==
  ASSUME Inv, NEW x \in Players, Drop(x)
  PROVE  Inv'
<1>1. UNCHANGED <<players, leader, stack, result, crashesTo, leaderTo, before>>
      /\ dead' = dead \cup {x}
  BY DEF Drop
<1>2. /\ Lost' = Lost /\ OneLost' = OneLost
      /\ \A f : Interrupted(f)' = Interrupted(f) /\ InOrder(f)' = InOrder(f)
  BY <1>1, SamePlayers
<1>3. TypeOK' /\ Calling'
  BY <1>1, <1>2 DEF Inv, TypeOK, Calling
<1>4. Nesting' /\ Telling' /\ Presenting'
  BY <1>1, <1>2
     DEF Inv, Nesting, Telling, Presenting, Announces, Presents
<1> QED
  BY <1>3, <1>4 DEF Inv

\* A player is lost.  The loops its loss interrupts have left it behind.
LEMMA LossFacts ==
  ASSUME Inv, AtSend, Next1 \in players \cap dead,
         players' = players \ {Next1}, UNCHANGED <<dead, before>>
  PROVE  /\ Lost' = Lost \cup {Next1} /\ Next1 \notin Lost
         /\ Lost' \subseteq dead /\ IsFiniteSet(Lost')
         /\ Lost' \cap before.to # {}
         /\ \A f \in {After} \cup Others :
              InOrder(f)' /\ (f.call = "send" => Interrupted(f)')
<1>1. TypeOK /\ Calling /\ Nesting
  BY DEF Inv
<1>2. /\ Top.call = "send" /\ Next1 \in Top.ids
      /\ After.call = "send" /\ After.msg = Top.msg
      /\ After.ids = Top.ids \ {Next1}
  BY <1>1, AtSendFacts
<1>3. stack # <<>> /\ result = "none" /\ Calls(stack) = {Top} \cup Others
  BY <1>1, TopFacts DEF AtSend, Calling
<1>4. /\ players \subseteq before.players /\ Lost \subseteq dead
      /\ IsFiniteSet(Lost)
      /\ Lost # {} => Lost \cap before.to # {}
  BY <1>1, <1>3 DEF Calling
<1>5. Lost' = Lost \cup {Next1} /\ Next1 \notin Lost
  BY <1>4 DEF Lost
<1>6. Lost' \subseteq dead /\ IsFiniteSet(Lost')
  BY <1>4, <1>5, FS_AddElement
<1>7. InOrder(Top) /\ \A f \in Others : InOrder(f)
  BY <1>1, <1>3 DEF Nesting
<1>8. \A f \in Others : f.call = "send" => Interrupted(f)
  BY <1>1, <1>3 DEF Nesting, Others
<1>9. Lost' \cap before.to # {}
  <2>1. Lost = {} => Top.ids \subseteq before.to
    BY <1>1, <1>3 DEF Nesting
  <2> QED
    BY <1>2, <1>4, <1>5, <2>1
<1>10. \A f : Interrupted(f) => Interrupted(f)'
  BY <1>5 DEF Interrupted
<1>11. ASSUME NEW f \in Others
       PROVE  InOrder(f)' /\ (f.call = "send" => Interrupted(f)')
  BY <1>5, <1>7, <1>8, <1>10 DEF InOrder
<1>12. ASSUME NEW f, f = After
       PROVE  InOrder(f)' /\ Interrupted(f)'
  <2>1. f.call = "send" /\ f.msg = Top.msg /\ f.ids = Top.ids \ {Next1}
    BY <1>2, <1>12
  <2>2. /\ Top.ids \subseteq before.players
        /\ Top.ids \subseteq before.to \/ Lost \ Top.ids # {}
        /\ Top.msg.kind = "crash" => Top.msg.id \in Lost
    BY <1>2, <1>7 DEF InOrder
  <2>3. Interrupted(f)'
    <3>1. CASE Top.ids \subseteq before.to
      <4>1. /\ f.ids \subseteq before.to
            /\ Next1 \in (Lost' \cap before.to) \ f.ids
        BY <1>2, <1>5, <2>1, <3>1
      <4> QED
        BY <4>1 DEF Interrupted
    <3>2. CASE Lost \ Top.ids # {}
      <4>1. PICK r \in Lost \ Top.ids : TRUE
        BY <3>2
      <4>2. Next1 \in Lost' \ f.ids /\ r \in Lost' \ f.ids /\ Next1 # r
        BY <1>5, <2>1, <4>1
      <4> QED
        BY <4>2 DEF Interrupted
    <3> QED
      BY <2>2, <3>1, <3>2
  <2>4. Next1 \in Lost' \ f.ids
    BY <1>5, <2>1
  <2> QED
    BY <1>5, <2>1, <2>2, <2>3, <2>4 DEF InOrder
<1> QED
  BY <1>5, <1>6, <1>9, <1>11, <1>12

\* A broken connection: the activations that announce the loss, and the one
\* that presents the successor of a leader.
LEMMA LossKeepsInv ==
  ASSUME Inv, AtSend, Next1 \in players \cap dead,
         players' = players \ {Next1}, players' # {}, leader # NoLeader,
         leader' = LeaderAfter(players, {Next1}, leader),
         stack' = LET announce == <<Disconnecting(Next1)>> \o Advanced
                  IN  IF leader = Next1
                      THEN <<Sending(players', Switch(leader'))>> \o announce
                      ELSE announce,
         UNCHANGED <<result, dead, crashesTo, leaderTo, before>>
  PROVE  Inv'
<1> DEFINE told == Disconnecting(Next1)
           switch == Sending(players', Switch(leader'))
           announce == <<told>> \o Advanced
           first == IF leader = Next1 THEN {switch} ELSE {}
<1>1. TypeOK /\ Calling /\ Nesting /\ Telling /\ Presenting
  BY DEF Inv
<1>2. /\ Top.call = "send" /\ Next1 \in Top.ids
      /\ After \in Frames /\ After.call = "send" /\ After.msg = Top.msg
      /\ After.ids = Top.ids \ {Next1}
      /\ Advanced \in Seq(Frames) /\ Calls(Advanced) = {After} \cup Others
  BY <1>1, AtSendFacts
<1>3. stack # <<>> /\ result = "none" /\ Calls(stack) = {Top} \cup Others
  BY <1>1, TopFacts DEF AtSend, Calling
<1>4. /\ Lost' = Lost \cup {Next1} /\ Next1 \notin Lost
      /\ Lost' \subseteq dead /\ IsFiniteSet(Lost')
      /\ Lost' \cap before.to # {}
      /\ \A f \in {After} \cup Others :
           InOrder(f)' /\ (f.call = "send" => Interrupted(f)')
  BY LossFacts
<1>5. /\ players \subseteq Players /\ Players \subseteq Nat
      /\ leader \in Players
      /\ players' \subseteq Players /\ players' \subseteq Nat
  BY <1>1, PlayersAssumption DEF TypeOK
<1>6. leader' \in Players
  BY <1>5, FirstOfIsMember DEF LeaderAfter
<1>7. /\ told = [call |-> "disconnect", id |-> Next1]
      /\ switch = [call |-> "send", ids |-> players', msg |-> Switch(leader')]
      /\ Switch(leader').kind = "switch" /\ Switch(leader').id = leader'
  BY DEF Disconnecting, Sending, Switch
<1>8. told \in Frames /\ switch \in Frames
  <2>1. Switch(leader') \in Messages
    BY <1>6 DEF Messages
  <2>2. Next1 \in Players
    BY <1>5
  <2> HIDE DEF told, switch
  <2>3. told \in Frames
    BY <1>7, <2>2 DEF Frames
  <2>4. switch \in Frames
    BY <1>5, <1>7, <2>1 DEF Frames
  <2> QED
    BY <2>3, <2>4
<1>9. stack' = IF leader = Next1 THEN <<switch>> \o announce ELSE announce
  OBVIOUS
<1> HIDE DEF told, switch
<1>10. /\ announce \in Seq(Frames) /\ announce # <<>>
       /\ Tail(announce) = Advanced
       /\ Calls(announce) = {told} \cup Calls(Advanced)
  BY <1>2, <1>8, PushCalls, Zenon
<1> HIDE DEF announce
<1>11. /\ <<switch>> \o announce \in Seq(Frames)
       /\ <<switch>> \o announce # <<>>
       /\ Tail(<<switch>> \o announce) = announce
       /\ Calls(<<switch>> \o announce) = {switch} \cup Calls(announce)
  <2>1. switch \in Frames /\ announce \in Seq(Frames)
    BY <1>8, <1>10
  <2> QED
    BY <2>1, PushCalls, ZenonT(30)
<1>12. /\ stack' \in Seq(Frames) /\ stack' # <<>>
       /\ Calls(stack') = first \cup {told, After} \cup Others
  BY <1>2, <1>9, <1>10, <1>11
<1>13. Calls(Tail(stack')) \subseteq {told, After} \cup Others
  BY <1>2, <1>9, <1>10, <1>11
<1>14. TypeOK'
  BY <1>1, <1>5, <1>6, <1>12 DEF TypeOK
<1>15. Calling'
  <2>1. /\ players \subseteq before.players
        /\ before.to \subseteq before.players
        /\ before.leader \in before.players \cup {NoLeader}
        /\ before.msg \in {Text, Switch(before.leader)}
        /\ Lost # {} => before.leader # NoLeader
        /\ leader = LeaderAfter(before.players, Lost, before.leader)
    BY <1>1, <1>3 DEF Calling
  <2>2. before.leader # NoLeader
    BY <2>1 DEF LeaderAfter
  <2>3. /\ before.players \subseteq Nat /\ Lost \in SUBSET before.players
        /\ before.leader \in before.players
        /\ Next1 \in before.players \ Lost
        /\ before.players \ Lost = players
    BY <1>1, <1>4, <2>1, <2>2, PlayersAssumption DEF TypeOK, Lost
  <2>4. leader' = LeaderAfter(before.players, Lost', before.leader)
    BY <1>4, <2>1, <2>3, LeaderAfterOneMore
  <2>5. players' \subseteq before.players
    BY <2>1
  <2> QED
    BY <1>3, <1>4, <1>12, <2>1, <2>2, <2>4, <2>5 DEF Calling
<1>16. Nesting'
  <2>1. ASSUME NEW f, f = told
        PROVE  InOrder(f)' /\ f.call # "send"
    BY <1>4, <1>7, <2>1 DEF InOrder
  <2>2. ASSUME NEW f, f = switch
        PROVE  InOrder(f)'
    <3>1. players' \subseteq before.players /\ Next1 \notin players'
      BY <1>1 DEF Calling
    <3> QED
      BY <1>4, <1>7, <2>2, <3>1 DEF InOrder
  <2>3. \A f \in Calls(stack') : InOrder(f)'
    BY <1>4, <1>12, <2>1, <2>2
  <2>4. \A f \in Calls(Tail(stack')) : f.call = "send" => Interrupted(f)'
    BY <1>4, <1>13, <2>1
  <2> QED
    BY <1>4, <2>3, <2>4 DEF Nesting
<1>17. Telling'
  <2>1. ASSUME NEW x \in players'
        PROVE  crashesTo[x] \subseteq Lost'
    BY <1>1, <1>3, <1>4 DEF Telling
  <2>2. ASSUME NEW x \in players', NEW q \in Lost'
        PROVE  \/ q \in crashesTo[x]
               \/ \E f \in Calls(stack') : Announces(f, q, x)
    <3>1. CASE q = Next1
      <4>1. Announces(told, q, x)
        BY <1>7, <3>1 DEF Announces
      <4>2. told \in Calls(stack')
        BY <1>12
      <4> QED
        BY <4>1, <4>2
    <3>2. CASE q \in Lost
      <4>1. q \in crashesTo[x] \/ \E f \in Calls(stack) : Announces(f, q, x)
        BY <1>1, <1>3, <3>2 DEF Telling
      <4>2. Announces(Top, q, x) => Announces(After, q, x)
        BY <1>2 DEF Announces
      <4> QED
        BY <1>3, <1>12, <4>1, <4>2
    <3> QED
      BY <1>4, <3>1, <3>2
  <2> QED
    BY <2>1, <2>2 DEF Telling, Announces
<1>18. Presenting'
  <2> SUFFICES ASSUME OneLost'
               PROVE  /\ \A f \in Calls(stack') :
                           f.call = "send" /\ f.msg.kind = "switch" =>
                             f.msg.id = leader'
                      /\ \A x \in players' :
                           \/ leaderTo[x] = leader'
                           \/ \E f \in Calls(stack') : Presents(f, x)
    BY DEF Presenting, Presents
  <2>1. Lost = {} /\ before.msg # Switch(Next1)
    BY <1>4 DEF OneLost
  <2>2. /\ leader = before.leader
        /\ before.msg \in {Text, Switch(leader)}
        /\ \A f \in Calls(stack) : f.call = "send" /\ f.msg = before.msg
    BY <1>1, <1>3, <2>1 DEF Calling, Nesting, LeaderAfter
  <2>3. told.call # "send"
    BY <1>7
  <2>4. CASE leader = Next1
    <3>1. before.msg = Text /\ Text.kind # "switch"
      BY <2>1, <2>2, <2>4 DEF Text
    <3>2. \A f \in {After} \cup Others : f.msg.kind # "switch"
      BY <1>2, <1>3, <2>2, <3>1
    <3>3. \A x \in players' : Presents(switch, x)
      BY <1>7 DEF Presents
    <3>4. switch.msg.id = leader'
      BY <1>7
    <3> QED
      BY <1>12, <2>3, <2>4, <3>2, <3>3, <3>4
  <2>5. CASE leader # Next1
    <3>1. leader' = leader
      BY <2>5 DEF LeaderAfter
    <3>2. OneLost
      BY <2>1 DEF OneLost
    <3>3. /\ \A f \in Calls(stack) :
               f.call = "send" /\ f.msg.kind = "switch" => f.msg.id = leader
          /\ \A x \in players :
               leaderTo[x] = leader \/ \E f \in Calls(stack) : Presents(f, x)
      BY <1>1, <1>3, <3>2 DEF Presenting
    <3>4. \A x \in players' : Presents(Top, x) => Presents(After, x)
      BY <1>2 DEF Presents
    <3> QED
      BY <1>2, <1>3, <1>12, <2>3, <2>5, <3>1, <3>3, <3>4
  <2> QED
    BY <2>4, <2>5
<1> QED
  BY <1>14, <1>15, <1>16, <1>17, <1>18 DEF Inv

LEMMA SendFailsKeepsInv ==
  ASSUME Inv, SendFails
  PROVE  Inv'
<1>1. /\ AtSend /\ Next1 \in players \cap dead
      /\ players' = players \ {Next1}
      /\ UNCHANGED <<dead, crashesTo, leaderTo, before>>
  BY DEF SendFails
<1>2. Lost' \subseteq dead /\ IsFiniteSet(Lost')
  BY <1>1, LossFacts
<1>3. CASE /\ stack' = <<>> /\ result' \in {"nobody", "uninitialized"}
           /\ leader' = leader
  BY <1>1, <1>2, <1>3, ThrowKeepsInv
<1>4. CASE /\ players' # {} /\ leader # NoLeader
           /\ leader' = LeaderAfter(players, {Next1}, leader)
           /\ stack' = LET announce == <<Disconnecting(Next1)>> \o Advanced
                       IN  IF leader = Next1
                           THEN <<Sending(players', Switch(leader'))>>
                                  \o announce
                           ELSE announce
           /\ UNCHANGED result
  BY <1>1, <1>4, LossKeepsInv
<1> QED
  BY <1>1, <1>3, <1>4 DEF SendFails, Throw

LEMMA SendToRemovedKeepsInv ==
  ASSUME Inv, SendToRemoved
  PROVE  Inv'
<1>1. /\ stack' = <<>> /\ result' = "stale"
      /\ UNCHANGED <<players, leader, dead, crashesTo, leaderTo, before>>
  BY DEF SendToRemoved, Throw
<1>2. Lost' \subseteq dead /\ IsFiniteSet(Lost')
  BY <1>1 DEF Inv, Calling, Lost
<1> QED
  BY <1>1, <1>2, ThrowKeepsInv

LEMMA InitInv ==
  ASSUME Init
  PROVE  Inv
<1>1. /\ players \in (SUBSET Players) \ {{}}
      /\ leader \in players \cup {NoLeader}
      /\ dead \in SUBSET players
      /\ result = "none"
      /\ crashesTo = [p \in Players |-> {}]
  BY DEF Init
<1>2. PICK to \in SUBSET players, msg \in {Text, Switch(leader)} :
        /\ msg # Text => leader # NoLeader /\ to = players
        /\ stack = <<Sending(to, msg)>>
        /\ before = [players |-> players, leader |-> leader, to |-> to,
                     msg |-> msg]
        /\ leaderTo = [p \in Players |->
                         IF msg = Text THEN leader ELSE NoLeader]
  BY DEF Init
<1> DEFINE f == Sending(to, msg)
<1>3. f = [call |-> "send", ids |-> to, msg |-> msg]
  BY DEF Sending
<1>4. msg \in Messages
  <2>1. CASE msg = Text
    BY <2>1 DEF Messages
  <2>2. CASE msg # Text
    <3>1. leader \in Players /\ msg = Switch(leader)
      BY <1>1, <1>2, <2>2
    <3> QED
      BY <3>1 DEF Messages
  <2> QED
    BY <2>1, <2>2
<1>5. f \in Frames
  BY <1>1, <1>3, <1>4 DEF Frames
<1> HIDE DEF f
<1>6. stack = <<f>> /\ stack \in Seq(Frames) /\ stack # <<>>
  BY <1>2, <1>5 DEF f
<1>7. Head(stack) = f /\ Tail(stack) = <<>>
  BY <1>6
<1>8. Calls(stack) = {f} /\ Calls(Tail(stack)) = {}
  BY <1>6, <1>7, PopCalls, CallsOfEmpty
<1>9. /\ before.players = players /\ before.leader = leader
      /\ before.to = to /\ before.msg = msg
  BY <1>2
<1>10. Lost = {}
  BY <1>9 DEF Lost
<1>11. TypeOK
  BY <1>1, <1>2, <1>4, <1>6 DEF TypeOK, BroadcastResults
<1>12. Calling
  <2>1. leader = LeaderAfter(players, {}, leader)
    BY DEF LeaderAfter
  <2>2. IsFiniteSet({})
    BY FS_EmptySet
  <2> QED
    BY <1>1, <1>2, <1>6, <1>9, <1>10, <2>1, <2>2 DEF Calling
<1>13. Nesting
  <2>1. msg.kind # "crash"
    BY <1>2 DEF Text, Switch
  <2>2. InOrder(f)
    BY <1>3, <1>9, <2>1 DEF InOrder
  <2> QED
    BY <1>3, <1>8, <1>9, <2>2 DEF Nesting
<1>14. Telling
  BY <1>1, <1>10 DEF Telling
<1>15. Presenting
  <2>1. CASE msg = Text
    <3>1. msg.kind # "switch"
      BY <2>1 DEF Text
    <3> QED
      BY <1>1, <1>2, <1>3, <1>8, <2>1, <3>1 DEF Presenting
  <2>2. CASE msg # Text
    <3>1. msg.kind = "switch" /\ msg.id = leader
      BY <1>2, <2>2 DEF Switch
    <3>2. \A p \in players : Presents(f, p)
      BY <1>2, <1>3, <2>2, <3>1 DEF Presents
    <3> QED
      BY <1>3, <1>8, <3>1, <3>2 DEF Presenting
  <2> QED
    BY <2>1, <2>2
<1> QED
  BY <1>11, <1>12, <1>13, <1>14, <1>15 DEF Inv

LEMMA InvInductive ==
  ASSUME Inv, [Next]_vars
  PROVE  Inv'
<1>1. CASE UNCHANGED vars
  <2>1. UNCHANGED <<players, leader, dead, stack, result, crashesTo, leaderTo,
                    before>>
    BY <1>1 DEF vars
  <2>2. /\ Lost' = Lost /\ OneLost' = OneLost
        /\ \A f : Interrupted(f)' = Interrupted(f) /\ InOrder(f)' = InOrder(f)
    BY <2>1, SamePlayers
  <2>3. TypeOK' /\ Calling'
    BY <2>1, <2>2 DEF Inv, TypeOK, Calling
  <2>4. Nesting' /\ Telling' /\ Presenting'
    BY <2>1, <2>2
       DEF Inv, Nesting, Telling, Presenting, Announces, Presents
  <2> QED
    BY <2>3, <2>4 DEF Inv
<1>2. CASE Send
  BY <1>2, SendKeepsInv
<1>3. CASE SendFails
  BY <1>3, SendFailsKeepsInv
<1>4. CASE SendToRemoved
  BY <1>4, SendToRemovedKeepsInv
<1>5. CASE AnnounceCrash
  BY <1>5, AnnounceKeepsInv
<1>6. CASE LoopEnds
  BY <1>6, LoopEndsKeepsInv
<1>7. ASSUME NEW p \in Players, Drop(p)
      PROVE  Inv'
  BY <1>7, DropKeepsInv
<1> QED
  BY <1>1, <1>2, <1>3, <1>4, <1>5, <1>6, <1>7
     DEF Next, SessionThread, Done

-----------------------------------------------------------------------------
(* Theorems.                                                               *)

\* Whoever is lost and in whatever order, while a broadcast goes on every
\* player left either knows of each loss or is addressed by an activation that
\* announces it, and the loops that are behind were interrupted.
THEOREM BroadcastInvariant == Spec => []Inv
<1>1. Init => Inv
  BY InitInv
<1>2. Inv /\ [Next]_vars => Inv'
  BY InvInductive
<1> QED
  BY <1>1, <1>2, PTL DEF Spec

\* The variables keep their types: no activation addresses a stranger.
THEOREM TypesOK == Spec => []TypeOK
<1>1. Inv => TypeOK
  BY DEF Inv
<1> QED
  BY <1>1, BroadcastInvariant, PTL

\* A broadcast that returns has told each player left of every player lost
\* during it, and of no other, however deep the disconnections were nested.
THEOREM SurvivorsAlwaysTold == Spec => []SurvivorsToldOfCrashes
<1>1. ASSUME Inv
      PROVE  SurvivorsToldOfCrashes
  <2>1. result = "sent" => stack = <<>>
    BY <1>1 DEF Inv, Calling
  <2>2. result = "sent" => Calls(stack) = {}
    BY <2>1, CallsOfEmpty
  <2>3. result = "sent" =>
          \A p \in players : crashesTo[p] \subseteq Lost
                             /\ Lost \subseteq crashesTo[p]
    BY <1>1, <2>2 DEF Inv, Telling
  <2> QED
    BY <2>3 DEF SurvivorsToldOfCrashes, Lost
<1> QED
  BY <1>1, BroadcastInvariant, PTL

\* Two members of a set.
LEMMA TwoMembers ==
  ASSUME NEW S, IsFiniteSet(S), NEW a \in S, NEW b \in S, a # b
  PROVE  /\ Cardinality(S) \in Nat /\ Cardinality(S) >= 2
         /\ Cardinality(S) = 2 => S = {a, b}
<1>1. IsFiniteSet({a}) /\ Cardinality({a}) = 1
  BY FS_Singleton
<1>2. {a, b} = {a} \cup {b} /\ b \notin {a}
  OBVIOUS
<1>3. IsFiniteSet({a, b}) /\ Cardinality({a, b}) = 2
  BY <1>1, <1>2, FS_AddElement
<1>4. /\ Cardinality({a, b}) =< Cardinality(S)
      /\ Cardinality(S) = Cardinality({a, b}) => S = {a, b}
  BY FS_Subset
<1>5. Cardinality(S) \in Nat
  BY FS_CardinalityType
<1> QED
  BY <1>3, <1>4, <1>5

\* A broadcast that returns, and lost at most one player whom it does not
\* present as the leader, has told every player left who leads.
THEOREM LeaderAlwaysKnown == Spec => []LeaderKnownAfterOneLoss
<1>1. ASSUME Inv
      PROVE  LeaderKnownAfterOneLoss
  <2> SUFFICES ASSUME result = "sent", Cardinality(Lost) =< 1,
                      \A p \in Lost : before.msg # Switch(p)
               PROVE  \A p \in players : leaderTo[p] = leader
    BY DEF LeaderKnownAfterOneLoss, Lost
  <2>1. IsFiniteSet(Lost) /\ stack = <<>>
    BY <1>1 DEF Inv, Calling
  <2>2. ASSUME NEW p \in Lost, NEW q \in Lost, p # q
        PROVE  FALSE
    BY <2>1, <2>2, TwoMembers
  <2>3. OneLost
    BY <2>2 DEF OneLost
  <2> QED
    BY <1>1, <2>1, <2>3, CallsOfEmpty DEF Inv, Presenting
<1> QED
  BY <1>1, BroadcastInvariant, PTL

-----------------------------------------------------------------------------
(* The call as one step.                                                   *)

\* AtomicBroadcast takes its outcomes from SessionBroadcast too.
LEMMA SameBroadcast ==
  ASSUME NEW P, NEW to, NEW l, NEW D
  PROVE  Abstract!BroadcastOutcomes(P, to, l, D)
           = BroadcastOutcomes(P, to, l, D)
<1>1. ASSUME NEW S
      PROVE  Abstract!FirstOf(S) = FirstOf(S)
  BY Zenon DEF Abstract!FirstOf, FirstOf, Abstract!Min, Min
<1>2. ASSUME NEW lost
      PROVE  Abstract!LeaderAfter(P, lost, l) = LeaderAfter(P, lost, l)
  BY <1>1, Zenon DEF Abstract!LeaderAfter, LeaderAfter
<1>3. ASSUME NEW lost, NEW r
      PROVE  Abstract!EndsWith(P, to, l, lost, r)
               = EndsWith(P, to, l, lost, r)
  <2>1. Abstract!Cardinality(lost) = Cardinality(lost)
    BY Zenon DEF Abstract!Cardinality, Cardinality
  <2> QED
    BY <2>1, Zenon DEF Abstract!EndsWith, EndsWith
<1> QED
  BY <1>2, <1>3
     DEF Abstract!BroadcastOutcomes, BroadcastOutcomes,
         Abstract!BroadcastResults, BroadcastResults

\* An end that EndsWith allows is an end of the atomic broadcast.
LEMMA EndIsOutcome ==
  ASSUME result = "none", result' \in BroadcastResults,
         NEW lost \in SUBSET (dead \cap before.players),
         players' = before.players \ lost,
         EndsWith(before.players, before.to, before.leader, lost, result'),
         result' \in {"sent", "stale"} =>
           leader' = LeaderAfter(before.players, lost, before.leader),
         result' = "uninitialized" => leader' = NoLeader,
         UNCHANGED <<dead, before>>
  PROVE  Abstract!ANext
<1> DEFINE P == before.players
           to == before.to
           l == before.leader
           e == [lost |-> lost, result |-> result']
           led == IF result' = "nobody" THEN NoLeader ELSE leader'
           o == [players |-> players', leader |-> led, result |-> result']
<1>1. e \in [lost : SUBSET (dead \cap P), result : BroadcastResults]
      /\ e.lost = lost /\ e.result = result'
  OBVIOUS
<1>2. led = IF result' \in {"sent", "stale"}
            THEN LeaderAfter(P, lost, l) ELSE NoLeader
  BY DEF BroadcastResults
<1>3. result' # "none"
  BY DEF BroadcastResults
<1> HIDE DEF e, led
<1>4. o = [ players |-> P \ e.lost,
            leader  |-> IF e.result \in {"sent", "stale"}
                        THEN LeaderAfter(P, e.lost, l) ELSE NoLeader,
            result  |-> e.result ]
  BY <1>1, <1>2
<1>5. EndsWith(P, to, l, e.lost, e.result)
  BY <1>1
<1> HIDE DEF P, to, l
<1>6. o \in BroadcastOutcomes(P, to, l, dead)
  <2> HIDE DEF o
  <2> QED
    BY <1>1, <1>4, <1>5 DEF BroadcastOutcomes
<1>7. o \in Abstract!BroadcastOutcomes(P, to, l, dead)
  BY <1>6, SameBroadcast, Zenon
<1>8. o.players = players' /\ o.leader = led /\ o.result = result'
  OBVIOUS
<1> HIDE DEF o
<1>9. Abstract!ABroadcast
  BY <1>3, <1>7, <1>8 DEF Abstract!ABroadcast, P, to, l, led
<1> QED
  BY <1>9 DEF Abstract!ANext

\* What is known of a call that goes on.
LEMMA GoingFacts ==
  ASSUME Inv, stack # <<>>
  PROVE  /\ result = "none" /\ players # {}
         /\ Lost \in SUBSET (dead \cap before.players)
         /\ players = before.players \ Lost /\ Lost # before.players
         /\ IsFiniteSet(Lost)
         /\ Lost # {} => before.leader # NoLeader /\ Lost \cap before.to # {}
         /\ leader = LeaderAfter(before.players, Lost, before.leader)
  BY DEF Inv, Calling, Lost

\* It returns.
LEMMA ReturnIsOutcome ==
  ASSUME Inv, LoopEnds, Tail(stack) = <<>>
  PROVE  Abstract!ANext
<1>1. /\ stack # <<>> /\ result' = "sent"
      /\ UNCHANGED <<players, leader, dead, before>>
  BY DEF LoopEnds
<1>2. EndsWith(before.players, before.to, before.leader, Lost, result')
  BY <1>1, GoingFacts DEF EndsWith
<1> QED
  BY <1>1, <1>2, GoingFacts, EndIsOutcome DEF BroadcastResults

\* A loss leaves nobody, or finds that nobody leads.
LEMMA LossIsOutcome ==
  ASSUME Inv, SendFails, result' # result
  PROVE  Abstract!ANext
<1>1. /\ AtSend /\ Next1 \in players \cap dead
      /\ players' = players \ {Next1}
      /\ UNCHANGED <<dead, before>>
      /\ \/ players' = {} /\ result' = "nobody"
         \/ /\ players' # {} /\ leader = NoLeader
            /\ result' = "uninitialized" /\ UNCHANGED leader
  BY DEF SendFails, Throw
<1>2. stack # <<>>
  BY <1>1 DEF AtSend
<1>3. /\ Lost' = Lost \cup {Next1} /\ Lost' \subseteq dead
      /\ Lost' \cap before.to # {}
  BY <1>1, LossFacts
<1>4. Lost = {} => Cardinality(Lost') = 1
  BY <1>3, FS_Singleton
<1>5. /\ Lost' \in SUBSET (dead \cap before.players)
      /\ players' = before.players \ Lost'
  BY <1>1, <1>2, <1>3, GoingFacts DEF Lost
<1>6. CASE players' = {} /\ result' = "nobody"
  <2>1. Lost' = before.players
    BY <1>5, <1>6
  <2>2. EndsWith(before.players, before.to, before.leader, Lost', result')
    BY <1>2, <1>3, <1>4, <1>6, <2>1, GoingFacts DEF EndsWith
  <2> QED
    BY <1>1, <1>2, <1>5, <1>6, <2>2, GoingFacts, EndIsOutcome
       DEF BroadcastResults
<1>7. CASE /\ players' # {} /\ leader = NoLeader
           /\ result' = "uninitialized" /\ UNCHANGED leader
  <2>1. before.leader = NoLeader
    <3>1. before.leader \in before.players \cup {NoLeader}
      BY DEF Inv, Calling
    <3>2. before.players \subseteq Nat
      BY PlayersAssumption DEF Inv, TypeOK
    <3>3. ASSUME before.leader \in before.players
          PROVE  leader \in before.players \ Lost
      BY <1>2, <3>2, <3>3, GoingFacts, LeaderAfterIsLeft
    <3> QED
      BY <1>7, <3>1, <3>2, <3>3, PlayersAssumption
  <2>2. Cardinality(Lost') = 1 /\ Lost' # before.players
    BY <1>2, <1>4, <1>5, <1>7, <2>1, GoingFacts
  <2>3. EndsWith(before.players, before.to, before.leader, Lost', result')
    BY <1>3, <1>7, <2>1, <2>2 DEF EndsWith
  <2> QED
    BY <1>1, <1>2, <1>5, <1>7, <2>3, GoingFacts, EndIsOutcome
       DEF BroadcastResults
<1> QED
  BY <1>1, <1>6, <1>7

\* A loop reaches a player who is gone only after two losses: of players who
\* were both addressed, or with a third one.
LEMMA StaleIsOutcome ==
  ASSUME Inv, SendToRemoved
  PROVE  Abstract!ANext
<1>1. /\ AtSend /\ Next1 \notin players /\ stack # <<>>
      /\ result' = "stale"
      /\ UNCHANGED <<players, leader, dead, before>>
  BY DEF SendToRemoved, AtSend, Throw
<1>2. Next1 \in Top.ids /\ Top.call = "send"
  BY <1>1, AtSendFacts DEF Inv
<1>3. InOrder(Top)
  BY <1>1, TopFacts DEF Inv, Nesting
<1>4. Top.ids \subseteq before.players /\ Interrupted(Top)
  BY <1>1, <1>2, <1>3 DEF InOrder
<1>5. Next1 \in Lost /\ IsFiniteSet(Lost)
  BY <1>1, <1>2, <1>4, GoingFacts
<1>6. \/ Cardinality(Lost) > 2
      \/ Cardinality(Lost) = 2 /\ Lost \subseteq before.to
  <2>1. CASE /\ Top.ids \subseteq before.to
             /\ (Lost \cap before.to) \ Top.ids # {}
    <3>1. PICK q \in Lost \cap before.to : q # Next1
      BY <1>2, <2>1
    <3>2. /\ Cardinality(Lost) \in Nat /\ Cardinality(Lost) >= 2
          /\ Cardinality(Lost) = 2 => Lost = {Next1, q}
      BY <1>5, <3>1, TwoMembers
    <3>3. {Next1, q} \subseteq before.to
      BY <1>2, <2>1, <3>1
    <3> QED
      BY <3>2, <3>3
  <2>2. CASE \E q, r \in Lost \ Top.ids : q # r
    <3>1. PICK q, r \in Lost : q # r /\ Next1 \notin {q, r}
      BY <1>2, <2>2
    <3>2. /\ Cardinality(Lost) \in Nat /\ Cardinality(Lost) >= 2
          /\ Cardinality(Lost) = 2 => Lost = {q, r}
      BY <1>5, <3>1, TwoMembers
    <3>3. Cardinality(Lost) # 2
      BY <1>5, <3>1, <3>2
    <3> QED
      BY <3>2, <3>3
  <2> QED
    BY <1>4, <2>1, <2>2 DEF Interrupted
<1>7. EndsWith(before.players, before.to, before.leader, Lost, result')
  BY <1>1, <1>5, <1>6, GoingFacts DEF EndsWith
<1> QED
  BY <1>1, <1>7, GoingFacts, EndIsOutcome DEF BroadcastResults

LEMMA StepIsAtomic ==
  ASSUME Inv, [Next]_vars
  PROVE  [Abstract!ANext]_(Abstract!aVars)
<1>1. CASE UNCHANGED vars
  BY <1>1 DEF vars, Abstract!aVars
<1>2. ASSUME result = "none", UNCHANGED <<result, dead, before>>
      PROVE  UNCHANGED Abstract!aVars
  BY <1>2 DEF Abstract!aVars
<1>3. stack # <<>> => result = "none"
  BY DEF Inv, Calling
<1>4. CASE Send
  BY <1>2, <1>3, <1>4 DEF Send, AtSend
<1>5. CASE SendFails
  <2>1. stack # <<>> /\ UNCHANGED <<dead, before>>
    BY <1>5 DEF SendFails, AtSend
  <2>2. CASE result' = result
    BY <1>2, <1>3, <2>1, <2>2
  <2> QED
    BY <1>5, <2>2, LossIsOutcome
<1>6. CASE SendToRemoved
  BY <1>6, StaleIsOutcome
<1>7. CASE AnnounceCrash
  BY <1>2, <1>3, <1>7 DEF AnnounceCrash
<1>8. CASE LoopEnds
  <2>1. CASE Tail(stack) = <<>>
    BY <1>8, <2>1, ReturnIsOutcome
  <2>2. CASE Tail(stack) # <<>>
    BY <1>2, <1>3, <1>8, <2>2 DEF LoopEnds
  <2> QED
    BY <2>1, <2>2
<1>9. ASSUME NEW p \in Players, Drop(p)
      PROVE  Abstract!ANext
  <2>1. Abstract!ADrop
    BY <1>9 DEF Drop, Abstract!ADrop
  <2> QED
    BY <2>1 DEF Abstract!ANext
<1> QED
  BY <1>1, <1>4, <1>5, <1>6, <1>7, <1>8, <1>9 DEF Next, SessionThread, Done

\* However its disconnections nest, a broadcast is one step of AtomicBroadcast:
\* the players it loses are lost at once, and it ends in one of the outcomes of
\* SessionBroadcast, those the other modules take a broadcast for.
THEOREM BroadcastIsAtomic == Spec => Abstract!ASpec
<1>1. Init => Abstract!AInit
  <2> SUFFICES ASSUME Init
               PROVE  Abstract!AInit
    OBVIOUS
  <2>1. PICK to \in SUBSET players :
          /\ before.players = players /\ before.leader = leader
          /\ before.to = to
    BY DEF Init
  <2> QED
    BY <2>1 DEF Init, Abstract!AInit
<1>2. Inv /\ [Next]_vars => [Abstract!ANext]_(Abstract!aVars)
  BY StepIsAtomic
<1> QED
  BY <1>1, <1>2, BroadcastInvariant, PTL DEF Spec, Abstract!ASpec
=============================================================================
