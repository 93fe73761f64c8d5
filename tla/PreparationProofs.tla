------------------------- MODULE PreparationProofs -------------------------
(***************************************************************************)
(* Proofs about the preparation of a session, for any set of members: the  *)
(* master is one of them unless a registration completes during a session, *)
(* no member is left without a socket, and, while no registration is late, *)
(* nobody whose connection holds leaves who was not to be kicked.          *)
(***************************************************************************)
EXTENDS Preparation, TLAPS

Numbers == INSTANCE SessionBroadcastProofs WITH NoLeader <- NoMaster

\* The master that updateMaster makes of the members.
Mastered(ms, boss) == boss \in (IF ms = {} THEN {NoMaster} ELSE ms)

\* The master is a member unless a session has just ended, and then too when
\* it was refused; a registration during a session may spoil this.
MasterKnown ==
  intruded = FALSE =>
    /\ pc \notin {"result", "idle", "stopped"} => Mastered(members, master)
    /\ pc = "result" /\ result \in ParametersErrors =>
         Mastered(members, master)

\* While a session is played its entrants have the sockets.  It hands back
\* every socket or, when it crashes, none; the members are told the result
\* before anything else is done.
SocketsKnown ==
  /\ closed # {} => pc \in {"playing", "result", "stopped"}
  /\ entrants # {} => pc = "playing"
  /\ pc = "playing" => closed \subseteq entrants
  /\ pc = "playing" /\ intruded = FALSE => members = entrants
  /\ pc = "result" /\ joins = 0 /\ closed # {} =>
       closed = members /\ members \cap dead # {}

\* Only a registration that comes late changes the master who is asked, or
\* completes during a session.
LateKnown ==
  /\ joins = 0 => intruded = FALSE
  /\ pc = "wait" /\ joins = 0 => master = asked

\* Only members whom the checkpoint does not know are to be kicked.
KicksUnexpected == pc = "kicking" => kicks \cap chkpt = {}

Inv == TypeOK /\ MasterKnown /\ SocketsKnown /\ LateKnown /\ KicksUnexpected

-----------------------------------------------------------------------------
(* Broadcasts.                                                             *)

LEMMA FirstIsMember ==
  ASSUME NEW S, S \subseteq Ids
  PROVE  /\ FirstOf(S) \in Ids \cup {NoMaster}
         /\ S # {} => FirstOf(S) \in S
         /\ Mastered(S, FirstOf(S))
<1>1. CASE S = {}
  BY <1>1 DEF FirstOf, Mastered
<1>2. CASE S # {}
  <2>1. S \subseteq Nat /\ NoMaster \notin Nat
    BY MasterAssumption
  <2>2. Numbers!Min(S) \in S
    BY <1>2, <2>1, Numbers!LeastOfNat
  <2>3. FirstOf(S) \in S
    BY <1>2, <2>2 DEF FirstOf, Min, Numbers!Min
  <2> QED
    BY <1>2, <2>3 DEF Mastered
<1> QED
  BY <1>1, <1>2

\* What a broadcast to "ms" that returns has done, "boss" being the master.
Delivered(ms, boss) ==
  /\ members' \subseteq ms /\ ms \ members' \subseteq dead \cup closed
  /\ ready' \subseteq members'
  /\ master' \in Ids \cup {NoMaster}
  /\ members' = ms => master' = boss
  /\ members' # ms => Mastered(members', master')
  /\ members' \cap closed = {}
  /\ ms \cap closed # {} => \E x : ms \cap closed = {x}

LEMMA SentFacts ==
  ASSUME NEW ms, ms \subseteq Ids, NEW boss \in Ids \cup {NoMaster},
         NEW o \in Sent(ms, boss), ready \subseteq members
  PROVE  /\ o.members \subseteq ms /\ ms \ o.members \subseteq dead \cup closed
         /\ o.master \in Ids \cup {NoMaster}
         /\ o.members = ms => o.master = boss
         /\ o.members # ms => Mastered(o.members, o.master)
         /\ o.members \cap closed = {}
         /\ ms \cap closed # {} => \E x : ms \cap closed = {x}
<1>1. PICK lost \in SUBSET Broken(ms) :
        /\ ms \cap closed \subseteq {FirstOf(lost)}
        /\ o = [ members |-> ms \ lost,
                 master  |-> MasterAfter(boss, ms \ lost, lost) ]
  BY DEF Sent
<1>2. /\ o.members = ms \ lost /\ o.master = MasterAfter(boss, ms \ lost, lost)
      /\ lost \subseteq ms /\ lost \subseteq dead \cup closed
  BY <1>1 DEF Broken
<1>3. lost # {} => FirstOf(lost) \in lost
  BY <1>2, FirstIsMember
<1>4. lost = {} => ms \cap closed = {}
  BY <1>1, MasterAssumption DEF FirstOf
<1>5. (ms \ lost) \cap closed = {}
  BY <1>1, <1>3, <1>4
<1>6. ms \cap closed # {} => ms \cap closed = {FirstOf(lost)}
  BY <1>1
<1>7. /\ Mastered(ms \ lost, FirstOf(ms \ lost))
      /\ FirstOf(ms \ lost) \in Ids \cup {NoMaster}
  BY FirstIsMember
<1>8. CASE lost = {}
  BY <1>2, <1>4, <1>8 DEF MasterAfter
<1>9. CASE lost # {}
  BY <1>2, <1>5, <1>6, <1>7, <1>9 DEF MasterAfter
<1> QED
  BY <1>8, <1>9

LEMMA MoveToFacts ==
  ASSUME TypeOK, NEW ms, ms \subseteq Ids, NEW boss \in Ids \cup {NoMaster},
         NEW o \in Sent(ms, boss), MoveTo(o)
  PROVE  Delivered(ms, boss)
<1>1. ready \subseteq members
  BY DEF TypeOK
<1>2. /\ members' = o.members /\ master' = o.master
      /\ ready' \subseteq members'
  BY DEF MoveTo
<1> QED
  BY <1>1, <1>2, SentFacts DEF Delivered

LEMMA SendToAllFacts ==
  ASSUME TypeOK, NEW ms, ms \subseteq Ids, NEW boss \in Ids \cup {NoMaster},
         NEW next, SendToAll(ms, boss, next)
  PROVE  \/ Delivered(ms, boss) /\ pc' = next
         \/ pc' = "stopped" /\ UNCHANGED lobbyVars
  BY MoveToFacts DEF SendToAll

\* A master who is replaced is a member.
LEMMA SafeSendFacts ==
  ASSUME TypeOK, NEW next, SafeSendToAll(next)
  PROVE  \/ /\ Delivered(members, master)
            /\ pc' \in {next, "lost"}
            /\ pc' # next => Mastered(members', master')
         \/ pc' = "stopped" /\ UNCHANGED lobbyVars
<1>1. CASE \E o \in Sent(members, master) :
             /\ MoveTo(o)
             /\ pc' = IF master # NoMaster /\ o.master # master
                      THEN "lost" ELSE next
  <2>1. PICK o \in Sent(members, master) :
          /\ MoveTo(o)
          /\ pc' = IF master # NoMaster /\ o.master # master
                   THEN "lost" ELSE next
    BY <1>1
  <2>2. Delivered(members, master)
    BY <2>1, MoveToFacts DEF TypeOK
  <2>3. master' = o.master
    BY <2>1 DEF MoveTo
  <2> QED
    BY <2>1, <2>2, <2>3 DEF Delivered
<1> QED
  BY <1>1 DEF SafeSendToAll

-----------------------------------------------------------------------------
(* The steps.                                                              *)

\* Those who may leave the lobby or the session: see LivingMembersStay.
Leavers == UNION {dead, Kicked, IF joins' = 0 THEN {} ELSE Displaced}

Stays == (members \cup entrants) \ (members' \cup entrants') \subseteq Leavers

LEMMA WhoLeaves ==
  /\ dead \subseteq Leavers
  /\ pc \in {"kick", "kicking"} => members \ chkpt \subseteq Leavers
  /\ joins' # 0 => Displaced \subseteq Leavers
  BY DEF Leavers, Kicked

\* What a step of the main thread does, but for the members: it keeps the
\* types, and kicks only members whom the checkpoint does not know.
Frame ==
  /\ UNCHANGED <<sockets, result, late>>
  /\ dead' \subseteq Ids /\ closure' \in BOOLEAN
  /\ chkpt' \subseteq Ids /\ allowed' \in BOOLEAN /\ missing' \in BOOLEAN
  /\ kicks' \subseteq Ids
  /\ pc' = "kicking" => kicks' \cap chkpt' = {}
  /\ pc' = "wait" => asked' = master'
  /\ asked' \in Ids \cup {NoMaster} /\ question' \in Questions

Played == {"playing", "result"}

Inside == Places \ (Ended \cup Played)

LEMMA UnchangedFrame ==
  ASSUME Inv, UNCHANGED <<outside, sockets, kicks, result>>,
         chkpt' \subseteq Ids, allowed' \in BOOLEAN, missing' \in BOOLEAN,
         asked' \in Ids \cup {NoMaster}, question' \in Questions,
         pc' = "kicking" => kicks' \cap chkpt' = {},
         pc' = "wait" => asked' = master'
  PROVE  Frame
  BY DEF Inv, TypeOK, Frame, outside

LEMMA InsideFacts ==
  ASSUME Inv, pc \in Inside
  PROVE  closed = {} /\ entrants = {}
  BY DEF Inv, SocketsKnown, Inside, Played, Ended

LEMMA FrameFacts ==
  ASSUME Inv, Frame, pc \in Inside, pc' \in Places \ Played
  PROVE  /\ closed' = {} /\ entrants' = {} /\ result' = result
         /\ joins' = joins /\ intruded' = intruded
         /\ SocketsKnown' /\ LateKnown' /\ KicksUnexpected'
<1>1. /\ closed' = {} /\ entrants' = {} /\ result' = result
      /\ joins' = joins /\ intruded' = intruded
  BY InsideFacts DEF Frame, sockets, late
<1>2. joins' = 0 => intruded' = FALSE
  BY <1>1 DEF Inv, LateKnown
<1> QED
  BY <1>1, <1>2 DEF Frame, SocketsKnown, LateKnown, KicksUnexpected, Played

LEMMA FrameTypes ==
  ASSUME Inv, Frame, pc \in Inside, pc' \in Places \ Played,
         members' \subseteq Ids, ready' \subseteq members',
         master' \in Ids \cup {NoMaster}
  PROVE  TypeOK'
<1>1. /\ closed' = {} /\ entrants' = {} /\ result' = result
      /\ joins' = joins /\ intruded' = intruded
  BY FrameFacts
<1> QED
  BY <1>1 DEF Frame, Inv, TypeOK

\* The members stay as they are.
LEMMA QuietKeepsInv ==
  ASSUME Inv, Frame, pc \in Inside, UNCHANGED lobbyVars,
         pc' \in Places \ Played
  PROVE  Inv' /\ Stays
<1>1. UNCHANGED <<members, ready, master>>
  BY DEF lobbyVars
<1>2. TypeOK'
  BY <1>1, FrameTypes DEF Inv, TypeOK
<1>3. MasterKnown'
  BY <1>1, FrameFacts
     DEF Inv, MasterKnown, Mastered, Inside, Played, Ended
<1>4. Stays
  BY <1>1, InsideFacts DEF Stays
<1> QED
  BY <1>2, <1>3, <1>4, FrameFacts DEF Inv

\* The members are sent a message, which may stop the server.
LEMMA DeliveredKeepsInv ==
  ASSUME Inv, Frame, pc \in Inside, NEW ms \in SUBSET Ids,
         NEW boss \in Ids \cup {NoMaster},
         Delivered(ms, boss), pc' \in Places \ Played,
         intruded = FALSE /\ members' = ms /\ pc' \notin {"idle", "stopped"} =>
           Mastered(ms, boss),
         members \ ms \subseteq Leavers
  PROVE  Inv' /\ Stays
<1>1. TypeOK'
  BY FrameTypes DEF Delivered
<1>2. MasterKnown'
  BY FrameFacts DEF MasterKnown, Mastered, Delivered, Played
<1>3. Stays
  BY InsideFacts, WhoLeaves DEF Stays, Delivered
<1> QED
  BY <1>1, <1>2, <1>3, FrameFacts DEF Inv

LEMMA InsideMaster ==
  ASSUME Inv, pc \in Inside
  PROVE  /\ TypeOK /\ members \in SUBSET Ids /\ ready \subseteq members
         /\ master \in Ids \cup {NoMaster}
         /\ intruded = FALSE => Mastered(members, master)
  BY DEF Inv, TypeOK, MasterKnown, Inside, Played, Ended

LEMMA SafeSendKeepsInv ==
  ASSUME Inv, Frame, pc \in Inside, NEW next \in Places \ Played,
         SafeSendToAll(next)
  PROVE  Inv' /\ Stays
<1>1. /\ TypeOK /\ members \in SUBSET Ids
      /\ master \in Ids \cup {NoMaster}
      /\ intruded = FALSE => Mastered(members, master)
  BY InsideMaster
<1>2. CASE Delivered(members, master) /\ pc' \in {next, "lost"}
  BY <1>1, <1>2, DeliveredKeepsInv DEF Places, Ended, Played
<1>3. CASE pc' = "stopped" /\ UNCHANGED lobbyVars
  BY <1>3, QuietKeepsInv DEF Places, Ended, Played
<1> QED
  BY <1>1, <1>2, <1>3, SafeSendFacts

LEMMA DisconnectKeepsInv ==
  ASSUME Inv, Frame, pc \in Inside, NEW next \in Places \ Played,
         NEW id, members \cap {id} \subseteq Leavers, Disconnect(id, next)
  PROVE  Inv' /\ Stays
<1> DEFINE left == members \ {id}
<1>1. TypeOK /\ left \in SUBSET Ids
  BY DEF Inv, TypeOK
<1>2. FirstOf(left) \in Ids \cup {NoMaster} /\ Mastered(left, FirstOf(left))
  BY <1>1, FirstIsMember
<1>3. SendToAll(left, FirstOf(left), next)
  BY DEF Disconnect
<1> HIDE DEF left
<1>4. \/ Delivered(left, FirstOf(left)) /\ pc' = next
      \/ pc' = "stopped" /\ UNCHANGED lobbyVars
  BY <1>1, <1>2, <1>3, SendToAllFacts
<1>5. CASE Delivered(left, FirstOf(left)) /\ pc' = next
  <2>1. members \ left \subseteq Leavers
    BY DEF left
  <2> QED
    BY <1>1, <1>2, <1>5, <2>1, DeliveredKeepsInv
<1>6. CASE pc' = "stopped" /\ UNCHANGED lobbyVars
  BY <1>6, QuietKeepsInv DEF Places, Ended, Played
<1> QED
  BY <1>4, <1>5, <1>6

-----------------------------------------------------------------------------
(* The environment.                                                        *)

LEMMA DropKeepsInv ==
  ASSUME Inv, RequestClosure \/ \E id \in Ids : Drop(id)
  PROVE  Inv' /\ Stays
<1>1. /\ UNCHANGED <<members, ready, master, closed, entrants, kicks, chkpt,
                     allowed, missing, result, asked, question, joins,
                     intruded, pc>>
      /\ dead \subseteq dead'
  BY DEF Drop, RequestClosure, lobbyVars, sockets, parameters, dialogue, late
<1>2. dead' \subseteq Ids /\ closure' \in BOOLEAN
  BY DEF Drop, RequestClosure, Inv, TypeOK
<1>3. TypeOK'
  BY <1>1, <1>2 DEF Inv, TypeOK
<1>4. MasterKnown' /\ SocketsKnown' /\ LateKnown' /\ KicksUnexpected'
  BY <1>1 DEF Inv, MasterKnown, SocketsKnown, LateKnown, KicksUnexpected
<1>5. Stays
  BY <1>1 DEF Stays
<1> QED
  BY <1>3, <1>4, <1>5 DEF Inv

\* What a registration leaves as it is, whatever it announces.
LEMMA RegistersFacts ==
  ASSUME Inv, Registers
  PROVE  /\ pc' = pc /\ pc \in Places \ Ended
         /\ UNCHANGED <<entrants, kicks, chkpt, allowed, missing, result,
                        asked, question>>
         /\ joins' \in 0 .. MaxJoins /\ joins' # 0
         /\ intruded' \in BOOLEAN
         /\ pc = "playing" => intruded' = TRUE
         /\ pc # "playing" => intruded' = intruded
<1>1. joins' \in 0 .. MaxJoins /\ joins' # 0
  BY JoinsAssumption DEF Registers, Inv, TypeOK
<1>2. intruded' = (intruded \/ pc = "playing") /\ intruded \in BOOLEAN
  BY DEF Registers, Inv, TypeOK
<1>3. /\ intruded' \in BOOLEAN
      /\ pc = "playing" => intruded' = TRUE
      /\ pc # "playing" => intruded' = intruded
  BY <1>2
<1> QED
  BY <1>1, <1>3
     DEF Registers, Going, parameters, dialogue, Inv, TypeOK

\* A registration that leaves a member for a master, and only members with a
\* socket, harms nothing.
LEMMA RegisteredKeepsInv ==
  ASSUME Inv, Registers,
         members' \subseteq Ids, ready' \subseteq members',
         master' \in Ids \cup {NoMaster}, Mastered(members', master'),
         closed' = {}, dead' \subseteq Ids, closure' \in BOOLEAN,
         members \ members' \subseteq dead \cup closed
  PROVE  Inv' /\ Stays
<1>1. TypeOK'
  BY RegistersFacts DEF Inv, TypeOK
<1>2. MasterKnown'
  BY DEF MasterKnown
<1>3. SocketsKnown' /\ LateKnown' /\ KicksUnexpected'
  BY RegistersFacts
     DEF Inv, SocketsKnown, LateKnown, KicksUnexpected
<1>4. Stays
  <2>1. Displaced \subseteq Leavers /\ dead \subseteq Leavers
    BY RegistersFacts, WhoLeaves
  <2>2. pc # "playing" => closed \subseteq Leavers /\ entrants = {}
    BY <2>1 DEF Displaced, Inv, SocketsKnown
  <2>3. pc = "playing" => closed \subseteq entrants
    BY DEF Inv, SocketsKnown
  <2> QED
    BY <2>1, <2>2, <2>3, RegistersFacts DEF Stays
<1> QED
  BY <1>1, <1>2, <1>3, <1>4 DEF Inv

LEMMA LateJoinKeepsInv ==
  ASSUME Inv, NEW id \in Ids, LateJoin(id)
  PROVE  Inv' /\ Stays
<1>1. PICK o \in Sent(members, master) :
        /\ \E oo \in { x \in Sent(o.members \cup {id},
                                  FirstOf(o.members \cup {id})) :
                       id \in x.members } : MoveTo(oo)
        /\ closed' = closed \cap o.members
  BY DEF LateJoin
<1> DEFINE ms == o.members \cup {id}
<1>2. /\ TypeOK /\ members \subseteq Ids /\ ready \subseteq members
      /\ master \in Ids \cup {NoMaster}
  BY DEF Inv, TypeOK
<1>3. /\ o.members \subseteq members /\ closed' = {}
      /\ members \ o.members \subseteq dead \cup closed
  BY <1>1, <1>2, SentFacts
<1>4. ms \subseteq Ids /\ FirstOf(ms) \in Ids \cup {NoMaster}
      /\ Mastered(ms, FirstOf(ms))
  BY <1>2, <1>3, FirstIsMember
<1>5. PICK oo \in Sent(ms, FirstOf(ms)) : MoveTo(oo)
  BY <1>1
<1>6. members \ ms \subseteq dead \cup closed
  BY <1>3
<1> HIDE DEF ms
<1>7. Delivered(ms, FirstOf(ms))
  BY <1>2, <1>4, <1>5, MoveToFacts
<1>8. /\ Registers /\ dead' \subseteq Ids /\ closure' \in BOOLEAN
  BY DEF LateJoin, Inv, TypeOK
<1>9. /\ members' \subseteq Ids /\ ready' \subseteq members'
      /\ master' \in Ids \cup {NoMaster} /\ Mastered(members', master')
      /\ members \ members' \subseteq dead \cup closed
  BY <1>4, <1>6, <1>7 DEF Delivered
<1> QED
  BY <1>3, <1>8, <1>9, RegisteredKeepsInv

LEMMA LateJoinFailsKeepsInv ==
  ASSUME Inv, LateJoinFails
  PROVE  Inv' /\ Stays
<1>1. /\ TypeOK /\ members \subseteq Ids /\ ready \subseteq members
      /\ master \in Ids \cup {NoMaster} /\ closed \subseteq members
  BY DEF Inv, TypeOK
<1>2. /\ members' \subseteq Ids /\ members' \cap closed = {}
      /\ members \ members' \subseteq dead \cup closed
  <2>1. CASE \E lost \in SUBSET Broken(members) :
               closed \subseteq lost /\ members' = members \ lost
    BY <1>1, <2>1 DEF Broken
  <2>2. CASE \E id \in Ids \ members, o \in Sent(members, master) :
               \E lost \in SUBSET (Broken(o.members) \cup {id}) :
                 members' = (o.members \cup {id}) \ lost
    <3>1. PICK id \in Ids \ members, o \in Sent(members, master) :
            \E lost \in SUBSET (Broken(o.members) \cup {id}) :
              members' = (o.members \cup {id}) \ lost
      BY <2>2
    <3>2. /\ o.members \subseteq members /\ o.members \cap closed = {}
          /\ members \ o.members \subseteq dead \cup closed
      BY <1>1, SentFacts
    <3> QED
      BY <1>1, <3>1, <3>2 DEF Broken
  <2> QED
    BY <2>1, <2>2 DEF LateJoinFails
<1>3. /\ Registers /\ closure' \in BOOLEAN /\ dead' \subseteq Ids
      /\ master' = FirstOf(members') /\ ready' \subseteq members'
      /\ closed' = closed \cap members'
  BY DEF LateJoinFails, Inv, TypeOK
<1>4. master' \in Ids \cup {NoMaster} /\ Mastered(members', master')
  BY <1>2, <1>3, FirstIsMember
<1> QED
  BY <1>2, <1>3, <1>4, RegisteredKeepsInv

-----------------------------------------------------------------------------
(* The main thread.                                                        *)

LEMMA QuestionsKeepInv ==
  ASSUME Inv, \/ Prepare \/ SelectCheckpoint \/ CheckPlayers \/ StartSession
              \/ Revise
  PROVE  Inv' /\ Stays
<1>1. /\ pc \in Inside
      /\ UNCHANGED <<outside, sockets, kicks, result, asked>>
      /\ chkpt' \subseteq Ids /\ allowed' \in BOOLEAN /\ missing' \in BOOLEAN
      /\ question' \in Questions /\ asked' \in Ids \cup {NoMaster}
  BY DEF Prepare, SelectCheckpoint, CheckPlayers, StartSession, Revise,
         Inside, Played, Places, Ended, parameters, dialogue, Inv, TypeOK,
         Questions
<1>2. \/ \E next \in {"select", "ask", "start", "session"} :
           SafeSendToAll(next)
      \/ pc' \in {"start", "idle"} /\ UNCHANGED lobbyVars
  BY DEF Prepare, SelectCheckpoint, CheckPlayers, StartSession, Revise
<1>3. CASE \E next \in {"select", "ask", "start", "session"} :
             SafeSendToAll(next)
  <2>1. PICK next \in {"select", "ask", "start", "session"} :
          SafeSendToAll(next)
    BY <1>3
  <2>2. pc' \in {next, "lost", "stopped"}
    BY <2>1, SafeSendFacts DEF Inv
  <2>3. Frame
    BY <1>1, <2>2, UnchangedFrame
  <2> QED
    BY <1>1, <2>1, <2>3, SafeSendKeepsInv DEF Places, Ended, Played
<1>4. CASE pc' \in {"start", "idle"} /\ UNCHANGED lobbyVars
  <2>1. Frame
    BY <1>1, <1>4, UnchangedFrame
  <2> QED
    BY <1>1, <1>4, <2>1, QuietKeepsInv DEF Places, Ended, Played
<1> QED
  BY <1>2, <1>3, <1>4

LEMMA AskKeepsInv ==
  ASSUME Inv, Ask \/ MasterFails
  PROVE  Inv' /\ Stays
<1>1. /\ pc \in Inside
      /\ UNCHANGED <<outside, sockets, kicks, result, parameters, question>>
  BY DEF Ask, MasterFails, ReceiveFails, Inside, Played, Places, Ended,
         dialogue
<1>2. \/ members \cap {master} \subseteq Leavers
      \/ Ask /\ master \notin dead
  <2>1. CASE MasterFails /\ joins = 0
    BY <2>1, WhoLeaves DEF MasterFails, ReceiveFails, Inv, LateKnown
  <2>2. CASE MasterFails /\ joins # 0
    <3>1. joins' # 0 /\ pc = "wait" /\ asked \in dead
      BY <2>2 DEF MasterFails, ReceiveFails, outside, late
    <3>2. {master} \ {asked} \subseteq Leavers /\ dead \subseteq Leavers
      BY <3>1, WhoLeaves DEF Displaced
    <3> QED
      BY <3>1, <3>2
  <2>3. CASE Ask
    BY <2>3, WhoLeaves
  <2> QED
    BY <2>1, <2>2, <2>3
<1>3. \/ /\ pc' \in {"wait", "undefined", "stopped"} /\ UNCHANGED lobbyVars
         /\ asked' \in Ids \cup {NoMaster}
         /\ pc' = "wait" => asked' = master
      \/ /\ asked' = asked /\ Disconnect(master, "lost")
         /\ members \cap {master} \subseteq Leavers
  BY <1>2 DEF Ask, MasterFails, Inv, TypeOK, dialogue
<1>4. asked' \in Ids \cup {NoMaster}
  BY <1>3 DEF Inv, TypeOK
<1>5. pc' # "kicking" /\ (pc' = "wait" => asked' = master')
  BY <1>3 DEF Disconnect, SendToAll, lobbyVars
<1>6. Frame
  BY <1>1, <1>4, <1>5, UnchangedFrame DEF parameters, Inv, TypeOK
<1>7. CASE /\ pc' \in {"wait", "undefined", "stopped"} /\ UNCHANGED lobbyVars
  BY <1>1, <1>6, <1>7, QuietKeepsInv DEF Places, Ended, Played
<1>8. CASE /\ Disconnect(master, "lost")
           /\ members \cap {master} \subseteq Leavers
  BY <1>1, <1>6, <1>8, DisconnectKeepsInv DEF Places, Ended, Played
<1> QED
  BY <1>3, <1>7, <1>8

LEMMA AnswerKeepsInv ==
  ASSUME Inv, Answer
  PROVE  Inv' /\ Stays
<1>1. /\ pc \in Inside /\ UNCHANGED lobbyVars
      /\ UNCHANGED <<outside, sockets, kicks, result, asked>>
      /\ chkpt' \subseteq Ids /\ allowed' \in BOOLEAN /\ missing' \in BOOLEAN
      /\ question' \in Questions
      /\ pc' \in {"checking", "start", "select", "kick", "ask", "idle"}
  BY DEF Answer, AnswerCheckpoint, AnswerYes, AnswerNo, Replied, Configure,
         GiveUp, ThenAsk, Inside, Played, Places, Ended, parameters, dialogue,
         Inv, TypeOK, Questions
<1>2. Frame
  BY <1>1, UnchangedFrame DEF Inv, TypeOK
<1> QED
  BY <1>1, <1>2, QuietKeepsInv DEF Places, Ended, Played

LEMMA TellMasterKeepsInv ==
  ASSUME Inv, TellMaster
  PROVE  Inv' /\ Stays
<1>1. /\ pc \in Inside /\ TypeOK /\ members \in SUBSET Ids
      /\ master \in Ids \cup {NoMaster}
      /\ intruded = FALSE => Mastered(members, master)
  BY InsideMaster DEF TellMaster, Inside, Played, Places, Ended
<1>2. \/ Delivered(members, master) /\ pc' = "revise"
      \/ pc' = "stopped" /\ UNCHANGED lobbyVars
  BY <1>1, SendToAllFacts DEF TellMaster
<1>3. Frame
  BY <1>2, UnchangedFrame DEF TellMaster, parameters, dialogue, Inv, TypeOK
<1> QED
  BY <1>1, <1>2, <1>3, DeliveredKeepsInv, QuietKeepsInv
     DEF Places, Ended, Played

\* To be kicked, a member must be unknown to the checkpoint.
LEMMA KickKeepsInv ==
  ASSUME Inv, Frame, pc \in {"kick", "kicking"},
         NEW next \in Places \ Played, NEW id \in members \ chkpt,
         KickMember(id, next)
  PROVE  Inv' /\ Stays
<1>1. members \cap {id} \subseteq Leavers /\ pc \in Inside
  BY WhoLeaves DEF Inside, Played, Places, Ended
<1> QED
  BY <1>1, DisconnectKeepsInv, QuietKeepsInv
     DEF KickMember, Places, Ended, Played

LEMMA KickMasterKeepsInv ==
  ASSUME Inv, KickMaster
  PROVE  Inv' /\ Stays
<1>1. /\ pc = "kick" /\ pc \in Inside
      /\ UNCHANGED <<outside, sockets, parameters, result, dialogue>>
  BY DEF KickMaster, Inside, Played, Places, Ended
<1>2. CASE master \in Unexpected /\ KickMember(master, "lost")
           /\ UNCHANGED kicks
  <2>1. pc' \in {"lost", "stopped"}
    BY <1>2 DEF KickMember, Disconnect, SendToAll
  <2>2. Frame
    BY <1>1, <1>2, <2>1, UnchangedFrame DEF parameters, dialogue, Inv, TypeOK
  <2> QED
    BY <1>1, <1>2, <2>2, KickKeepsInv
       DEF Unexpected, Places, Ended, Played
<1>3. CASE /\ kicks' = Unexpected /\ pc' = "kicking"
           /\ UNCHANGED lobbyVars
  <2>1. Frame
    BY <1>1, <1>3
       DEF Frame, Unexpected, parameters, dialogue, outside, sockets, Inv,
           TypeOK
  <2> QED
    BY <1>1, <1>3, <2>1, QuietKeepsInv DEF Places, Ended, Played
<1>4. CASE pc' = "undefined" /\ UNCHANGED <<lobbyVars, kicks>>
  <2>1. Frame
    BY <1>1, <1>4, UnchangedFrame DEF parameters, dialogue, Inv, TypeOK
  <2> QED
    BY <1>1, <1>4, <2>1, QuietKeepsInv DEF Places, Ended, Played
<1> QED
  BY <1>2, <1>3, <1>4 DEF KickMaster

LEMMA KickNextKeepsInv ==
  ASSUME Inv, KickNext
  PROVE  Inv' /\ Stays
<1>1. /\ pc = "kicking" /\ pc \in Inside
      /\ kicks \subseteq Ids /\ kicks \cap chkpt = {}
      /\ UNCHANGED <<outside, sockets, result, asked>>
  BY DEF KickNext, Inside, Played, Places, Ended, Inv, TypeOK,
         KicksUnexpected
<1>2. CASE kicks = {} /\ Configure(FALSE) /\ UNCHANGED <<lobbyVars, kicks>>
  <2>1. Frame
    BY <1>1, <1>2, UnchangedFrame DEF Configure, Inv, TypeOK
  <2> QED
    BY <1>1, <1>2, <2>1, QuietKeepsInv
       DEF Configure, Places, Ended, Played
<1>3. CASE /\ kicks # {}
           /\ kicks' = kicks \ {FirstOf(kicks)}
           /\ IF FirstOf(kicks) \in members
              THEN KickMember(FirstOf(kicks), "kicking")
              ELSE pc' = "stopped" /\ UNCHANGED lobbyVars
           /\ UNCHANGED <<parameters, question>>
  <2>1. FirstOf(kicks) \in kicks
    BY <1>1, <1>3, FirstIsMember
  <2>2. pc' \in {"kicking", "stopped"}
    BY <1>3 DEF KickMember, Disconnect, SendToAll
  <2>3. Frame
    BY <1>1, <1>3, <2>2 DEF Frame, parameters, outside, Inv, TypeOK
  <2> QED
    BY <1>1, <1>3, <2>1, <2>3, KickKeepsInv, QuietKeepsInv
       DEF Places, Ended, Played
<1> QED
  BY <1>2, <1>3 DEF KickNext

LEMMA AbortKeepsInv ==
  ASSUME Inv, AbortPreparation
  PROVE  Inv' /\ Stays
<1>1. /\ pc \in Inside /\ members \in SUBSET Ids /\ ready \subseteq members
      /\ master \in Ids \cup {NoMaster}
      /\ intruded = FALSE => Mastered(members, master)
  BY InsideMaster DEF AbortPreparation, Inside, Played, Places, Ended
<1>2. pc' \in {"idle", "stopped"}
  BY DEF AbortPreparation, CatchMasterLost
<1>3. Frame
  BY <1>2, UnchangedFrame
     DEF AbortPreparation, parameters, dialogue, Inv, TypeOK
<1>4. CASE \E o \in Sent(members, master) :
             members' = o.members /\ master' = o.master /\ ready' = {}
  <2>1. PICK o \in Sent(members, master) :
          members' = o.members /\ master' = o.master /\ ready' = {}
    BY <1>4
  <2>2. Delivered(members, master)
    BY <1>1, <2>1, SentFacts DEF Delivered
  <2> QED
    BY <1>1, <1>2, <1>3, <2>2, DeliveredKeepsInv DEF Places, Ended, Played
<1>5. CASE UNCHANGED lobbyVars
  BY <1>1, <1>2, <1>3, <1>5, QuietKeepsInv DEF Places, Ended, Played
<1> QED
  BY <1>4, <1>5 DEF AbortPreparation, CatchMasterLost

\* The entrants are given the members' sockets ...
LEMMA EnterKeepsInv ==
  ASSUME Inv, EnterSession
  PROVE  Inv' /\ Stays
<1>1. /\ pc = "session" /\ pc' = "playing"
      /\ entrants' = members /\ closed' = members
      /\ UNCHANGED <<members, ready, master, dead, closure, joins, intruded,
                     kicks, chkpt, allowed, missing, result, asked, question>>
  BY DEF EnterSession, lobbyVars, outside, late, parameters, dialogue
<1>2. TypeOK'
  BY <1>1 DEF Inv, TypeOK, Places
<1>3. MasterKnown' /\ SocketsKnown' /\ LateKnown' /\ KicksUnexpected'
  BY <1>1 DEF Inv, MasterKnown, SocketsKnown, LateKnown, KicksUnexpected
<1>4. Stays
  BY <1>1 DEF Stays, Inv, SocketsKnown
<1> QED
  BY <1>2, <1>3, <1>4 DEF Inv

\* ... and the session changes them, and perhaps keeps the sockets.
LEMMA PlayKeepsInv ==
  ASSUME Inv, Play
  PROVE  Inv' /\ Stays
<1>1. PICK e \in SessionOutcomes(entrants, dead, chkpt, missing) :
        /\ members' = e.entrants
        /\ closed' = e.entrants \ e.sockets
        /\ result' = e.result
  BY DEF Play
<1>2. /\ pc = "playing" /\ pc' = "result" /\ ready' = {} /\ entrants' = {}
      /\ UNCHANGED <<master, dead, closure, joins, intruded, kicks, chkpt,
                     allowed, missing, asked, question>>
  BY DEF Play, outside, late, parameters, dialogue
<1>3. /\ e.result \in SessionResults /\ e.entrants \subseteq entrants
      /\ e.sockets \subseteq entrants
  BY DEF SessionOutcomes
<1>4. /\ entrants \ e.entrants \subseteq dead
      /\ e.result \in ParametersErrors =>
           e.entrants = entrants /\ e.sockets = entrants
      /\ e.sockets # e.entrants =>
           /\ e.entrants = entrants /\ e.sockets = {}
           /\ entrants \cap dead # {}
  BY DEF SessionOutcomes, ParametersErrors
<1>5. TypeOK'
  BY <1>1, <1>2, <1>3 DEF Inv, TypeOK, Places
<1>6. intruded = FALSE => members = entrants /\ Mastered(members, master)
  BY <1>2 DEF Inv, SocketsKnown, MasterKnown
<1>7. MasterKnown'
  BY <1>1, <1>2, <1>4, <1>6 DEF MasterKnown
<1>8. SocketsKnown' /\ LateKnown' /\ KicksUnexpected'
  BY <1>1, <1>2, <1>4
     DEF Inv, SocketsKnown, LateKnown, KicksUnexpected
<1>9. Stays
  <2>1. dead \subseteq Leavers
    BY WhoLeaves
  <2>2. CASE joins = 0
    <3>1. members = entrants
      BY <1>6, <2>2 DEF Inv, LateKnown
    <3> QED
      BY <1>1, <1>4, <2>1, <3>1 DEF Stays
  <2>3. CASE joins # 0
    <3>1. members \ entrants \subseteq Leavers
      BY <1>2, <2>3, WhoLeaves DEF Displaced
    <3> QED
      BY <1>1, <1>4, <2>1, <3>1 DEF Stays
  <2> QED
    BY <2>2, <2>3
<1> QED
  BY <1>5, <1>7, <1>8, <1>9 DEF Inv

\* The members are told, which disconnects one without a socket.  Only when it
\* is alone can this succeed, and then its connection is broken or somebody
\* has registered meanwhile.
LEMMA TellResultKeepsInv ==
  ASSUME Inv, TellResult
  PROVE  Inv' /\ Stays
<1> DEFINE next == IF result \in ParametersErrors THEN "tellMaster" ELSE "idle"
<1>1. /\ pc = "result" /\ TypeOK /\ closed' = closed \cap members'
      /\ SafeSendToAll(next)
      /\ UNCHANGED <<dead, closure, joins, intruded, entrants, kicks, chkpt,
                     allowed, missing, result, asked, question>>
  BY DEF TellResult, Inv, outside, late, parameters, dialogue
<1>2. next \in {"tellMaster", "idle"}
  OBVIOUS
<1>3. next # "idle" => result \in ParametersErrors
  OBVIOUS
<1> HIDE DEF next
<1>4. \/ /\ Delivered(members, master)
         /\ pc' \in {next, "lost"}
         /\ pc' # next => Mastered(members', master')
      \/ pc' = "stopped" /\ UNCHANGED lobbyVars
  BY <1>1, SafeSendFacts
<1>5. entrants = {}
  BY <1>1 DEF Inv, SocketsKnown
<1>6. LateKnown' /\ KicksUnexpected'
  <2>1. pc' \notin {"wait", "kicking"}
    BY <1>2, <1>4
  <2> QED
    BY <1>1, <2>1 DEF Inv, LateKnown, KicksUnexpected
<1>7. CASE /\ Delivered(members, master)
           /\ pc' \in {next, "lost"}
           /\ pc' # next => Mastered(members', master')
  <2>1. members' \cap closed = {} /\ closed' = {}
    BY <1>1, <1>7 DEF Delivered
  <2>2. TypeOK'
    BY <1>1, <1>2, <1>7, <2>1 DEF TypeOK, Delivered, Places, Ended
  <2>3. MasterKnown'
    <3>1. CASE pc' = next
      BY <1>1, <1>2, <1>3, <1>7, <3>1
         DEF MasterKnown, Mastered, Delivered, Inv
    <3>2. CASE pc' # next
      BY <1>2, <1>7, <3>2 DEF MasterKnown
    <3> QED
      BY <3>1, <3>2
  <2>4. SocketsKnown'
    BY <1>1, <1>2, <1>5, <1>7, <2>1 DEF SocketsKnown
  <2>5. Stays
    <3> USE WhoLeaves
    <3>1. CASE closed = {}
      BY <1>5, <1>7, <3>1 DEF Delivered, Stays
    <3>2. CASE closed # {} /\ joins = 0
      <4>1. closed = members /\ members \cap dead # {}
        BY <1>1, <3>2 DEF Inv, SocketsKnown
      <4>2. PICK x : members = {x}
        BY <1>7, <3>2, <4>1 DEF Delivered
      <4> QED
        BY <1>5, <4>1, <4>2 DEF Stays
    <3>3. CASE joins # 0
      <4>1. closed \subseteq Leavers
        BY <1>1, <3>3 DEF Displaced
      <4> QED
        BY <1>5, <1>7, <4>1 DEF Stays, Delivered
    <3> QED
      BY <3>1, <3>2, <3>3
  <2> QED
    BY <1>6, <2>2, <2>3, <2>4, <2>5 DEF Inv
<1>8. CASE pc' = "stopped" /\ UNCHANGED lobbyVars
  <2>1. UNCHANGED <<members, ready, master>> /\ closed' \subseteq members'
    BY <1>1, <1>8 DEF lobbyVars
  <2>2. TypeOK'
    BY <1>1, <1>8, <2>1 DEF TypeOK, Places, Ended
  <2>3. MasterKnown' /\ SocketsKnown'
    BY <1>1, <1>5, <1>8 DEF MasterKnown, SocketsKnown
  <2>4. Stays
    BY <1>1, <2>1 DEF Stays
  <2> QED
    BY <1>6, <2>2, <2>3, <2>4 DEF Inv
<1> QED
  BY <1>4, <1>7, <1>8

-----------------------------------------------------------------------------
LEMMA InvInductive ==
  ASSUME Inv, [Next]_vars
  PROVE  Inv' /\ Stays
<1>1. CASE UNCHANGED vars
  BY <1>1
     DEF vars, lobbyVars, outside, late, sockets, parameters, dialogue, Inv,
         TypeOK, MasterKnown, SocketsKnown, LateKnown, KicksUnexpected, Stays
<1>2. CASE MainThread
  BY <1>2, QuestionsKeepInv, AskKeepsInv, TellMasterKeepsInv,
     KickMasterKeepsInv, KickNextKeepsInv, AbortKeepsInv, EnterKeepsInv,
     PlayKeepsInv, TellResultKeepsInv, Zenon
     DEF MainThread
<1>3. CASE Answer \/ MasterFails
  BY <1>3, AnswerKeepsInv, AskKeepsInv
<1>4. CASE Environment
  BY <1>4, DropKeepsInv, LateJoinKeepsInv, LateJoinFailsKeepsInv
     DEF Environment
<1>5. CASE Over
  BY <1>1, <1>5 DEF Over
<1> QED
  BY <1>1, <1>2, <1>3, <1>4, <1>5 DEF Next

\* The invariant holds of every preparation.
THEOREM PreparationInvariant == Spec => []Inv
<1>1. Init => Inv
  <2> SUFFICES ASSUME Init PROVE Inv
    OBVIOUS
  <2>1. master \in Ids \cup {NoMaster} /\ joins \in 0 .. MaxJoins
    BY FirstIsMember, JoinsAssumption DEF Init
  <2>2. TypeOK
    BY <2>1 DEF Init, TypeOK, Places, Questions
  <2>3. MasterKnown /\ SocketsKnown /\ LateKnown /\ KicksUnexpected
    BY FirstIsMember
       DEF Init, MasterKnown, SocketsKnown, LateKnown, KicksUnexpected
  <2> QED
    BY <2>2, <2>3 DEF Inv
<1>2. Inv /\ [Next]_vars => Inv'
  BY InvInductive
<1> QED
  BY <1>1, <1>2, PTL DEF Spec

\* The variables have their types (server/Lobby.cpp).
THEOREM TypesOK == Spec => []TypeOK
<1>1. Inv => TypeOK
  BY DEF Inv
<1> QED
  BY <1>1, PreparationInvariant, PTL

\* Whoever is lost, kicked or registered late, the member who is asked was the
\* master and the master is a member, until a session has been played; a
\* registration that completes during a session is the only exception.
THEOREM MasterAlwaysMember == Spec => []MasterIsMember
<1>1. Inv => MasterIsMember
  BY DEF Inv, TypeOK, MasterKnown, Mastered, MasterIsMember
<1> QED
  BY <1>1, PreparationInvariant, PTL

\* An idle lobby holds no member without a socket, although a session that
\* crashes may keep those of all of its entrants.
THEOREM SocketsComeBack == Spec => []NoMemberWithoutSocket
<1>1. Inv => NoMemberWithoutSocket
  BY DEF Inv, SocketsKnown, NoMemberWithoutSocket
<1> QED
  BY <1>1, PreparationInvariant, PTL

\* While no registration is late, nobody leaves the lobby or the session but
\* those whose connection is broken and those to be kicked whom the checkpoint
\* does not know; afterwards, only those whom such a registration displaces.
THEOREM OnlyLostMembersLeave == Spec => LivingMembersStay
<1>1. Inv /\ [Next]_vars => [Stays]_vars
  BY InvInductive
<1>2. Spec => [][Stays]_vars
  BY <1>1, PreparationInvariant, PTL DEF Spec
<1> QED
  BY <1>2 DEF Stays, Leavers, LivingMembersStay
=============================================================================
