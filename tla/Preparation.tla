---------------------------- MODULE Preparation ----------------------------
(***************************************************************************)
(* The preparation of a session (server/Lobby.cpp:346-384, 416-649): the   *)
(* main thread asks the lobby's master for a checkpoint, whether members   *)
(* may be missing and, when the session refuses these parameters, what to  *)
(* change, until a session has been played or the preparation is given up. *)
(*                                                                         *)
(* A broadcast is one step, with the outcomes that the recursion of        *)
(* Lobby::sendToAll and Lobby::disconnect may have; the session is one     *)
(* step, with the outcomes of SessionOutcomes, which Session.tla           *)
(* implements.  Meanwhile connections break, the server may stop, and the  *)
(* events loop may complete, at any step, a registration that began before *)
(* the countdown ended: nothing cancels it.  Assertions are disabled.      *)
(***************************************************************************)
EXTENDS SessionOutcomes, FiniteSetsExt

CONSTANTS NoMaster,       \* master_ without a value
          MaxJoins        \* bound on the late registrations

ASSUME MasterAssumption == Ids \subseteq Nat /\ NoMaster \notin Nat
ASSUME JoinsAssumption == MaxJoins \in Nat

VARIABLES
  members,     \* keys of members_ and connections_
  ready,       \* members whose Member::ready is set
  master,      \* master_
  dead,        \* clients whose connection is broken
  closed,      \* members whose socket the session has, or has not given back
  entrants,    \* the entrants of the session that is being played
  chkpt,       \* the players saved in requested_chkpt, none: a new game
  allowed,     \* argument missing_entrants has a value: TRUE
  missing,     \* *missing_entrants
  result,      \* Run::result of the last session, or "none"
  asked,       \* the member whose reply is awaited
  question,    \* what it is asked
  kicks,       \* members still to be kicked
  closure,     \* closure_requested_
  joins,       \* counter for MaxJoins
  intruded,    \* history: a registration has completed during a session
  pc           \* where the main thread is

lobbyVars == <<members, ready, master>>
parameters == <<chkpt, allowed, missing>>
dialogue == <<asked, question>>
late == <<joins, intruded>>
outside == <<dead, closure, late>>
sockets == <<closed, entrants>>
vars ==
  <<lobbyVars, outside, sockets, kicks, parameters, result, dialogue, pc>>

Questions == {"checkpoint", "missing", "lessMembers", "retry", "kick"}
Ended == {"idle", "stopped", "undefined"}
Places ==
  { "prepare", "select", "checking", "ask", "wait", "start", "session",
    "playing", "result", "tellMaster", "revise", "kick", "kicking", "lost" }
      \cup Ended

TypeOK ==
  /\ members \subseteq Ids /\ ready \subseteq members
  /\ master \in Ids \cup {NoMaster}
  /\ dead \subseteq Ids
  /\ closed \subseteq members /\ entrants \subseteq Ids
  /\ chkpt \subseteq Ids
  /\ allowed \in BOOLEAN /\ missing \in BOOLEAN
  /\ kicks \subseteq Ids
  /\ result \in SessionResults \cup {"none"}
  /\ asked \in Ids \cup {NoMaster} /\ question \in Questions
  /\ closure \in BOOLEAN
  /\ joins \in 0 .. MaxJoins /\ intruded \in BOOLEAN
  /\ pc \in Places

FirstOf(ids) == IF ids = {} THEN NoMaster ELSE Min(ids)

\* At the end of a countdown everyone is ready and the first member is the
\* master; some connections may be broken already.
Init ==
  /\ members \in (SUBSET Ids) \ {{}}
  /\ ready = members /\ master = FirstOf(members)
  /\ dead = {} /\ closed = {} /\ entrants = {} /\ kicks = {}
  /\ chkpt = {} /\ allowed = FALSE /\ missing = FALSE
  /\ result = "none"
  /\ asked = NoMaster /\ question = "checkpoint"
  /\ closure = FALSE /\ joins = 0 /\ intruded = FALSE
  /\ pc = "prepare"

-----------------------------------------------------------------------------
(* Broadcasts.                                                             *)

Broken(ms) == ms \cap (dead \cup closed)

\* A fault: a disconnection leaves the master as it is.
MasterKept(boss, left, lost) == boss

\* disconnect() calls updateMaster: once someone is lost, the first member left
\* is the master.
MasterAfter(boss, left, lost) == IF lost = {} THEN boss ELSE FirstOf(left)

\* The ends of sendToAll, when it returns.  Sending to a broken connection may
\* fail or not; without a socket it always does, and whoever else has none is
\* disconnected by the announcements that follow, before its turn comes.
Sent(ms, boss) ==
  { [ members |-> ms \ lost, master |-> MasterAfter(boss, ms \ lost, lost) ] :
      lost \in { l \in SUBSET Broken(ms) : ms \cap closed \subseteq
                                             {FirstOf(l)} } }

\* It throws out_of_range when the turn comes of a member it has disconnected
\* on the way, which two broken connections may cause.
Stale(ms) == Cardinality(Broken(ms)) >= 2

MoveTo(o) ==
  /\ members' = o.members /\ master' = o.master
  /\ ready' = ready \cap o.members

\* sendToAll(data) to "ms", "boss" being the master, in the main thread.  An
\* exception stops the server.
SendToAll(ms, boss, next) ==
  \/ \E o \in Sent(ms, boss) : MoveTo(o) /\ pc' = next
  \/ Stale(ms) /\ pc' = "stopped" /\ UNCHANGED lobbyVars

\* safeSendToAll(data): a master who is replaced ends the preparation.
SafeSendToAll(next) ==
  \/ \E o \in Sent(members, master) :
       /\ MoveTo(o)
       /\ pc' = IF master # NoMaster /\ o.master # master THEN "lost" ELSE next
  \/ Stale(members) /\ pc' = "stopped" /\ UNCHANGED lobbyVars

\* disconnect(id): the first member left is the master, the others are told.
Disconnect(id, next) ==
  SendToAll(members \ {id}, FirstOf(members \ {id}), next)

-----------------------------------------------------------------------------
(* The environment.                                                        *)

Going == pc \notin Ended

\* The connection of a member breaks.
Drop(id) ==
  /\ Going /\ id \in (members \cup entrants) \ dead
  /\ dead' = dead \cup {id}
  /\ UNCHANGED <<lobbyVars, closure, late, sockets, kicks, parameters, result,
                 dialogue, pc>>

\* Executor::stop requests the closure of the lobby.
RequestClosure ==
  /\ Going /\ ~closure
  /\ closure' = TRUE
  /\ UNCHANGED <<lobbyVars, dead, late, sockets, kicks, parameters, result,
                 dialogue, pc>>

\* A registration accepted before the end of the countdown completes.
Registers ==
  /\ Going /\ joins < MaxJoins
  /\ joins' = joins + 1
  /\ intruded' = (intruded \/ pc = "playing")
  /\ UNCHANGED <<entrants, kicks, parameters, result, dialogue, pc>>

\* Ids of connections that others than members_ speak of.
Held == entrants \cup (IF pc = "wait" THEN {asked} ELSE {})

\* handleRegistrationRequest, which tests neither isPreparing() nor whether a
\* session is played: the newcomer is announced, inserted, and becomes the
\* master if its id is the first.
LateJoin(id) ==
  /\ Registers
  /\ id \notin members
  /\ dead' = dead \ ({id} \ Held)
  /\ \E o \in Sent(members, master) :
       LET ms == o.members \cup {id}
       IN  /\ \E oo \in {x \in Sent(ms, FirstOf(ms)) : id \in x.members} :
                MoveTo(oo)
           /\ closed' = closed \cap o.members
  /\ UNCHANGED closure

\* The same, but an announcement throws in the events loop, before the newcomer
\* is inserted or after, or the newcomer is lost: the server stops.
LateJoinFails ==
  /\ Registers
  /\ closure' = TRUE
  /\ \/ \E lost \in SUBSET Broken(members) :
          /\ Cardinality(lost) >= 2 /\ closed \subseteq lost
          /\ members' = members \ lost
     \/ \E id \in Ids \ members, o \in Sent(members, master) :
          \E lost \in SUBSET (Broken(o.members) \cup {id}) :
            /\ id \in lost \/ Cardinality(lost) >= 2
            /\ members' = (o.members \cup {id}) \ lost
  /\ master' = FirstOf(members') /\ ready' = ready \cap members'
  /\ closed' = closed \cap members'
  /\ UNCHANGED dead

-----------------------------------------------------------------------------
(* The main thread.                                                        *)

Prepare ==
  /\ pc = "prepare"
  /\ SafeSendToAll("select")
  /\ UNCHANGED <<outside, sockets, kicks, parameters, result, dialogue>>

\* configureSession: no call gives it a checkpoint, so the master always
\* chooses one ...
SelectCheckpoint ==
  /\ pc = "select"
  /\ SafeSendToAll("ask")
  /\ question' = "checkpoint"
  /\ UNCHANGED <<outside, sockets, kicks, parameters, result, asked>>

\* ... then says whether members may be missing, unless it has already, or
\* plays a new game.
CheckPlayers ==
  /\ pc = "checking"
  /\ \/ allowed /\ pc' = "start" /\ missing' = TRUE
        /\ UNCHANGED <<lobbyVars, question>>
     \/ ~allowed /\ chkpt = {} /\ SafeSendToAll("start") /\ missing' = FALSE
        /\ UNCHANGED question
     \/ ~allowed /\ chkpt # {} /\ SafeSendToAll("ask") /\ question' = "missing"
        /\ UNCHANGED missing
  /\ UNCHANGED <<outside, sockets, kicks, chkpt, allowed, result, asked>>

\* sendToMaster, and the receive is started.  Without a master the connection
\* that is read is any; connections_.at throws for a master who is no member.
Ask ==
  /\ pc = "ask"
  /\ \/ /\ master \in members
        /\ pc' = "wait" /\ asked' = master
        /\ UNCHANGED lobbyVars
     \/ /\ master \in members \cap dead
        /\ Disconnect(master, "lost")
        /\ UNCHANGED asked
     \/ /\ master = NoMaster
        /\ pc' = "undefined"
        /\ UNCHANGED <<lobbyVars, asked>>
     \/ /\ master \notin members \cup {NoMaster}
        /\ pc' = "stopped"
        /\ UNCHANGED <<lobbyVars, asked>>
  /\ UNCHANGED <<outside, sockets, kicks, parameters, result, question>>

\* A fault: the answer is awaited although the lobby closes.
OnlyReplies == pc = "wait" /\ ~closure

\* receiveFromMaster has a reply, or the lobby closes.  A broken connection may
\* be taken for a reply too: the flag is raised before the error is stored.
Replied == pc = "wait"

\* askCheckpoint: no name is a new game, and so is a closure.
AnswerCheckpoint(saved) ==
  /\ Replied /\ question = "checkpoint"
  /\ closure => saved = {}
  /\ chkpt' = saved
  /\ pc' = "checking"
  /\ UNCHANGED <<lobbyVars, outside, sockets, kicks, allowed, missing, result,
                 dialogue>>

\* Ask another question.
ThenAsk(what) ==
  pc' = "ask" /\ question' = what /\ UNCHANGED parameters

\* session.reset() and configureSession, members may be missing or not.
Configure(may) ==
  pc' = "select" /\ allowed' = may /\ UNCHANGED <<chkpt, missing, question>>

\* No other choice: the preparation is over.
GiveUp == pc' = "idle" /\ UNCHANGED <<parameters, question>>

\* askYesNo: a closure reads as a yes.
AnswerYes ==
  /\ Replied
  /\ \/ /\ question = "missing"
        /\ pc' = "start" /\ missing' = TRUE
        /\ UNCHANGED <<chkpt, allowed, question>>
     \/ question = "retry" /\ Configure(FALSE)
     \/ question = "lessMembers" /\ Configure(TRUE)
     \/ /\ question = "kick"
        /\ pc' = "kick" /\ UNCHANGED <<parameters, question>>
  /\ UNCHANGED <<lobbyVars, outside, sockets, kicks, result, asked>>

AnswerNo ==
  /\ Replied
  /\ \/ /\ question = "missing"
        /\ pc' = "start" /\ missing' = FALSE
        /\ UNCHANGED <<chkpt, allowed, question>>
     \/ question = "retry" /\ GiveUp
     \/ question \in {"lessMembers", "kick"} /\ ThenAsk("retry")
  /\ UNCHANGED <<lobbyVars, outside, sockets, kicks, result, asked>>

\* A fault: the loss of a member who is no longer the master is ignored.
MasterReceiveFails == pc = "wait" /\ asked \in dead /\ asked = master

\* The receive ends with an error.
ReceiveFails == pc = "wait" /\ asked \in dead

\* Whoever is the master by then is disconnected.
MasterFails ==
  /\ ReceiveFails
  /\ \/ master # NoMaster /\ Disconnect(master, "lost")
     \/ master = NoMaster /\ pc' = "undefined" /\ UNCHANGED lobbyVars
  /\ UNCHANGED <<outside, sockets, kicks, parameters, result, dialogue>>

\* runSession, unless the lobby closes.
StartSession ==
  /\ pc = "start"
  /\ \/ closure /\ pc' = "idle" /\ UNCHANGED lobbyVars
     \/ ~closure /\ SafeSendToAll("session")
  /\ UNCHANGED <<outside, sockets, kicks, parameters, result, dialogue>>

\* The members' sockets are moved to the entrants ...
EnterSession ==
  /\ pc = "session"
  /\ entrants' = members /\ closed' = members
  /\ pc' = "playing"
  /\ UNCHANGED <<lobbyVars, outside, kicks, parameters, result, dialogue>>

\* ... and the members are, after the session, the entrants it has left; those
\* who have registered meanwhile are dropped.  master_ is not updated.
Play ==
  /\ pc = "playing"
  /\ \E e \in SessionOutcomes(entrants, dead, chkpt, missing) :
       /\ members' = e.entrants
       /\ closed' = e.entrants \ e.sockets
       /\ result' = e.result
  /\ entrants' = {} /\ ready' = {}
  /\ pc' = "result"
  /\ UNCHANGED <<master, outside, kicks, parameters, dialogue>>

\* A fault: after a crash nobody is told.
TellIfKnown ==
  /\ pc = "result"
  /\ \/ result = "Crashed" /\ pc' = "idle" /\ UNCHANGED lobbyVars
     \/ result # "Crashed"
        /\ SafeSendToAll(IF result \in ParametersErrors THEN "tellMaster"
                                                         ELSE "idle")
  /\ closed' = closed \cap members'
  /\ UNCHANGED <<outside, entrants, kicks, parameters, result, dialogue>>

\* The members left are told the result; after an error in the parameters ...
TellResult ==
  /\ pc = "result"
  /\ SafeSendToAll(IF result \in ParametersErrors THEN "tellMaster"
                                                   ELSE "idle")
  /\ closed' = closed \cap members'
  /\ UNCHANGED <<outside, entrants, kicks, parameters, result, dialogue>>

\* ... the master is announced, and may be lost in this ...
TellMaster ==
  /\ pc = "tellMaster"
  /\ SendToAll(members, master, "revise")
  /\ UNCHANGED <<outside, sockets, kicks, parameters, result, dialogue>>

\* ... and asked what to revise.
Revise ==
  /\ pc = "revise"
  /\ SafeSendToAll("ask")
  /\ question' = CASE result = "LessMembers"   -> "lessMembers"
                   [] result = "UnknownPlayer" -> "kick"
                   [] OTHER                    -> "retry"
  /\ UNCHANGED <<outside, sockets, kicks, parameters, result, asked>>

\* A fault: those the checkpoint expects are kicked.
Expected == members \cap chkpt

\* The members the checkpoint does not know.
Unexpected == members \ chkpt

\* disconnect(id), which is not a crash: to shut a broken connection down may
\* throw.
KickMember(id, next) ==
  \/ Disconnect(id, next)
  \/ id \in dead /\ pc' = "stopped" /\ UNCHANGED lobbyVars

\* A master whom the checkpoint does not know is disconnected alone ...
KickMaster ==
  /\ pc = "kick"
  /\ \/ /\ master \in Unexpected
        /\ KickMember(master, "lost")
        /\ UNCHANGED kicks
     \/ /\ master \in members \ Unexpected
        /\ kicks' = Unexpected /\ pc' = "kicking"
        /\ UNCHANGED lobbyVars
     \/ /\ master = NoMaster
        /\ pc' = "undefined"
        /\ UNCHANGED <<lobbyVars, kicks>>
  /\ UNCHANGED <<outside, sockets, parameters, result, dialogue>>

\* ... otherwise all the members it does not know are, in turn, and the master
\* chooses another checkpoint.  One who was lost meanwhile is no longer found.
KickNext ==
  /\ pc = "kicking"
  /\ \/ /\ kicks = {}
        /\ Configure(FALSE)
        /\ UNCHANGED <<lobbyVars, kicks>>
     \/ /\ kicks # {}
        /\ kicks' = kicks \ {FirstOf(kicks)}
        /\ IF FirstOf(kicks) \in members
           THEN KickMember(FirstOf(kicks), "kicking")
           ELSE pc' = "stopped" /\ UNCHANGED lobbyVars
        /\ UNCHANGED <<parameters, question>>
  /\ UNCHANGED <<outside, sockets, result, asked>>

\* MasterDisconnected is caught: everyone is told, and nobody is ready.
CatchMasterLost ==
  \/ \E o \in Sent(members, master) :
       /\ members' = o.members /\ master' = o.master /\ ready' = {}
       /\ pc' = "idle"
  \/ Stale(members) /\ pc' = "stopped" /\ UNCHANGED lobbyVars

AbortPreparation ==
  /\ pc = "lost"
  /\ CatchMasterLost
  /\ UNCHANGED <<outside, sockets, kicks, parameters, result, dialogue>>

-----------------------------------------------------------------------------
Answer ==
  (\E saved \in SUBSET Ids : AnswerCheckpoint(saved)) \/ AnswerYes \/ AnswerNo

MainThread ==
  \/ Prepare \/ SelectCheckpoint \/ CheckPlayers \/ Ask \/ StartSession
  \/ EnterSession \/ Play \/ TellResult \/ TellMaster \/ Revise
  \/ KickMaster \/ KickNext \/ AbortPreparation

Environment ==
  \/ \E id \in Ids : Drop(id) \/ LateJoin(id)
  \/ RequestClosure \/ LateJoinFails

Over == ~Going /\ UNCHANGED vars

Next == MainThread \/ Answer \/ MasterFails \/ Environment \/ Over

Spec == Init /\ [][Next]_vars

\* The main thread goes on, but for a session, which may have missed its stop
\* and whose players need not reply; a broken connection is noticed, and the
\* wait for the master tests closure_requested_ again and again.  A master who
\* is there need not answer.
Fairness ==
  /\ WF_vars(pc # "playing" /\ MainThread)
  /\ WF_vars(MasterFails)
  /\ WF_vars(closure /\ Answer)
FairSpec == Spec /\ Fairness

-----------------------------------------------------------------------------
(* Properties.                                                             *)

\* The master is a member, the one who is asked and whose choices are followed,
\* whatever broadcast, disconnection or late registration changed the members;
\* only a session that was played may leave a master who is gone, for good if a
\* registration has completed during it.
MasterIsMember ==
  ~intruded /\ pc \notin {"result", "idle", "stopped"} =>
    master \in (IF members = {} THEN {NoMaster} ELSE members)

\* A lobby that is idle again holds no member without a socket, although a
\* session may keep the sockets of all of its entrants.
NoMemberWithoutSocket == pc = "idle" => members \cap closed = {}

\* Those whom the master wants to kick and the checkpoint does not know.
Kicked == IF pc \in {"kick", "kicking"} THEN members \ chkpt ELSE {}

\* Those who may leave because of a registration that came late: whoever has
\* become the master instead of the member who is asked, when the latter's
\* connection breaks; the newcomer who registered during a session; and the
\* members to whom a session has left no socket, in the announcement.
Displaced ==
  UNION { IF pc = "wait" THEN {master} \ {asked} ELSE {},
          IF pc = "playing" THEN members \ entrants ELSE closed }

\* Only members whose connection is broken leave the lobby or the session, and
\* those who are kicked, as long as no registration comes late.
LivingMembersStay ==
  [][ (members \cup entrants) \ (members' \cup entrants') \subseteq
        UNION {dead, Kicked, IF joins' = 0 THEN {} ELSE Displaced} ]_vars

\* A request for the closure of the lobby ends the preparation, also while the
\* master is asked, unless it comes to a session.
ClosureEndsPreparation ==
  closure /\ pc \notin {"session", "playing"} ~> ~Going

\* A master who is lost while it is asked does not block the lobby.
LostMasterEndsWait == (pc = "wait" /\ asked \in dead) ~> pc # "wait"
=============================================================================
