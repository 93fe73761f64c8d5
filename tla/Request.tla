------------------------------ MODULE Request ------------------------------
(***************************************************************************)
(* The request/reply protocol of a game session.                           *)
(*                                                                         *)
(* Session::request (rbo/Session.cpp:549-650) is called by the session     *)
(* thread: it sends a question to its targets, sleeps until enough replies *)
(* are handled, closes the request and drops the players it lost.  The     *)
(* completions of its asynchronous operations run meanwhile on the events  *)
(* loop's thread (ReplyHandler, rbo/ReplyHandler.cpp), each of them under  *)
(* RequestCtx::requestMtx.  Players' connections break at any time, and    *)
(* Executor::stop may stop the loop, then the session.                     *)
(*                                                                         *)
(* One behaviour is a session's life after it has begun: a script of       *)
(* messages, deaths, changes of leader and requests.                       *)
(***************************************************************************)
EXTENDS SessionBroadcast

CONSTANTS Players,        \* ids of the players the session begins with
          All, Active,    \* the two targets of request() that are not an id
          MaxRequests     \* bound on the requests of a script

ASSUME PlayersAssumption ==
  /\ Players \subseteq Nat
  /\ IsFiniteSet(Players)
  /\ Players # {}
  /\ {All, Active} \cap Nat = {}
  /\ All # Active
ASSUME MaxRequestsAssumption == MaxRequests \in Nat

VARIABLES
  players,     \* keys of Session::players_ and Session::connections_
  leader,      \* Session::leader_
  alive,       \* players who are not dead in the game (Player::alive)
  dead,        \* players whose connection is broken
  running,     \* Session::running_
  loopUp,      \* the events loop's thread is inside io_context::run
  pc,          \* where the session thread is
  result,      \* how the session ended
  first,       \* argument first_reply_only of the current request
  waitAll,     \* argument wait_all_replies
  targets,     \* keys of the handlers map: the players asked
  toSend,      \* players the launching loop has not reached
  handler,     \* what the loop will do next for a target
  replies,     \* keys of RequestCtx::replies
  handled,     \* RequestCtx::repliesHandled
  errors,      \* RequestCtx::errorIDs
  toAnnounce,  \* errors whose crash is not announced yet
  dangling,    \* completions of an earlier request are still to run
  requests     \* requests begun

sessionVars == <<players, leader, alive>>
serverVars == <<running, loopUp>>
callVars == <<first, waitAll, targets>>
ctxVars == <<handler, replies, handled, errors>>
vars == <<sessionVars, dead, serverVars, pc, result, callVars, toSend,
          ctxVars, toAnnounce, dangling, requests>>

\* "script": outside request(); the next six: inside it; "undefined": the C++
\* program has no defined behaviour any more.
Places == { "script", "launch", "wait", "finish", "switch", "announce",
            "ended", "undefined" }
InRequest == pc \in {"launch", "wait", "finish", "switch", "announce"}

\* "none": not a target.  "sending", "listening": an asynchronous send or
\* receive is pending.  "handled": the target counts in repliesHandled.
\* "canceled": its last completion came after the request was closed.
HandlerStates == {"none", "sending", "listening", "handled", "canceled"}
Pending == { p \in targets : handler[p] \in {"sending", "listening"} }

toAccept == IF first THEN 1 ELSE Cardinality(targets)
\* A fault: wait_all_replies has no effect on a call for the first reply.
toReceiveFirst == IF first THEN 1 ELSE Cardinality(targets)

toReceive == IF first /\ ~waitAll THEN 1 ELSE Cardinality(targets)

\* RequestCtx::requestDone, set by the session thread when it closes.
requestDone == pc \in {"finish", "switch", "announce"}

TypeOK ==
  /\ players \subseteq Players
  /\ leader \in Players \cup {NoLeader}
  /\ alive \subseteq Players
  /\ dead \subseteq Players
  /\ running \in BOOLEAN /\ loopUp \in BOOLEAN
  /\ pc \in Places
  /\ result \in BroadcastResults \cup {"none", "canceled"}
  /\ first \in BOOLEAN /\ waitAll \in BOOLEAN
  /\ targets \subseteq Players
  /\ toSend \subseteq Players
  /\ handler \in [Players -> HandlerStates]
  /\ replies \subseteq Players
  /\ handled \in Nat
  /\ errors \subseteq Players
  /\ toAnnounce \subseteq Players
  /\ dangling \in BOOLEAN
  /\ requests \in 0 .. MaxRequests

\* After Session::begin: every entrant is a player.  newGame() has given the
\* role of leader to the first; gameFromCheckpoint() may have left it unset
\* and restored dead players, never all of them (NoEntrantAlive).
Init ==
  /\ players = Players
  /\ leader \in {FirstOf(Players), NoLeader}
  /\ alive \in (SUBSET Players) \ {{}}
  /\ dead = {}
  /\ running = TRUE /\ loopUp = TRUE
  /\ pc = "script" /\ result = "none"
  /\ first = FALSE /\ waitAll = FALSE /\ targets = {}
  /\ toSend = {}
  /\ handler = [p \in Players |-> "none"]
  /\ replies = {} /\ handled = 0 /\ errors = {}
  /\ toAnnounce = {}
  /\ dangling = FALSE
  /\ requests = 0

-----------------------------------------------------------------------------
(* The environment: connections that break, and Executor::stop.            *)

\* The connection of a player breaks.
Drop(p) ==
  /\ p \in players \ dead
  /\ dead' = dead \cup {p}
  /\ UNCHANGED <<sessionVars, serverVars, pc, result, callVars, toSend,
                 ctxVars, toAnnounce, dangling, requests>>

\* Executor::stop stops the io_context: no completion runs afterwards ...
StopLoop ==
  /\ loopUp
  /\ loopUp' = FALSE
  /\ UNCHANGED <<sessionVars, dead, running, pc, result, callVars, toSend,
                 ctxVars, toAnnounce, dangling, requests>>

\* ... and calls Session::stop after that.
StopSession ==
  /\ ~loopUp /\ running
  /\ running' = FALSE
  /\ UNCHANGED <<sessionVars, dead, loopUp, pc, result, callVars, toSend,
                 ctxVars, toAnnounce, dangling, requests>>

-----------------------------------------------------------------------------
(* The session thread.                                                     *)

\* The session thread broadcasts to "to" with "boss" as leader, and goes on at
\* "next" unless an exception ends the session.
Broadcast(to, boss, next) ==
  \E o \in BroadcastOutcomes(players, to, boss, dead) :
    /\ players' = o.players
    /\ leader' = o.leader
    /\ IF o.result = "sent" THEN pc' = next /\ UNCHANGED result
                            ELSE pc' = "ended" /\ result' = o.result
    /\ UNCHANGED <<alive, dead, serverVars>>

\* The script sends a message: sendToAll, sendToAlivePlayers or sendTo.
ScriptSend(to) ==
  /\ pc = "script"
  /\ Broadcast(to, leader, "script")
  /\ UNCHANGED <<callVars, toSend, ctxVars, toAnnounce, dangling, requests>>

\* The script makes a player the leader: Session::switchLeader.
SwitchLeader(p) ==
  /\ pc = "script"
  /\ p \in players
  /\ Broadcast(players, p, "script")
  /\ UNCHANGED <<callVars, toSend, ctxVars, toAnnounce, dangling, requests>>

\* The script kills a player, who stays connected.
Kill(p) ==
  /\ pc = "script"
  /\ p \in players \cap alive
  /\ alive' = alive \ {p}
  /\ UNCHANGED <<players, leader, dead, serverVars, pc, result, callVars,
                 toSend, ctxVars, toAnnounce, dangling, requests>>

\* Gameplay::checkPlayer and checkGame stop the session when its game is over:
\* the events loop stays up, and the script may still go on for a while.
ScriptStops ==
  /\ pc = "script" /\ running
  /\ running' = FALSE
  /\ UNCHANGED <<sessionVars, dead, loopUp, pc, result, callVars, toSend,
                 ctxVars, toAnnounce, dangling, requests>>

\* request() builds its context from connections_ and the target's id.  What
\* its predecessor left pending stays so.
TargetsOf(to) ==
  CASE to = All    -> players
    [] to = Active -> players \cap alive
    [] OTHER       -> players \cap {to}

BeginRequest(to, firstReplyOnly, waitAllReplies) ==
  /\ pc = "script"
  /\ requests < MaxRequests
  /\ pc' = "launch"
  /\ requests' = requests + 1
  /\ first' = firstReplyOnly /\ waitAll' = waitAllReplies
  /\ targets' = TargetsOf(to)
  /\ toSend' = players
  /\ handler' = [p \in Players |-> "none"]
  /\ replies' = {} /\ handled' = 0 /\ errors' = {}
  /\ dangling' = (dangling \/ Pending # {})
  /\ UNCHANGED <<sessionVars, dead, serverVars, result, toAnnounce>>

\* The launching loop starts an asynchronous send to a target ...
LaunchTarget(p) ==
  /\ pc = "launch" /\ toSend # {}
  /\ p = FirstOf(toSend) /\ p \in targets
  /\ handler' = [handler EXCEPT ![p] = "sending"]
  /\ toSend' = toSend \ {p}
  /\ UNCHANGED <<sessionVars, dead, serverVars, pc, result, callVars, replies,
                 handled, errors, toAnnounce, dangling, requests>>

\* ... and sends to the others itself.  When that fails it erases the element
\* the range-for stands on, and goes on from an invalid iterator.
LaunchOther(p) ==
  /\ pc = "launch" /\ toSend # {}
  /\ p = FirstOf(toSend) /\ p \notin targets
  /\ toSend' = toSend \ {p}
  /\ \/ UNCHANGED pc
     \/ p \in dead /\ pc' = "undefined"
  /\ UNCHANGED <<sessionVars, dead, serverVars, result, callVars, ctxVars,
                 toAnnounce, dangling, requests>>

Launched ==
  /\ pc = "launch" /\ toSend = {}
  /\ pc' = "wait"
  /\ UNCHANGED <<sessionVars, dead, serverVars, result, callVars, toSend,
                 ctxVars, toAnnounce, dangling, requests>>

\* A fault: one reply too few is waited for.
CloseEarly ==
  /\ pc = "wait"
  /\ handled + 1 >= toReceive \/ ~running
  /\ pc' = "finish"
  /\ UNCHANGED <<sessionVars, dead, serverVars, result, callVars, toSend,
                 ctxVars, toAnnounce, dangling, requests>>

\* A fault: the waiting loop does not look at running().
CloseOnReplies ==
  /\ pc = "wait"
  /\ handled >= toReceive
  /\ pc' = "finish"
  /\ UNCHANGED <<sessionVars, dead, serverVars, result, callVars, toSend,
                 ctxVars, toAnnounce, dangling, requests>>

\* The waiting loop ends; the request is marked done and every operation on a
\* player's connection is cancelled, under the mutex.
Close ==
  /\ pc = "wait"
  /\ handled >= toReceive \/ ~running
  /\ pc' = "finish"
  /\ UNCHANGED <<sessionVars, dead, serverVars, result, callVars, toSend,
                 ctxVars, toAnnounce, dangling, requests>>

\* A fault: a leader lost by the request is not replaced.
FinishLeaderKept ==
  /\ pc = "finish"
  /\ \E unreached \in SUBSET ((dead \cap players) \ errors) :
       LET lost == errors \cup unreached
           left == players \ lost
       IN  /\ errors' = lost
           /\ toAnnounce' = lost
           /\ players' = left
           /\ IF left = {} THEN pc' = "ended" /\ result' = "nobody"
                           ELSE pc' = "announce" /\ UNCHANGED result
  /\ UNCHANGED <<leader, alive, dead, serverVars, callVars, toSend, handler,
                 replies, handled, dangling, requests>>

\* FinishRequest goes to the players without an error, those it cannot reach
\* join the errors, and all of these are removed without a message.
Finish ==
  /\ pc = "finish"
  /\ \E unreached \in SUBSET ((dead \cap players) \ errors) :
       LET lost == errors \cup unreached
           left == players \ lost
       IN  /\ errors' = lost
           /\ toAnnounce' = lost
           /\ players' = left
           /\ \/ /\ left = {}
                 /\ pc' = "ended" /\ result' = "nobody"
                 /\ leader' = NoLeader
              \/ /\ left # {} /\ leader = NoLeader
                 /\ pc' = "ended" /\ result' = "uninitialized"
                 /\ UNCHANGED leader
              \/ /\ left # {} /\ leader # NoLeader
                 /\ pc' = IF leader \in lost THEN "switch" ELSE "announce"
                 /\ leader' = LeaderAfter(players, lost, leader)
                 /\ UNCHANGED result
  /\ UNCHANGED <<alive, dead, serverVars, callVars, toSend, handler, replies,
                 handled, dangling, requests>>

\* switchLeader tells everyone about the leader who replaces a lost one.
AnnounceLeader ==
  /\ pc = "switch"
  /\ Broadcast(players, leader, "announce")
  /\ UNCHANGED <<callVars, toSend, ctxVars, toAnnounce, dangling, requests>>

\* The crash of a player lost by the request is announced.
AnnounceCrash(p) ==
  /\ pc = "announce"
  /\ p \in toAnnounce
  /\ toAnnounce' = toAnnounce \ {p}
  /\ Broadcast(players, leader, "announce")
  /\ UNCHANGED <<callVars, toSend, ctxVars, dangling, requests>>

\* request() returns its replies, or throws CanceledRequest.
Return ==
  /\ pc = "announce" /\ toAnnounce = {}
  /\ IF running THEN pc' = "script" /\ UNCHANGED result
                ELSE pc' = "ended" /\ result' = "canceled"
  /\ UNCHANGED <<sessionVars, dead, serverVars, callVars, toSend, ctxVars,
                 toAnnounce, dangling, requests>>

-----------------------------------------------------------------------------
(* The events loop's thread: the completions of the targets' operations.   *)
(* requestMtx makes each of them atomic.                                   *)

LoopUnchanged ==
  UNCHANGED <<sessionVars, dead, serverVars, result, callVars, toSend,
              toAnnounce, requests>>

\* A fault: reportError is called for handleError, and nothing is counted.
FailUncounted(p, alsoLost) ==
  /\ handler' = [handler EXCEPT ![p] = "handled"]
  /\ errors' = errors \cup alsoLost \cup {p}
  /\ UNCHANGED handled

\* ReplyHandler::handleError: the target is lost, and counts as handled.
FailHandler(p, alsoLost) ==
  /\ handler' = [handler EXCEPT ![p] = "handled"]
  /\ handled' = handled + 1
  /\ errors' = errors \cup alsoLost \cup {p}

\* ReplyHandler::handle after a send that succeeded.
QuestionSent(p) ==
  /\ loopUp /\ InRequest /\ ~requestDone
  /\ handler[p] = "sending"
  /\ handler' = [handler EXCEPT ![p] = "listening"]
  /\ UNCHANGED <<pc, replies, handled, errors, dangling>>
  /\ LoopUnchanged

\* ReplyHandler::handle after a send that failed, handleReply after a receive
\* that failed, or after an invalid reply whose validation could not be sent.
ConnectionFails(p) ==
  /\ loopUp /\ InRequest /\ ~requestDone
  /\ handler[p] \in {"sending", "listening"}
  /\ p \in dead
  /\ FailHandler(p, {})
  /\ UNCHANGED <<pc, replies, dangling>>
  /\ LoopUnchanged

\* A fault: there is room for one reply too many.
ReplyReceivedRoomy(p) ==
  /\ loopUp /\ InRequest /\ ~requestDone
  /\ handler[p] = "listening"
  /\ \E unreached \in SUBSET (dead \cap players) :
       /\ \/ /\ Cardinality(replies) <= toAccept
             /\ replies' = replies \cup {p}
          \/ /\ Cardinality(replies) > toAccept
             /\ unreached \subseteq {p}
             /\ UNCHANGED replies
       /\ handler' = [handler EXCEPT ![p] = "handled"]
       /\ handled' = handled + 1
       /\ errors' = errors \cup unreached
  /\ UNCHANGED <<pc, dangling>>
  /\ LoopUnchanged

\* handleReply, with a reply the controller accepts: when there is room it is
\* echoed to every player and kept, otherwise it is too late; either way the
\* validation goes back to its author.
ReplyReceived(p) ==
  /\ loopUp /\ InRequest /\ ~requestDone
  /\ handler[p] = "listening"
  /\ \E unreached \in SUBSET (dead \cap players) :
       /\ \/ /\ Cardinality(replies) < toAccept
             /\ replies' = replies \cup {p}
          \/ /\ Cardinality(replies) >= toAccept
             /\ unreached \subseteq {p}
             /\ UNCHANGED replies
       /\ handler' = [handler EXCEPT ![p] = "handled"]
       /\ handled' = handled + 1
       /\ errors' = errors \cup unreached
  /\ UNCHANGED <<pc, dangling>>
  /\ LoopUnchanged

\* A fault: repliesHandled counts an invalid reply, the target listens again.
InvalidReplyCounted(p) ==
  /\ loopUp /\ InRequest /\ ~requestDone
  /\ handler[p] = "listening"
  /\ handled' = handled + 1
  /\ UNCHANGED <<pc, handler, replies, errors, dangling>>
  /\ LoopUnchanged

\* handleReply, with a reply the controller refuses: it listens again.
InvalidReplyReceived(p) ==
  /\ loopUp /\ InRequest /\ ~requestDone
  /\ handler[p] = "listening"
  /\ UNCHANGED vars

\* A completion that runs once the request is done changes nothing.
CanceledCompletion(p) ==
  /\ loopUp /\ requestDone
  /\ p \in Pending
  /\ handler' = [handler EXCEPT ![p] = "canceled"]
  /\ UNCHANGED <<pc, replies, handled, errors, dangling>>
  /\ LoopUnchanged

\* The loop looks for a handler in the map while the launching loop inserts
\* another one: a data race, which may do anything.
RacyLookup(p) ==
  /\ loopUp
  /\ pc = "launch" /\ toSend \cap targets # {}
  /\ handler[p] = "sending"
  /\ pc' = "undefined"
  /\ UNCHANGED <<ctxVars, dangling>>
  /\ LoopUnchanged

\* The loop runs completions of a request that has returned or thrown: they
\* use its context and its handlers, which were on the session thread's stack.
DanglingCompletion ==
  /\ loopUp /\ pc # "undefined"
  /\ dangling \/ (~InRequest /\ Pending # {})
  /\ dangling' = FALSE
  /\ handler' = IF InRequest THEN handler
                ELSE [ p \in Players |-> IF p \in Pending THEN "canceled"
                                                        ELSE handler[p] ]
  /\ \/ UNCHANGED pc
     \/ pc' = "undefined"
  /\ UNCHANGED <<replies, handled, errors>>
  /\ LoopUnchanged

-----------------------------------------------------------------------------
SessionThread ==
  \/ \E p \in Players : LaunchTarget(p) \/ LaunchOther(p) \/ AnnounceCrash(p)
  \/ Launched \/ Close \/ Finish \/ AnnounceLeader \/ Return

Script ==
  \/ \E to \in {players, players \cap alive} \cup { {p} : p \in players } :
       ScriptSend(to)
  \/ \E p \in Players : SwitchLeader(p) \/ Kill(p)
  \/ ScriptStops
  \/ \E to \in Players \cup {All, Active}, f \in BOOLEAN, w \in BOOLEAN :
       BeginRequest(to, f, w)

EventsLoop ==
  \/ \E p \in Players :
       \/ QuestionSent(p) \/ ConnectionFails(p) \/ ReplyReceived(p)
       \/ InvalidReplyReceived(p) \/ CanceledCompletion(p) \/ RacyLookup(p)
  \/ DanglingCompletion

Running == pc \notin {"ended", "undefined"}
Environment ==
  Running /\ (StopLoop \/ StopSession \/ \E p \in Players : Drop(p))

\* The session has ended, or nothing can be said of it any more.
Over == ~Running /\ UNCHANGED vars

Next == SessionThread \/ Script \/ EventsLoop \/ Environment \/ Over

Spec == Init /\ [][Next]_vars

\* The session thread never stays where it can go on; Executor::stop, once it
\* has stopped the loop, goes on to Session::stop; and the loop eventually runs
\* the completion of an operation on a broken connection.
Fairness ==
  /\ WF_vars(SessionThread)
  /\ WF_vars(Running /\ StopSession)
  /\ \A p \in Players : WF_vars(ConnectionFails(p))

FairSpec == Spec /\ Fairness
-----------------------------------------------------------------------------
(* Safety.                                                                 *)

Handled == { p \in targets : handler[p] = "handled" }

\* While a request is in progress its atomic counter is the number of targets
\* that need nothing more: an invalid reply, a late one, a failure or the loss
\* of another player never counts a target twice or skips it.
HandledIsFinished ==
  InRequest => handled = Cardinality(Handled)

\* No more replies are kept than the call accepts, each from a target that was
\* handled; and a handled target that gave none was lost, or came too late.
RepliesAccounted ==
  InRequest =>
    /\ Cardinality(replies) <= toAccept
    /\ \A p \in replies : handler[p] = "handled"
    /\ \A p \in targets :
         handler[p] = "handled" =>
           p \in replies \cup errors \/ Cardinality(replies) = toAccept

\* The request is about to return its replies to the script.
Returning == pc = "announce" /\ toAnnounce = {} /\ running

\* When the call waits for every target, what it returns is complete: each
\* target still in the session has replied or, if one reply was enough, some
\* target has.
WaitedRepliesComplete ==
  Returning /\ (~first \/ waitAll) =>
    /\ ~first => targets \cap players \subseteq replies
    /\ replies = {} => targets \cap players = {}

\* A request that waits for all of its targets leaves no operation pending on
\* its context when it closes, unless the session is stopped.
NothingOutlivesWait ==
  requestDone /\ running /\ (~first \/ waitAll) => Pending = {}

\* Outside the clean-up itself the session's leader, if it has one, is one of
\* its players, and after the clean-up no player lost by the request is left.
LeaderConnected ==
  Running =>
    /\ leader # NoLeader => leader \in players
    /\ pc \in {"switch", "announce"} => players \cap errors = {}

-----------------------------------------------------------------------------
(* Liveness, under FairSpec.                                               *)

\* A request in progress when the server stops is left by the session thread,
\* whatever its targets do.
StopEndsRequest == (InRequest /\ ~loopUp) ~> ~InRequest

\* A request whose targets have all lost their connection does not wait.
LostTargetsEndWait ==
  (pc = "wait" /\ targets # {} /\ targets \subseteq dead) ~> (pc # "wait")
=============================================================================
