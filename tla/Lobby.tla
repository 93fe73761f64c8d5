------------------------------- MODULE Lobby -------------------------------
(***************************************************************************)
(* The lobby while it gathers the members of the next session: from        *)
(* Lobby::open to the end of the preparation countdown, and what is left   *)
(* of it afterwards (server/Lobby.cpp:36-142, 180-344, 386-414).           *)
(*                                                                         *)
(* Everything here runs on the events loop's thread, which takes the       *)
(* completions of asynchronous operations from the io_context's queue one  *)
(* at a time.  A handler is a tree of calls: sending to everyone           *)
(* disconnects the members it cannot reach, and a disconnection changes    *)
(* the master, the countdown, and sends again, before the calls it         *)
(* interrupts go on.  "stack" holds what these calls still have to do.     *)
(***************************************************************************)
EXTENDS Naturals, FiniteSets, FiniteSetsExt, Sequences

CONSTANTS Ids,             \* ids that clients register with
          NoMaster,        \* master_ without a value
          MaxRequests,     \* bound on the requests of members
          MaxLosses,       \* bound on the connections that break
          MaxJoins         \* bound on the registration requests

ASSUME IdsAssumption == Ids \subseteq Nat /\ NoMaster \notin Nat
ASSUME FiniteAssumption == IsFiniteSet(Ids)
ASSUME BoundsAssumption ==
  MaxRequests \in Nat /\ MaxLosses \in Nat /\ MaxJoins \in Nat

VARIABLES
  state,       \* state_
  members,     \* keys of members_ and connections_
  ready,       \* members whose Member::ready is set
  master,      \* master_
  dead,        \* members whose connection is broken
  listening,   \* members with a pending async_receive
  armed,       \* a wait is pending on prepare_timer_
  queue,       \* completions the loop has to run, oldest first
  stack,       \* what the running handler still has to do, next step first;
               \* at its start, the completion it handles
  failed,      \* an exception has left the handler: the loop stops the server
  prepared,    \* a countdown has ended: the main thread may use the lobby
  requests, losses, joins       \* counters for the bounds

lobbyVars == <<state, members, ready, master>>
ioVars == <<listening, armed, queue>>
bounds == <<requests, losses, joins>>
vars == <<lobbyVars, dead, ioVars, stack, failed, prepared, bounds>>

-----------------------------------------------------------------------------
(* Completions and pending steps.                                          *)

TimerDone(err) == [do |-> "timer", err |-> err]       \* "none" or "aborted"
\* A receive: a request, a broken connection, or a receive that was aborted.
Received(id, what) == [do |-> "receive", id |-> id, what |-> what]
Joining(id) == [do |-> "join", id |-> id]             \* registration request

Requests == {"ready", "leave", "invalid"}
Completions ==
  [do : {"timer"}, err : {"none", "aborted"}]
    \cup [do : {"receive"}, id : Ids,
          what : Requests \cup {"broken", "aborted"}]
    \cup [do : {"join"}, id : Ids]

\* The rest of a loop of sendToAll over the ids it copied.
Sending(ids) == [do |-> "send", ids |-> ids]
\* The rest of a function after a call it makes.
Then(what, id) == [do |-> what, id |-> id]
Steps ==
  [do : {"send"}, ids : SUBSET Ids]
    \cup [do : {"left", "parted", "readied", "joined", "listen"}, id : Ids]

TypeOK ==
  /\ state \in {"Open", "Starting", "Preparing"}
  /\ members \subseteq Ids /\ ready \subseteq members
  /\ master \in Ids \cup {NoMaster}
  /\ dead \subseteq members
  /\ listening \subseteq Ids
  /\ armed \in BOOLEAN
  /\ queue \in Seq(Completions)
  /\ stack \in Seq(Steps \cup Completions)
  /\ failed \in BOOLEAN /\ prepared \in BOOLEAN
  /\ requests \in 0 .. MaxRequests
  /\ losses \in 0 .. MaxLosses /\ joins \in 0 .. MaxJoins

FirstOf(ids) == IF ids = {} THEN NoMaster ELSE Min(ids)

\* After Lobby::open: the members the previous session left, none of them
\* ready, each of them listened to, the first one being the master.
Init ==
  /\ state = "Open"
  /\ members \in SUBSET Ids
  /\ ready = {}
  /\ master = FirstOf(members)
  /\ dead = {}
  /\ listening = members
  /\ armed = FALSE
  /\ queue = <<>> /\ stack = <<>>
  /\ failed = FALSE /\ prepared = FALSE
  /\ requests = 0 /\ losses = 0 /\ joins = 0

allMembersReady == ready = members
AtRest == stack = <<>> /\ ~failed

-----------------------------------------------------------------------------
(* The network and the clock.  They complete pending operations when the    *)
(* io_context looks for events: between two handlers.                      *)

\* A member's connection breaks.
Break(id) ==
  /\ ~failed
  /\ id \in members \ dead
  /\ losses < MaxLosses
  /\ losses' = losses + 1
  /\ dead' = dead \cup {id}
  /\ UNCHANGED <<lobbyVars, ioVars, stack, failed, prepared, requests, joins>>

\* A pending receive completes with a member's request, or with an error.
Arrive(id, what) ==
  /\ AtRest
  /\ id \in listening \cap members
  /\ what \in Requests \/ (what = "broken" /\ id \in dead)
  /\ what \in Requests => requests < MaxRequests
  /\ requests' = requests + (IF what \in Requests THEN 1 ELSE 0)
  /\ listening' = listening \ {id}
  /\ queue' = Append(queue, Received(id, what))
  /\ UNCHANGED <<lobbyVars, dead, armed, stack, failed, prepared,
                 losses, joins>>

\* A client connects and asks for an id.
AskToJoin(id) ==
  /\ AtRest
  /\ joins < MaxJoins
  /\ joins' = joins + 1
  /\ queue' = Append(queue, Joining(id))
  /\ UNCHANGED <<lobbyVars, dead, listening, armed, stack, failed, prepared,
                 requests, losses>>

\* A client connects and is gone before registerMember asks for its address,
\* which throws.
JoinVanishes ==
  /\ AtRest /\ state # "Preparing"
  /\ losses < MaxLosses
  /\ losses' = losses + 1
  /\ failed' = TRUE
  /\ UNCHANGED <<lobbyVars, dead, ioVars, stack, prepared, requests, joins>>

\* The countdown's timer expires.
Expire ==
  /\ AtRest
  /\ armed
  /\ armed' = FALSE
  /\ queue' = Append(queue, TimerDone("none"))
  /\ UNCHANGED <<lobbyVars, dead, listening, stack, failed, prepared, bounds>>

-----------------------------------------------------------------------------
(* The functions the handlers call.  Each operator gives the new values of *)
(* what it changes, "rest" being what is to be done after it.              *)

\* An exception.
Fail ==
  /\ failed' = TRUE
  /\ stack' = <<>>
  /\ UNCHANGED <<lobbyVars, dead, ioVars, prepared, bounds>>

\* A fault: the wait begins before expires_after, which aborts it.
BeginCountdownSwapped(rest) ==
  /\ state' = "Starting"
  /\ armed' = FALSE
  /\ queue' = Append(queue, TimerDone("aborted"))
  /\ stack' = <<Sending(members)>> \o rest

\* A fault: the timer is set and nobody waits for it.
BeginCountdownUnarmed(rest) ==
  /\ state' = "Starting"
  /\ armed' = FALSE
  /\ queue' = IF armed THEN Append(queue, TimerDone("aborted")) ELSE queue
  /\ stack' = <<Sending(members)>> \o rest

\* beginCountdown: expires_after aborts a wait that is still pending.
BeginCountdown(rest) ==
  /\ state' = "Starting"
  /\ armed' = TRUE
  /\ queue' = IF armed THEN Append(queue, TimerDone("aborted")) ELSE queue
  /\ stack' = <<Sending(members)>> \o rest

\* cancelCountdown: the timer is left alone when it is_crash.
CancelCountdown(isCrash, rest) ==
  /\ state' = "Open"
  /\ IF armed /\ ~isCrash
     THEN armed' = FALSE /\ queue' = Append(queue, TimerDone("aborted"))
     ELSE UNCHANGED <<armed, queue>>
  /\ stack' = <<Sending(members)>> \o rest

\* disconnect, up to updateMaster and its announcement of a new master.  The
\* member's socket is destroyed, which aborts a receive pending on it.
Disconnect(id, rest) ==
  LET left == members \ {id}
      change == master # FirstOf(left)
  IN  /\ members' = left
      /\ ready' = ready \ {id}
      /\ dead' = dead \ {id}
      /\ master' = FirstOf(left)
      /\ listening' = listening \ {id}
      /\ queue' = IF id \in listening
                  THEN Append(queue, Received(id, "aborted")) ELSE queue
      /\ stack' = (IF change THEN <<Sending(left)>> ELSE <<>>)
                    \o <<Then("left", id)>> \o rest
      /\ UNCHANGED <<state, armed, failed, prepared, bounds>>

-----------------------------------------------------------------------------
(* The steps of the running handler.                                       *)

Step == Head(stack)
Rest == Tail(stack)
Doing(what) == stack # <<>> /\ Step.do = what

\* sendToAll: one send.  connections_.at throws for a member already removed.
\* A send on a broken connection may still succeed.
Send ==
  /\ Doing("send") /\ Step.ids # {}
  /\ LET id == Min(Step.ids)
         advanced == <<Sending(Step.ids \ {id})>> \o Rest
     IN  \/ id \notin members /\ Fail
         \/ /\ id \in members
            /\ stack' = advanced
            /\ UNCHANGED <<lobbyVars, dead, ioVars, failed, prepared, bounds>>
         \/ id \in dead /\ Disconnect(id, advanced)

SendEnds ==
  /\ Doing("send") /\ Step.ids = {}
  /\ stack' = Rest
  /\ UNCHANGED <<lobbyVars, dead, ioVars, failed, prepared, bounds>>

\* disconnect, after updateMaster: the countdown follows the members left.
AfterLeaving ==
  LET parted == <<Then("parted", Step.id)>> \o Rest
  IN  /\ Doing("left")
      /\ \/ /\ members = {} /\ state = "Starting"
            /\ CancelCountdown(FALSE, parted)
         \/ /\ members # {} /\ state = "Open" /\ allMembersReady
            /\ BeginCountdown(parted)
         \/ /\ members = {} => state # "Starting"
            /\ members # {} => ~(state = "Open" /\ allMembersReady)
            /\ stack' = parted
            /\ UNCHANGED <<state, armed, queue>>
      /\ UNCHANGED <<members, ready, master, dead, listening, failed,
                     prepared, bounds>>

\* The end of disconnect: those who are members by now, others having been lost
\* while the countdown was announced, are told who has left.
TellLeaving ==
  /\ Doing("parted")
  /\ stack' = <<Sending(members)>> \o Rest
  /\ UNCHANGED <<lobbyVars, dead, ioVars, failed, prepared, bounds>>

\* A fault: the countdown goes on when somebody is no longer ready.
AfterReadyGoesOn ==
  LET listen == <<Then("listen", Step.id)>> \o Rest
  IN  /\ Doing("readied")
      /\ \/ /\ state # "Starting" /\ allMembersReady /\ members # {}
            /\ BeginCountdown(listen)
         \/ /\ state # "Starting" => ~(allMembersReady /\ members # {})
            /\ stack' = listen
            /\ UNCHANGED <<state, armed, queue>>
      /\ UNCHANGED <<members, ready, master, dead, listening, failed,
                     prepared, bounds>>

\* A fault: the member whose readiness begins a countdown is not heard again.
AfterReadyDeaf ==
  LET listen == <<Then("listen", Step.id)>> \o Rest
  IN  /\ Doing("readied")
      /\ \/ /\ state # "Starting" /\ allMembersReady /\ members # {}
            /\ BeginCountdown(Rest)
         \/ /\ state = "Starting" /\ ~allMembersReady
            /\ CancelCountdown(FALSE, listen)
         \/ /\ state # "Starting" => ~(allMembersReady /\ members # {})
            /\ state = "Starting" => allMembersReady
            /\ stack' = listen
            /\ UNCHANGED <<state, armed, queue>>
      /\ UNCHANGED <<members, ready, master, dead, listening, failed,
                     prepared, bounds>>

\* handleMemberRequest, after everyone is told who is ready or no longer is.
AfterReady ==
  LET listen == <<Then("listen", Step.id)>> \o Rest
  IN  /\ Doing("readied")
      /\ \/ /\ state # "Starting" /\ allMembersReady /\ members # {}
            /\ BeginCountdown(listen)
         \/ /\ state = "Starting" /\ ~allMembersReady
            /\ CancelCountdown(FALSE, listen)
         \/ /\ state # "Starting" => ~(allMembersReady /\ members # {})
            /\ state = "Starting" => allMembersReady
            /\ stack' = listen
            /\ UNCHANGED <<state, armed, queue>>
      /\ UNCHANGED <<members, ready, master, dead, listening, failed,
                     prepared, bounds>>

\* A fault: the new member is told of the master, who is not reconsidered.
AfterJoiningMasterKept ==
  LET id == Step.id
      all == members \cup {id}
  IN  /\ Doing("joined")
      /\ members' = all
      /\ stack' = <<Sending(all)>> \o <<Then("listen", id)>> \o Rest
      /\ UNCHANGED <<state, ready, master, dead, ioVars, failed, prepared,
                     bounds>>

\* handleRegistrationRequest, after the members are told of the new one: it is
\* inserted, everyone is told who the master is, and it is listened to.
AfterJoining ==
  LET id == Step.id
      all == members \cup {id}
  IN  /\ Doing("joined")
      /\ members' = all
      /\ master' = FirstOf(all)
      /\ stack' = <<Sending(all)>> \o <<Then("listen", id)>> \o Rest
      /\ UNCHANGED <<state, ready, dead, ioVars, failed, prepared, bounds>>

\* listenMember: connections_.at throws if the member is gone.
Listen ==
  /\ Doing("listen")
  /\ \/ Step.id \notin members /\ Fail
     \/ /\ Step.id \in members
        /\ listening' = listening \cup {Step.id}
        /\ stack' = Rest
        /\ UNCHANGED <<lobbyVars, dead, armed, queue, failed, prepared,
                       bounds>>

-----------------------------------------------------------------------------
(* The handlers.                                                           *)

\* The loop, when no handler is running, runs that of the oldest completion.
Take ==
  /\ AtRest /\ queue # <<>>
  /\ stack' = <<Head(queue)>>
  /\ queue' = Tail(queue)
  /\ UNCHANGED <<lobbyVars, dead, listening, armed, failed, prepared, bounds>>

\* beginCountdown's lambda.  At the end of the countdown every pending receive
\* is aborted; those that have completed are not.
CountdownEnds ==
  /\ Doing("timer") /\ Step.err = "none"
  /\ state' = "Preparing" /\ prepared' = TRUE
  /\ \E ids \in [1 .. Cardinality(listening) -> listening] :
       /\ \A i, j \in DOMAIN ids : i < j => ids[i] < ids[j]
       /\ queue' = queue \o [ i \in DOMAIN ids |->
                               Received(ids[i], "aborted") ]
  /\ listening' = {}
  /\ stack' = Rest
  /\ UNCHANGED <<members, ready, master, dead, armed, failed, bounds>>

\* The same lambda when the wait was aborted: nothing to do if the countdown
\* was cancelled, otherwise it is cancelled now.
CountdownAborted ==
  /\ Doing("timer") /\ Step.err = "aborted"
  /\ IF state = "Open"
     THEN stack' = Rest /\ UNCHANGED <<state, armed, queue>>
     ELSE CancelCountdown(TRUE, Rest)
  /\ UNCHANGED <<members, ready, master, dead, listening, failed, prepared,
                 bounds>>

\* handleRegistrationRequest: refused during the countdown or when the id is
\* taken.  Names are not modelled: any client may be refused for its name.
HandleJoin ==
  /\ Doing("join")
  /\ \/ stack' = Rest
     \/ /\ state # "Starting" /\ Step.id \notin members
        /\ stack' = <<Sending(members)>> \o <<Then("joined", Step.id)>>
                       \o Rest
  /\ UNCHANGED <<lobbyVars, dead, ioVars, failed, prepared, bounds>>

\* handleMemberRequest.  Its lookups throw when the member is already gone, and
\* so does the shutdown of a socket whose connection has broken.
IgnoreAborted ==
  /\ Doing("receive") /\ Step.what = "aborted" /\ state = "Preparing"
  /\ stack' = Rest
  /\ UNCHANGED <<lobbyVars, dead, ioVars, failed, prepared, bounds>>

HandleUnknown ==
  /\ Doing("receive") /\ Step.id \notin members
  /\ ~(Step.what = "aborted" /\ state = "Preparing")
  /\ Fail

HandleLoss ==
  /\ Doing("receive") /\ Step.id \in members
  /\ \/ Step.what \in {"broken", "invalid"}
     \/ Step.what = "aborted" /\ state # "Preparing"
  /\ Disconnect(Step.id, Rest)

HandleLeave ==
  /\ Doing("receive") /\ Step.id \in members /\ Step.what = "leave"
  /\ \/ Disconnect(Step.id, Rest)
     \/ Step.id \in dead /\ Fail

HandleReady ==
  /\ Doing("receive") /\ Step.id \in members /\ Step.what = "ready"
  /\ ready' = SymDiff(ready, {Step.id})
  /\ stack' = <<Sending(members)>> \o <<Then("readied", Step.id)>> \o Rest
  /\ UNCHANGED <<state, members, master, dead, ioVars, failed, prepared,
                 bounds>>

-----------------------------------------------------------------------------
Call == \/ Send \/ SendEnds \/ AfterLeaving \/ TellLeaving \/ AfterReady
        \/ AfterJoining \/ Listen
Handler == \/ CountdownEnds \/ CountdownAborted \/ HandleJoin \/ IgnoreAborted
           \/ HandleUnknown \/ HandleLoss \/ HandleLeave \/ HandleReady
EventsLoop == Take \/ Handler \/ Call

Network ==
  \/ \E id \in Ids : Break(id) \/ AskToJoin(id)
  \/ JoinVanishes
  \/ \E id \in Ids, what \in Requests \cup {"broken"} : Arrive(id, what)

Stopped == failed /\ UNCHANGED vars

Next == EventsLoop \/ Network \/ Expire \/ Stopped

Spec == Init /\ [][Next]_vars

\* io_context::run goes on while there is something to run, a broken connection
\* is reported to the receive pending on it, and timers expire.
FairSpec ==
  /\ Spec
  /\ WF_vars(EventsLoop)
  /\ WF_vars(Expire)
  /\ \A id \in Ids : WF_vars(Arrive(id, "broken"))

-----------------------------------------------------------------------------
(* Properties.  What a handler and the calls nested in it establish is seen *)
(* when it is over; most of it matters until a countdown has ended.        *)

Gathering == AtRest /\ ~prepared
Queued(completions) == \E i \in DOMAIN queue : queue[i] \in completions

\* Whatever was disconnected or inserted by the handlers and by the sends that
\* failed inside them, the master is the first member, if there is one.
MasterIsFirst == AtRest => master = FirstOf(members)

\* A countdown that is on has its timer running, or expired and about to be
\* handled: the aborted waits of earlier countdowns do not take it away.
CountdownHasTimer ==
  Gathering /\ state = "Starting" => armed \/ Queued({TimerDone("none")})

\* Every member is heard: its next request is awaited or in the queue.
MembersHeard ==
  Gathering =>
    \A id \in members :
      id \in listening \/ Queued({ c \in Completions :
                                   c.do = "receive" /\ c.id = id })

\* As long as no connection breaks, there is a countdown exactly when there are
\* members and all of them are ready, and no handler looks for a member who is
\* gone, in whatever order requests, registrations and timers complete.
CountdownFollowsReadiness ==
  losses = 0 =>
    /\ ~failed
    /\ Gathering => (state = "Starting" <=> members # {} /\ allMembersReady)

\* A countdown does not stay on forever.
CountdownEndsOrStops == state = "Starting" ~> (state # "Starting" \/ failed)

\* README.md:101, "countdown before preparation when all lobby members are
\* ready": the preparation comes at the end of a countdown that is on.
PreparationAfterCountdown ==
  [][state' = "Preparing" => state \in {"Starting", "Preparing"}]_vars
=============================================================================
