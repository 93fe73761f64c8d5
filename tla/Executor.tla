------------------------------ MODULE Executor ------------------------------
(***************************************************************************)
(* The server's two threads (include/Rbo/Server/Executor.hpp:45-104,       *)
(* server/Executor.cpp:12-47): the main thread opens the lobby, waits for  *)
(* the end of a countdown, builds the game and prepares sessions; the      *)
(* other runs the events loop.  Either may stop the server: the loop on an *)
(* exception of a handler, the main thread on an exception; and so does a  *)
(* signal (server/Main.cpp), in the events loop on POSIX systems, in a     *)
(* thread of its own on Windows.                                           *)
(*                                                                         *)
(* state_, the lobby's state_ and closure_requested_ are atomics, read and *)
(* written one step at a time.  session_mtx_ is held for one step by       *)
(* whoever takes it; lobby_mtx_ is held by the main thread during a whole  *)
(* preparation.  No mutex is taken by the handlers of the events loop, and *)
(* stopping the io_context does not wait for the one that runs: it may     *)
(* read and write the lobby's state_ at any time, also after its close.    *)
(***************************************************************************)
EXTENDS Integers

VARIABLES
  state,       \* Executor::state_
  serverUp,    \* the io_context has not been stopped
  closure,     \* Lobby::closure_requested_
  stopDone,    \* stop_handler_done_
  lobby,       \* Lobby::state_
  armed,       \* the handler of a wait on prepare_timer_ is still to run
  handler,     \* what the running handler does next with state_, or "none"
  session,     \* session_ has a value
  playing,     \* Session::running_
  locked,      \* the main thread holds lobby_mtx_
  main,        \* where the main thread is
  events,      \* where the events loop's thread is
  stopping,    \* where each thread is in stop(), and why
  overtaken    \* history: the lobby was closed while a handler was running

lobbyVars == <<lobby, armed>>
loopVars == <<handler, overtaken>>
sessionVars == <<session, playing>>
flags == <<state, serverUp, closure, stopDone>>
threads == <<main, events, stopping>>
vars == <<flags, lobbyVars, loopVars, sessionVars, locked, threads>>

Threads == {"main", "events", "signal"}
Errors == {"EventsLoopError", "ServerError"}
Reasons == Errors \cup {"Stopped"}
hasError == state \in Errors

Steps == { "state", "server", "closure", "session", "reason", "close",
           "closeCrash", "done" }
NotStopping == [at |-> "none", reason |-> "Stopped"]

TypeOK ==
  /\ state \in {"Running"} \cup Reasons
  /\ serverUp \in BOOLEAN /\ closure \in BOOLEAN /\ stopDone \in BOOLEAN
  /\ lobby \in {"Idle", "Open", "Starting", "Preparing", "Closed"}
  /\ armed \in BOOLEAN /\ session \in BOOLEAN /\ playing \in BOOLEAN
  /\ handler \in {"none", "runs", "timer", "begin", "cancel"}
  /\ overtaken \in BOOLEAN
  /\ locked \in BOOLEAN
  /\ main \in { "loop", "open", "isOpen", "isStarting", "build", "failed",
                "prepare", "configure", "begin", "play", "reset", "wait",
                "stop", "join", "finished", "undefined", "terminated" }
  /\ events \in {"run", "ended"}
  /\ stopping \in [ Threads -> [at : Steps \cup {"none"}, reason : Reasons] ]

\* Executor::start: the lobby has just been constructed.
Init ==
  /\ state = "Running" /\ serverUp = TRUE
  /\ closure = FALSE /\ stopDone = FALSE
  /\ lobby = "Idle" /\ armed = FALSE
  /\ handler = "none" /\ overtaken = FALSE
  /\ session = FALSE /\ playing = FALSE /\ locked = FALSE
  /\ main = "loop" /\ events = "run"
  /\ stopping = [t \in Threads |-> NotStopping]

-----------------------------------------------------------------------------
(* Executor::stop, called by thread t.                                     *)

At(t, step) == stopping[t].at = step
GoTo(t, step) == stopping' = [stopping EXCEPT ![t].at = step]
CallStop(t, reason) ==
  stopping' = [stopping EXCEPT ![t] = [at |-> "state", reason |-> reason]]

SetState(t) ==
  /\ At(t, "state")
  /\ state' = stopping[t].reason
  /\ GoTo(t, "server")
  /\ UNCHANGED <<serverUp, closure, stopDone, lobbyVars, loopVars, sessionVars,
                 locked, main, events>>

StopServer(t) ==
  /\ At(t, "server")
  /\ serverUp' = FALSE
  /\ GoTo(t, "closure")
  /\ UNCHANGED <<state, closure, stopDone, lobbyVars, loopVars, sessionVars,
                 locked, main, events>>

RequestClosure(t) ==
  /\ At(t, "closure")
  /\ closure' = TRUE
  /\ GoTo(t, "session")
  /\ UNCHANGED <<state, serverUp, stopDone, lobbyVars, loopVars, sessionVars,
                 locked, main, events>>

\* A fault: the session is not stopped.
SessionGoesOn == UNCHANGED playing

\* session_->stop(), if there is a session.
SessionStopped == playing' = FALSE

StopSession(t) ==
  /\ At(t, "session")
  /\ SessionStopped
  /\ GoTo(t, "reason")
  /\ UNCHANGED <<flags, lobbyVars, loopVars, session, locked, main, events>>

\* Whether there is an error is read before the lobby is locked.
ReadReason(t) ==
  /\ At(t, "reason")
  /\ GoTo(t, IF hasError THEN "closeCrash" ELSE "close")
  /\ UNCHANGED <<flags, lobbyVars, loopVars, sessionVars, locked, main,
                 events>>

\* A fault: the lobby is closed without its mutex.
LobbyIgnored == TRUE

\* lobby_mtx_ can be taken.
LobbyFree == ~locked

ClosesLobby ==
  /\ LobbyFree
  /\ lobby' = "Closed"
  /\ overtaken' = IF handler = "none" THEN overtaken ELSE TRUE

\* Lobby::close.  Without an error it disconnects the members, which throws
\* when a connection is broken (ThrowInClose).
CloseLobby(t) ==
  /\ At(t, "close") \/ At(t, "closeCrash")
  /\ ClosesLobby
  /\ GoTo(t, "done")
  /\ UNCHANGED <<flags, armed, handler, sessionVars, locked, main, events>>

\* In the events loop the exception stops the server again, as an error; it
\* terminates the program in the signal's thread, and in the main thread, where
\* it leaves start() with a thread that is not joined.
ThrowInClose(t) ==
  /\ At(t, "close")
  /\ ClosesLobby
  /\ \/ t = "events" /\ CallStop(t, "EventsLoopError") /\ UNCHANGED main
     \/ t # "events" /\ GoTo(t, "none") /\ main' = "terminated"
  /\ UNCHANGED <<flags, armed, handler, sessionVars, locked, events>>

StopDone(t) ==
  /\ At(t, "done")
  /\ stopDone' = TRUE
  /\ GoTo(t, "none")
  /\ main' = IF t = "main" THEN "join" ELSE main
  /\ UNCHANGED <<state, serverUp, closure, lobbyVars, loopVars, sessionVars,
                 locked, events>>

Stop(t) ==
  \/ SetState(t) \/ StopServer(t) \/ RequestClosure(t) \/ StopSession(t)
  \/ ReadReason(t) \/ CloseLobby(t) \/ ThrowInClose(t) \/ StopDone(t)

-----------------------------------------------------------------------------
(* The events loop's thread.                                               *)

LoopUp == events = "run" /\ serverUp /\ At("events", "none")

\* A completion's handler begins: that of a wait on the timer, of which a
\* cancelled countdown and the next one may leave several, or another.
HandlerBegins ==
  /\ LoopUp /\ handler = "none"
  /\ \/ armed /\ armed' \in BOOLEAN /\ handler' = "timer"
     \/ handler' = "runs" /\ UNCHANGED armed
  /\ UNCHANGED <<flags, lobby, overtaken, sessionVars, locked, threads>>

\* beginCountdown's lambda.  When the wait was aborted the countdown is
\* cancelled, unless the lobby is open.
TimerCompletes ==
  /\ handler = "timer"
  /\ \/ lobby' = "Preparing" /\ handler' = "none"
     \/ /\ handler' = IF lobby = "Open" THEN "none" ELSE "cancel"
        /\ UNCHANGED lobby
  /\ UNCHANGED <<flags, armed, overtaken, sessionVars, locked, threads>>

\* A handler tests isStarting(), members having become ready or not, or having
\* left (Lobby.tla), whatever the lobby is doing ...
FollowReadiness ==
  /\ handler = "runs"
  /\ handler' = IF lobby = "Starting" THEN "cancel" ELSE "begin"
  /\ UNCHANGED <<flags, lobbyVars, overtaken, sessionVars, locked, threads>>

\* ... and then writes state_.  The announcement of this may lose a member,
\* which changes the countdown again.
BeginCountdown ==
  /\ handler = "begin"
  /\ lobby' = "Starting" /\ armed' = TRUE
  /\ handler' = "runs"
  /\ UNCHANGED <<flags, overtaken, sessionVars, locked, threads>>

CancelCountdown ==
  /\ handler = "cancel"
  /\ lobby' = "Open"
  /\ handler' = "runs"
  /\ UNCHANGED <<flags, armed, overtaken, sessionVars, locked, threads>>

HandlerEnds ==
  /\ handler = "runs"
  /\ handler' = "none"
  /\ UNCHANGED <<flags, lobbyVars, overtaken, sessionVars, locked, threads>>

HandlerGoesOn ==
  \/ TimerCompletes \/ FollowReadiness \/ BeginCountdown \/ CancelCountdown
  \/ HandlerEnds

\* A handler throws, or the one that runs is that of a signal.
LoopStops ==
  /\ \/ /\ handler # "none"
        /\ CallStop("events", "EventsLoopError")
     \/ /\ LoopUp /\ handler = "none"
        /\ CallStop("events", "Stopped")
  /\ handler' = "none"
  /\ UNCHANGED <<flags, lobbyVars, overtaken, sessionVars, locked, main,
                 events>>

SignalStops ==
  /\ state = "Running" /\ At("signal", "none")
  /\ CallStop("signal", "Stopped")
  /\ UNCHANGED <<flags, lobbyVars, loopVars, sessionVars, locked, main,
                 events>>

LoopEnds ==
  /\ events = "run" /\ ~serverUp /\ handler = "none" /\ At("events", "none")
  /\ state # "Running"
  /\ events' = "ended"
  /\ UNCHANGED <<flags, lobbyVars, loopVars, sessionVars, locked, main,
                 stopping>>

-----------------------------------------------------------------------------
(* The main thread.                                                        *)

\* An exception: the lock guards are released, and the server is stopped.
Throws ==
  /\ main' = "stop" /\ locked' = FALSE
  /\ CallStop("main", "ServerError")

IsRunning ==
  /\ main = "loop"
  /\ main' = IF state = "Running" THEN "open" ELSE "wait"
  /\ UNCHANGED <<flags, lobbyVars, loopVars, sessionVars, locked, events,
                 stopping>>

\* A fault: the lobby is opened again whatever its state.
OpenAnyLobby == lobby' = "Open"

\* Lobby::open, if it is idle.
OpenIdleLobby == lobby' = IF lobby = "Idle" THEN "Open" ELSE lobby

Open ==
  /\ main = "open"
  /\ \/ OpenIdleLobby /\ main' = "isOpen" /\ UNCHANGED <<locked, stopping>>
     \/ lobby = "Idle" /\ lobby' = "Open" /\ Throws
  /\ UNCHANGED <<flags, armed, loopVars, sessionVars, events>>

\* while (lobby_.isOpen() || lobby_.isStarting()): the state is read twice.
Watch ==
  /\ \/ main = "isOpen" /\ lobby # "Open" /\ main' = "isStarting"
     \/ /\ main = "isStarting"
        /\ main' = IF lobby = "Starting" THEN "isOpen" ELSE "build"
  /\ UNCHANGED <<flags, lobbyVars, loopVars, sessionVars, locked, events,
                 stopping>>

\* The game builder and the session are constructed for a preparation.
Build ==
  /\ main = "build"
  /\ \/ lobby # "Preparing" /\ main' = "prepare"
        /\ UNCHANGED <<session, locked, stopping>>
     \/ /\ lobby = "Preparing"
        /\ \/ session' = TRUE /\ main' = "prepare"
              /\ UNCHANGED <<locked, stopping>>
           \/ main' = "failed" /\ UNCHANGED <<session, locked, stopping>>
           \/ Throws /\ UNCHANGED session
  /\ UNCHANGED <<flags, lobbyVars, loopVars, playing, events>>

\* GameBuildingError: the lobby is reset, to be opened again.
BuildingFailed ==
  /\ main = "failed"
  /\ lobby' = IF lobby = "Preparing" THEN "Idle" ELSE lobby
  /\ session' = FALSE
  /\ main' = "loop"
  /\ UNCHANGED <<flags, armed, loopVars, playing, locked, events, stopping>>

\* Lobby::prepareSession(*session_), when the lobby still prepares.
Prepare ==
  /\ main = "prepare"
  /\ \/ lobby # "Preparing" /\ main' = "reset" /\ UNCHANGED locked
     \/ /\ lobby = "Preparing"
        /\ main' = IF session THEN "configure" ELSE "undefined"
        /\ locked' = TRUE
  /\ UNCHANGED <<flags, lobbyVars, loopVars, sessionVars, events, stopping>>

\* The preparation is over (Preparation.tla).
PreparationEnds ==
  /\ main' = "reset" /\ lobby' = "Idle" /\ locked' = FALSE

Configure ==
  /\ main = "configure"
  /\ \/ PreparationEnds /\ UNCHANGED stopping
     \/ ~closure /\ main' = "begin" /\ UNCHANGED <<lobby, locked, stopping>>
     \/ Throws /\ UNCHANGED lobby
  /\ UNCHANGED <<flags, armed, loopVars, sessionVars, events>>

\* The main thread's disconnect() follows a countdown that a handler has begun
\* or cancelled during the preparation.
LoseMember ==
  /\ main = "configure"
  /\ \/ lobby = "Starting" /\ lobby' = "Open" /\ UNCHANGED armed
     \/ lobby = "Open" /\ lobby' = "Starting" /\ armed' = TRUE
  /\ UNCHANGED <<flags, loopVars, sessionVars, locked, threads>>

\* Session::start.
Begin ==
  /\ main = "begin"
  /\ playing' = TRUE
  /\ main' = "play"
  /\ UNCHANGED <<flags, lobbyVars, loopVars, session, locked, events,
                 stopping>>

\* The session ends (Session.tla).
SessionEnds ==
  /\ main = "play"
  /\ playing' = FALSE
  /\ \/ main' = "configure" /\ UNCHANGED <<lobby, locked, stopping>>
     \/ PreparationEnds /\ UNCHANGED stopping
     \/ Throws /\ UNCHANGED lobby
  /\ UNCHANGED <<flags, armed, loopVars, session, events>>

ResetSession ==
  /\ main = "reset"
  /\ session' = FALSE
  /\ main' = "loop"
  /\ UNCHANGED <<flags, lobbyVars, loopVars, playing, locked, events,
                 stopping>>

\* A fault: start returns without waiting for stop().
StopHandled == TRUE

\* stop_handler_done_.
HandlerDone == stopDone

WaitStop ==
  /\ main = "wait" /\ HandlerDone
  /\ main' = "join"
  /\ UNCHANGED <<flags, lobbyVars, loopVars, sessionVars, locked, events,
                 stopping>>

Join ==
  /\ main = "join" /\ events = "ended"
  /\ main' = "finished"
  /\ UNCHANGED <<flags, lobbyVars, loopVars, sessionVars, locked, events,
                 stopping>>

-----------------------------------------------------------------------------
MainThread ==
  \/ IsRunning \/ Open \/ Watch \/ Build \/ BuildingFailed \/ Prepare
  \/ Configure \/ Begin \/ SessionEnds \/ ResetSession \/ WaitStop \/ Join
  \/ Stop("main")
EventsThread == LoopEnds \/ HandlerGoesOn \/ Stop("events")
SignalThread == Stop("signal")

Over ==
  /\ main \in {"finished", "undefined", "terminated"}
  /\ UNCHANGED vars

Next ==
  \/ MainThread \/ EventsThread \/ SignalThread
  \/ HandlerBegins \/ LoopStops \/ SignalStops \/ LoseMember
  \/ Over

Spec == Init /\ [][Next]_vars

\* A fault: a closure is not looked at while the master is asked.
OnlyAnswers == FALSE

\* receiveFromMaster waits for a reply, which need not come, or for a closure.
WaitEnds == closure

\* The threads are scheduled.  Nobody has to reply: a preparation goes on once
\* its closure is requested, and a session comes to its end once it is stopped.
\* A handler's countdown changes again only when it loses one more member, so
\* the handler ends.  Nothing makes a handler begin, throw, nor a signal come.
Scheduled ==
  /\ MainThread
  /\ main = "configure" => WaitEnds
  /\ main = "play" => ~playing
Fairness ==
  /\ WF_vars(Scheduled)
  /\ WF_vars(EventsThread) /\ SF_vars(HandlerEnds)
  /\ WF_vars(SignalThread)
FairSpec == Spec /\ Fairness

-----------------------------------------------------------------------------
(* Properties.                                                             *)

\* A lobby that is closed is never opened nor prepared again, unless a handler
\* was running when it was: stop() does not wait for that one, but no other
\* begins, and the main thread does not touch a closed lobby.
ClosedForGood ==
  [][lobby = "Closed" /\ handler = "none" => lobby' = "Closed"]_vars

\* The lobby is not closed, nor its members disconnected, while the main thread
\* prepares or plays a session with them.
ClosedOutOfPreparation ==
  [][ lobby # "Closed" /\ lobby' = "Closed" =>
        main \notin {"configure", "begin", "play"} ]_vars

\* When start() returns a stop is complete, the events loop has ended and the
\* lobby is closed, unless a handler was running when another thread closed it.
FinishedWhenStopped ==
  main = "finished" =>
    stopDone /\ events = "ended" /\ (overtaken \/ lobby = "Closed")

\* A session that is running when stop() reaches it comes to its end.
RunningSessionStops ==
  (main = "play" /\ playing /\ \E t \in Threads : At(t, "session"))
    ~> main # "play"

\* A session has started after stop() has passed it (the closure was requested
\* after Lobby.cpp:523 and the session stopped before Session.cpp:355).
StopMissed ==
  /\ main = "play" /\ playing
  /\ \A t \in Threads :
       stopping[t].at \notin {"state", "server", "closure", "session"}

\* A handler has opened the lobby again after its close, and the main thread
\* waits for a countdown that no handler will end.
Reopened ==
  /\ overtaken /\ lobby \in {"Open", "Starting"}
  /\ main \in {"isOpen", "isStarting"}

\* A stop makes start() return, whatever the main thread is doing, unless a
\* session or a handler has missed it, or the behaviour is no longer the
\* program's.
StopReturns ==
  state # "Running" ~>
    \/ main \in {"finished", "undefined", "terminated"}
    \/ StopMissed \/ Reopened
=============================================================================
