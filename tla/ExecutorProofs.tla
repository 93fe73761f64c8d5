--------------------------- MODULE ExecutorProofs ---------------------------
(***************************************************************************)
(* Proofs about Executor: its types, and how the lobby is closed, whatever *)
(* the threads that stop the server are doing.                             *)
(***************************************************************************)
EXTENDS Executor, TLAPS

-----------------------------------------------------------------------------
(* Type correctness.                                                       *)

\* The state start() begins in.
LEMMA TypeInit == Init => TypeOK
<1> SUFFICES ASSUME Init
             PROVE  TypeOK
  OBVIOUS
<1>1. NotStopping \in [at : Steps \cup {"none"}, reason : Reasons]
  BY DEF NotStopping, Reasons
<1> QED
  BY <1>1 DEF Init, TypeOK, Reasons, Errors

\* Where a thread is in stop() stays one of its places.
LEMMA GoToType ==
  ASSUME TypeOK, NEW t \in Threads, NEW step \in Steps \cup {"none"},
         GoTo(t, step)
  PROVE  stopping' \in [ Threads -> [ at : Steps \cup {"none"},
                                      reason : Reasons ] ]
  BY DEF GoTo, TypeOK

\* So does where it is once it has entered stop().
LEMMA CallStopType ==
  ASSUME TypeOK, NEW t \in Threads, NEW reason \in Reasons,
         CallStop(t, reason)
  PROVE  stopping' \in [ Threads -> [ at : Steps \cup {"none"},
                                      reason : Reasons ] ]
  BY DEF CallStop, TypeOK, Steps

\* Whether a handler was overtaken stays a Boolean.
LEMMA ClosesType ==
  ASSUME TypeOK, ClosesLobby
  PROVE  lobby' = "Closed" /\ overtaken' \in BOOLEAN
<1>1. overtaken \in BOOLEAN
  BY DEF TypeOK
<1>2. overtaken' = overtaken \/ overtaken' = TRUE
  BY DEF ClosesLobby
<1> QED
  BY <1>1, <1>2 DEF ClosesLobby

\* Each step of stop() keeps the types.
LEMMA StopType ==
  ASSUME TypeOK, NEW t \in Threads, Stop(t)
  PROVE  TypeOK'
<1> USE DEF lobbyVars, loopVars, sessionVars, flags
<1>1. ASSUME SetState(t)
      PROVE  TypeOK'
  <2>1. stopping[t].reason \in Reasons
    BY DEF TypeOK
  <2> QED
    BY <1>1, <2>1, GoToType DEF SetState, TypeOK, Steps
<1>2. ASSUME StopServer(t)
      PROVE  TypeOK'
  <2>1. serverUp' \in BOOLEAN
    BY <1>2, Zenon DEF StopServer
  <2> QED
    BY <1>2, <2>1, GoToType DEF StopServer, TypeOK, Steps
<1>3. ASSUME RequestClosure(t)
      PROVE  TypeOK'
  BY <1>3, GoToType DEF RequestClosure, TypeOK, Steps
<1>4. ASSUME StopSession(t)
      PROVE  TypeOK'
  <2>1. playing' \in BOOLEAN
    BY <1>4, Zenon DEF StopSession, SessionStopped
  <2> QED
    BY <1>4, <2>1, GoToType DEF StopSession, TypeOK, Steps
<1>5. ASSUME ReadReason(t)
      PROVE  TypeOK'
  BY <1>5, GoToType DEF ReadReason, TypeOK, Steps
<1>6. ASSUME CloseLobby(t)
      PROVE  TypeOK'
  <2>1. lobby' = "Closed" /\ overtaken' \in BOOLEAN
    BY <1>6, ClosesType DEF CloseLobby
  <2> QED
    BY <1>6, <2>1, GoToType DEF CloseLobby, TypeOK, Steps
<1>7. ASSUME ThrowInClose(t)
      PROVE  TypeOK'
  <2>3. lobby' = "Closed" /\ overtaken' \in BOOLEAN
    BY <1>7, ClosesType DEF ThrowInClose
  <2>1. CASE t = "events" /\ CallStop(t, "EventsLoopError") /\ UNCHANGED main
    BY <1>7, <2>1, <2>3, CallStopType
    DEF ThrowInClose, TypeOK, Reasons, Errors
  <2>2. CASE t # "events" /\ GoTo(t, "none") /\ main' = "terminated"
    BY <1>7, <2>2, <2>3, GoToType DEF ThrowInClose, TypeOK
  <2> QED
    BY <1>7, <2>1, <2>2 DEF ThrowInClose
<1>8. ASSUME StopDone(t)
      PROVE  TypeOK'
  BY <1>8, GoToType DEF StopDone, TypeOK
<1> QED
  BY <1>1, <1>2, <1>3, <1>4, <1>5, <1>6, <1>7, <1>8 DEF Stop

\* An exception of the main thread enters stop(), with the mutex released.
LEMMA ThrowsType ==
  ASSUME TypeOK, Throws
  PROVE  /\ main' = "stop" /\ locked' = FALSE
         /\ stopping' \in [ Threads -> [ at : Steps \cup {"none"},
                                         reason : Reasons ] ]
  BY CallStopType DEF Throws, Threads, Reasons, Errors

\* The main thread's steps leave the running handler alone.
LEMMA LoopKept ==
  ASSUME TypeOK, UNCHANGED loopVars
  PROVE  /\ handler' \in {"none", "runs", "timer", "begin", "cancel"}
         /\ overtaken' \in BOOLEAN
<1>1. UNCHANGED <<handler, overtaken>>
  BY DEF loopVars
<1> QED
  BY <1>1 DEF TypeOK

\* Each step of start() keeps the types.
LEMMA MainType ==
  ASSUME TypeOK, MainThread
  PROVE  TypeOK'
<1> USE LoopKept DEF lobbyVars, sessionVars, flags
<1>1. ASSUME Stop("main")
      PROVE  TypeOK'
  BY <1>1, StopType DEF Threads
<1>2. ASSUME IsRunning
      PROVE  TypeOK'
  BY <1>2 DEF IsRunning, TypeOK
<1>3. ASSUME Open
      PROVE  TypeOK'
  BY <1>3, ThrowsType DEF Open, OpenIdleLobby, TypeOK
<1>4. ASSUME Watch
      PROVE  TypeOK'
  BY <1>4 DEF Watch, TypeOK
<1>5. ASSUME Build
      PROVE  TypeOK'
  <2>1. CASE Throws /\ UNCHANGED session
    BY <1>5, <2>1, ThrowsType DEF Build, TypeOK
  <2>2. CASE /\ main' \in {"prepare", "failed"}
             /\ session' \in {TRUE, session}
             /\ UNCHANGED <<locked, stopping>>
    <3>1. session' \in BOOLEAN
      BY <2>2 DEF TypeOK
    <3>2. UNCHANGED <<flags, lobbyVars, loopVars, playing, events>>
      BY <1>5, Zenon DEF Build
    <3> QED
      BY <2>2, <3>1, <3>2 DEF TypeOK
  <2> QED
    BY <1>5, <2>1, <2>2, Zenon DEF Build
<1>6. ASSUME BuildingFailed
      PROVE  TypeOK'
  BY <1>6 DEF BuildingFailed, TypeOK
<1>7. ASSUME Prepare
      PROVE  TypeOK'
  BY <1>7 DEF Prepare, TypeOK
<1>8. ASSUME Configure
      PROVE  TypeOK'
  <2>1. CASE PreparationEnds /\ UNCHANGED stopping
    BY <1>8, <2>1 DEF Configure, PreparationEnds, TypeOK
  <2>2. CASE main' = "begin" /\ UNCHANGED <<lobby, locked, stopping>>
    BY <1>8, <2>2 DEF Configure, TypeOK
  <2>3. CASE Throws /\ UNCHANGED lobby
    BY <1>8, <2>3, ThrowsType DEF Configure, TypeOK
  <2> QED
    BY <1>8, <2>1, <2>2, <2>3, Zenon DEF Configure
<1>9. ASSUME Begin
      PROVE  TypeOK'
  BY <1>9 DEF Begin, TypeOK
<1>10. ASSUME SessionEnds
       PROVE  TypeOK'
  BY <1>10, ThrowsType DEF SessionEnds, PreparationEnds, TypeOK
<1>11. ASSUME ResetSession
       PROVE  TypeOK'
  BY <1>11 DEF ResetSession, TypeOK
<1>12. ASSUME WaitStop
       PROVE  TypeOK'
  BY <1>12 DEF WaitStop, TypeOK
<1>13. ASSUME Join
       PROVE  TypeOK'
  BY <1>13 DEF Join, TypeOK
<1> QED
  BY <1>1, <1>2, <1>3, <1>4, <1>5, <1>6, <1>7, <1>8, <1>9, <1>10, <1>11,
     <1>12, <1>13 DEF MainThread

\* So does each step of any thread.
LEMMA TypeStep == TypeOK /\ [Next]_vars => TypeOK'
<1> SUFFICES ASSUME TypeOK, [Next]_vars
             PROVE  TypeOK'
  OBVIOUS
<1> USE DEF lobbyVars, loopVars, sessionVars, flags, threads
<1>1. ASSUME LoopEnds
      PROVE  TypeOK'
  BY <1>1 DEF LoopEnds, TypeOK
<1>2. ASSUME HandlerBegins
      PROVE  TypeOK'
  <2>1. armed' \in BOOLEAN
    <3>1. armed \in BOOLEAN
      BY DEF TypeOK
    <3>2. armed' \in BOOLEAN \/ armed' = armed
      BY <1>2, Zenon DEF HandlerBegins
    <3> QED
      BY <3>1, <3>2
  <2>2. handler' \in {"runs", "timer"}
    BY <1>2, Zenon DEF HandlerBegins
  <2> QED
    BY <1>2, <2>1, <2>2 DEF HandlerBegins, TypeOK
<1>6. ASSUME HandlerGoesOn
      PROVE  TypeOK'
  <2>1. /\ handler' \in {"none", "runs", "timer", "begin", "cancel"}
        /\ lobby' \in {"Preparing", "Starting", "Open", lobby}
        /\ armed' \in {TRUE, armed}
        /\ UNCHANGED <<flags, overtaken, sessionVars, locked, threads>>
    BY <1>6, Zenon DEF HandlerGoesOn, TimerCompletes, FollowReadiness,
                       BeginCountdown, CancelCountdown, HandlerEnds
  <2>2. armed' \in BOOLEAN
    BY <2>1 DEF TypeOK
  <2> QED
    BY <2>1, <2>2 DEF TypeOK
<1>7. ASSUME LoseMember
      PROVE  TypeOK'
  <2>1. /\ lobby' \in {"Starting", "Open"}
        /\ armed' \in {TRUE, armed}
        /\ UNCHANGED <<flags, loopVars, sessionVars, locked, threads>>
    BY <1>7, Zenon DEF LoseMember
  <2>2. armed' \in BOOLEAN
    BY <2>1 DEF TypeOK
  <2> QED
    BY <2>1, <2>2 DEF TypeOK
<1>3. ASSUME LoopStops
      PROVE  TypeOK'
  BY <1>3, CallStopType DEF LoopStops, TypeOK, Threads, Reasons, Errors
<1>4. ASSUME SignalStops
      PROVE  TypeOK'
  BY <1>4, CallStopType DEF SignalStops, TypeOK, Threads, Reasons, Errors
<1>5. ASSUME UNCHANGED vars
      PROVE  TypeOK'
  BY <1>5 DEF vars, TypeOK
<1> QED
  BY <1>1, <1>2, <1>3, <1>4, <1>5, <1>6, <1>7, MainType, StopType
  DEF Next, EventsThread, SignalThread, Over, Threads

\* Every variable of the executor keeps its type.
THEOREM TypeCorrect == Spec => []TypeOK
  BY TypeInit, TypeStep, PTL DEF Spec

-----------------------------------------------------------------------------
(* The order of stop(): the lobby is closed when no handler begins any     *)
(* more, and never while the main thread holds it.  This is what the       *)
(* safety properties follow from.                                          *)

\* The io_context is stopped before anything else, so that no handler begins
\* once the lobby is closed; one that is running then was overtaken.
ServerFirst ==
  /\ \A t \in Threads :
       stopping[t].at \in Steps \ {"state", "server"} => serverUp = FALSE
  /\ lobby = "Closed" => serverUp = FALSE
  /\ lobby = "Closed" /\ handler # "none" => overtaken = TRUE
  /\ overtaken = TRUE => serverUp = FALSE

\* The main thread holds the lobby's mutex from the beginning to the end of a
\* preparation, which does not begin in a closed lobby.
LobbyHeld ==
  /\ main \in {"configure", "begin", "play"} => locked = TRUE
  /\ locked = TRUE => lobby # "Closed"

\* stop() closes the lobby before it says that it is done, and start() returns
\* after that, when the other thread has ended.  Only a handler that was
\* overtaken may open the lobby again.
DoneWhenClosed ==
  /\ \A t \in Threads :
       stopping[t].at = "done" => lobby = "Closed" \/ overtaken = TRUE
  /\ stopDone = TRUE => lobby = "Closed" \/ overtaken = TRUE
  /\ main \in {"join", "finished"} => stopDone = TRUE
  /\ main = "finished" => events = "ended"

\* The inductive invariant.
StopOrder == ServerFirst /\ LobbyHeld /\ DoneWhenClosed

\* Only the thread that takes a step of stop() moves in it.
LEMMA GoToAt ==
  ASSUME TypeOK, NEW t \in Threads, NEW step, GoTo(t, step)
  PROVE  \A u \in Threads :
           stopping'[u].at = IF u = t THEN step ELSE stopping[u].at
  BY DEF GoTo, TypeOK

\* Only the thread that calls stop() enters it.
LEMMA CallStopAt ==
  ASSUME TypeOK, NEW t \in Threads, NEW reason, CallStop(t, reason)
  PROVE  \A u \in Threads :
           stopping'[u].at = IF u = t THEN "state" ELSE stopping[u].at
  BY DEF CallStop, TypeOK

\* Nothing is stopped yet when start() begins.
LEMMA OrderInit == Init => StopOrder
  BY DEF Init, StopOrder, ServerFirst, LobbyHeld, DoneWhenClosed, NotStopping,
         Steps

\* Each step of stop() keeps the order.
LEMMA OrderStop ==
  ASSUME TypeOK, StopOrder, NEW t \in Threads, Stop(t)
  PROVE  StopOrder'
<1> USE DEF lobbyVars, loopVars, sessionVars, flags, Steps,
            StopOrder, ServerFirst, LobbyHeld, DoneWhenClosed, At
<1>1. ASSUME SetState(t)
      PROVE  StopOrder'
  BY <1>1, GoToAt DEF SetState
<1>2. ASSUME StopServer(t)
      PROVE  StopOrder'
  BY <1>2, GoToAt DEF StopServer
<1>3. ASSUME RequestClosure(t)
      PROVE  StopOrder'
  BY <1>3, GoToAt DEF RequestClosure
<1>4. ASSUME StopSession(t)
      PROVE  StopOrder'
  BY <1>4, GoToAt DEF StopSession
<1>5. ASSUME ReadReason(t)
      PROVE  StopOrder'
  BY <1>5, GoToAt DEF ReadReason
<1>6. ASSUME CloseLobby(t)
      PROVE  StopOrder'
  <2>1. locked # TRUE
    BY <1>6, Zenon DEF CloseLobby, ClosesLobby, LobbyFree
  <2>2. handler # "none" => overtaken' = TRUE
    BY <1>6 DEF CloseLobby, ClosesLobby
  <2>3. serverUp = FALSE
    BY <1>6 DEF CloseLobby
  <2> QED
    BY <1>6, <2>1, <2>2, <2>3, GoToAt DEF CloseLobby, ClosesLobby
<1>7. ASSUME ThrowInClose(t)
      PROVE  StopOrder'
  <2>1. locked # TRUE
    BY <1>7, Zenon DEF ThrowInClose, ClosesLobby, LobbyFree
  <2>4. handler # "none" => overtaken' = TRUE
    BY <1>7 DEF ThrowInClose, ClosesLobby
  <2>5. serverUp = FALSE
    BY <1>7 DEF ThrowInClose
  <2>2. CASE t = "events" /\ CallStop(t, "EventsLoopError") /\ UNCHANGED main
    BY <1>7, <2>1, <2>2, <2>4, <2>5, CallStopAt DEF ThrowInClose, ClosesLobby
  <2>3. CASE t # "events" /\ GoTo(t, "none") /\ main' = "terminated"
    BY <1>7, <2>1, <2>3, <2>4, <2>5, GoToAt DEF ThrowInClose, ClosesLobby
  <2> QED
    BY <1>7, <2>2, <2>3 DEF ThrowInClose
<1>8. ASSUME StopDone(t)
      PROVE  StopOrder'
  BY <1>8, GoToAt DEF StopDone
<1> QED
  BY <1>1, <1>2, <1>3, <1>4, <1>5, <1>6, <1>7, <1>8 DEF Stop

\* An exception leaves the lobby alone and its mutex free.
LEMMA OrderThrows ==
  ASSUME TypeOK, Throws
  PROVE  /\ main' = "stop" /\ locked' = FALSE
         /\ \A u \in Threads :
              stopping'[u].at = IF u = "main" THEN "state" ELSE stopping[u].at
  BY CallStopAt DEF Throws, Threads

\* The main thread leaves a closed lobby closed and holds the others.
LEMMA OrderMain ==
  ASSUME TypeOK, StopOrder, MainThread
  PROVE  StopOrder'
<1> USE DEF lobbyVars, loopVars, sessionVars, flags, Steps,
            StopOrder, ServerFirst, LobbyHeld, DoneWhenClosed
<1>1. ASSUME Stop("main")
      PROVE  StopOrder'
  BY <1>1, OrderStop DEF Threads
<1>2. ASSUME IsRunning
      PROVE  StopOrder'
  BY <1>2 DEF IsRunning
<1>3. ASSUME Open
      PROVE  StopOrder'
  BY <1>3, OrderThrows DEF Open, OpenIdleLobby
<1>4. ASSUME Watch
      PROVE  StopOrder'
  BY <1>4 DEF Watch
<1>5. ASSUME Build
      PROVE  StopOrder'
  BY <1>5, OrderThrows DEF Build
<1>6. ASSUME BuildingFailed
      PROVE  StopOrder'
  BY <1>6 DEF BuildingFailed
<1>7. ASSUME Prepare
      PROVE  StopOrder'
  BY <1>7 DEF Prepare
<1>8. ASSUME Configure
      PROVE  StopOrder'
  BY <1>8, OrderThrows DEF Configure, PreparationEnds
<1>9. ASSUME Begin
      PROVE  StopOrder'
  BY <1>9 DEF Begin
<1>10. ASSUME SessionEnds
       PROVE  StopOrder'
  BY <1>10, OrderThrows DEF SessionEnds, PreparationEnds
<1>11. ASSUME ResetSession
       PROVE  StopOrder'
  BY <1>11 DEF ResetSession
<1>12. ASSUME WaitStop
       PROVE  StopOrder'
  <2>1. stopDone = TRUE
    BY <1>12, Zenon DEF WaitStop, HandlerDone, TypeOK
  <2> QED
    BY <1>12, <2>1 DEF WaitStop
<1>13. ASSUME Join
       PROVE  StopOrder'
  BY <1>13 DEF Join
<1> QED
  BY <1>1, <1>2, <1>3, <1>4, <1>5, <1>6, <1>7, <1>8, <1>9, <1>10, <1>11,
     <1>12, <1>13 DEF MainThread

\* So does each step of any thread.
LEMMA OrderStep == TypeOK /\ StopOrder /\ [Next]_vars => StopOrder'
<1> SUFFICES ASSUME TypeOK, StopOrder, [Next]_vars
             PROVE  StopOrder'
  OBVIOUS
<1> USE DEF lobbyVars, loopVars, sessionVars, flags, threads, Steps,
            StopOrder, ServerFirst, LobbyHeld, DoneWhenClosed
<1>1. ASSUME LoopEnds
      PROVE  StopOrder'
  BY <1>1 DEF LoopEnds
<1>2. ASSUME HandlerBegins
      PROVE  StopOrder'
  <2>1. serverUp # FALSE
    BY <1>2, Zenon DEF HandlerBegins, LoopUp
  <2> QED
    BY <1>2, <2>1 DEF HandlerBegins
<1>6. ASSUME HandlerGoesOn
      PROVE  StopOrder'
  <2>1. lobby' # "Closed" \/ lobby' = lobby
    BY <1>6 DEF HandlerGoesOn, TimerCompletes, FollowReadiness,
                BeginCountdown, CancelCountdown, HandlerEnds
  <2>2. /\ handler # "none"
        /\ UNCHANGED <<flags, overtaken, locked, threads>>
    BY <1>6 DEF HandlerGoesOn, TimerCompletes, FollowReadiness,
                BeginCountdown, CancelCountdown, HandlerEnds
  <2> QED
    BY <2>1, <2>2
<1>7. ASSUME LoseMember
      PROVE  StopOrder'
  BY <1>7 DEF LoseMember
<1>3. ASSUME LoopStops
      PROVE  StopOrder'
  BY <1>3, CallStopAt DEF LoopStops, Threads
<1>4. ASSUME SignalStops
      PROVE  StopOrder'
  BY <1>4, CallStopAt DEF SignalStops, Threads
<1>5. ASSUME UNCHANGED vars
      PROVE  StopOrder'
  BY <1>5 DEF vars
<1> QED
  BY <1>1, <1>2, <1>3, <1>4, <1>5, <1>6, <1>7, OrderMain, OrderStop
  DEF Next, EventsThread, SignalThread, Over, Threads

\* stop() closes the lobby outside of any preparation and when the io_context
\* is stopped: a handler that is running then is overtaken and no other begins;
\* and stop() is done after that, whichever threads call it and when.
THEOREM OrderCorrect == Spec => []StopOrder
<1>1. TypeOK /\ StopOrder /\ [Next]_vars => (TypeOK /\ StopOrder)'
  BY TypeStep, OrderStep
<1> QED
  BY TypeInit, OrderInit, <1>1, PTL DEF Spec

-----------------------------------------------------------------------------
(* The safety properties.                                                  *)

\* When start() returns, a stop has been carried out to its last line, the
\* events loop's thread has ended, and the lobby is closed unless a handler was
\* running when it was.
THEOREM FinishedCorrect == Spec => []FinishedWhenStopped
<1>1. TypeOK /\ StopOrder => FinishedWhenStopped
  <2> SUFFICES ASSUME StopOrder, main = "finished"
               PROVE  /\ stopDone /\ events = "ended"
                      /\ overtaken \/ lobby = "Closed"
    BY DEF FinishedWhenStopped
  <2>1. stopDone = TRUE /\ events = "ended"
    BY DEF StopOrder, DoneWhenClosed
  <2>2. lobby = "Closed" \/ overtaken = TRUE
    BY <2>1 DEF StopOrder, DoneWhenClosed
  <2> QED
    BY <2>1, <2>2
<1> QED
  BY <1>1, TypeCorrect, OrderCorrect, PTL

\* What each step may do to a closed lobby, and to one the main thread holds.
ClosingStep ==
  /\ lobby = "Closed" /\ handler = "none" => lobby' = "Closed"
  /\ lobby # "Closed" /\ lobby' = "Closed" =>
       main \notin {"configure", "begin", "play"}

\* A step of stop() closes the lobby only when nobody holds it.
LEMMA ClosingByStop ==
  ASSUME StopOrder, NEW t \in Threads, Stop(t)
  PROVE  ClosingStep
<1> USE DEF ClosingStep, lobbyVars
<1>1. CASE ~locked
  <2>1. main \notin {"configure", "begin", "play"}
    BY <1>1, Zenon DEF StopOrder, LobbyHeld
  <2>2. lobby' = lobby \/ lobby' = "Closed"
    BY DEF Stop, SetState, StopServer, RequestClosure, StopSession,
           ReadReason, CloseLobby, ThrowInClose, ClosesLobby, StopDone
  <2> QED
    BY <2>1, <2>2
<1>2. CASE locked
  <2>1. lobby' = lobby
    BY <1>2, Zenon DEF Stop, SetState, StopServer, RequestClosure, StopSession,
           ReadReason, CloseLobby, ThrowInClose, ClosesLobby, StopDone,
           LobbyFree
  <2> QED
    BY <2>1
<1> QED
  BY <1>1, <1>2

\* The main thread does not reopen a closed lobby.
LEMMA ClosingInMain ==
  ASSUME StopOrder, MainThread
  PROVE  ClosingStep
<1> USE DEF ClosingStep, lobbyVars
<1>1. ASSUME Stop("main")
      PROVE  ClosingStep
  BY <1>1, ClosingByStop DEF Threads
<1>2. ASSUME IsRunning \/ Watch \/ Build \/ Prepare \/ Begin \/ ResetSession
               \/ WaitStop \/ Join
      PROVE  lobby' = lobby
  BY <1>2 DEF IsRunning, Watch, Build, Prepare, Begin, ResetSession, WaitStop,
              Join
<1>3. ASSUME Open \/ BuildingFailed
      PROVE  ClosingStep
  BY <1>3 DEF Open, OpenIdleLobby, BuildingFailed
<1>4. ASSUME Configure \/ SessionEnds
      PROVE  ClosingStep
  <2>1. lobby # "Closed"
    BY <1>4 DEF Configure, SessionEnds, StopOrder, LobbyHeld
  <2>2. lobby' \in {lobby, "Idle"}
    BY <1>4 DEF Configure, SessionEnds, PreparationEnds
  <2> QED
    BY <2>1, <2>2
<1> QED
  BY <1>1, <1>2, <1>3, <1>4 DEF MainThread

\* Neither does a handler that begins: none does once the lobby is closed.
LEMMA ClosingNext == StopOrder /\ [Next]_vars => ClosingStep
<1> SUFFICES ASSUME StopOrder, [Next]_vars
             PROVE  ClosingStep
  OBVIOUS
<1>1. ASSUME LoopEnds \/ LoopStops \/ SignalStops \/ UNCHANGED vars
      PROVE  ClosingStep
  BY <1>1 DEF LoopEnds, LoopStops, SignalStops, vars, lobbyVars, loopVars,
              ClosingStep
<1>2. ASSUME HandlerBegins
      PROVE  ClosingStep
  BY <1>2 DEF HandlerBegins, ClosingStep
<1>3. ASSUME HandlerGoesOn
      PROVE  ClosingStep
  BY <1>3 DEF HandlerGoesOn, TimerCompletes, FollowReadiness, BeginCountdown,
              CancelCountdown, HandlerEnds, lobbyVars, ClosingStep
<1>4. ASSUME LoseMember
      PROVE  ClosingStep
  BY <1>4 DEF LoseMember, ClosingStep
<1> QED
  BY <1>1, <1>2, <1>3, <1>4, ClosingInMain, ClosingByStop
  DEF Next, EventsThread, SignalThread, Over, Threads

\* A lobby closed while no handler was running, or whose last handler has left
\* it closed, is never opened nor prepared again, whatever timers and
\* preparations were going on.
THEOREM ClosedForGoodCorrect == Spec => ClosedForGood
<1>1. StopOrder /\ [Next]_vars =>
        [lobby = "Closed" /\ handler = "none" => lobby' = "Closed"]_vars
  BY ClosingNext DEF ClosingStep
<1> QED
  BY <1>1, OrderCorrect, PTL DEF Spec, ClosedForGood

\* The lobby is not closed under a main thread that prepares or plays a session
\* with its members.
THEOREM ClosedOutCorrect == Spec => ClosedOutOfPreparation
<1>1. StopOrder /\ [Next]_vars =>
        [ lobby # "Closed" /\ lobby' = "Closed" =>
            main \notin {"configure", "begin", "play"} ]_vars
  BY ClosingNext DEF ClosingStep
<1> QED
  BY <1>1, OrderCorrect, PTL DEF Spec, ClosedOutOfPreparation
=============================================================================
