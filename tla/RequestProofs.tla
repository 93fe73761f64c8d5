--------------------------- MODULE RequestProofs ---------------------------
(***************************************************************************)
(* Proofs about Request: its type invariant, the safety invariants checked *)
(* by MCRequest and the inductive invariant they follow from, for any set  *)
(* of players and any number of requests.                                  *)
(***************************************************************************)
EXTENDS RequestContract, SessionBroadcastProofs

-----------------------------------------------------------------------------
(* Type correctness, together with the fact that the leader, if there is    *)
(* one, is a player: what a broadcast needs of the session it starts from. *)

TypeInv == TypeOK /\ leader \in players \cup {NoLeader}

\* A broadcast of the session thread loses players and keeps the leader among
\* those left, whatever way it ends.
LEMMA BroadcastFacts ==
  ASSUME TypeOK, NEW to, NEW boss \in players \cup {NoLeader}, NEW next,
         Broadcast(to, boss, next)
  PROVE  /\ players' \subseteq players
         /\ leader' \in players' \cup {NoLeader}
         /\ \/ pc' = next /\ result' = result
            \/ pc' = "ended" /\ result' \in BroadcastResults
         /\ UNCHANGED <<alive, dead, serverVars>>
<1>1. PICK o \in BroadcastOutcomes(players, to, boss, dead) :
        /\ players' = o.players
        /\ leader' = o.leader
        /\ IF o.result = "sent" THEN pc' = next /\ UNCHANGED result
                                ELSE pc' = "ended" /\ result' = o.result
        /\ UNCHANGED <<alive, dead, serverVars>>
  BY Zenon DEF Broadcast
<1>2. Regular(o, players)
  <2>1. players \subseteq Nat
    BY PlayersAssumption DEF TypeOK
  <2> QED
    BY <2>1, OutcomeFacts, Zenon
<1> QED
  BY <1>1, <1>2 DEF Regular

\* The session Session::begin leaves has the right types.
LEMMA TypeInit == Init => TypeInv
<1> SUFFICES ASSUME Init
             PROVE  TypeInv
  OBVIOUS
<1>1. FirstOf(Players) \in Players
  BY PlayersAssumption, FirstOfIsMember
<1>2. leader \in players \cup {NoLeader}
  BY <1>1 DEF Init
<1>3. handler \in [Players -> HandlerStates]
  BY DEF Init, HandlerStates
<1>4. requests \in 0 .. MaxRequests /\ handled \in Nat
  <2>1. requests = 0
    BY DEF Init
  <2>2. 0 \in 0 .. MaxRequests
    BY MaxRequestsAssumption
  <2>3. handled = 0
    BY DEF Init
  <2> QED
    BY <2>1, <2>2, <2>3
<1> QED
  BY <1>2, <1>3, <1>4 DEF Init, TypeInv, TypeOK, Places

\* Every step keeps the types and the leader among the players.
LEMMA TypeStep == TypeInv /\ [Next]_vars => TypeInv'
<1> SUFFICES ASSUME TypeInv, [Next]_vars
             PROVE  TypeInv'
  OBVIOUS
<1> USE DEF TypeInv, vars, sessionVars, serverVars, callVars, ctxVars
<1>1. ASSUME SessionThread
      PROVE  TypeInv'
  <2>1. ASSUME NEW p \in Players, LaunchTarget(p)
        PROVE  TypeInv'
    BY <2>1 DEF LaunchTarget, TypeOK, HandlerStates
  <2>2. ASSUME NEW p \in Players, LaunchOther(p)
        PROVE  TypeInv'
    BY <2>2 DEF LaunchOther, TypeOK, Places
  <2>3. ASSUME NEW p \in Players, AnnounceCrash(p)
        PROVE  TypeInv'
    BY <2>3, BroadcastFacts DEF AnnounceCrash, TypeOK, Places
  <2>4. ASSUME Launched
        PROVE  TypeInv'
    BY <2>4 DEF Launched, TypeOK, Places
  <2>5. ASSUME Close
        PROVE  TypeInv'
    BY <2>5 DEF Close, TypeOK, Places
  <2>6. ASSUME Finish
        PROVE  TypeInv'
    <3>1. PICK unreached \in SUBSET ((dead \cap players) \ errors) :
            LET lost == errors \cup unreached
                left == players \ lost
            IN  /\ errors' = lost
                /\ toAnnounce' = lost
                /\ players' = left
                /\ \/ /\ leader' = NoLeader
                      /\ pc' = "ended" /\ result' = "nobody"
                   \/ /\ leader' = leader /\ leader = NoLeader
                      /\ pc' = "ended" /\ result' = "uninitialized"
                   \/ /\ left # {} /\ leader # NoLeader
                      /\ pc' \in {"switch", "announce"}
                      /\ leader' = LeaderAfter(players, lost, leader)
                      /\ result' = result
      BY <2>6 DEF Finish
    <3>2. leader' \in players' \cup {NoLeader}
      <4>1. players \subseteq Nat
        BY PlayersAssumption DEF TypeOK
      <4>2. ASSUME NEW lost, players \ lost # {}, leader # NoLeader
            PROVE  LeaderAfter(players, lost, leader) \in players \ lost
        BY <4>1, <4>2, LeaderAfterIsLeft
      <4> QED
        BY <3>1, <4>2
    <3>3. UNCHANGED <<alive, dead, running, loopUp, first, waitAll, targets,
                      toSend, handler, replies, handled, dangling, requests>>
      BY <2>6 DEF Finish
    <3> QED
      BY <3>1, <3>2, <3>3 DEF TypeOK, Places, BroadcastResults
  <2>7. ASSUME AnnounceLeader
        PROVE  TypeInv'
    BY <2>7, BroadcastFacts DEF AnnounceLeader, TypeOK, Places
  <2>8. ASSUME Return
        PROVE  TypeInv'
    BY <2>8 DEF Return, TypeOK, Places
  <2> QED
    BY <1>1, <2>1, <2>2, <2>3, <2>4, <2>5, <2>6, <2>7, <2>8
    DEF SessionThread
<1>2. ASSUME Script
      PROVE  TypeInv'
  <2>1. ASSUME NEW to \in SUBSET players, ScriptSend(to)
        PROVE  TypeInv'
    BY <2>1, BroadcastFacts DEF ScriptSend, TypeOK, Places
  <2>2. ASSUME NEW p \in Players, SwitchLeader(p)
        PROVE  TypeInv'
    <3>1. p \in players \cup {NoLeader} /\ Broadcast(players, p, "script")
      BY <2>2 DEF SwitchLeader
    <3> QED
      BY <2>2, <3>1, BroadcastFacts DEF SwitchLeader, TypeOK, Places
  <2>3. ASSUME NEW p \in Players, Kill(p)
        PROVE  TypeInv'
    BY <2>3 DEF Kill, TypeOK
  <2>4. ASSUME NEW to \in Players \cup {All, Active}, NEW f \in BOOLEAN,
               NEW w \in BOOLEAN, BeginRequest(to, f, w)
        PROVE  TypeInv'
    <3>1. targets' \subseteq players
      BY <2>4 DEF BeginRequest, TargetsOf
    <3>2. requests' \in 0 .. MaxRequests
      BY <2>4, MaxRequestsAssumption DEF BeginRequest, TypeOK
    <3>3. handler' \in [Players -> HandlerStates]
      BY <2>4 DEF BeginRequest, HandlerStates
    <3> QED
      BY <2>4, <3>1, <3>2, <3>3 DEF BeginRequest, TypeOK, Places
  <2>5. ASSUME ScriptStops
        PROVE  TypeInv'
    BY <2>5 DEF ScriptStops, TypeOK
  <2> QED
    BY <1>2, <2>1, <2>2, <2>3, <2>4, <2>5 DEF Script, TypeOK
<1>3. ASSUME EventsLoop
      PROVE  TypeInv'
  <2>1. ASSUME NEW p \in Players, QuestionSent(p)
        PROVE  TypeInv'
    BY <2>1 DEF QuestionSent, LoopUnchanged, TypeOK, HandlerStates
  <2>2. ASSUME NEW p \in Players, ConnectionFails(p)
        PROVE  TypeInv'
    BY <2>2
    DEF ConnectionFails, FailHandler, LoopUnchanged, TypeOK, HandlerStates
  <2>3. ASSUME NEW p \in Players, ReplyReceived(p)
        PROVE  TypeInv'
    BY <2>3 DEF ReplyReceived, LoopUnchanged, TypeOK, HandlerStates
  <2>4. ASSUME NEW p \in Players, InvalidReplyReceived(p)
        PROVE  TypeInv'
    BY <2>4 DEF InvalidReplyReceived, TypeOK
  <2>5. ASSUME NEW p \in Players, CanceledCompletion(p)
        PROVE  TypeInv'
    BY <2>5 DEF CanceledCompletion, LoopUnchanged, TypeOK, HandlerStates
  <2>6. ASSUME NEW p \in Players, RacyLookup(p)
        PROVE  TypeInv'
    BY <2>6 DEF RacyLookup, LoopUnchanged, TypeOK, Places
  <2>7. ASSUME DanglingCompletion
        PROVE  TypeInv'
    BY <2>7
    DEF DanglingCompletion, LoopUnchanged, TypeOK, Places, HandlerStates
  <2> QED
    BY <1>3, <2>1, <2>2, <2>3, <2>4, <2>5, <2>6, <2>7 DEF EventsLoop
<1>4. ASSUME Environment
      PROVE  TypeInv'
  BY <1>4 DEF Environment, StopLoop, StopSession, Drop, TypeOK
<1>5. ASSUME Over \/ UNCHANGED vars
      PROVE  TypeInv'
  BY <1>5 DEF Over, TypeOK
<1> QED
  BY <1>1, <1>2, <1>3, <1>4, <1>5 DEF Next

\* Every variable keeps its type, for any players and any number of requests.
THEOREM TypeCorrect == Spec => []TypeOK
<1>1. Spec => []TypeInv
  BY TypeInit, TypeStep, PTL DEF Spec
<1>2. TypeInv => TypeOK
  BY DEF TypeInv
<1> QED
  BY <1>1, <1>2, PTL
-----------------------------------------------------------------------------
(* The inductive invariant.  The safety invariants speak of the counter and *)
(* the replies of one request, and of what it leaves when it is closed: the *)
(* strengthening says that only targets are asked, and that a closed        *)
(* request that waited for all of its targets and was not stopped has       *)
(* handled each of them.                                                    *)

OnlyTargetsAsked ==
  InRequest => \A p \in Players \ targets : handler[p] = "none"

AllHandledWhenClosed ==
  requestDone /\ running /\ (~first \/ waitAll) => Handled = targets

LostAreGone == pc \in {"switch", "announce"} => players \cap errors = {}

NotYetAsked == pc = "launch" => \A p \in toSend : handler[p] = "none"

\* What the completions keep true of the current request's context.
CtxInv == OnlyTargetsAsked /\ HandledIsFinished /\ RepliesAccounted

IInv ==
  /\ TypeInv
  /\ CtxInv
  /\ NotYetAsked
  /\ AllHandledWhenClosed
  /\ LostAreGone

\* The sets the code counts are finite.
LEMMA FiniteSubsetsOfPlayers ==
  ASSUME NEW S, S \subseteq Players
  PROVE  IsFiniteSet(S) /\ Cardinality(S) \in Nat
  BY PlayersAssumption, FS_Subset, FS_CardinalityType

\* A step that leaves the call and its context alone and begins no request.
LEMMA QuietStep ==
  ASSUME CtxInv, UNCHANGED <<callVars, ctxVars>>, InRequest' => InRequest
  PROVE  CtxInv'
  BY DEF CtxInv, OnlyTargetsAsked, HandledIsFinished, RepliesAccounted,
         Handled, toAccept, callVars, ctxVars

\* A completion that handles its target: it is counted once, and what it adds
\* to the replies and to the errors accounts for it.
LEMMA HandledStep ==
  ASSUME TypeOK, CtxInv, InRequest, NEW p \in Players,
         handler[p] \in {"sending", "listening"},
         handler' = [handler EXCEPT ![p] = "handled"],
         handled' = handled + 1,
         UNCHANGED <<callVars, pc>>,
         errors \subseteq errors',
         \/ replies' = replies \cup {p} /\ Cardinality(replies) < toAccept
         \/ replies' = replies /\ p \in errors'
         \/ replies' = replies /\ Cardinality(replies) >= toAccept
  PROVE  CtxInv'
<1> USE DEF CtxInv, callVars
<1>1. p \in targets
  BY DEF OnlyTargetsAsked
<1>2. handler' \in [Players -> HandlerStates] /\ targets \subseteq Players
  BY DEF TypeOK, HandlerStates
<1>3. OnlyTargetsAsked'
  BY <1>1 DEF OnlyTargetsAsked, TypeOK
<1>4. HandledIsFinished'
  <2>1. Handled' = Handled \cup {p} /\ p \notin Handled
    BY <1>1, <1>2 DEF Handled, TypeOK
  <2>2. IsFiniteSet(Handled)
    BY FiniteSubsetsOfPlayers DEF Handled, TypeOK
  <2>3. Cardinality(Handled') = Cardinality(Handled) + 1
    BY <2>1, <2>2, FS_AddElement
  <2> QED
    BY <2>3 DEF HandledIsFinished
<1>5. Cardinality(replies) =< toAccept /\ toAccept' = toAccept
  BY DEF RepliesAccounted, toAccept
<1>6. toAccept \in Nat /\ Cardinality(replies) \in Nat
  BY <1>2, FiniteSubsetsOfPlayers DEF toAccept, TypeOK
<1>7. RepliesAccounted'
  <2>1. CASE replies' = replies
    BY <2>1, <1>2, <1>5, <1>6 DEF RepliesAccounted, TypeOK
  <2>2. CASE replies' = replies \cup {p} /\ Cardinality(replies) < toAccept
    <3>1. p \notin replies
      BY DEF RepliesAccounted
    <3>2. Cardinality(replies') = Cardinality(replies) + 1
      BY <2>2, <3>1, FiniteSubsetsOfPlayers, FS_AddElement DEF TypeOK
    <3>3. \A q \in targets : handler'[q] = "handled" =>
            q \in replies' \cup errors' \/ Cardinality(replies') = toAccept
      <4>1. Cardinality(replies) # toAccept
        BY <2>2, <1>6
      <4> QED
        BY <4>1, <2>2, <1>2 DEF RepliesAccounted, TypeOK
    <3>4. \A q \in replies' : handler'[q] = "handled"
      BY <2>2, <1>2 DEF RepliesAccounted, TypeOK
    <3>5. Cardinality(replies') =< toAccept
      BY <2>2, <3>2, <1>6
    <3> QED
      BY <3>3, <3>4, <3>5, <1>5 DEF RepliesAccounted
  <2> QED
    BY <2>1, <2>2
<1> QED
  BY <1>3, <1>4, <1>7

\* A step that moves one target's operation on without handling it.
LEMMA MovedStep ==
  ASSUME TypeOK, CtxInv, NEW p \in targets, handler[p] # "handled",
         NEW s \in {"sending", "listening", "canceled"},
         handler' = [handler EXCEPT ![p] = s],
         UNCHANGED <<callVars, pc, replies, handled, errors>>
  PROVE  CtxInv'
<1> USE DEF CtxInv, callVars
<1>1. \A q \in Players : (handler'[q] = "handled") = (handler[q] = "handled")
  BY DEF TypeOK
<1>2. Handled' = Handled
  BY <1>1 DEF Handled, TypeOK
<1>3. InRequest' = InRequest /\ toAccept' = toAccept
  BY DEF InRequest, toAccept
<1>4. OnlyTargetsAsked'
  BY <1>3 DEF OnlyTargetsAsked, TypeOK
<1>5. RepliesAccounted'
  BY <1>1, <1>3 DEF RepliesAccounted, TypeOK
<1> QED
  BY <1>2, <1>3, <1>4, <1>5 DEF HandledIsFinished

\* Nothing is said of the context when no request is in progress.
LEMMA CtxOutsideRequest == ~InRequest => CtxInv
  BY DEF CtxInv, OnlyTargetsAsked, HandledIsFinished, RepliesAccounted

\* The steps of request() keep what is true of its context ...
LEMMA CtxSessionThread ==
  ASSUME TypeInv, CtxInv, NotYetAsked, SessionThread
  PROVE  CtxInv'
<1> USE DEF callVars, ctxVars, InRequest
<1>0. TypeOK
  BY DEF TypeInv
<1>1. ASSUME NEW p \in Players, LaunchTarget(p)
      PROVE  CtxInv'
  <2>1. p \in toSend
    BY <1>0, <1>1, FirstOfIsMember, PlayersAssumption DEF LaunchTarget, TypeOK
  <2>2. p \in targets /\ handler[p] # "handled"
    BY <1>1, <2>1 DEF LaunchTarget, NotYetAsked
  <2> QED
    BY <1>0, <1>1, <2>2, MovedStep DEF LaunchTarget
<1>2. ASSUME NEW p \in Players, LaunchOther(p)
      PROVE  CtxInv'
  BY <1>2, QuietStep DEF LaunchOther
<1>3. ASSUME NEW p \in Players, AnnounceCrash(p)
      PROVE  CtxInv'
  BY <1>3, QuietStep DEF AnnounceCrash
<1>4. ASSUME Launched
      PROVE  CtxInv'
  BY <1>4, QuietStep DEF Launched
<1>5. ASSUME Close
      PROVE  CtxInv'
  BY <1>5, QuietStep DEF Close
<1>6. ASSUME Finish
      PROVE  CtxInv'
  <2>1. errors \subseteq errors' /\ InRequest
    BY <1>6 DEF Finish
  <2>2. UNCHANGED <<callVars, handler, replies, handled>>
    BY <1>6 DEF Finish
  <2> QED
    BY <2>1, <2>2
    DEF CtxInv, OnlyTargetsAsked, HandledIsFinished, RepliesAccounted,
        Handled, toAccept
<1>7. ASSUME AnnounceLeader
      PROVE  CtxInv'
  BY <1>7, QuietStep DEF AnnounceLeader
<1>8. ASSUME Return
      PROVE  CtxInv'
  BY <1>8, QuietStep DEF Return
<1> QED
  BY <1>1, <1>2, <1>3, <1>4, <1>5, <1>6, <1>7, <1>8 DEF SessionThread

\* ... so does the script, a new request beginning with an empty context ...
LEMMA CtxScript ==
  ASSUME TypeInv, CtxInv, Script
  PROVE  CtxInv'
<1> USE DEF callVars, ctxVars, InRequest
<1>0. TypeOK
  BY DEF TypeInv
<1>1. ASSUME NEW to \in SUBSET players, ScriptSend(to)
      PROVE  CtxInv'
  BY <1>0, <1>1, BroadcastFacts, QuietStep DEF TypeInv, ScriptSend
<1>2. ASSUME NEW p \in Players, SwitchLeader(p)
      PROVE  CtxInv'
  <2>1. p \in players \cup {NoLeader} /\ Broadcast(players, p, "script")
    BY <1>2 DEF SwitchLeader
  <2> QED
    BY <1>0, <1>2, <2>1, BroadcastFacts, QuietStep DEF SwitchLeader
<1>3. ASSUME NEW p \in Players, Kill(p)
      PROVE  CtxInv'
  BY <1>3, QuietStep DEF Kill
<1>4. ASSUME NEW to, NEW f \in BOOLEAN, NEW w \in BOOLEAN,
             BeginRequest(to, f, w)
      PROVE  CtxInv'
  <2>1. /\ handler' = [p \in Players |-> "none"]
        /\ replies' = {} /\ handled' = 0
        /\ targets' \subseteq players
    BY <1>4 DEF BeginRequest, TargetsOf
  <2>2. players \subseteq Players
    BY <1>0 DEF TypeOK
  <2>3. Handled' = {}
    BY <2>1, <2>2 DEF Handled
  <2>4. toAccept' \in Nat
    BY <2>1, <2>2, FiniteSubsetsOfPlayers DEF toAccept
  <2>5. Cardinality({}) = 0
    BY FS_EmptySet
  <2>6. RepliesAccounted'
    BY <2>1, <2>2, <2>4, <2>5 DEF RepliesAccounted
  <2> QED
    BY <2>1, <2>3, <2>5, <2>6
    DEF CtxInv, OnlyTargetsAsked, HandledIsFinished
<1>5. ASSUME ScriptStops
      PROVE  CtxInv'
  BY <1>5, QuietStep DEF ScriptStops
<1> QED
  BY <1>1, <1>2, <1>3, <1>4, <1>5 DEF Script

\* ... and so does each completion of the events loop.
LEMMA CtxEventsLoop ==
  ASSUME TypeInv, CtxInv, EventsLoop
  PROVE  CtxInv'
<1> USE DEF callVars, ctxVars, InRequest, LoopUnchanged
<1>0. TypeOK
  BY DEF TypeInv
<1>1. ASSUME NEW p \in Players, QuestionSent(p)
      PROVE  CtxInv'
  <2>1. p \in targets
    BY <1>1 DEF QuestionSent, CtxInv, OnlyTargetsAsked
  <2> QED
    BY <1>0, <1>1, <2>1, MovedStep DEF QuestionSent
<1>2. ASSUME NEW p \in Players, ConnectionFails(p)
      PROVE  CtxInv'
  BY <1>0, <1>2, HandledStep DEF ConnectionFails, FailHandler
<1>3. ASSUME NEW p \in Players, ReplyReceived(p)
      PROVE  CtxInv'
  BY <1>0, <1>3, HandledStep DEF ReplyReceived
<1>4. ASSUME NEW p \in Players, InvalidReplyReceived(p)
      PROVE  CtxInv'
  BY <1>4, QuietStep DEF InvalidReplyReceived, vars
<1>5. ASSUME NEW p \in Players, CanceledCompletion(p)
      PROVE  CtxInv'
  BY <1>0, <1>5, MovedStep DEF CanceledCompletion, Pending
<1>6. ASSUME NEW p \in Players, RacyLookup(p)
      PROVE  CtxInv'
  BY <1>6, CtxOutsideRequest, QuietStep DEF RacyLookup
<1>7. ASSUME DanglingCompletion
      PROVE  CtxInv'
  <2>1. CASE InRequest
    BY <1>7, <2>1, QuietStep DEF DanglingCompletion
  <2>2. CASE ~InRequest
    <3>1. ~InRequest'
      BY <1>7, <2>2 DEF DanglingCompletion
    <3> QED
      BY <3>1
      DEF CtxInv, OnlyTargetsAsked, HandledIsFinished, RepliesAccounted
  <2> QED
    BY <2>1, <2>2
<1> QED
  BY <1>1, <1>2, <1>3, <1>4, <1>5, <1>6, <1>7 DEF EventsLoop

\* Whatever the step, the context stays consistent.
LEMMA CtxStep == TypeInv /\ CtxInv /\ NotYetAsked /\ [Next]_vars => CtxInv'
<1> SUFFICES ASSUME TypeInv, CtxInv, NotYetAsked, [Next]_vars
             PROVE  CtxInv'
  OBVIOUS
<1> USE DEF vars, sessionVars, serverVars, callVars, ctxVars
<1>1. ASSUME Environment
      PROVE  CtxInv'
  BY <1>1, QuietStep
  DEF Environment, StopLoop, StopSession, Drop, InRequest
<1>2. ASSUME Over \/ UNCHANGED vars
      PROVE  CtxInv'
  BY <1>2, QuietStep DEF Over, InRequest
<1> QED
  BY <1>1, <1>2, CtxSessionThread, CtxScript, CtxEventsLoop DEF Next

\* A player the launching loop has not reached has no pending operation.
LEMMA NotYetAskedStep ==
  TypeInv /\ NotYetAsked /\ [Next]_vars => NotYetAsked'
<1> SUFFICES ASSUME TypeInv, NotYetAsked, [Next]_vars, pc' = "launch",
                    NEW q \in toSend'
             PROVE  handler'[q] = "none"
  BY DEF NotYetAsked
<1> USE DEF vars, sessionVars, serverVars, callVars, ctxVars, LoopUnchanged,
            InRequest, NotYetAsked
<1>0. TypeOK
  BY DEF TypeInv
<1>1. CASE SessionThread
  <2>1. ASSUME NEW p \in Players, LaunchTarget(p)
        PROVE  handler'[q] = "none"
    BY <1>0, <2>1 DEF LaunchTarget, TypeOK
  <2>2. ASSUME NEW p \in Players, LaunchOther(p)
        PROVE  handler'[q] = "none"
    BY <2>2 DEF LaunchOther
  <2> QED
    BY <1>1, <2>1, <2>2
    DEF SessionThread, AnnounceCrash, Launched, Close, Finish, AnnounceLeader,
        Return, Broadcast
<1>2. CASE Script
  <2>1. ASSUME NEW to, NEW f, NEW w, BeginRequest(to, f, w)
        PROVE  handler'[q] = "none"
    BY <1>0, <2>1 DEF BeginRequest, TypeOK
  <2> QED
    BY <1>2, <2>1 DEF Script, ScriptSend, SwitchLeader, Kill, ScriptStops,
        Broadcast
<1>3. CASE EventsLoop
  <2>1. ASSUME NEW p \in Players, QuestionSent(p) \/ ConnectionFails(p)
        PROVE  handler'[q] = "none"
    BY <1>0, <2>1 DEF QuestionSent, ConnectionFails, FailHandler, TypeOK
  <2>2. ASSUME NEW p \in Players, ReplyReceived(p)
        PROVE  handler'[q] = "none"
    BY <1>0, <2>2 DEF ReplyReceived, TypeOK
  <2>3. ASSUME NEW p \in Players,
               \/ InvalidReplyReceived(p)
               \/ CanceledCompletion(p)
               \/ RacyLookup(p)
        PROVE  handler'[q] = "none"
    BY <2>3
    DEF InvalidReplyReceived, CanceledCompletion, RacyLookup, requestDone
  <2>4. ASSUME DanglingCompletion
        PROVE  handler'[q] = "none"
    BY <2>4 DEF DanglingCompletion
  <2> QED
    BY <1>3, <2>1, <2>2, <2>3, <2>4 DEF EventsLoop
<1>4. CASE Environment
  BY <1>4 DEF Environment, StopLoop, StopSession, Drop
<1>5. CASE Over \/ UNCHANGED vars
  BY <1>5 DEF Over
<1> QED
  BY <1>1, <1>2, <1>3, <1>4, <1>5 DEF Next

\* The players a request lost stay gone while their crash is announced.
LEMMA LostAreGoneStep == TypeInv /\ LostAreGone /\ [Next]_vars => LostAreGone'
<1> SUFFICES ASSUME TypeInv, LostAreGone, [Next]_vars,
                    pc' \in {"switch", "announce"}
             PROVE  players' \cap errors' = {}
  BY DEF LostAreGone
<1> USE DEF vars, sessionVars, serverVars, callVars, ctxVars, LoopUnchanged,
            LostAreGone
<1>0. TypeOK
  BY DEF TypeInv
<1>1. CASE SessionThread
  <2>1. ASSUME NEW p \in Players, AnnounceCrash(p)
        PROVE  players' \cap errors' = {}
    BY <1>0, <2>1, BroadcastFacts DEF AnnounceCrash, TypeInv
  <2>2. ASSUME AnnounceLeader
        PROVE  players' \cap errors' = {}
    BY <1>0, <2>2, BroadcastFacts DEF AnnounceLeader, TypeInv
  <2>3. ASSUME Finish
        PROVE  players' \cap errors' = {}
    BY <2>3 DEF Finish
  <2> QED
    BY <1>1, <2>1, <2>2, <2>3
    DEF SessionThread, LaunchTarget, LaunchOther, Launched, Close, Return
<1>2. CASE Script
  BY <1>2
  DEF Script, ScriptSend, SwitchLeader, Kill, ScriptStops, BeginRequest,
      Broadcast
<1>3. CASE EventsLoop
  <2>1. UNCHANGED players /\ (pc' = pc)
    BY <1>3
    DEF EventsLoop, QuestionSent, ConnectionFails, ReplyReceived,
        InvalidReplyReceived, CanceledCompletion, RacyLookup,
        DanglingCompletion
  <2>2. UNCHANGED errors
    BY <1>3, <2>1
    DEF EventsLoop, QuestionSent, ConnectionFails, ReplyReceived,
        InvalidReplyReceived, CanceledCompletion, RacyLookup,
        DanglingCompletion, requestDone
  <2> QED
    BY <2>1, <2>2
<1>4. CASE Environment
  BY <1>4 DEF Environment, StopLoop, StopSession, Drop
<1>5. CASE Over \/ UNCHANGED vars
  BY <1>5 DEF Over
<1> QED
  BY <1>1, <1>2, <1>3, <1>4, <1>5 DEF Next

\* A request that waits for all closes when all are handled, by the counter,
\* and no completion takes a handled target back.
LEMMA AllHandledWhenClosedStep ==
  IInv /\ [Next]_vars => AllHandledWhenClosed'
<1> SUFFICES ASSUME IInv, [Next]_vars, requestDone', running',
                    (~first \/ waitAll)'
             PROVE  Handled' = targets'
  BY DEF AllHandledWhenClosed
<1> USE DEF vars, sessionVars, serverVars, callVars, ctxVars, LoopUnchanged,
            requestDone, AllHandledWhenClosed
<1>0. TypeOK
  BY DEF IInv, TypeInv
<1>1. ASSUME requestDone, running, UNCHANGED <<callVars, handler>>
      PROVE  Handled' = targets'
  BY <1>1 DEF IInv, Handled
<1>2. CASE SessionThread
  <2>1. ASSUME Close
        PROVE  Handled' = targets'
    <3>1. handled >= Cardinality(targets) /\ InRequest
      BY <2>1 DEF Close, toReceive, InRequest
    <3>2. Cardinality(Handled) = handled
      BY <3>1 DEF IInv, CtxInv, HandledIsFinished
    <3>3. IsFiniteSet(targets) /\ Handled \subseteq targets
      BY <1>0, FiniteSubsetsOfPlayers DEF TypeOK, Handled
    <3>4. Cardinality(Handled) =< Cardinality(targets)
      BY <3>3, FS_Subset
    <3>5. Cardinality(Handled) = Cardinality(targets)
      BY <3>1, <3>2, <3>3, <3>4, FS_CardinalityType, FS_Subset
    <3>6. Handled = targets
      BY <3>3, <3>5, FS_Subset
    <3> QED
      BY <2>1, <3>6 DEF Close, Handled
  <2>2. ASSUME ~Close
        PROVE  requestDone /\ UNCHANGED <<running, callVars, handler>>
    BY <1>2, <2>2
    DEF SessionThread, LaunchTarget, LaunchOther, AnnounceCrash, Launched,
        Finish, AnnounceLeader, Return, Broadcast
  <2> QED
    BY <2>1, <2>2, <1>1
<1>3. CASE Script
  BY <1>3
  DEF Script, ScriptSend, SwitchLeader, Kill, ScriptStops, BeginRequest,
      Broadcast
<1>4. CASE EventsLoop
  <2>1. requestDone /\ UNCHANGED <<running, callVars>>
    BY <1>4
    DEF EventsLoop, QuestionSent, ConnectionFails, ReplyReceived,
        InvalidReplyReceived, CanceledCompletion, RacyLookup,
        DanglingCompletion
  <2>2. Handled = targets
    BY <2>1 DEF IInv
  <2>3. Pending = {}
    BY <2>2 DEF Pending, Handled
  <2>4. UNCHANGED handler
    BY <1>4, <2>1, <2>3
    DEF EventsLoop, QuestionSent, ConnectionFails, ReplyReceived,
        InvalidReplyReceived, CanceledCompletion, RacyLookup,
        DanglingCompletion, InRequest
  <2> QED
    BY <1>1, <2>1, <2>4
<1>5. CASE Environment
  BY <1>0, <1>1, <1>5 DEF Environment, StopLoop, StopSession, Drop, TypeOK
<1>6. CASE Over \/ UNCHANGED vars
  BY <1>1, <1>6 DEF Over
<1> QED
  BY <1>2, <1>3, <1>4, <1>5, <1>6 DEF Next

\* The inductive invariant holds of a session that begins ...
LEMMA IInvInit == Init => IInv
<1> SUFFICES ASSUME Init
             PROVE  IInv
  OBVIOUS
<1>1. ~InRequest /\ ~requestDone /\ pc = "script" /\ running
  BY DEF Init, InRequest, requestDone
<1> QED
  BY <1>1, TypeInit, CtxOutsideRequest
  DEF IInv, NotYetAsked, AllHandledWhenClosed, LostAreGone

\* ... every step keeps it ...
LEMMA IInvStep == IInv /\ [Next]_vars => IInv'
  BY TypeStep, CtxStep, NotYetAskedStep, LostAreGoneStep,
     AllHandledWhenClosedStep
  DEF IInv

\* What the inductive invariant implies.
LEMMA IInvImplies ==
  IInv => /\ HandledIsFinished /\ RepliesAccounted
          /\ WaitedRepliesComplete /\ NothingOutlivesWait /\ LeaderConnected
<1> SUFFICES ASSUME IInv
             PROVE  /\ HandledIsFinished /\ RepliesAccounted
                    /\ WaitedRepliesComplete /\ NothingOutlivesWait
                    /\ LeaderConnected
  OBVIOUS
<1> USE DEF IInv, CtxInv
<1>0. TypeOK
  BY DEF TypeInv
<1>1. HandledIsFinished /\ RepliesAccounted
  OBVIOUS
<1>2. WaitedRepliesComplete
  <2> SUFFICES ASSUME Returning, ~first \/ waitAll
               PROVE  /\ ~first => targets \cap players \subseteq replies
                      /\ replies = {} => targets \cap players = {}
    BY DEF WaitedRepliesComplete
  <2>1. Handled = targets /\ players \cap errors = {} /\ InRequest
    BY DEF Returning, AllHandledWhenClosed, requestDone, LostAreGone, InRequest
  <2>2. \A p \in targets \cap players :
          p \in replies \/ Cardinality(replies) = toAccept
    BY <2>1 DEF RepliesAccounted, Handled
  <2>3. CASE Cardinality(replies) # toAccept
    BY <2>2, <2>3
  <2>4. CASE Cardinality(replies) = toAccept /\ first
    <3>1. replies # {}
      BY <2>4, FS_EmptySet DEF toAccept
    <3> QED
      BY <2>4, <3>1
  <2>5. CASE Cardinality(replies) = toAccept /\ ~first
    <3>1. replies \subseteq targets
      BY <1>0, <2>1 DEF RepliesAccounted, OnlyTargetsAsked, TypeOK
    <3>2. IsFiniteSet(targets)
      BY <1>0, FiniteSubsetsOfPlayers DEF TypeOK
    <3>3. replies = targets
      BY <2>5, <3>1, <3>2, FS_Subset DEF toAccept
    <3> QED
      BY <3>3
  <2> QED
    BY <2>3, <2>4, <2>5
<1>3. NothingOutlivesWait
  BY DEF NothingOutlivesWait, AllHandledWhenClosed, Handled,
         Pending
<1>4. LeaderConnected
  BY DEF LeaderConnected, TypeInv, LostAreGone
<1> QED
  BY <1>1, <1>2, <1>3, <1>4

\* ... so it always holds.
LEMMA InductiveInvariant == Spec => []IInv
  BY IInvInit, IInvStep, PTL DEF Spec

\* For any players and any number of requests: while a request is in progress
\* RequestCtx::repliesHandled counts every target that is finished with, once.
THEOREM HandledCountCorrect == Spec => []HandledIsFinished
  BY InductiveInvariant, IInvImplies, PTL

\* A request never keeps more replies than it accepts, each of a target that is
\* handled, and no handled target without a reply goes unexplained.
THEOREM RepliesCorrect == Spec => []RepliesAccounted
  BY InductiveInvariant, IInvImplies, PTL

\* What request() returns when it waited for all of its targets is complete:
\* every target still in the session replied or, if the call accepts only one
\* reply, one did.
THEOREM WaitedRepliesCorrect == Spec => []WaitedRepliesComplete
  BY InductiveInvariant, IInvImplies, PTL

\* A request that waits for all of its targets leaves no completion behind that
\* could run on the stack frame it has left, unless the session is stopped.
THEOREM NothingOutlivesWaitCorrect == Spec => []NothingOutlivesWait
  BY InductiveInvariant, IInvImplies, PTL

\* Whatever is lost, and whenever, the session's leader is one of its players
\* and the players a request lost are gone before their crash is announced.
THEOREM LeaderCorrect == Spec => []LeaderConnected
  BY InductiveInvariant, IInvImplies, PTL

-----------------------------------------------------------------------------
(* What a request does to the session is one of the outcomes the models of *)
(* its callers take as a single step.  The invariant relates the session   *)
(* to what the request found: nothing is removed before it is closed, then *)
(* only broken connections, and the leader is who follows from the losses. *)

InConversation == pc \in {"launch", "wait", "finish"}
CleaningUp == pc \in {"switch", "announce"}

\* Who leads the players left of a session that was led by l.
LeaderOf(left, l) == IF l \in left THEN l ELSE FirstOf(left)

\* The players "left" and their leader "boss" after the losses of a session
\* that had players P led by l.
Survive(P, l, left, boss, D) ==
  /\ l \in P /\ left \subseteq P /\ left # {} /\ P \ left \subseteq D
  /\ boss = LeaderOf(left, l)

FoundInv ==
  /\ found.players \subseteq Players
  /\ InConversation =>
       /\ players = found.players /\ leader = found.leader
       /\ targets \subseteq players
       /\ errors \subseteq players \cap dead
  /\ CleaningUp =>
       /\ Survive(found.players, found.leader, players, leader, dead)
       /\ toAnnounce \subseteq found.players \ players
       /\ pc = "switch" => players # found.players

\* The first player left does not change while it is not lost.
LEMMA FirstStays ==
  ASSUME NEW P, P \subseteq Nat, NEW Q, Q \subseteq P, FirstOf(P) \in Q
  PROVE  FirstOf(Q) = FirstOf(P)
<1>1. /\ FirstOf(P) \in P /\ \A y \in P : FirstOf(P) <= y
      /\ FirstOf(Q) \in Q /\ \A y \in Q : FirstOf(Q) <= y
  BY LeastOfNat DEF FirstOf
<1>2. FirstOf(P) <= FirstOf(Q) /\ FirstOf(Q) <= FirstOf(P)
  BY <1>1
<1>3. FirstOf(P) \in Nat /\ FirstOf(Q) \in Nat
  BY <1>1
<1> QED
  BY <1>2, <1>3

\* A leader replaced twice is the one who would be there had all the losses
\* come at once.
LEMMA LeaderOfTwice ==
  ASSUME NEW Q \in SUBSET Nat, NEW R \in SUBSET Q, R # {}, NEW l
  PROVE  LeaderOf(R, LeaderOf(Q, l)) = LeaderOf(R, l)
<1>1. CASE l \in Q
  BY <1>1 DEF LeaderOf
<1>2. CASE l \notin Q
  <2>1. LeaderOf(Q, l) = FirstOf(Q) /\ LeaderOf(R, l) = FirstOf(R)
    BY <1>2 DEF LeaderOf
  <2>2. FirstOf(Q) \in R => FirstOf(R) = FirstOf(Q)
    BY FirstStays
  <2> QED
    BY <2>1, <2>2 DEF LeaderOf
<1> QED
  BY <1>1, <1>2

\* disconnect() computes it from the players lost.
LEMMA LeaderOfLeft ==
  ASSUME NEW P, NEW lost, NEW l \in P
  PROVE  LeaderAfter(P, lost, l) = LeaderOf(P \ lost, l)
<1>1. l \in lost <=> l \notin P \ lost
  OBVIOUS
<1> QED
  BY <1>1 DEF LeaderAfter, LeaderOf

LEMMA LeaderOfIsLeft ==
  ASSUME NEW Q, Q \subseteq Nat, Q # {}, NEW l
  PROVE  LeaderOf(Q, l) \in Q
  BY FirstOfIsMember DEF LeaderOf

\* The ways for a request to end, by what is left of the session.
LEMMA RequestOutcome ==
  ASSUME NEW P, NEW l, NEW r, NEW D, NEW lost, lost \subseteq P,
         lost \subseteq D, NEW x \in RequestResults,
         RequestEndsWith(P, l, r, lost, x), NEW left, left = P \ lost,
         NEW boss,
         x \in {"sent", "canceled", "stale"} =>
           l \in P /\ boss = LeaderOf(left, l),
         x \notin {"sent", "canceled", "stale"} => boss = NoLeader
  PROVE  [players |-> left, leader |-> boss, result |-> x]
           \in RequestOutcomes(P, l, r, D)
<1> DEFINE end == [lost |-> lost, result |-> x]
<1>1. /\ end \in [lost : SUBSET (D \cap P), result : RequestResults]
      /\ end.lost = lost /\ end.result = x
  OBVIOUS
<1> HIDE DEF end
<1>2. boss = IF x \in {"sent", "canceled", "stale"}
             THEN LeaderAfter(P, lost, l) ELSE NoLeader
  BY LeaderOfLeft
<1> QED
  BY <1>1, <1>2 DEF RequestOutcomes

\* A broadcast of the clean-up, after some losses.
LEMMA BroadcastGoesOn ==
  ASSUME NEW P, P \subseteq Players, NEW l, NEW left, NEW boss, NEW D, NEW r,
         Survive(P, l, left, boss, D), left # P, NEW to,
         NEW o \in BroadcastOutcomes(left, to, boss, D)
  PROVE  /\ o.result = "sent" => /\ Survive(P, l, o.players, o.leader, D)
                                 /\ o.players \subseteq left
         /\ o.result # "sent" =>
              [players |-> o.players, leader |-> o.leader,
               result |-> o.result] \in RequestOutcomes(P, l, r, D)
<1>1. /\ P \subseteq Nat /\ NoLeader \notin Nat
      /\ l \in P /\ left \subseteq P /\ left # {} /\ P \ left \subseteq D
      /\ boss = LeaderOf(left, l)
  BY PlayersAssumption, NoLeaderAssumption DEF Survive
<1>2. boss \in left
  BY <1>1, LeaderOfIsLeft
<1>3. PICK lost \in SUBSET (D \cap left), x \in BroadcastResults :
        /\ EndsWith(left, to, boss, lost, x)
        /\ o = [ players |-> left \ lost,
                 leader  |-> IF x \in {"sent", "stale"}
                             THEN LeaderAfter(left, lost, boss) ELSE NoLeader,
                 result  |-> x ]
  BY Zenon DEF BroadcastOutcomes
<1>4. PICK rest : rest = left \ lost
  OBVIOUS
<1>5. PICK gone : gone = P \ rest
  OBVIOUS
<1>6. /\ rest \subseteq left /\ gone \subseteq D /\ gone \subseteq P
      /\ rest = P \ gone /\ boss # NoLeader /\ l # NoLeader
  BY <1>1, <1>2, <1>4, <1>5
<1>7. rest # {} => LeaderAfter(left, lost, boss) = LeaderOf(rest, l)
  <2>1. LeaderAfter(left, lost, boss) = LeaderOf(rest, boss)
    BY <1>2, <1>4, LeaderOfLeft
  <2>2. left \in SUBSET Nat
    BY <1>1
  <2>3. rest \in SUBSET left
    BY <1>6
  <2>4. ASSUME rest # {}
        PROVE  LeaderOf(rest, LeaderOf(left, l)) = LeaderOf(rest, l)
    BY <2>2, <2>3, <2>4, LeaderOfTwice, Zenon
  <2> QED
    BY <1>1, <2>1, <2>4
<1>8. /\ o.players = rest /\ o.result = x
      /\ rest # {} /\ x \in {"sent", "stale"} => o.leader = LeaderOf(rest, l)
      /\ x \notin {"sent", "stale"} => o.leader = NoLeader
  BY <1>3, <1>4, <1>7
<1>9. CASE x = "sent"
  <2>1. rest # {}
    BY <1>3, <1>4, <1>9 DEF EndsWith
  <2> QED
    BY <1>1, <1>5, <1>6, <1>8, <1>9, <2>1 DEF Survive
<1>10. CASE x = "nobody"
  <2>1. gone = P
    BY <1>3, <1>4, <1>5, <1>10 DEF EndsWith
  <2>2. RequestEndsWith(P, l, r, gone, x)
    BY <1>10, <2>1 DEF RequestEndsWith
  <2>3. x \in RequestResults /\ x \notin {"sent", "canceled", "stale"}
    BY <1>10 DEF RequestResults, BroadcastResults
  <2>4. o.leader = NoLeader
    BY <1>8, <1>10
  <2>5. [players |-> rest, leader |-> o.leader, result |-> x]
          \in RequestOutcomes(P, l, r, D)
    BY <1>6, <2>2, <2>3, <2>4, RequestOutcome
  <2> QED
    BY <1>8, <1>10, <2>5
<1>11. CASE x = "stale"
  <2>1. rest # {} /\ Cardinality(lost) >= 2
    <3>1. lost \subseteq Players
      BY <1>1
    <3>2. Cardinality(lost) \in Nat
      BY <3>1, FiniteSubsetsOfPlayers
    <3>3. /\ lost # left
          /\ Cardinality(lost) > 2 \/ Cardinality(lost) = 2
      BY <1>3, <1>11 DEF EndsWith
    <3> QED
      BY <1>4, <3>2, <3>3
  <2>2. Cardinality(gone) > 2
    <3>1. PICK p \in P : p \notin left
      BY <1>1
    <3>2. /\ lost \cup {p} \subseteq gone /\ p \notin lost
          /\ lost \subseteq Players /\ gone \subseteq Players
      BY <1>1, <1>4, <1>5, <3>1
    <3>3. /\ IsFiniteSet(lost) /\ Cardinality(lost) \in Nat
          /\ IsFiniteSet(gone) /\ Cardinality(gone) \in Nat
      BY <3>2, FiniteSubsetsOfPlayers
    <3>4. Cardinality(lost \cup {p}) = Cardinality(lost) + 1
      BY <3>2, <3>3, FS_AddElement
    <3>5. Cardinality(lost \cup {p}) <= Cardinality(gone)
      BY <3>2, <3>3, FS_Subset
    <3> QED
      BY <2>1, <3>3, <3>4, <3>5
  <2>3. gone # P
    BY <1>6, <2>1
  <2>4. RequestEndsWith(P, l, r, gone, x)
    BY <1>6, <1>11, <2>2, <2>3 DEF RequestEndsWith
  <2>5. x \in RequestResults /\ x \in {"sent", "canceled", "stale"}
    BY <1>11 DEF RequestResults, BroadcastResults
  <2>6. o.leader = LeaderOf(rest, l)
    BY <1>8, <1>11, <2>1
  <2>7. [players |-> rest, leader |-> o.leader, result |-> x]
          \in RequestOutcomes(P, l, r, D)
    BY <1>1, <1>6, <2>4, <2>5, <2>6, RequestOutcome
  <2> QED
    BY <1>8, <1>11, <2>7
<1>12. x # "uninitialized"
  BY <1>3, <1>6 DEF EndsWith
<1> QED
  BY <1>9, <1>10, <1>11, <1>12 DEF BroadcastResults

\* A call closed by Session::request: the session it leaves follows from the
\* players it lost, which the clean-up is about to announce.
LEMMA FinishFacts ==
  ASSUME TypeInv, FoundInv, Finish
  PROVE  /\ pc' \in {"switch", "announce", "ended"}
         /\ pc' \in {"switch", "announce"} =>
              /\ Survive(found.players, found.leader, players', leader', dead)
              /\ toAnnounce' \subseteq found.players \ players'
              /\ pc' = "switch" => players' # found.players
         /\ pc' = "ended" =>
              [players |-> players', leader |-> leader', result |-> result']
                \in RequestOutcomes(found.players, found.leader, running, dead)
<1>1. PICK unreached \in SUBSET ((dead \cap players) \ errors),
           lost \in SUBSET (errors \cup dead), left \in SUBSET players :
        /\ lost = errors \cup unreached
        /\ left = players \ lost
        /\ toAnnounce' = lost
        /\ players' = left
        /\ \/ /\ left = {}
              /\ pc' = "ended" /\ result' = "nobody"
              /\ leader' = NoLeader
           \/ /\ left # {} /\ leader = NoLeader
              /\ pc' = "ended" /\ result' = "uninitialized"
              /\ UNCHANGED leader
           \/ /\ left # {} /\ leader # NoLeader
              /\ pc' = IF leader \in lost THEN "switch" ELSE "announce"
              /\ leader' = LeaderAfter(players, lost, leader)
              /\ UNCHANGED result
  BY DEF Finish
<1>2. /\ players = found.players /\ leader = found.leader
      /\ lost \subseteq players /\ lost \subseteq dead
  BY <1>1 DEF FoundInv, InConversation, Finish
<1>3. /\ players \subseteq Nat /\ NoLeader \notin Nat
      /\ leader \in players \cup {NoLeader}
  BY PlayersAssumption, NoLeaderAssumption DEF TypeInv, TypeOK
<1>4. CASE left = {}
  <2>1. pc' = "ended" /\ result' = "nobody" /\ leader' = NoLeader
    BY <1>1, <1>4
  <2>2. lost = players
    BY <1>1, <1>2, <1>4
  <2>3. RequestEndsWith(players, leader, running, lost, "nobody")
    BY <2>2 DEF RequestEndsWith
  <2>4. /\ "nobody" \in RequestResults
        /\ "nobody" \notin {"sent", "canceled", "stale"}
    BY DEF RequestResults, BroadcastResults
  <2>5. [players |-> left, leader |-> NoLeader, result |-> "nobody"]
          \in RequestOutcomes(players, leader, running, dead)
    BY <1>1, <1>2, <2>3, <2>4, RequestOutcome
  <2> QED
    BY <1>1, <1>2, <2>1, <2>5
<1>5. CASE left # {} /\ leader = NoLeader
  <2>1. pc' = "ended" /\ result' = "uninitialized" /\ leader' = NoLeader
    BY <1>1, <1>5
  <2>2. RequestEndsWith(players, leader, running, lost, "uninitialized")
    BY <1>1, <1>5 DEF RequestEndsWith
  <2>3. /\ "uninitialized" \in RequestResults
        /\ "uninitialized" \notin {"sent", "canceled", "stale"}
    BY DEF RequestResults, BroadcastResults
  <2>4. [players |-> left, leader |-> NoLeader, result |-> "uninitialized"]
          \in RequestOutcomes(players, leader, running, dead)
    BY <1>1, <1>2, <2>2, <2>3, RequestOutcome
  <2> QED
    BY <1>1, <1>2, <2>1, <2>4
<1>6. CASE left # {} /\ leader # NoLeader
  <2>1. /\ pc' = IF leader \in lost THEN "switch" ELSE "announce"
        /\ leader' = LeaderAfter(players, lost, leader)
    BY <1>1, <1>6
  <2>2. leader \in players
    BY <1>3, <1>6
  <2>3. leader' = LeaderOf(left, leader)
    BY <1>1, <2>1, <2>2, LeaderOfLeft
  <2>4. Survive(found.players, found.leader, players', leader', dead)
    BY <1>1, <1>2, <1>6, <2>2, <2>3 DEF Survive
  <2>5. /\ toAnnounce' \subseteq found.players \ players'
        /\ pc' = "switch" => players' # found.players
    BY <1>1, <1>2, <2>1, <2>2
  <2> QED
    BY <2>1, <2>4, <2>5
<1> QED
  BY <1>4, <1>5, <1>6

\* A broadcast of the clean-up goes on with it, or ends the call as one of the
\* outcomes.
LEMMA AnnounceFacts ==
  ASSUME FoundInv, CleaningUp, players # found.players,
         Broadcast(players, leader, "announce")
  PROVE  /\ pc' \in {"announce", "ended"}
         /\ pc' = "announce" =>
              /\ Survive(found.players, found.leader, players', leader', dead)
              /\ players' \subseteq players
         /\ pc' = "ended" =>
              [players |-> players', leader |-> leader', result |-> result']
                \in RequestOutcomes(found.players, found.leader, running, dead)
<1>1. PICK o \in BroadcastOutcomes(players, players, leader, dead) :
        /\ players' = o.players
        /\ leader' = o.leader
        /\ IF o.result = "sent" THEN pc' = "announce"
                                ELSE pc' = "ended" /\ result' = o.result
  BY Zenon DEF Broadcast
<1>2. /\ found.players \subseteq Players
      /\ Survive(found.players, found.leader, players, leader, dead)
  BY DEF FoundInv
<1>3. /\ o.result = "sent" =>
           /\ Survive(found.players, found.leader, o.players, o.leader, dead)
           /\ o.players \subseteq players
      /\ o.result # "sent" =>
           [players |-> o.players, leader |-> o.leader, result |-> o.result]
             \in RequestOutcomes(found.players, found.leader, running, dead)
  BY <1>2, BroadcastGoesOn
<1> QED
  BY <1>1, <1>3

\* A request finds the session as it is when it is called.
LEMMA FoundInit == ContractInit => FoundInv
  BY DEF ContractInit, Init, FoundInv, InConversation, CleaningUp

\* A step that leaves the session and the request's errors alone.
LEMMA FoundKept ==
  ASSUME FoundInv, found' = found, dead \subseteq dead',
         UNCHANGED <<players, leader, targets, errors, toAnnounce>>,
         \/ UNCHANGED pc
         \/ InConversation /\ InConversation'
         \/ ~InConversation' /\ ~CleaningUp'
  PROVE  FoundInv'
<1>1. InConversation' => InConversation
  BY DEF InConversation, CleaningUp
<1>2. CleaningUp' => CleaningUp /\ UNCHANGED pc
  BY DEF InConversation, CleaningUp
<1>3. CleaningUp =>
        Survive(found'.players, found'.leader, players', leader', dead')
  BY DEF FoundInv, Survive
<1> QED
  BY <1>1, <1>2, <1>3 DEF FoundInv

\* The session thread's steps keep the session what its request made of it ...
LEMMA FoundSessionThread ==
  ASSUME TypeInv, FoundInv, SessionThread, found' = found
  PROVE  FoundInv'
<1> USE DEF sessionVars, serverVars, callVars, ctxVars
<1>1. ASSUME NEW p \in Players, LaunchTarget(p) \/ LaunchOther(p)
      PROVE  FoundInv'
  BY <1>1, FoundKept
  DEF LaunchTarget, LaunchOther, InConversation, CleaningUp
<1>2. ASSUME Launched \/ Close
      PROVE  FoundInv'
  BY <1>2, FoundKept DEF Launched, Close, InConversation, CleaningUp
<1>3. ASSUME Finish
      PROVE  FoundInv'
  <2>1. ~InConversation' /\ (CleaningUp' => pc' \in {"switch", "announce"})
    BY <1>3, FinishFacts DEF InConversation, CleaningUp
  <2>2. dead' = dead
    BY <1>3 DEF Finish
  <2> QED
    BY <1>3, <2>1, <2>2, FinishFacts DEF FoundInv
<1>4. ASSUME AnnounceLeader
      PROVE  FoundInv'
  <2>1. /\ CleaningUp /\ players # found.players
        /\ Broadcast(players, leader, "announce")
        /\ dead' = dead /\ toAnnounce' = toAnnounce
        /\ toAnnounce \subseteq found.players \ players
    BY <1>4 DEF AnnounceLeader, FoundInv, CleaningUp, Broadcast
  <2>2. /\ pc' \in {"announce", "ended"}
        /\ pc' = "announce" =>
             /\ Survive(found.players, found.leader, players', leader', dead)
             /\ players' \subseteq players
    BY <2>1, AnnounceFacts
  <2> QED
    BY <2>1, <2>2 DEF FoundInv, InConversation, CleaningUp
<1>5. ASSUME NEW p \in Players, AnnounceCrash(p)
      PROVE  FoundInv'
  <2>1. /\ CleaningUp /\ players # found.players
        /\ Broadcast(players, leader, "announce")
        /\ dead' = dead /\ toAnnounce' \subseteq toAnnounce
        /\ toAnnounce \subseteq found.players \ players
    BY <1>5 DEF AnnounceCrash, FoundInv, CleaningUp, Broadcast
  <2>2. /\ pc' \in {"announce", "ended"}
        /\ pc' = "announce" =>
             /\ Survive(found.players, found.leader, players', leader', dead)
             /\ players' \subseteq players
    BY <2>1, AnnounceFacts
  <2> QED
    BY <2>1, <2>2 DEF FoundInv, InConversation, CleaningUp
<1>6. ASSUME Return
      PROVE  FoundInv'
  BY <1>6, FoundKept DEF Return, InConversation, CleaningUp
<1> QED
  BY <1>1, <1>2, <1>3, <1>4, <1>5, <1>6 DEF SessionThread

\* ... so do the script, which begins requests from the session as it is ...
LEMMA FoundScript ==
  ASSUME TypeInv, FoundInv, Script,
         found' = IF requests' # requests
                  THEN [players |-> players, leader |-> leader] ELSE found
  PROVE  FoundInv'
<1> USE DEF sessionVars, serverVars, callVars, ctxVars
<1>0. found.players \subseteq Players /\ players \subseteq Players
  BY DEF FoundInv, TypeInv, TypeOK
<1>1. ASSUME NEW to, ScriptSend(to)
      PROVE  FoundInv'
  BY <1>0, <1>1
  DEF ScriptSend, Broadcast, FoundInv, InConversation, CleaningUp
<1>2. ASSUME NEW p \in Players, SwitchLeader(p)
      PROVE  FoundInv'
  BY <1>0, <1>2
  DEF SwitchLeader, Broadcast, FoundInv, InConversation, CleaningUp
<1>3. ASSUME NEW p \in Players, Kill(p)
      PROVE  FoundInv'
  BY <1>3, FoundKept DEF Kill
<1>4. ASSUME ScriptStops
      PROVE  FoundInv'
  BY <1>4, FoundKept DEF ScriptStops
<1>5. ASSUME NEW to, NEW f, NEW w, BeginRequest(to, f, w)
      PROVE  FoundInv'
  <2>1. requests' = requests + 1 /\ requests \in Int
    BY <1>5 DEF BeginRequest, TypeInv, TypeOK
  <2>2. found' = [players |-> players, leader |-> leader]
    BY <2>1
  <2>3. targets' \subseteq players
    BY <1>5 DEF BeginRequest, TargetsOf
  <2>4. /\ players' = players /\ leader' = leader /\ errors' = {}
        /\ pc' = "launch"
    BY <1>5 DEF BeginRequest
  <2> QED
    BY <1>0, <2>2, <2>3, <2>4 DEF FoundInv, InConversation, CleaningUp
<1> QED
  BY <1>1, <1>2, <1>3, <1>4, <1>5 DEF Script

\* ... and the completions, which only find broken connections.
LEMMA FoundEventsLoop ==
  ASSUME TypeInv, CtxInv, FoundInv, EventsLoop, found' = found
  PROVE  FoundInv'
<1> USE DEF sessionVars, serverVars, callVars, ctxVars, LoopUnchanged
<1>1. ASSUME NEW p \in Players,
             \/ ConnectionFails(p)
             \/ ReplyReceived(p)
      PROVE  FoundInv'
  <2>1. InConversation /\ pc' = pc
    BY <1>1 DEF ConnectionFails, ReplyReceived, InRequest, requestDone,
                InConversation
  <2>2. p \in targets
    BY <1>1 DEF ConnectionFails, ReplyReceived, CtxInv, OnlyTargetsAsked
  <2>3. /\ players' = players /\ leader' = leader /\ targets' = targets
        /\ dead' = dead /\ toAnnounce' = toAnnounce
    BY <1>1 DEF ConnectionFails, ReplyReceived
  <2>4. errors' \subseteq players \cap dead
    <3>1. errors \subseteq players \cap dead /\ p \in players
      BY <2>1, <2>2 DEF FoundInv
    <3>2. CASE ConnectionFails(p)
      BY <3>1, <3>2 DEF ConnectionFails, FailHandler
    <3>3. CASE ReplyReceived(p)
      BY <3>1, <3>3 DEF ReplyReceived
    <3> QED
      BY <1>1, <3>2, <3>3
  <2> QED
    BY <2>1, <2>3, <2>4 DEF FoundInv, InConversation, CleaningUp
<1>2. ASSUME NEW p \in Players,
             \/ QuestionSent(p)
             \/ CanceledCompletion(p)
      PROVE  FoundInv'
  BY <1>2, FoundKept DEF QuestionSent, CanceledCompletion
<1>3. ASSUME NEW p \in Players, InvalidReplyReceived(p)
      PROVE  FoundInv'
  BY <1>3, FoundKept DEF InvalidReplyReceived, vars
<1>4. ASSUME NEW p \in Players, RacyLookup(p)
      PROVE  FoundInv'
  BY <1>4, FoundKept DEF RacyLookup, InConversation, CleaningUp
<1>5. ASSUME DanglingCompletion
      PROVE  FoundInv'
  BY <1>5, FoundKept DEF DanglingCompletion, InConversation, CleaningUp
<1> QED
  BY <1>1, <1>2, <1>3, <1>4, <1>5 DEF EventsLoop

\* Only the script begins a request.
LEMMA OnlyScriptBegins ==
  ASSUME SessionThread \/ EventsLoop \/ Environment \/ Over \/ UNCHANGED vars
  PROVE  UNCHANGED requests
<1>1. SessionThread => UNCHANGED requests
  BY DEF SessionThread, LaunchTarget, LaunchOther, AnnounceCrash, Launched,
         Close, Finish, AnnounceLeader, Return
<1>2. EventsLoop => UNCHANGED requests
  BY DEF EventsLoop, QuestionSent, ConnectionFails, ReplyReceived,
         InvalidReplyReceived, CanceledCompletion, RacyLookup,
         DanglingCompletion, LoopUnchanged, vars
<1>3. Environment \/ Over \/ UNCHANGED vars => UNCHANGED requests
  BY DEF Environment, StopLoop, StopSession, Drop, Over, vars
<1> QED
  BY <1>1, <1>2, <1>3

\* Whatever the step, the session follows from what the request found.
LEMMA FoundStep ==
  IInv /\ FoundInv /\ [ContractNext]_<<vars, found>> => FoundInv'
<1> SUFFICES ASSUME IInv, FoundInv, [ContractNext]_<<vars, found>>
             PROVE  FoundInv'
  OBVIOUS
<1> USE DEF vars, sessionVars, serverVars, callVars, ctxVars
<1>1. CASE UNCHANGED <<vars, found>>
  BY <1>1, FoundKept
<1>2. CASE ContractNext
  <2>1. /\ Next
        /\ found' = IF requests' # requests
                    THEN [players |-> players, leader |-> leader] ELSE found
    BY <1>2 DEF ContractNext
  <2>2. TypeInv /\ CtxInv
    BY DEF IInv
  <2>3. CASE Script
    BY <2>1, <2>2, <2>3, FoundScript
  <2>4. CASE SessionThread
    <3>1. found' = found
      BY <2>1, <2>4, OnlyScriptBegins
    <3> QED
      BY <2>2, <2>4, <3>1, FoundSessionThread
  <2>5. CASE EventsLoop
    <3>1. found' = found
      BY <2>1, <2>5, OnlyScriptBegins
    <3> QED
      BY <2>2, <2>5, <3>1, FoundEventsLoop
  <2>6. CASE Environment \/ Over
    <3>1. found' = found
      BY <2>1, <2>6, OnlyScriptBegins
    <3> QED
      BY <2>6, <3>1, FoundKept
      DEF Environment, StopLoop, StopSession, Drop, Over
  <2> QED
    BY <2>1, <2>3, <2>4, <2>5, <2>6 DEF Next
<1> QED
  BY <1>1, <1>2

\* The step that ends a request ends it in one of the outcomes.
LEMMA EndsAsPromised ==
  ASSUME IInv, FoundInv, [ContractNext]_<<vars, found>>, InRequest,
         pc' \in {"script", "ended"}
  PROVE  [ players |-> players', leader |-> leader',
           result |-> IF pc' = "script" THEN "sent" ELSE result' ]
           \in RequestOutcomes(found.players, found.leader, running, dead)
<1>1. \/ Finish \/ AnnounceLeader \/ Return
      \/ \E p \in Players : AnnounceCrash(p)
  <2> USE DEF vars, sessionVars, serverVars, callVars, ctxVars, InRequest
  <2>1. Next
    BY DEF ContractNext
  <2>2. ~Script
    BY DEF Script, ScriptSend, SwitchLeader, Kill, ScriptStops, BeginRequest
  <2>3. ~EventsLoop
    BY DEF EventsLoop, QuestionSent, ConnectionFails, ReplyReceived,
           InvalidReplyReceived, CanceledCompletion, RacyLookup,
           DanglingCompletion
  <2>4. ~Environment /\ ~Over
    BY DEF Environment, StopLoop, StopSession, Drop, Over
  <2>5. SessionThread
    BY <2>1, <2>2, <2>3, <2>4 DEF Next
  <2> QED
    BY <2>5 DEF SessionThread, LaunchTarget, LaunchOther, Launched, Close
<1>2. CASE Finish
  BY <1>2, FinishFacts DEF IInv
<1>3. CASE AnnounceLeader
  <2>1. /\ CleaningUp /\ players # found.players
        /\ Broadcast(players, leader, "announce")
    BY <1>3 DEF AnnounceLeader, FoundInv, CleaningUp
  <2> QED
    BY <2>1, AnnounceFacts
<1>4. CASE \E p \in Players : AnnounceCrash(p)
  <2>1. /\ CleaningUp /\ players # found.players
        /\ Broadcast(players, leader, "announce")
    BY <1>4 DEF AnnounceCrash, FoundInv, CleaningUp
  <2> QED
    BY <2>1, AnnounceFacts
<1>5. CASE Return
  <2>1. /\ Survive(found.players, found.leader, players, leader, dead)
        /\ players' = players /\ leader' = leader
    BY <1>5 DEF Return, FoundInv, CleaningUp, sessionVars
  <2>2. PICK x : x = IF running THEN "sent" ELSE "canceled"
    OBVIOUS
  <2>3. (IF pc' = "script" THEN "sent" ELSE result') = x
    BY <1>5, <2>2 DEF Return
  <2>4. PICK lost : lost = found.players \ players
    OBVIOUS
  <2>5. /\ lost \subseteq found.players /\ lost \subseteq dead
        /\ players = found.players \ lost /\ players # {}
        /\ found.leader \in found.players
        /\ leader = LeaderOf(players, found.leader)
    BY <2>1, <2>4 DEF Survive
  <2>6. found.leader # NoLeader
    BY <2>5, PlayersAssumption, NoLeaderAssumption DEF FoundInv
  <2>7. lost # found.players
    BY <2>5
  <2>8. RequestEndsWith(found.players, found.leader, running, lost, x)
    BY <2>2, <2>6, <2>7 DEF RequestEndsWith
  <2>9. x \in RequestResults /\ x \in {"sent", "canceled", "stale"}
    BY <2>2 DEF RequestResults, BroadcastResults
  <2>10. [players |-> players, leader |-> leader, result |-> x]
           \in RequestOutcomes(found.players, found.leader, running, dead)
    BY <2>5, <2>8, <2>9, RequestOutcome
  <2> QED
    BY <2>1, <2>3, <2>10
<1> QED
  BY <1>1, <1>2, <1>3, <1>4, <1>5

\* A request either returns or leaves with one of its exceptions, having lost
\* players whose connection is broken and no other, with its leader replaced by
\* the first player left, whatever the interleaving and whatever the losses of
\* its own clean-up: what Session takes as one step is what request() does.
THEOREM ContractCorrect == ContractSpec => RequestKeepsContract
<1>1. ContractInit => IInv /\ FoundInv
  BY IInvInit, FoundInit DEF ContractInit
<1>2. IInv /\ FoundInv /\ [ContractNext]_<<vars, found>>
        => (IInv /\ FoundInv)'
  <2>1. [ContractNext]_<<vars, found>> => [Next]_vars
    BY DEF ContractNext
  <2> QED
    BY <2>1, IInvStep, FoundStep
<1>3. IInv /\ FoundInv /\ [ContractNext]_<<vars, found>> =>
        [ InRequest /\ pc' \in {"script", "ended"} =>
            [ players |-> players, leader |-> leader,
              result |-> ReturnedResult ]'
                \in RequestOutcomes(found.players, found.leader, running, dead)
        ]_vars
  BY EndsAsPromised DEF ReturnedResult
<1> QED
  BY <1>1, <1>2, <1>3, PTL DEF ContractSpec, RequestKeepsContract
=============================================================================
