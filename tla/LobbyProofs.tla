---------------------------- MODULE LobbyProofs ----------------------------
(***************************************************************************)
(* Proofs about the lobby while it gathers its members, for any set of ids *)
(* and any bounds: who is its master, that every member is heard, that a   *)
(* countdown has its timer, and that it follows the readiness of members.  *)
(***************************************************************************)
EXTENDS Lobby, SequenceTheorems, FiniteSetTheorems, TLAPS

Shared == INSTANCE SessionBroadcastProofs WITH NoLeader <- NoMaster

\* What is on the stack.
Frames == Steps \cup Completions

\* A completed receive of a member, and a call that will listen to it again.
Receives(c, id) == c.do = "receive" /\ c.id = id
Hears(f, id) == f.do \in {"receive", "readied", "listen"} /\ f.id = id

Leading == master = FirstOf(members)

\* The timer of the countdown runs, or has expired and will be handled; only
\* its end begins a preparation.
Ticking == armed \/ TimerDone("none") \in Range(queue)
Timing ==
  /\ state = "Preparing" => prepared
  /\ ~prepared /\ state = "Starting" =>
       Ticking \/ (stack # <<>> /\ Step = TimerDone("none"))

\* Each member's next request is awaited, completed, or will be awaited.
Hearing ==
  ~prepared /\ ~failed =>
    \A id \in members :
      \/ id \in listening
      \/ \E c \in Range(queue) : Receives(c, id)
      \/ \E f \in Range(stack) : Hears(f, id)

Inv == TypeOK /\ Leading /\ Timing /\ Hearing

-----------------------------------------------------------------------------
(* Queues and stacks.                                                      *)

LEMMA RangeIsCalls ==
  ASSUME NEW s
  PROVE  Range(s) = Shared!Calls(s)
  BY DEF Range, Shared!Calls

LEMMA EmptyRange == Range(<<>>) = {}
  BY DEF Range

LEMMA RangeInSet ==
  ASSUME NEW S, NEW s \in Seq(S)
  PROVE  Range(s) \subseteq S
  BY DEF Range

LEMMA Push ==
  ASSUME NEW S, NEW f \in S, NEW s \in Seq(S)
  PROVE  /\ <<f>> \o s \in Seq(S) /\ <<f>> \o s # <<>>
         /\ Range(<<f>> \o s) = {f} \cup Range(s)
<1>1. /\ <<f>> \o s \in Seq(S) /\ <<f>> \o s # <<>>
      /\ Shared!Calls(<<f>> \o s) = {f} \cup Shared!Calls(s)
  BY IdsAssumption, Shared!PushCalls, Zenon
<1>2. /\ Range(<<f>> \o s) = Shared!Calls(<<f>> \o s)
      /\ Range(s) = Shared!Calls(s)
  BY RangeIsCalls, Zenon
<1> QED
  BY <1>1, <1>2, Zenon

LEMMA Pop ==
  ASSUME NEW S, NEW s \in Seq(S), s # <<>>
  PROVE  /\ Head(s) \in S /\ Tail(s) \in Seq(S)
         /\ Range(s) = {Head(s)} \cup Range(Tail(s))
<1>1. /\ Head(s) \in S /\ Tail(s) \in Seq(S)
      /\ Shared!Calls(s) = {Head(s)} \cup Shared!Calls(Tail(s))
  BY IdsAssumption, Shared!PopCalls, Zenon
<1>2. /\ Range(s) = Shared!Calls(s)
      /\ Range(Tail(s)) = Shared!Calls(Tail(s))
  BY RangeIsCalls, Zenon
<1> QED
  BY <1>1, <1>2, Zenon

LEMMA Enqueue ==
  ASSUME NEW S, NEW c \in S, NEW s \in Seq(S)
  PROVE  /\ Append(s, c) \in Seq(S)
         /\ Range(Append(s, c)) = Range(s) \cup {c}
<1>1. /\ Append(s, c) \in Seq(S) /\ Len(Append(s, c)) = Len(s) + 1
      /\ \A i \in 1 .. Len(s) : Append(s, c)[i] = s[i]
      /\ Append(s, c)[Len(s) + 1] = c
      /\ Len(s) \in Nat
  OBVIOUS
<1>2. /\ DOMAIN s = 1 .. Len(s)
      /\ DOMAIN Append(s, c) = 1 .. Len(s) + 1
  BY <1>1
<1> QED
  BY <1>1, <1>2 DEF Range

-----------------------------------------------------------------------------
(* What is on the stack and in the queue.                                  *)

LEMMA NewFrames ==
  ASSUME NEW ids \in SUBSET Ids, NEW id \in Ids
  PROVE  /\ Sending(ids) \in Frames
         /\ Sending(ids).do = "send" /\ Sending(ids).ids = ids
         /\ \A what \in {"left", "parted", "readied", "joined", "listen"} :
              /\ Then(what, id) \in Frames
              /\ Then(what, id).do = what /\ Then(what, id).id = id
  BY DEF Sending, Then, Frames, Steps

LEMMA NewCompletions ==
  ASSUME NEW id \in Ids
  PROVE  /\ TimerDone("none") \in Completions
         /\ TimerDone("aborted") \in Completions
         /\ Joining(id) \in Completions
         /\ \A what \in Requests \cup {"broken", "aborted"} :
              /\ Received(id, what) \in Completions
              /\ Received(id, what).do = "receive"
              /\ Received(id, what).id = id
         /\ \A c : c = TimerDone("none") \/ c = TimerDone("aborted") =>
              c.do = "timer"
         /\ Joining(id).do = "join"
  BY DEF TimerDone, Joining, Received, Completions, Requests

LEMMA FrameFacts ==
  ASSUME NEW f \in Frames
  PROVE  /\ f.do \in {"send", "left", "parted", "readied", "joined",
                      "listen", "timer", "receive", "join"}
         /\ f.do = "send" => f.ids \subseteq Ids
         /\ f.do \notin {"send", "timer"} => f.id \in Ids
         /\ f.do = "timer" => /\ f.err \in {"none", "aborted"}
                              /\ f = TimerDone(f.err)
         /\ f.do \in {"timer", "receive", "join"} => f \in Completions
         /\ f = TimerDone("none") => f.do = "timer" /\ f.err = "none"
         /\ f = TimerDone("aborted") => f.do = "timer" /\ f.err = "aborted"
  BY DEF Frames, Steps, Completions, Requests, TimerDone

\* One step, or two, put before those of a stack.
Pushed(t, f, s) == t = <<f>> \o s
PushedTwo(t, f, g, s) == t = <<f>> \o <<g>> \o s

LEMMA PushedFacts ==
  ASSUME NEW f \in Frames, NEW s \in Seq(Frames), NEW t, Pushed(t, f, s)
  PROVE  t \in Seq(Frames) /\ Range(t) = {f} \cup Range(s)
<1>1. /\ <<f>> \o s \in Seq(Frames)
      /\ Range(<<f>> \o s) = {f} \cup Range(s)
  BY Push, ZenonT(30)
<1> QED
  BY <1>1 DEF Pushed

LEMMA PushedTwoFacts ==
  ASSUME NEW f \in Frames, NEW g \in Frames, NEW s \in Seq(Frames), NEW t,
         PushedTwo(t, f, g, s)
  PROVE  /\ t \in Seq(Frames) /\ Range(t) = {f, g} \cup Range(s)
         /\ \E u \in Seq(Frames) : Pushed(u, g, s) /\ Pushed(t, f, u)
<1> DEFINE u == <<g>> \o s
<1>1. Pushed(u, g, s)
  BY DEF Pushed
<1>2. Pushed(t, f, u)
  <2>1. <<f>> \in Seq(Frames) /\ <<g>> \in Seq(Frames)
    OBVIOUS
  <2> QED
    BY <2>1, ConcatAssociative DEF Pushed, PushedTwo
<1> HIDE DEF u
<1>3. u \in Seq(Frames) /\ Range(u) = {g} \cup Range(s)
  BY <1>1, PushedFacts
<1>4. t \in Seq(Frames) /\ Range(t) = {f} \cup Range(u)
  BY <1>2, <1>3, PushedFacts
<1> QED
  BY <1>1, <1>2, <1>3, <1>4

LEMMA StepFacts ==
  ASSUME TypeOK, stack # <<>>
  PROVE  /\ Step \in Frames /\ Rest \in Seq(Frames)
         /\ Range(stack) = {Step} \cup Range(Rest)
  BY Pop, Zenon DEF TypeOK, Step, Rest, Frames

LEMMA FirstIsId ==
  ASSUME NEW S, S \subseteq Ids
  PROVE  FirstOf(S) \in S \cup {NoMaster}
  BY IdsAssumption, Shared!LeastOfNat DEF FirstOf, Min, Shared!Min

-----------------------------------------------------------------------------
(* What the steps have in common.                                          *)

\* No step forgets a completion, but the loop takes one.
LEMMA StillTicking ==
  ASSUME Timing, UNCHANGED <<state, armed, prepared>>,
         Range(queue) \subseteq Range(queue'),
         stack = <<>> \/ Step.do # "timer"
  PROVE  Timing'
<1>1. stack = <<>> \/ Step # TimerDone("none")
  BY DEF TimerDone
<1> QED
  BY <1>1 DEF Timing, Ticking

LEMMA StillHeard ==
  ASSUME Hearing, UNCHANGED <<prepared, failed>>, members' \subseteq members,
         \A id \in members' : id \in listening => id \in listening',
         Range(queue) \subseteq Range(queue'),
         \A id \in members', f \in Range(stack) :
           Hears(f, id) => \E g \in Range(stack') : Hears(g, id)
  PROVE  Hearing'
<1> SUFFICES ASSUME ~prepared, ~failed, NEW id \in members'
             PROVE  \/ id \in listening'
                    \/ \E c \in Range(queue') : Receives(c, id)
                    \/ \E f \in Range(stack') : Hears(f, id)
  BY DEF Hearing, Receives, Hears
<1>1. \/ id \in listening
      \/ \E c \in Range(queue) : Receives(c, id)
      \/ \E f \in Range(stack) : Hears(f, id)
  BY DEF Hearing
<1> QED
  BY <1>1

\* Only a timer's handler stops the countdown's timer from being heard.
LEMMA FailKeepsInv ==
  ASSUME Inv, Fail, stack = <<>> \/ Step.do # "timer"
  PROVE  Inv'
<1>1. /\ UNCHANGED <<state, members, ready, master, dead, listening, armed,
                     queue, prepared, requests, losses, joins>>
      /\ failed' = TRUE /\ stack' = <<>>
  BY DEF Fail, lobbyVars, ioVars, bounds
<1>2. TypeOK'
  BY <1>1 DEF Inv, TypeOK
<1>3. Leading'
  BY <1>1 DEF Inv, Leading
<1>4. Timing'
  BY <1>1, StillTicking DEF Inv
<1>5. Hearing'
  BY <1>1 DEF Hearing
<1> QED
  BY <1>2, <1>3, <1>4, <1>5 DEF Inv

\* A member is gone; the new master, if it led, is announced first.
LEMMA DisconnectFacts ==
  ASSUME TypeOK, NEW id \in members, NEW rest \in Seq(Frames),
         Disconnect(id, rest)
  PROVE  /\ members' = members \ {id} /\ ready' = ready \ {id}
         /\ dead' = dead \ {id} /\ master' = FirstOf(members')
         /\ listening' = listening \ {id}
         /\ UNCHANGED <<state, armed, failed, prepared, requests, losses,
                        joins>>
         /\ queue' \in Seq(Completions) /\ Range(queue) \subseteq Range(queue')
         /\ id \notin listening => queue' = queue
         /\ stack' \in Seq(Frames)
         /\ \/ Pushed(stack', Then("left", id), rest)
            \/ PushedTwo(stack', Sending(members'), Then("left", id), rest)
         /\ Range(rest) \subseteq Range(stack')
         /\ Range(stack') \subseteq {Sending(members'), Then("left", id)}
                                      \cup Range(rest)
<1> DEFINE left == members \ {id}
           change == master # FirstOf(left)
           told == Then("left", id)
           tell == Sending(left)
<1>1. /\ members' = left /\ ready' = ready \ {id}
      /\ dead' = dead \ {id} /\ master' = FirstOf(left)
      /\ listening' = listening \ {id}
      /\ queue' = IF id \in listening
                  THEN Append(queue, Received(id, "aborted")) ELSE queue
      /\ stack' = (IF change THEN <<tell>> ELSE <<>>) \o <<told>> \o rest
      /\ UNCHANGED <<state, armed, failed, prepared, requests, losses, joins>>
  BY DEF Disconnect, bounds
<1>2. id \in Ids /\ left \in SUBSET Ids /\ queue \in Seq(Completions)
  BY DEF TypeOK
<1>3. queue' \in Seq(Completions) /\ Range(queue) \subseteq Range(queue')
  <2>1. Received(id, "aborted") \in Completions
    BY <1>2, NewCompletions
  <2> QED
    BY <1>1, <1>2, <2>1, Enqueue
<1>4. told \in Frames /\ tell \in Frames
  BY <1>2, NewFrames
<1> HIDE DEF told, tell
<1>5. Pushed(stack', told, rest) \/ PushedTwo(stack', tell, told, rest)
  <2>1. CASE change
    BY <1>1, <2>1 DEF PushedTwo
  <2>2. CASE ~change
    <3>1. <<>> \o <<told>> = <<told>>
      OBVIOUS
    <3> QED
      BY <1>1, <2>2, <3>1 DEF Pushed
  <2> QED
    BY <2>1, <2>2
<1>6. /\ stack' \in Seq(Frames)
      /\ Range(rest) \subseteq Range(stack')
      /\ Range(stack') \subseteq {tell, told} \cup Range(rest)
  BY <1>4, <1>5, PushedFacts, PushedTwoFacts
<1> QED
  BY <1>1, <1>3, <1>5, <1>6 DEF told, tell

LEMMA DisconnectKeepsInv ==
  ASSUME Inv, stack # <<>>, Step.do # "timer",
         NEW id \in members, NEW rest \in Seq(Frames), Disconnect(id, rest),
         \A x \in members \ {id}, f \in Range(stack) :
           Hears(f, x) => \E g \in Range(rest) : Hears(g, x)
  PROVE  Inv'
<1>1. /\ members' = members \ {id} /\ ready' = ready \ {id}
      /\ dead' = dead \ {id} /\ master' = FirstOf(members')
      /\ listening' = listening \ {id}
      /\ UNCHANGED <<state, armed, failed, prepared, requests, losses, joins>>
      /\ queue' \in Seq(Completions) /\ Range(queue) \subseteq Range(queue')
      /\ stack' \in Seq(Frames) /\ Range(rest) \subseteq Range(stack')
  BY DisconnectFacts DEF Inv
<1>2. TypeOK'
  <2>1. master' \in Ids \cup {NoMaster}
    BY <1>1, FirstIsId DEF Inv, TypeOK
  <2> QED
    BY <1>1, <2>1 DEF Inv, TypeOK, Frames
<1>3. Leading'
  BY <1>1 DEF Leading
<1>4. Timing'
  BY <1>1, StillTicking DEF Inv
<1>5. Hearing'
  BY <1>1, StillHeard DEF Inv
<1> QED
  BY <1>2, <1>3, <1>4, <1>5 DEF Inv

-----------------------------------------------------------------------------
(* The invariant, step by step.                                            *)

LEMMA BreakKeepsInv ==
  ASSUME Inv, NEW id \in Ids, Break(id)
  PROVE  Inv'
<1>1. /\ dead' = dead \cup {id} /\ id \in members
      /\ losses < MaxLosses /\ losses' = losses + 1
      /\ UNCHANGED <<state, members, ready, master, listening, armed, queue,
                     stack, failed, prepared, requests, joins>>
  BY DEF Break, lobbyVars, ioVars
<1>2. TypeOK'
  BY <1>1, BoundsAssumption DEF Inv, TypeOK
<1>3. Leading' /\ Timing' /\ Hearing'
  BY <1>1 DEF Inv, Leading, Timing, Ticking, Step, Hearing, Receives, Hears
<1> QED
  BY <1>2, <1>3 DEF Inv

\* What happens between two handlers adds to the queue.
LEMMA QueuedKeepsInv ==
  ASSUME Inv, stack = <<>>, NEW c \in Completions, queue' = Append(queue, c),
         UNCHANGED <<state, members, ready, master, dead, stack, failed,
                     prepared, losses>>,
         requests' \in 0 .. MaxRequests, joins' \in 0 .. MaxJoins,
         \/ UNCHANGED <<listening, armed>>
         \/ /\ c = TimerDone("none") /\ armed' = FALSE
            /\ UNCHANGED listening
         \/ /\ c.do = "receive" /\ listening' = listening \ {c.id}
            /\ UNCHANGED armed
  PROVE  Inv'
<1>1. /\ queue' \in Seq(Completions)
      /\ Range(queue') = Range(queue) \cup {c}
  BY Enqueue DEF Inv, TypeOK
<1>2. TypeOK'
  BY <1>1 DEF Inv, TypeOK
<1>3. Leading'
  BY DEF Inv, Leading
<1>4. Timing'
  BY <1>1 DEF Inv, Timing, Ticking
<1>5. Hearing'
  <2> SUFFICES ASSUME ~prepared, ~failed, NEW id \in members
               PROVE  id \in listening' \/ \E d \in Range(queue') :
                                             Receives(d, id)
    BY DEF Hearing, Receives
  <2>1. id \in listening \/ \E d \in Range(queue) : Receives(d, id)
    BY EmptyRange DEF Inv, Hearing
  <2> QED
    BY <1>1, <2>1 DEF Receives
<1> QED
  BY <1>2, <1>3, <1>4, <1>5 DEF Inv

LEMMA NetworkKeepsInv ==
  ASSUME Inv, Network \/ Expire
  PROVE  Inv'
<1>1. ASSUME NEW id \in Ids, Break(id)
      PROVE  Inv'
  BY <1>1, BreakKeepsInv
<1>2. ASSUME NEW id \in Ids, AskToJoin(id)
      PROVE  Inv'
  <2>1. Joining(id) \in Completions
    BY NewCompletions
  <2>2. joins' \in 0 .. MaxJoins /\ requests' \in 0 .. MaxRequests
    BY <1>2, BoundsAssumption DEF AskToJoin, Inv, TypeOK
  <2> QED
    BY <1>2, <2>1, <2>2, QueuedKeepsInv DEF AskToJoin, AtRest, lobbyVars
<1>3. ASSUME NEW id \in Ids, NEW what \in Requests \cup {"broken"},
             Arrive(id, what)
      PROVE  Inv'
  <2>1. /\ Received(id, what) \in Completions
        /\ Received(id, what).do = "receive" /\ Received(id, what).id = id
    BY NewCompletions
  <2>2. joins' \in 0 .. MaxJoins /\ requests' \in 0 .. MaxRequests
    BY <1>3, BoundsAssumption DEF Arrive, Inv, TypeOK
  <2> QED
    BY <1>3, <2>1, <2>2, QueuedKeepsInv DEF Arrive, AtRest, lobbyVars
<1>4. CASE JoinVanishes
  <2>1. /\ stack = <<>> /\ losses' \in 0 .. MaxLosses /\ failed' = TRUE
        /\ UNCHANGED <<state, members, ready, master, dead, listening, armed,
                       queue, stack, prepared, requests, joins>>
    BY <1>4, BoundsAssumption
       DEF JoinVanishes, AtRest, lobbyVars, ioVars, Inv, TypeOK
  <2> QED
    BY <2>1 DEF Inv, TypeOK, Leading, Timing, Ticking, Hearing
<1>5. CASE Expire
  <2>1. /\ stack = <<>> /\ armed' = FALSE
        /\ queue' = Append(queue, TimerDone("none"))
        /\ UNCHANGED <<state, members, ready, master, dead, listening, stack,
                       failed, prepared, requests, losses, joins>>
    BY <1>5 DEF Expire, AtRest, lobbyVars, bounds
  <2>2. TimerDone("none") \in Completions
    BY DEF TimerDone, Completions
  <2>3. joins' \in 0 .. MaxJoins /\ requests' \in 0 .. MaxRequests
    BY <2>1 DEF Inv, TypeOK
  <2> QED
    BY <2>1, <2>2, <2>3, QueuedKeepsInv
<1> QED
  BY <1>1, <1>2, <1>3, <1>4, <1>5 DEF Network

LEMMA TakeKeepsInv ==
  ASSUME Inv, Take
  PROVE  Inv'
<1>1. /\ stack = <<>> /\ queue # <<>>
      /\ stack' = <<Head(queue)>> /\ queue' = Tail(queue)
      /\ UNCHANGED <<state, members, ready, master, dead, listening, armed,
                     failed, prepared, requests, losses, joins>>
  BY DEF Take, AtRest, lobbyVars, bounds
<1> DEFINE c == Head(queue)
<1>2. /\ c \in Completions /\ queue' \in Seq(Completions)
      /\ Range(queue) = {c} \cup Range(queue')
  BY <1>1, Pop DEF Inv, TypeOK
<1> HIDE DEF c
<1>3. stack' = <<c>>
  BY <1>1 DEF c
<1>4. /\ stack' \in Seq(Frames) /\ stack' # <<>> /\ Head(stack') = c
      /\ Range(stack') = {c}
  BY <1>2, <1>3 DEF Frames, Range
<1>5. TypeOK'
  BY <1>1, <1>2, <1>4 DEF Inv, TypeOK, Frames
<1>6. Leading'
  BY <1>1 DEF Inv, Leading
<1>7. Timing'
  BY <1>1, <1>2, <1>4 DEF Inv, Timing, Ticking, Step
<1>8. Hearing'
  <2> SUFFICES ASSUME ~prepared, ~failed, NEW id \in members
               PROVE  \/ id \in listening
                      \/ \E d \in Range(queue') : Receives(d, id)
                      \/ \E f \in Range(stack') : Hears(f, id)
    BY <1>1 DEF Hearing, Receives, Hears
  <2>1. id \in listening \/ \E d \in Range(queue) : Receives(d, id)
    BY <1>1, EmptyRange DEF Inv, Hearing
  <2>2. Receives(c, id) => Hears(c, id)
    BY DEF Receives, Hears
  <2> QED
    BY <1>2, <1>4, <2>1, <2>2
<1> QED
  BY <1>5, <1>6, <1>7, <1>8 DEF Inv

LEMMA SendKeepsInv ==
  ASSUME Inv, Send
  PROVE  Inv'
<1>1. stack # <<>> /\ Step.do = "send" /\ Step.ids # {}
  BY DEF Send, Doing
<1>2. /\ Step \in Frames /\ Rest \in Seq(Frames)
      /\ Range(stack) = {Step} \cup Range(Rest)
  BY <1>1, StepFacts DEF Inv
<1>3. Step.ids \subseteq Ids
  BY <1>1, <1>2, FrameFacts
<1>4. PICK id : /\ id = Min(Step.ids)
                /\ LET advanced == <<Sending(Step.ids \ {id})>> \o Rest
                   IN  \/ id \notin members /\ Fail
                       \/ /\ id \in members
                          /\ stack' = advanced
                          /\ UNCHANGED <<lobbyVars, dead, ioVars, failed,
                                         prepared, bounds>>
                       \/ id \in dead /\ Disconnect(id, advanced)
  BY DEF Send
<1> DEFINE next == Sending(Step.ids \ {id})
           advanced == <<next>> \o Rest
<1>5. next \in Frames
  BY <1>3 DEF Sending, Frames, Steps
<1>6. Pushed(advanced, next, Rest)
  BY DEF Pushed
<1> HIDE DEF next, advanced
<1>7. /\ advanced \in Seq(Frames)
      /\ Range(advanced) = {next} \cup Range(Rest)
  BY <1>2, <1>5, <1>6, PushedFacts
<1>8. \A x \in Ids, f \in Range(stack) :
        Hears(f, x) => \E g \in Range(advanced) : Hears(g, x)
  BY <1>1, <1>2, <1>7 DEF Hears
<1>9. CASE Fail
  BY <1>1, <1>9, FailKeepsInv
<1>10. CASE /\ stack' = advanced
            /\ UNCHANGED <<lobbyVars, dead, ioVars, failed, prepared, bounds>>
  <2>1. UNCHANGED <<state, members, ready, master, dead, listening, armed,
                    queue, failed, prepared, requests, losses, joins>>
    BY <1>10 DEF lobbyVars, ioVars, bounds
  <2>2. TypeOK'
    BY <1>7, <1>10, <2>1 DEF Inv, TypeOK, Frames
  <2>3. Leading'
    BY <2>1 DEF Inv, Leading
  <2>4. Timing'
    BY <1>1, <2>1, StillTicking DEF Inv
  <2>5. Hearing'
    BY <1>8, <1>10, <2>1, StillHeard DEF Inv, TypeOK
  <2> QED
    BY <2>2, <2>3, <2>4, <2>5 DEF Inv
<1>11. CASE id \in dead /\ Disconnect(id, advanced)
  <2>1. id \in members /\ members \subseteq Ids
    BY <1>11 DEF Inv, TypeOK
  <2> QED
    BY <1>1, <1>7, <1>8, <1>11, <2>1, DisconnectKeepsInv
<1> QED
  BY <1>4, <1>9, <1>10, <1>11 DEF next, advanced

\* A step that begins or cancels the countdown, or leaves it alone.
LEMMA CountdownKeepsInv ==
  ASSUME Inv, stack # <<>>, NEW rest \in Seq(Frames),
         UNCHANGED <<members, master, dead, listening, failed, prepared,
                     bounds>>,
         ready' \subseteq members,
         ~prepared => \A x \in members, f \in Range(stack) :
                        Hears(f, x) => \E g \in Range(rest) : Hears(g, x),
         \/ BeginCountdown(rest)
         \/ \E isCrash \in BOOLEAN : CancelCountdown(isCrash, rest)
         \/ /\ stack' = rest /\ UNCHANGED <<state, armed, queue>>
            /\ Step.do # "timer" \/ state = "Open"
  PROVE  Inv'
<1>1. UNCHANGED <<members, master, dead, listening, failed, prepared,
                  requests, losses, joins>>
  BY DEF bounds
<1>2. /\ queue \in Seq(Completions)
      /\ TimerDone("aborted") \in Completions
      /\ Sending(members) \in Frames
  <2>1. members \in SUBSET Ids
    BY DEF Inv, TypeOK
  <2> QED
    BY <2>1 DEF Inv, TypeOK, TimerDone, Completions, Sending, Frames, Steps
<1>3. /\ armed' \in BOOLEAN /\ state' \in {"Open", "Starting", "Preparing"}
      /\ \/ queue' = queue
         \/ queue' = Append(queue, TimerDone("aborted"))
      /\ stack' = rest \/ Pushed(stack', Sending(members), rest)
      /\ state' = "Starting" => armed' \/ UNCHANGED <<state, armed, queue>>
      /\ state' = "Preparing" => state = "Preparing"
      /\ state' = "Starting" /\ ~armed' => Step.do # "timer"
  <2>1. armed \in BOOLEAN /\ state \in {"Open", "Starting", "Preparing"}
    BY DEF Inv, TypeOK
  <2>2. CASE BeginCountdown(rest)
    BY <2>1, <2>2 DEF BeginCountdown, Pushed
  <2>3. ASSUME NEW isCrash \in BOOLEAN, CancelCountdown(isCrash, rest)
        PROVE  /\ state' = "Open" /\ armed' \in BOOLEAN
               /\ \/ queue' = queue
                  \/ queue' = Append(queue, TimerDone("aborted"))
               /\ Pushed(stack', Sending(members), rest)
    <3>1. CASE armed /\ ~isCrash
      BY <2>3, <3>1 DEF CancelCountdown, Pushed
    <3>2. CASE ~(armed /\ ~isCrash)
      BY <2>1, <2>3, <3>2 DEF CancelCountdown, Pushed
    <3> QED
      BY <3>1, <3>2
  <2>4. CASE /\ stack' = rest /\ UNCHANGED <<state, armed, queue>>
             /\ Step.do # "timer" \/ state = "Open"
    BY <2>1, <2>4
  <2> QED
    BY <2>2, <2>3, <2>4
<1>4. /\ queue' \in Seq(Completions) /\ Range(queue) \subseteq Range(queue')
  <2>1. /\ Append(queue, TimerDone("aborted")) \in Seq(Completions)
        /\ Range(Append(queue, TimerDone("aborted")))
             = Range(queue) \cup {TimerDone("aborted")}
    BY <1>2, Enqueue, Zenon
  <2> QED
    BY <1>2, <1>3, <2>1
<1>5. stack' \in Seq(Frames) /\ Range(rest) \subseteq Range(stack')
  BY <1>2, <1>3, PushedFacts
<1>6. TypeOK'
  BY <1>1, <1>3, <1>4, <1>5 DEF Inv, TypeOK, Frames
<1>7. Leading'
  BY <1>1 DEF Inv, Leading
<1>8. Timing'
  <2>1. Step.do # "timer" => Step # TimerDone("none")
    BY DEF TimerDone
  <2> QED
    BY <1>1, <1>3, <2>1 DEF Inv, Timing, Ticking
<1>9. Hearing'
  <2>1. CASE prepared
    BY <1>1, <2>1 DEF Hearing
  <2>2. CASE ~prepared
    BY <1>1, <1>4, <1>5, <2>2, StillHeard DEF Inv
  <2> QED
    BY <2>1, <2>2
<1> QED
  BY <1>6, <1>7, <1>8, <1>9 DEF Inv

LEMMA CallKeepsInv ==
  ASSUME Inv, SendEnds \/ AfterLeaving \/ TellLeaving \/ AfterReady
  PROVE  Inv'
<1>1. /\ stack # <<>> /\ Step.do \in {"send", "left", "parted", "readied"}
      /\ UNCHANGED <<members, ready, master, dead, listening, failed,
                     prepared, bounds>>
  BY DEF SendEnds, AfterLeaving, TellLeaving, AfterReady, Doing, lobbyVars,
         ioVars
<1>2. /\ Step \in Frames /\ Rest \in Seq(Frames)
      /\ Range(stack) = {Step} \cup Range(Rest)
  BY <1>1, StepFacts DEF Inv
<1>3. members \in SUBSET Ids /\ ready \subseteq members
  BY DEF Inv, TypeOK
<1>4. CASE SendEnds
  <2>1. /\ Step.do = "send" /\ stack' = Rest
        /\ UNCHANGED <<state, armed, queue>>
    BY <1>4 DEF SendEnds, Doing, lobbyVars, ioVars
  <2>2. \A x \in members, f \in Range(stack) :
          Hears(f, x) => \E g \in Range(Rest) : Hears(g, x)
    BY <1>2, <2>1 DEF Hears
  <2> QED
    BY <1>1, <1>2, <1>3, <2>1, <2>2, CountdownKeepsInv
<1>5. CASE AfterLeaving
  <2> DEFINE follow == Then("parted", Step.id)
             parted == <<follow>> \o Rest
  <2>1. /\ Step.do = "left"
        /\ \/ CancelCountdown(FALSE, parted)
           \/ BeginCountdown(parted)
           \/ stack' = parted /\ UNCHANGED <<state, armed, queue>>
    BY <1>5 DEF AfterLeaving, Doing
  <2>2. Pushed(parted, follow, Rest) /\ follow \in Frames
    <3>1. Step.id \in Ids
      BY <1>2, <2>1, FrameFacts
    <3> QED
      BY <3>1 DEF Pushed, Then, Frames, Steps
  <2> HIDE DEF parted, follow
  <2>3. /\ parted \in Seq(Frames)
        /\ Range(parted) = {follow} \cup Range(Rest)
    BY <1>2, <2>2, PushedFacts
  <2>4. \A x \in members, f \in Range(stack) :
          Hears(f, x) => \E g \in Range(parted) : Hears(g, x)
    BY <1>2, <2>1, <2>3 DEF Hears
  <2> QED
    BY <1>1, <1>3, <2>1, <2>3, <2>4, CountdownKeepsInv
<1>7. CASE TellLeaving
  <2> DEFINE tell == <<Sending(members)>> \o Rest
  <2>1. /\ Step.do = "parted" /\ stack' = tell
        /\ UNCHANGED <<state, armed, queue>>
    BY <1>7 DEF TellLeaving, Doing, lobbyVars, ioVars
  <2>2. Pushed(tell, Sending(members), Rest) /\ Sending(members) \in Frames
    BY <1>3 DEF Pushed, Sending, Frames, Steps
  <2> HIDE DEF tell
  <2>3. /\ tell \in Seq(Frames)
        /\ Range(tell) = {Sending(members)} \cup Range(Rest)
    BY <1>2, <2>2, PushedFacts
  <2>4. \A x \in members, f \in Range(stack) :
          Hears(f, x) => \E g \in Range(tell) : Hears(g, x)
    BY <1>2, <2>1, <2>3 DEF Hears
  <2> QED
    BY <1>1, <1>3, <2>1, <2>3, <2>4, CountdownKeepsInv
<1>6. CASE AfterReady
  <2> DEFINE listen == <<Then("listen", Step.id)>> \o Rest
  <2>1. /\ Step.do = "readied"
        /\ \/ CancelCountdown(FALSE, listen)
           \/ BeginCountdown(listen)
           \/ stack' = listen /\ UNCHANGED <<state, armed, queue>>
    BY <1>6 DEF AfterReady, Doing
  <2>2. Step.id \in Ids
    BY <1>2, <2>1, FrameFacts
  <2>3. /\ Pushed(listen, Then("listen", Step.id), Rest)
        /\ Then("listen", Step.id) \in Frames
    BY <2>2 DEF Pushed, Then, Frames, Steps
  <2> HIDE DEF listen
  <2>4. /\ listen \in Seq(Frames)
        /\ Range(listen) = {Then("listen", Step.id)} \cup Range(Rest)
    BY <1>2, <2>3, PushedFacts
  <2>5. \A x : Hears(Step, x) => Hears(Then("listen", Step.id), x)
    BY <2>1 DEF Hears, Then
  <2>6. \A x \in members, f \in Range(stack) :
          Hears(f, x) => \E g \in Range(listen) : Hears(g, x)
    BY <1>2, <2>4, <2>5
  <2> QED
    BY <1>1, <1>3, <2>1, <2>4, <2>6, CountdownKeepsInv
<1> QED
  BY <1>4, <1>5, <1>6, <1>7

LEMMA JoiningKeepsInv ==
  ASSUME Inv, AfterJoining
  PROVE  Inv'
<1> DEFINE id == Step.id
           all == members \cup {id}
<1>1. /\ stack # <<>> /\ Step.do = "joined"
      /\ members' = all /\ master' = FirstOf(all)
      /\ PushedTwo(stack', Sending(all), Then("listen", id), Rest)
      /\ UNCHANGED <<state, ready, dead, listening, armed, queue, failed,
                     prepared, requests, losses, joins>>
  BY DEF AfterJoining, Doing, ioVars, bounds, PushedTwo
<1>2. /\ Step \in Frames /\ Rest \in Seq(Frames)
      /\ Range(stack) = {Step} \cup Range(Rest)
  BY <1>1, StepFacts DEF Inv
<1>3. id \in Ids /\ all \in SUBSET Ids
  BY <1>1, <1>2, FrameFacts DEF Inv, TypeOK
<1>4. /\ Sending(all) \in Frames /\ Then("listen", id) \in Frames
      /\ Hears(Then("listen", id), id)
  BY <1>3 DEF Sending, Then, Frames, Steps, Hears
<1>5. /\ stack' \in Seq(Frames)
      /\ Range(stack') = {Sending(all), Then("listen", id)} \cup Range(Rest)
  BY <1>1, <1>2, <1>4, PushedTwoFacts
<1> HIDE DEF all, id
<1>6. TypeOK'
  <2>1. master' \in Ids \cup {NoMaster}
    BY <1>1, <1>3, FirstIsId
  <2>2. members \subseteq all
    BY DEF all
  <2> QED
    BY <1>1, <1>3, <1>5, <2>1, <2>2 DEF Inv, TypeOK, Frames
<1>7. Leading'
  BY <1>1 DEF Leading
<1>8. Timing'
  BY <1>1, StillTicking DEF Inv
<1>9. Hearing'
  <2> SUFFICES ASSUME ~prepared, ~failed, NEW x \in all
               PROVE  \/ x \in listening
                      \/ \E d \in Range(queue) : Receives(d, x)
                      \/ \E f \in Range(stack') : Hears(f, x)
    BY <1>1 DEF Hearing, Receives, Hears
  <2>1. CASE x = id
    BY <1>4, <1>5, <2>1
  <2>2. CASE x # id
    <3>1. \/ x \in listening
          \/ \E d \in Range(queue) : Receives(d, x)
          \/ \E f \in Range(stack) : Hears(f, x)
      BY <2>2 DEF Inv, Hearing, all
    <3>2. ~Hears(Step, x)
      BY <1>1 DEF Hears
    <3> QED
      BY <1>2, <1>5, <3>1, <3>2
  <2> QED
    BY <2>1, <2>2
<1> QED
  BY <1>6, <1>7, <1>8, <1>9 DEF Inv

LEMMA ListenKeepsInv ==
  ASSUME Inv, Listen
  PROVE  Inv'
<1>1. stack # <<>> /\ Step.do = "listen"
  BY DEF Listen, Doing
<1>2. /\ Step \in Frames /\ Rest \in Seq(Frames)
      /\ Range(stack) = {Step} \cup Range(Rest)
  BY <1>1, StepFacts DEF Inv
<1>3. CASE Fail
  BY <1>1, <1>3, FailKeepsInv
<1>4. CASE ~Fail
  <2>1. /\ Step.id \in members
        /\ listening' = listening \cup {Step.id} /\ stack' = Rest
        /\ UNCHANGED <<state, members, ready, master, dead, armed, queue,
                       failed, prepared, requests, losses, joins>>
    BY <1>4 DEF Listen, lobbyVars, bounds
  <2>2. TypeOK'
    BY <1>2, <2>1 DEF Inv, TypeOK, Frames
  <2>3. Leading'
    BY <2>1 DEF Inv, Leading
  <2>4. Timing'
    BY <1>1, <2>1, StillTicking DEF Inv
  <2>5. Hearing'
    <3> SUFFICES ASSUME ~prepared, ~failed, NEW x \in members
                 PROVE  \/ x \in listening'
                        \/ \E d \in Range(queue) : Receives(d, x)
                        \/ \E f \in Range(Rest) : Hears(f, x)
      BY <2>1 DEF Hearing, Receives, Hears
    <3>1. \/ x \in listening
          \/ \E d \in Range(queue) : Receives(d, x)
          \/ \E f \in Range(stack) : Hears(f, x)
      BY DEF Inv, Hearing
    <3>2. Hears(Step, x) => x = Step.id
      BY DEF Hears
    <3> QED
      BY <1>2, <2>1, <3>1, <3>2
  <2> QED
    BY <2>2, <2>3, <2>4, <2>5 DEF Inv
<1> QED
  BY <1>3, <1>4

\* The receives that the end of a countdown aborts.
LEMMA AbortedReceives ==
  ASSUME TypeOK, NEW ids \in [1 .. Cardinality(listening) -> listening]
  PROVE  queue \o [ i \in DOMAIN ids |-> Received(ids[i], "aborted") ]
           \in Seq(Completions)
<1> DEFINE aborted == [ i \in DOMAIN ids |-> Received(ids[i], "aborted") ]
<1>1. listening \subseteq Ids /\ queue \in Seq(Completions)
  BY DEF TypeOK
<1>2. Cardinality(listening) \in Nat
  BY <1>1, FiniteAssumption, FS_Subset, FS_CardinalityType
<1>3. ASSUME NEW i \in 1 .. Cardinality(listening)
      PROVE  Received(ids[i], "aborted") \in Completions
  BY <1>1 DEF Received, Completions
<1>4. aborted \in Seq(Completions)
  <2>1. aborted \in [1 .. Cardinality(listening) -> Completions]
    BY <1>3
  <2> QED
    BY <1>2, <2>1
<1> HIDE DEF aborted
<1>5. queue \o aborted \in Seq(Completions)
  BY <1>1, <1>4
<1> QED
  BY <1>5 DEF aborted

LEMMA TimerKeepsInv ==
  ASSUME Inv, CountdownEnds \/ CountdownAborted
  PROVE  Inv'
<1>1. stack # <<>> /\ Step.do = "timer"
  BY DEF CountdownEnds, CountdownAborted, Doing
<1>2. /\ Step \in Frames /\ Rest \in Seq(Frames)
      /\ Range(stack) = {Step} \cup Range(Rest)
  BY <1>1, StepFacts DEF Inv
<1>3. CASE CountdownEnds
  <2>1. /\ state' = "Preparing" /\ prepared' = TRUE /\ listening' = {}
        /\ stack' = Rest
        /\ UNCHANGED <<members, ready, master, dead, armed, failed, requests,
                       losses, joins>>
    BY <1>3 DEF CountdownEnds, bounds
  <2>2. queue' \in Seq(Completions)
    BY <1>3, AbortedReceives DEF CountdownEnds, Inv
  <2>3. TypeOK'
    BY <1>2, <2>1, <2>2 DEF Inv, TypeOK, Frames
  <2>4. Leading' /\ Timing' /\ Hearing'
    BY <2>1 DEF Inv, Leading, Timing, Hearing
  <2> QED
    BY <2>3, <2>4 DEF Inv
<1>4. CASE CountdownAborted
  <2>1. /\ UNCHANGED <<members, ready, master, dead, listening, failed,
                       prepared, bounds>>
        /\ \/ CancelCountdown(TRUE, Rest)
           \/ /\ stack' = Rest /\ UNCHANGED <<state, armed, queue>>
              /\ state = "Open"
    BY <1>4 DEF CountdownAborted
  <2>2. \A x \in members, f \in Range(stack) :
          Hears(f, x) => \E g \in Range(Rest) : Hears(g, x)
    BY <1>1, <1>2 DEF Hears
  <2>3. ready \subseteq members /\ ready' = ready
    BY <2>1 DEF Inv, TypeOK
  <2> QED
    BY <1>1, <1>2, <2>1, <2>2, <2>3, CountdownKeepsInv
<1> QED
  BY <1>3, <1>4

LEMMA JoinRequestKeepsInv ==
  ASSUME Inv, HandleJoin
  PROVE  Inv'
<1>1. /\ stack # <<>> /\ Step.do = "join"
      /\ UNCHANGED <<state, members, ready, master, dead, listening, armed,
                     queue, failed, prepared, bounds>>
      /\ \/ stack' = Rest
         \/ PushedTwo(stack', Sending(members), Then("joined", Step.id), Rest)
  BY DEF HandleJoin, Doing, lobbyVars, ioVars, PushedTwo
<1>2. /\ Step \in Frames /\ Rest \in Seq(Frames)
      /\ Range(stack) = {Step} \cup Range(Rest)
  BY <1>1, StepFacts DEF Inv
<1>3. stack' \in Seq(Frames) /\ Range(Rest) \subseteq Range(stack')
  <2>1. members \in SUBSET Ids /\ Step.id \in Ids
    BY <1>1, <1>2, FrameFacts DEF Inv, TypeOK
  <2>2. Sending(members) \in Frames /\ Then("joined", Step.id) \in Frames
    BY <2>1 DEF Sending, Then, Frames, Steps
  <2> QED
    BY <1>1, <1>2, <2>2, PushedTwoFacts
<1>4. \A x \in members, f \in Range(stack) :
        Hears(f, x) => \E g \in Range(stack') : Hears(g, x)
  BY <1>1, <1>2, <1>3 DEF Hears
<1>5. ready' \subseteq members
  BY <1>1 DEF Inv, TypeOK
<1> QED
  BY <1>1, <1>3, <1>4, <1>5, CountdownKeepsInv

LEMMA MemberRequestKeepsInv ==
  ASSUME Inv,
         \/ IgnoreAborted \/ HandleUnknown \/ HandleLoss \/ HandleLeave
         \/ HandleReady
  PROVE  Inv'
<1>1. stack # <<>> /\ Step.do = "receive"
  BY DEF IgnoreAborted, HandleUnknown, HandleLoss, HandleLeave, HandleReady,
         Doing
<1>2. /\ Step \in Frames /\ Rest \in Seq(Frames)
      /\ Range(stack) = {Step} \cup Range(Rest)
  BY <1>1, StepFacts DEF Inv
<1>3. Step.id \in Ids /\ members \in SUBSET Ids /\ ready \subseteq members
  BY <1>1, <1>2, FrameFacts DEF Inv, TypeOK
<1>4. \A x : Hears(Step, x) => x = Step.id
  BY DEF Hears
<1>5. CASE IgnoreAborted
  <2>1. /\ state = "Preparing" /\ stack' = Rest
        /\ UNCHANGED <<state, members, ready, master, dead, listening, armed,
                       queue, failed, prepared, bounds>>
    BY <1>5 DEF IgnoreAborted, lobbyVars, ioVars
  <2>2. prepared
    BY <2>1 DEF Inv, Timing
  <2> QED
    BY <1>1, <1>2, <1>3, <2>1, <2>2, CountdownKeepsInv
<1>6. CASE Fail
  BY <1>1, <1>6, FailKeepsInv
<1>7. CASE Step.id \in members /\ Disconnect(Step.id, Rest)
  <2>1. \A x \in members \ {Step.id}, f \in Range(stack) :
          Hears(f, x) => \E g \in Range(Rest) : Hears(g, x)
    BY <1>2, <1>4
  <2> QED
    BY <1>1, <1>2, <1>7, <2>1, DisconnectKeepsInv
<1>8. CASE HandleReady
  <2>1. /\ Step.id \in members /\ ready' = SymDiff(ready, {Step.id})
        /\ PushedTwo(stack', Sending(members), Then("readied", Step.id), Rest)
        /\ UNCHANGED <<state, members, master, dead, listening, armed, queue,
                       failed, prepared, bounds>>
    BY <1>8 DEF HandleReady, lobbyVars, ioVars, PushedTwo
  <2>2. /\ Sending(members) \in Frames /\ Then("readied", Step.id) \in Frames
        /\ \A x : Hears(Step, x) => Hears(Then("readied", Step.id), x)
    BY <1>3 DEF Sending, Then, Frames, Steps, Hears
  <2>3. /\ stack' \in Seq(Frames)
        /\ Range(stack') = {Sending(members), Then("readied", Step.id)}
                             \cup Range(Rest)
    BY <1>2, <2>1, <2>2, PushedTwoFacts
  <2>4. \A x \in members, f \in Range(stack) :
          Hears(f, x) => \E g \in Range(stack') : Hears(g, x)
    BY <1>2, <2>2, <2>3
  <2>5. ready' \subseteq members
    BY <1>3, <2>1 DEF SymDiff
  <2> QED
    BY <1>1, <2>1, <2>3, <2>4, <2>5, CountdownKeepsInv
<1> QED
  BY <1>5, <1>6, <1>7, <1>8 DEF HandleUnknown, HandleLoss, HandleLeave

LEMMA InvInductive == Inv /\ [Next]_vars => Inv'
<1> SUFFICES ASSUME Inv, [Next]_vars
             PROVE  Inv'
  OBVIOUS
<1>1. CASE UNCHANGED vars
  <2>1. UNCHANGED <<state, members, ready, master, dead, listening, armed,
                    queue, stack, failed, prepared, requests, losses, joins>>
    BY <1>1 DEF vars, lobbyVars, ioVars, bounds
  <2> QED
    BY <2>1 DEF Inv, TypeOK, Leading, Timing, Ticking, Step, Hearing,
                Receives, Hears
<1>2. CASE Take
  BY <1>2, TakeKeepsInv
<1>3. CASE Handler
  BY <1>3, TimerKeepsInv, JoinRequestKeepsInv, MemberRequestKeepsInv
     DEF Handler
<1>4. CASE Call
  BY <1>4, SendKeepsInv, CallKeepsInv, JoiningKeepsInv, ListenKeepsInv
     DEF Call
<1>5. CASE Network \/ Expire
  BY <1>5, NetworkKeepsInv
<1> QED
  BY <1>1, <1>2, <1>3, <1>4, <1>5 DEF Next, EventsLoop, Stopped

LEMMA InitInv == Init => Inv
<1> SUFFICES ASSUME Init
             PROVE  Inv
  OBVIOUS
<1>1. master \in Ids \cup {NoMaster}
  BY FirstIsId DEF Init
<1>2. TypeOK
  <2>1. queue \in Seq(Completions) /\ stack \in Seq(Steps \cup Completions)
    BY DEF Init
  <2>2. /\ requests \in 0 .. MaxRequests /\ losses \in 0 .. MaxLosses
        /\ joins \in 0 .. MaxJoins
    BY BoundsAssumption DEF Init
  <2> QED
    BY <1>1, <2>1, <2>2 DEF Init, TypeOK
<1>3. Leading /\ Timing /\ Hearing
  BY DEF Init, Leading, Timing, Hearing
<1> QED
  BY <1>2, <1>3 DEF Inv

\* The inductive invariant holds in every state of the lobby, for any finite
\* set of ids and any bounds, whatever breaks and in whatever order the
\* completions run.
THEOREM LobbyInvariant == Spec => []Inv
<1> QED
  BY InitInv, InvInductive, PTL DEF Spec

-----------------------------------------------------------------------------
(* What the runs check.                                                    *)

\* The lobby's state, its pending operations and its calls in progress stay of
\* their types.
THEOREM TypesOK == Spec => []TypeOK
<1>1. Inv => TypeOK
  BY DEF Inv
<1> QED
  BY LobbyInvariant, <1>1, PTL

\* The master of the lobby is the member with the smallest id, and there is one
\* as long as there are members, however they come, fail and leave
\* (Lobby::registerMember, Lobby::disconnect).
THEOREM MasterAlwaysFirst == Spec => []MasterIsFirst
<1>1. Inv => MasterIsFirst
  BY DEF Inv, Leading, MasterIsFirst
<1> QED
  BY LobbyInvariant, <1>1, PTL

\* Whatever opens, aborts or restarts the countdown while another handler of it
\* is already queued, a lobby that is starting has exactly one countdown that
\* can still end it (Lobby::beginCountdown, Lobby::cancelCountdown).
THEOREM CountdownAlwaysTimed == Spec => []CountdownHasTimer
<1>1. Inv => CountdownHasTimer
  BY DEF Inv, Timing, Ticking, CountdownHasTimer, Gathering, AtRest, Queued,
         Range
<1> QED
  BY LobbyInvariant, <1>1, PTL

\* No member is left whom the lobby does not listen to: every early return of a
\* handler, and every failure of a broadcast within one, either listens again
\* or removes the member (Lobby::listenMember, Lobby::handleMemberRequest).
THEOREM MembersAlwaysHeard == Spec => []MembersHeard
<1>1. Inv => MembersHeard
  <2> SUFFICES ASSUME Inv, Gathering, NEW id \in members
               PROVE  id \in listening \/ Queued({ c \in Completions :
                                                    Receives(c, id) })
    BY DEF MembersHeard, Receives
  <2>1. id \in listening \/ \E c \in Range(queue) : Receives(c, id)
    BY EmptyRange DEF Inv, Hearing, Gathering, AtRest
  <2>2. Range(queue) \subseteq Completions
    BY RangeInSet DEF Inv, TypeOK
  <2> QED
    BY <2>1, <2>2 DEF Queued, Range
<1> QED
  BY LobbyInvariant, <1>1, PTL

-----------------------------------------------------------------------------
(* As long as no connection breaks, handlers are not nested in one another  *)
(* and no exception leaves them.                                           *)

\* Each member's receive is pending or completed, not both, and only once.
Once ==
  /\ listening \subseteq members
  /\ \A i \in 1 .. Len(queue) :
       queue[i].do = "receive" => queue[i].id \in members \ listening
  /\ \A i, j \in 1 .. Len(queue) :
       queue[i].do = "receive" /\ Receives(queue[j], queue[i].id) => i = j

\* Above the last thing a handler has to do there are only sends.
Alone(s) == \A i \in 1 .. Len(s) - 1 : s[i].do = "send"

InOrder(f) ==
  /\ f.do = "send" => f.ids \subseteq members
  /\ f.do = "joined" => f.id \notin members /\ state # "Starting"
  /\ f.do \in {"receive", "readied", "listen"} =>
       /\ f.id \in members \ listening
       /\ \A c \in Range(queue) : ~Receives(c, f.id)

\* A countdown goes with the readiness of all, until somebody changed it and
\* the handler has not come to the countdown yet.
Counting ==
  /\ armed => state = "Starting"
  /\ \A f \in Range(stack) :
       /\ f.do = "readied" /\ state = "Starting" =>
            members \ {f.id} \subseteq ready
       /\ f.do = "left" /\ state = "Starting" => ready = members
  /\ (\A f \in Range(stack) : f.do \notin {"readied", "left"}) =>
       (state = "Starting" <=> members # {} /\ allMembersReady)

\* A member who is not ready and whose next request the loop does not come to
\* before the j-th completion: until then there is no countdown.
Waiting(x) == x \in members \ ready /\ \A f \in Range(stack) : ~Receives(f, x)
Unready(x, j) ==
  Waiting(x) /\ \A i \in 1 .. j - 1 : ~Receives(queue[i], x)

\* The end of an aborted wait comes when the countdown is already cancelled,
\* and so it does not cancel a later one.
Canceled ==
  /\ TimerDone("aborted") \in Range(stack) => state = "Open"
  /\ \A j \in 1 .. Len(queue) :
       queue[j] = TimerDone("aborted") =>
         state = "Open" /\ (members = {} \/ \E x \in members : Unready(x, j))

Calm ==
  /\ dead = {} /\ ~failed
  /\ Once /\ Alone(stack)
  /\ \A f \in Range(stack) : InOrder(f)
  /\ ~prepared => Counting /\ Canceled

Quiet == losses = 0 => Calm

-----------------------------------------------------------------------------
(* Lemmas about Calm.                                                      *)

LEMMA AppendFacts ==
  ASSUME NEW S, NEW s \in Seq(S), NEW c \in S
  PROVE  /\ Len(s) \in Nat /\ Len(Append(s, c)) = Len(s) + 1
         /\ \A i \in 1 .. Len(s) : Append(s, c)[i] = s[i]
         /\ Append(s, c)[Len(s) + 1] = c
  OBVIOUS

LEMMA Joined ==
  ASSUME NEW S, NEW s \in Seq(S), NEW t \in Seq(S)
  PROVE  /\ Len(s \o t) = Len(s) + Len(t)
         /\ \A i \in 1 .. Len(s) : (s \o t)[i] = s[i]
         /\ \A i \in Len(s) + 1 .. Len(s) + Len(t) :
              (s \o t)[i] = t[i - Len(s)]
  OBVIOUS

LEMMA RangeByIndex ==
  ASSUME NEW S, NEW s \in Seq(S)
  PROVE  Range(s) = { s[i] : i \in 1 .. Len(s) }
  BY DEF Range

\* What a step before the others does to Alone, and what taking it off does.
LEMMA AlonePushed ==
  ASSUME NEW f \in Frames, NEW s \in Seq(Frames), NEW t, Pushed(t, f, s),
         f.do = "send", Alone(s)
  PROVE  Alone(t)
<1>1. /\ Len(<<f>> \o s) = Len(s) + 1 /\ Len(s) \in Nat
      /\ (<<f>> \o s)[1] = f
      /\ \A i \in 2 .. Len(s) + 1 : (<<f>> \o s)[i] = s[i - 1]
  OBVIOUS
<1>2. /\ Len(t) = Len(s) + 1 /\ t[1] = f
      /\ \A i \in 2 .. Len(s) + 1 : t[i] = s[i - 1]
  BY <1>1 DEF Pushed
<1> SUFFICES ASSUME NEW i \in 1 .. Len(t) - 1
             PROVE  t[i].do = "send"
  BY DEF Alone
<1>3. CASE i = 1
  BY <1>2, <1>3
<1>4. CASE i # 1
  <2>1. i \in 2 .. Len(s) + 1 /\ i - 1 \in 1 .. Len(s) - 1
    BY <1>1, <1>2, <1>4
  <2> QED
    BY <1>2, <2>1 DEF Alone
<1> QED
  BY <1>3, <1>4

LEMMA AloneOne ==
  ASSUME NEW f \in Frames, NEW s \in Seq(Frames), s = <<>>, NEW t,
         Pushed(t, f, s)
  PROVE  Alone(t) /\ Range(t) = {f} /\ t \in Seq(Frames)
<1>1. <<f>> \o <<>> = <<f>>
  OBVIOUS
<1>2. Alone(<<f>>) /\ Range(<<f>>) = {f} /\ <<f>> \in Seq(Frames)
  BY DEF Alone, Range
<1> QED
  BY <1>1, <1>2 DEF Pushed

LEMMA AloneTwo ==
  ASSUME NEW f \in Frames, NEW g \in Frames, NEW s \in Seq(Frames), s = <<>>,
         NEW t, PushedTwo(t, f, g, s), f.do = "send"
  PROVE  Alone(t) /\ Range(t) = {f} \cup {g} /\ t \in Seq(Frames)
<1>1. PICK u \in Seq(Frames) : Pushed(u, g, s) /\ Pushed(t, f, u)
  BY PushedTwoFacts
<1>2. Alone(u) /\ Range(u) = {g}
  BY <1>1, AloneOne
<1> QED
  BY <1>1, <1>2, PushedFacts, AlonePushed

LEMMA AlonePopped ==
  ASSUME NEW s \in Seq(Frames), s # <<>>, Alone(s)
  PROVE  Alone(Tail(s)) /\ (Head(s).do # "send" => Tail(s) = <<>>)
<1>1. /\ Len(s) \in Nat \ {0} /\ Tail(s) \in Seq(Frames)
      /\ Len(Tail(s)) = Len(s) - 1 /\ Head(s) = s[1]
      /\ \A i \in 1 .. Len(s) - 1 : Tail(s)[i] = s[i + 1]
  OBVIOUS
<1>2. Alone(Tail(s))
  BY <1>1 DEF Alone
<1>3. Head(s).do # "send" => Len(s) = 1
  BY <1>1 DEF Alone
<1> QED
  BY <1>1, <1>2, <1>3

LEMMA CalmStep ==
  ASSUME Inv, Calm, stack # <<>>
  PROVE  /\ Step \in Frames /\ Rest \in Seq(Frames)
         /\ Range(stack) = {Step} \cup Range(Rest)
         /\ Alone(Rest) /\ InOrder(Step)
         /\ Step.do # "send" => Rest = <<>> /\ Range(stack) = {Step}
<1>1. /\ Step \in Frames /\ Rest \in Seq(Frames)
      /\ Range(stack) = {Step} \cup Range(Rest)
  BY StepFacts DEF Inv
<1>2. stack \in Seq(Frames)
  BY DEF Inv, TypeOK, Frames
<1>3. Alone(Rest) /\ (Step.do # "send" => Rest = <<>>)
  BY <1>2, AlonePopped DEF Calm, Step, Rest
<1> QED
  BY <1>1, <1>3, EmptyRange DEF Calm

\* A completion that is not a receive changes nothing for Once.
LEMMA OnceKept ==
  ASSUME Once, queue \in Seq(Completions), UNCHANGED <<members, listening>>,
         NEW c \in Completions, c.do # "receive",
         queue' = queue \/ queue' = Append(queue, c)
  PROVE  /\ Once'
         /\ \A id : \A d \in Range(queue') :
              Receives(d, id) => d \in Range(queue)
<1>1. CASE queue' = queue
  BY <1>1 DEF Once, Receives
<1>2. CASE queue' = Append(queue, c)
  <2>1. /\ Len(queue) \in Nat /\ Len(queue') = Len(queue) + 1
        /\ \A i \in 1 .. Len(queue) : queue'[i] = queue[i]
        /\ queue'[Len(queue) + 1] = c
        /\ Range(queue') = Range(queue) \cup {c}
    BY <1>2, AppendFacts, Enqueue
  <2>2. \A i \in 1 .. Len(queue') :
          i \in 1 .. Len(queue) \/ queue'[i].do # "receive"
    BY <2>1
  <2>3. \A i, j \in 1 .. Len(queue') :
          queue'[i].do = "receive" /\ Receives(queue'[j], queue'[i].id)
            => i = j
    BY <2>1, <2>2 DEF Once, Receives
  <2>4. \A i \in 1 .. Len(queue') :
          queue'[i].do = "receive" => queue'[i].id \in members \ listening
    BY <2>1, <2>2 DEF Once
  <2> QED
    BY <2>1, <2>3, <2>4 DEF Once, Receives
<1> QED
  BY <1>1, <1>2

LEMMA InOrderKept ==
  ASSUME NEW f, InOrder(f), UNCHANGED <<members, listening>>,
         state' = "Starting" => state = "Starting" \/ f.do # "joined",
         \A id : \A d \in Range(queue') : Receives(d, id) => d \in Range(queue)
  PROVE  InOrder(f)'
  BY DEF InOrder, Receives

\* Nothing about the aborted waits changes when those who wait go on.
LEMMA CanceledKept ==
  ASSUME Canceled, UNCHANGED <<state, queue>>,
         TimerDone("aborted") \in Range(stack') =>
           TimerDone("aborted") \in Range(stack),
         members = {} => members' = {},
         \A x : Waiting(x) => Waiting(x)'
  PROVE  Canceled'
<1>1. \A x, j : Unready(x, j) => Unready(x, j)'
  BY DEF Unready, Receives
<1>2. \A x, j : Unready(x, j)' => x \in members'
  BY DEF Unready, Waiting
<1> SUFFICES ASSUME NEW j \in 1 .. Len(queue),
                    queue[j] = TimerDone("aborted")
             PROVE  /\ state = "Open"
                    /\ members' = {} \/ \E x \in members' : Unready(x, j)'
  BY DEF Canceled, TimerDone
<1>3. state = "Open" /\ (members = {} \/ \E x \in members : Unready(x, j))
  BY DEF Canceled
<1> QED
  BY <1>1, <1>2, <1>3

\* No wait was aborted while a countdown is on, or must begin.
LEMMA NothingCanceled ==
  ASSUME Canceled, \/ state # "Open"
                   \/ members # {} /\ allMembersReady
  PROVE  \A j \in 1 .. Len(queue) : queue[j] # TimerDone("aborted")
<1>1. \A x, j : ~(allMembersReady /\ Unready(x, j))
  BY DEF Unready, Waiting, allMembersReady
<1> QED
  BY <1>1 DEF Canceled

-----------------------------------------------------------------------------
(* Calm, step by step, when no connection has broken.                      *)

\* A step of the handler that leaves members and their receives as they are.
LEMMA CalmKept ==
  ASSUME Inv, Calm,
         UNCHANGED <<members, listening, dead, failed, prepared>>,
         \/ queue' = queue
         \/ queue' = Append(queue, TimerDone("aborted")),
         Alone(stack'),
         \A f \in Range(stack') :
           \/ f.do = "send" /\ f.ids \subseteq members
           \/ f \in Range(stack)
                /\ (state' = "Starting" => state = "Starting"
                                             \/ f.do # "joined")
           \/ InOrder(f) /\ f.do # "joined"
           \/ f.do \in {"left", "parted", "timer", "join"}
           \/ f.do = "joined" /\ f.id \notin members /\ state' # "Starting",
         ~prepared => Counting' /\ Canceled'
  PROVE  Calm'
<1>1. /\ TimerDone("aborted") \in Completions
      /\ TimerDone("aborted").do # "receive"
  BY DEF TimerDone, Completions
<1>2. /\ Once'
      /\ \A id : \A d \in Range(queue') : Receives(d, id) => d \in Range(queue)
  BY <1>1, OnceKept DEF Inv, TypeOK, Calm
<1>3. ASSUME NEW f \in Range(stack')
      PROVE  InOrder(f)'
  <2>1. CASE f.do \in {"send", "left", "parted", "timer", "join"}
    <3>1. f.do = "send" => f.ids \subseteq members
      BY <2>1 DEF Calm, InOrder
    <3> QED
      BY <2>1, <3>1 DEF InOrder
  <2>2. CASE f.do = "joined"
    <3>1. f.id \notin members /\ state' # "Starting"
      BY <2>2 DEF Calm, InOrder
    <3> QED
      BY <2>2, <3>1 DEF InOrder
  <2>3. CASE f.do \notin {"send", "left", "parted", "timer", "join",
                          "joined"}
    <3>1. InOrder(f)
      BY <2>3 DEF Calm
    <3> QED
      BY <1>2, <2>3, <3>1, InOrderKept
  <2> QED
    BY <2>1, <2>2, <2>3
<1> QED
  BY <1>2, <1>3 DEF Calm

\* A step that only goes on, perhaps with a loop of sends.
LEMMA GoingOnIsCalm ==
  ASSUME Inv, Calm, stack # <<>>, Step.do \notin {"left", "readied"},
         UNCHANGED <<state, members, ready, dead, listening, armed, queue,
                     failed, prepared>>,
         \/ stack' = Rest
         \/ \E ids \in SUBSET members : Pushed(stack', Sending(ids), Rest)
  PROVE  Calm'
<1>1. /\ Step \in Frames /\ Rest \in Seq(Frames)
      /\ Range(stack) = {Step} \cup Range(Rest) /\ Alone(Rest)
  BY CalmStep
<1>2. /\ Alone(stack')
      /\ Range(Rest) \subseteq Range(stack')
      /\ \A f \in Range(stack') :
           f \in Range(Rest) \/ (f.do = "send" /\ f.ids \subseteq members)
  <2>1. CASE stack' = Rest
    BY <1>1, <2>1
  <2>2. ASSUME NEW ids \in SUBSET members, Pushed(stack', Sending(ids), Rest)
        PROVE  /\ Alone(stack')
               /\ Range(stack') = {Sending(ids)} \cup Range(Rest)
    <3>1. /\ Sending(ids) \in Frames /\ Sending(ids).do = "send"
      BY DEF Inv, TypeOK, Sending, Frames, Steps
    <3> QED
      BY <1>1, <2>2, <3>1, AlonePushed, PushedFacts
  <2>3. \A ids : Sending(ids).do = "send" /\ Sending(ids).ids = ids
    BY DEF Sending
  <2> QED
    BY <2>1, <2>2, <2>3
<1>3. \A f \in Range(stack') : f \in Range(stack) \/ f.do = "send"
  BY <1>1, <1>2
<1>4. ASSUME ~prepared
      PROVE  Counting' /\ Canceled'
  <2>1. Counting /\ Canceled
    BY <1>4 DEF Calm
  <2>2. Counting'
    <3>1. (\A f \in Range(stack') : f.do \notin {"readied", "left"}) =>
            \A f \in Range(stack) : f.do \notin {"readied", "left"}
      BY <1>1, <1>2
    <3> QED
      BY <1>3, <2>1, <3>1 DEF Counting, allMembersReady
  <2>3. TimerDone("aborted") \in Range(stack') =>
          TimerDone("aborted") \in Range(stack)
    BY <1>3 DEF TimerDone
  <2>4. \A x : Waiting(x) => Waiting(x)'
    BY <1>3 DEF Waiting, Receives
  <2> QED
    BY <2>1, <2>2, <2>3, <2>4, CanceledKept
<1>5. \A f \in Range(stack') :
        \/ f.do = "send" /\ f.ids \subseteq members
        \/ f \in Range(stack)
             /\ (state' = "Starting" => state = "Starting" \/ f.do # "joined")
  BY <1>1, <1>2
<1> QED
  BY <1>2, <1>4, <1>5, CalmKept

\* The departure is told to those who are members by now.
LEMMA CalmTold ==
  ASSUME Inv, Calm, TellLeaving
  PROVE  Calm'
<1>1. /\ stack # <<>> /\ Step.do = "parted"
      /\ Pushed(stack', Sending(members), Rest)
      /\ UNCHANGED <<state, members, ready, dead, listening, armed, queue,
                     failed, prepared>>
  BY DEF TellLeaving, Doing, lobbyVars, ioVars, Pushed
<1> QED
  BY <1>1, GoingOnIsCalm

\* What the loop of sends is told does not happen.
LEMMA CalmSend ==
  ASSUME Inv, Calm, Send \/ SendEnds
  PROVE  Calm'
<1>1. stack # <<>> /\ Step.do = "send"
  BY DEF Send, SendEnds, Doing
<1>2. Step.ids \subseteq members
  BY <1>1, CalmStep DEF InOrder
<1>3. CASE SendEnds
  BY <1>1, <1>3, GoingOnIsCalm DEF SendEnds, lobbyVars, ioVars
<1>4. CASE Send
  <2>1. PICK id : /\ id = Min(Step.ids) /\ Step.ids # {}
                  /\ LET advanced == <<Sending(Step.ids \ {id})>> \o Rest
                     IN  \/ id \notin members /\ Fail
                         \/ /\ id \in members
                            /\ stack' = advanced
                            /\ UNCHANGED <<lobbyVars, dead, ioVars, failed,
                                           prepared, bounds>>
                         \/ id \in dead /\ Disconnect(id, advanced)
    BY <1>4 DEF Send
  <2>2. id \in Step.ids
    <3>1. Step.ids \in SUBSET Nat
      BY <1>2, IdsAssumption DEF Inv, TypeOK
    <3> QED
      BY <2>1, <3>1, IdsAssumption, Shared!LeastOfNat DEF Min, Shared!Min
  <2>3. id \in members /\ id \notin dead
    BY <1>2, <2>2 DEF Calm
  <2>4. /\ Pushed(stack', Sending(Step.ids \ {id}), Rest)
        /\ UNCHANGED <<state, members, ready, dead, listening, armed, queue,
                       failed, prepared>>
    BY <2>1, <2>3 DEF Pushed, lobbyVars, ioVars
  <2> QED
    BY <1>1, <1>2, <2>4, GoingOnIsCalm
<1> QED
  BY <1>3, <1>4

\* A wait that was aborted finds the countdown cancelled.
LEMMA CalmAborted ==
  ASSUME Inv, Calm, CountdownAborted \/ IgnoreAborted
  PROVE  Calm'
<1>1. stack # <<>> /\ Step.do \in {"timer", "receive"}
  BY DEF CountdownAborted, IgnoreAborted, Doing
<1>2. /\ Step \in Frames /\ Rest \in Seq(Frames) /\ Rest = <<>>
      /\ Range(stack) = {Step}
  BY <1>1, CalmStep
<1>3. CASE /\ stack' = Rest
           /\ UNCHANGED <<state, members, ready, dead, listening, armed,
                          queue, failed, prepared>>
  BY <1>1, <1>3, GoingOnIsCalm
<1>4. CASE /\ CountdownAborted
           /\ state # "Open"
  <2>1. /\ Step = TimerDone("aborted")
        /\ CancelCountdown(TRUE, Rest)
        /\ UNCHANGED <<members, ready, dead, listening, failed, prepared>>
    BY <1>2, <1>4, FrameFacts DEF CountdownAborted, Doing
  <2>2. prepared
    BY <1>2, <1>4, <2>1 DEF Calm, Canceled
  <2>3. queue' = queue /\ Pushed(stack', Sending(members), Rest)
    BY <2>1 DEF CancelCountdown, Pushed
  <2>4. Sending(members) \in Frames /\ Sending(members).do = "send"
    BY DEF Inv, TypeOK, Sending, Frames, Steps
  <2>5. Alone(stack') /\ Range(stack') = {Sending(members)}
    BY <1>2, <2>3, <2>4, AloneOne
  <2>6. Sending(members).ids = members
    BY DEF Sending
  <2> QED
    BY <2>1, <2>2, <2>3, <2>4, <2>5, <2>6, CalmKept
<1>5. CASE IgnoreAborted
  BY <1>3, <1>5 DEF IgnoreAborted, lobbyVars, ioVars
<1>6. CASE CountdownAborted /\ state = "Open"
  BY <1>3, <1>6 DEF CountdownAborted
<1> QED
  BY <1>4, <1>5, <1>6

LEMMA CalmJoinRequest ==
  ASSUME Inv, Calm, HandleJoin
  PROVE  Calm'
<1>1. /\ stack # <<>> /\ Step.do = "join"
      /\ UNCHANGED <<state, members, ready, dead, listening, armed, queue,
                     failed, prepared>>
  BY DEF HandleJoin, Doing, lobbyVars, ioVars
<1>2. /\ Step \in Frames /\ Rest \in Seq(Frames) /\ Rest = <<>>
      /\ Range(stack) = {Step}
  BY <1>1, CalmStep
<1>3. CASE stack' = Rest
  BY <1>1, <1>3, GoingOnIsCalm
<1>4. CASE stack' # Rest
  <2> DEFINE tell == Sending(members)
             insert == Then("joined", Step.id)
  <2>1. /\ state # "Starting" /\ Step.id \notin members
        /\ PushedTwo(stack', tell, insert, Rest)
    BY <1>4 DEF HandleJoin, PushedTwo
  <2>2. /\ tell \in Frames /\ tell.do = "send" /\ tell.ids = members
        /\ insert \in Frames /\ insert.do = "joined" /\ insert.id = Step.id
    <3>1. members \in SUBSET Ids /\ Step.id \in Ids
      BY <1>1, <1>2, FrameFacts DEF Inv, TypeOK
    <3> QED
      BY <3>1 DEF Sending, Then, Frames, Steps
  <2> HIDE DEF tell, insert
  <2>3. Alone(stack') /\ Range(stack') = {tell} \cup {insert}
    BY <1>2, <2>1, <2>2, AloneTwo
  <2>4. ASSUME ~prepared
        PROVE  Counting' /\ Canceled'
    <3>1. Counting /\ Canceled
      BY <2>4 DEF Calm
    <3>2. \A f \in Range(stack) : f.do \notin {"readied", "left"}
      BY <1>1, <1>2
    <3>3. Counting'
      BY <1>1, <2>2, <2>3, <3>1, <3>2 DEF Counting, allMembersReady
    <3>4. TimerDone("aborted") \notin Range(stack')
      BY <2>2, <2>3 DEF TimerDone
    <3>5. \A x : Waiting(x) => Waiting(x)'
      BY <1>1, <2>2, <2>3 DEF Waiting, Receives
    <3> QED
      BY <1>1, <3>1, <3>3, <3>4, <3>5, CanceledKept
  <2> QED
    BY <1>1, <2>1, <2>2, <2>3, <2>4, CalmKept
<1> QED
  BY <1>3, <1>4

\* A member changes its readiness: it is the one member to be reconsidered.
LEMMA CalmReady ==
  ASSUME Inv, Calm, HandleReady
  PROVE  Calm'
<1> DEFINE id == Step.id
           tell == Sending(members)
           follow == Then("readied", id)
<1>1. /\ stack # <<>> /\ Step.do = "receive" /\ id \in members
      /\ ready' = SymDiff(ready, {id})
      /\ PushedTwo(stack', tell, follow, Rest)
      /\ UNCHANGED <<state, members, dead, listening, armed, queue, failed,
                     prepared>>
  BY DEF HandleReady, Doing, ioVars, PushedTwo
<1>2. /\ Step \in Frames /\ Rest \in Seq(Frames) /\ Rest = <<>>
      /\ Range(stack) = {Step} /\ InOrder(Step)
  BY <1>1, CalmStep
<1>3. /\ tell \in Frames /\ tell.do = "send" /\ tell.ids = members
      /\ follow \in Frames /\ follow.do = "readied" /\ follow.id = id
  <2>1. members \in SUBSET Ids /\ id \in Ids
    BY <1>1 DEF Inv, TypeOK
  <2> QED
    BY <2>1 DEF Sending, Then, Frames, Steps
<1>4. /\ Receives(Step, id)
      /\ \A x \in members \ {id} : x \in ready <=> x \in ready'
  BY <1>1 DEF Receives, SymDiff
<1> HIDE DEF tell, follow, id
<1>5. Alone(stack') /\ Range(stack') = {tell} \cup {follow}
  BY <1>2, <1>1, <1>3, AloneTwo
<1>6. InOrder(follow)
  BY <1>1, <1>2, <1>3 DEF InOrder, id
<1>7. ASSUME ~prepared
      PROVE  Counting' /\ Canceled'
  <2>1. Counting /\ Canceled
    BY <1>7 DEF Calm
  <2>2. state = "Starting" => ready = members
    <3>1. \A f \in Range(stack) : f.do \notin {"readied", "left"}
      BY <1>1, <1>2
    <3> QED
      BY <2>1, <3>1 DEF Counting, allMembersReady
  <2>3. Counting'
    <3>1. state = "Starting" => members \ {id} \subseteq ready'
      BY <1>4, <2>2
    <3> QED
      BY <1>1, <1>3, <1>5, <2>1, <3>1 DEF Counting
  <2>4. TimerDone("aborted") \notin Range(stack')
    BY <1>3, <1>5 DEF TimerDone
  <2>5. \A x : Waiting(x) => Waiting(x)'
    <3>1. \A x : Waiting(x) => x \in members \ {id} /\ x \notin ready
      BY <1>2, <1>4 DEF Waiting
    <3>2. \A x : \A f \in Range(stack') : ~Receives(f, x)
      BY <1>3, <1>5 DEF Receives
    <3> QED
      BY <1>1, <1>4, <3>1, <3>2 DEF Waiting
  <2> QED
    BY <1>1, <2>1, <2>3, <2>4, <2>5, CanceledKept
<1> QED
  BY <1>1, <1>3, <1>5, <1>6, <1>7, CalmKept

\* The countdown follows the members left.
LEMMA CalmLeft ==
  ASSUME Inv, Calm, AfterLeaving
  PROVE  Calm'
<1>0. PICK id : id = Step.id
  OBVIOUS
<1> DEFINE send == Sending(members)
           follow == Then("parted", id)
           parted == <<follow>> \o Rest
<1>1. /\ stack # <<>> /\ Step.do = "left"
      /\ UNCHANGED <<members, ready, dead, listening, failed, prepared>>
  BY DEF AfterLeaving, Doing
<1>2. /\ Step \in Frames /\ Rest \in Seq(Frames) /\ Rest = <<>>
      /\ Range(stack) = {Step}
  BY <1>1, CalmStep
<1>3. /\ send \in Frames /\ send.do = "send" /\ send.ids = members
      /\ follow \in Frames /\ follow.do = "parted"
  <2>1. members \in SUBSET Ids /\ id \in Ids
    BY <1>0, <1>1, <1>2, FrameFacts DEF Inv, TypeOK
  <2> QED
    BY <2>1 DEF Sending, Then, Frames, Steps
<1>4. \/ /\ members = {} /\ state = "Starting"
         /\ CancelCountdown(FALSE, parted)
      \/ /\ members # {} /\ state = "Open" /\ allMembersReady
         /\ BeginCountdown(parted)
      \/ /\ members = {} => state # "Starting"
         /\ members # {} => ~(state = "Open" /\ allMembersReady)
         /\ stack' = parted
         /\ UNCHANGED <<state, armed, queue>>
  BY <1>0 DEF AfterLeaving
<1>5. Pushed(parted, follow, Rest)
  BY DEF Pushed
<1>6. stack' = parted \/ Pushed(stack', send, parted)
  BY <1>4 DEF CancelCountdown, BeginCountdown, Pushed
<1> HIDE DEF send, follow, parted
<1>7. parted \in Seq(Frames) /\ Alone(parted) /\ Range(parted) = {follow}
  BY <1>2, <1>3, <1>5, AloneOne
<1>8. Alone(stack') /\ Range(stack') \subseteq {send} \cup {follow}
  BY <1>3, <1>6, <1>7, AlonePushed, PushedFacts
<1>9. queue' = queue \/ queue' = Append(queue, TimerDone("aborted"))
  BY <1>4 DEF CancelCountdown, BeginCountdown
<1>10. ASSUME ~prepared
       PROVE  Counting' /\ Canceled'
  <2>1. /\ Counting /\ Canceled /\ state # "Preparing"
        /\ state \in {"Open", "Starting", "Preparing"}
    BY <1>10 DEF Calm, Inv, TypeOK, Timing
  <2>2. state = "Starting" => ready = members
    BY <1>1, <1>2, <2>1 DEF Counting
  <2>3. TimerDone("aborted") \notin Range(stack')
    BY <1>3, <1>8 DEF TimerDone
  <2>4. \A f \in Range(stack') : f.do \notin {"readied", "left"}
    BY <1>3, <1>8
  <2>5. CASE members = {} /\ state = "Starting"
    <3>1. /\ state' = "Open" /\ ~armed'
          /\ queue' = queue \/ queue' = Append(queue, TimerDone("aborted"))
      BY <1>4, <2>5 DEF CancelCountdown, Inv, TypeOK
    <3>2. Counting'
      BY <1>1, <2>4, <2>5, <3>1 DEF Counting
    <3>3. Canceled'
      BY <1>1, <2>3, <2>5, <3>1 DEF Canceled
    <3> QED
      BY <3>2, <3>3
  <2>6. CASE members # {} /\ state = "Open" /\ allMembersReady
    <3>1. state' = "Starting" /\ queue' = queue
      BY <1>4, <2>1, <2>6 DEF BeginCountdown, Counting
    <3>2. Counting'
      BY <1>1, <2>4, <2>6, <3>1 DEF Counting, allMembersReady
    <3>3. \A j \in 1 .. Len(queue) : queue[j] # TimerDone("aborted")
      BY <2>1, <2>6, NothingCanceled
    <3>4. Canceled'
      BY <2>3, <3>1, <3>3 DEF Canceled, TimerDone
    <3> QED
      BY <3>2, <3>4
  <2>7. CASE /\ members = {} => state # "Starting"
             /\ members # {} => ~(state = "Open" /\ allMembersReady)
    <3>1. UNCHANGED <<state, armed, queue>>
      BY <1>4, <2>7
    <3>2. Counting'
      BY <1>1, <2>1, <2>2, <2>4, <2>7, <3>1 DEF Counting, allMembersReady
    <3>3. \A x : Waiting(x) => Waiting(x)'
      BY <1>1, <1>3, <1>8 DEF Waiting, Receives
    <3>4. Canceled'
      BY <1>1, <2>1, <2>3, <3>1, <3>3, CanceledKept
    <3> QED
      BY <3>2, <3>4
  <2> QED
    BY <2>1, <2>5, <2>6, <2>7
<1> QED
  BY <1>1, <1>3, <1>8, <1>9, <1>10, CalmKept

\* The countdown follows the readiness of the member.
LEMMA CalmReadied ==
  ASSUME Inv, Calm, AfterReady
  PROVE  Calm'
<1>0. PICK id : id = Step.id
  OBVIOUS
<1> DEFINE send == Sending(members)
           hear == Then("listen", id)
           listen == <<hear>> \o Rest
<1>1. /\ stack # <<>> /\ Step.do = "readied"
      /\ UNCHANGED <<members, ready, dead, listening, failed, prepared>>
  BY DEF AfterReady, Doing
<1>2. /\ Step \in Frames /\ Rest \in Seq(Frames) /\ Rest = <<>>
      /\ Range(stack) = {Step} /\ InOrder(Step)
  BY <1>1, CalmStep
<1>3. /\ send \in Frames /\ send.do = "send" /\ send.ids = members
      /\ hear \in Frames /\ hear.do = "listen" /\ hear.id = id
  <2>1. members \in SUBSET Ids /\ id \in Ids
    BY <1>0, <1>1, <1>2, FrameFacts DEF Inv, TypeOK
  <2> QED
    BY <2>1 DEF Sending, Then, Frames, Steps
<1>4. \/ /\ state # "Starting" /\ allMembersReady /\ members # {}
         /\ BeginCountdown(listen)
      \/ /\ state = "Starting" /\ ~allMembersReady
         /\ CancelCountdown(FALSE, listen)
      \/ /\ state # "Starting" => ~(allMembersReady /\ members # {})
         /\ state = "Starting" => allMembersReady
         /\ stack' = listen
         /\ UNCHANGED <<state, armed, queue>>
  BY <1>0 DEF AfterReady
<1>5. Pushed(listen, hear, Rest)
  BY DEF Pushed
<1>6. stack' = listen \/ Pushed(stack', send, listen)
  BY <1>4 DEF CancelCountdown, BeginCountdown, Pushed
<1>7. /\ InOrder(hear) /\ id \in members
      /\ \A c \in Range(queue) : ~Receives(c, id)
  BY <1>0, <1>1, <1>2, <1>3 DEF InOrder
<1> HIDE DEF send, hear, listen
<1>8. listen \in Seq(Frames) /\ Alone(listen) /\ Range(listen) = {hear}
  BY <1>2, <1>3, <1>5, AloneOne
<1>9. /\ Alone(stack') /\ Range(stack') \subseteq {send} \cup {hear}
      /\ hear \in Range(stack')
  BY <1>3, <1>6, <1>8, AlonePushed, PushedFacts
<1>10. queue' = queue \/ queue' = Append(queue, TimerDone("aborted"))
  BY <1>4 DEF CancelCountdown, BeginCountdown
<1>11. ASSUME ~prepared
       PROVE  Counting' /\ Canceled'
  <2>1. /\ Counting /\ Canceled /\ state # "Preparing"
        /\ state \in {"Open", "Starting", "Preparing"}
    BY <1>11 DEF Calm, Inv, TypeOK, Timing
  <2>2. state = "Starting" => members \ {id} \subseteq ready
    BY <1>0, <1>1, <1>2, <2>1 DEF Counting
  <2>3. TimerDone("aborted") \notin Range(stack')
    BY <1>3, <1>9 DEF TimerDone
  <2>4. \A f \in Range(stack') : f.do \notin {"readied", "left"}
    BY <1>3, <1>9
  <2>5. \A x : \A f \in Range(stack') : ~Receives(f, x)
    BY <1>3, <1>9 DEF Receives
  <2>6. CASE state # "Starting" /\ allMembersReady /\ members # {}
    <3>1. state' = "Starting" /\ queue' = queue
      BY <1>4, <2>1, <2>6 DEF BeginCountdown, Counting
    <3>2. Counting'
      BY <1>1, <2>4, <2>6, <3>1 DEF Counting, allMembersReady
    <3>3. \A j \in 1 .. Len(queue) : queue[j] # TimerDone("aborted")
      BY <2>1, <2>6, NothingCanceled
    <3>4. Canceled'
      BY <2>3, <3>1, <3>3 DEF Canceled, TimerDone
    <3> QED
      BY <3>2, <3>4
  <2>7. CASE state = "Starting" /\ ~allMembersReady
    <3>1. state' = "Open" /\ ~armed'
      BY <1>4, <2>7 DEF CancelCountdown, Inv, TypeOK
    <3>2. Counting'
      BY <1>1, <2>4, <2>7, <3>1 DEF Counting, allMembersReady
    <3>3. id \in members \ ready
      BY <1>7, <2>2, <2>7 DEF allMembersReady, Inv, TypeOK
    <3>4. \A i \in 1 .. Len(queue') : ~Receives(queue'[i], id)
      <4>1. \A i \in 1 .. Len(queue) : ~Receives(queue[i], id)
        BY <1>7, RangeByIndex DEF Inv, TypeOK
      <4>2. CASE queue' = queue
        BY <4>1, <4>2
      <4>3. CASE queue' = Append(queue, TimerDone("aborted"))
        <5>1. /\ TimerDone("aborted") \in Completions
              /\ ~Receives(TimerDone("aborted"), id)
          BY DEF TimerDone, Completions, Receives
        <5>2. /\ Len(queue) \in Nat /\ Len(queue') = Len(queue) + 1
              /\ \A i \in 1 .. Len(queue) : queue'[i] = queue[i]
              /\ queue'[Len(queue) + 1] = TimerDone("aborted")
          BY <4>3, <5>1, AppendFacts DEF Inv, TypeOK
        <5> QED
          BY <4>1, <5>1, <5>2
      <4> QED
        BY <1>10, <4>2, <4>3
    <3>5. \A j \in 1 .. Len(queue') : Unready(id, j)'
      <4>1. Waiting(id)'
        BY <1>1, <2>5, <3>3 DEF Waiting
      <4>2. Len(queue') \in Nat
        BY <1>10 DEF Inv, TypeOK, TimerDone, Completions
      <4> QED
        BY <3>4, <4>1, <4>2 DEF Unready
    <3>6. Canceled'
      BY <1>1, <1>7, <2>3, <3>1, <3>5 DEF Canceled
    <3> QED
      BY <3>2, <3>6
  <2>8. CASE /\ state # "Starting" => ~(allMembersReady /\ members # {})
             /\ state = "Starting" => allMembersReady
    <3>1. UNCHANGED <<state, armed, queue>>
      BY <1>4, <2>8
    <3>2. Counting'
      BY <1>1, <1>7, <2>1, <2>4, <2>8, <3>1 DEF Counting, allMembersReady
    <3>3. \A x : Waiting(x) => Waiting(x)'
      BY <1>1, <2>5 DEF Waiting
    <3>4. Canceled'
      BY <1>1, <2>1, <2>3, <3>1, <3>3, CanceledKept
    <3> QED
      BY <3>2, <3>4
  <2> QED
    BY <2>6, <2>7, <2>8
<1> QED
  BY <1>1, <1>3, <1>7, <1>9, <1>10, <1>11, CalmKept

\* The new member is not ready, and nothing it sent is in the queue.
LEMMA CalmJoined ==
  ASSUME Inv, Calm, AfterJoining
  PROVE  Calm'
<1>0. PICK id : id = Step.id
  OBVIOUS
<1> DEFINE all == members \cup {id}
           tell == Sending(all)
           hear == Then("listen", id)
<1>1. /\ stack # <<>> /\ Step.do = "joined" /\ members' = all
      /\ PushedTwo(stack', tell, hear, Rest)
      /\ UNCHANGED <<state, ready, dead, listening, armed, queue, failed,
                     prepared>>
  BY <1>0 DEF AfterJoining, Doing, ioVars, PushedTwo
<1>2. /\ Step \in Frames /\ Rest \in Seq(Frames) /\ Rest = <<>>
      /\ Range(stack) = {Step} /\ InOrder(Step)
  BY <1>1, CalmStep
<1>3. /\ id \notin members /\ state # "Starting"
      /\ id \in Ids /\ all \in SUBSET Ids
  BY <1>0, <1>1, <1>2, FrameFacts DEF InOrder, Inv, TypeOK
<1>4. /\ tell \in Frames /\ tell.do = "send" /\ tell.ids = all
      /\ hear \in Frames /\ hear.do = "listen" /\ hear.id = id
  BY <1>3 DEF Sending, Then, Frames, Steps
<1>5. /\ members \subseteq all /\ id \in all
      /\ \A x \in all : x \in members \/ x = id
  OBVIOUS
<1> HIDE DEF all, tell, hear
<1>6. Alone(stack') /\ Range(stack') = {tell} \cup {hear}
  BY <1>1, <1>2, <1>4, AloneTwo
<1>7. /\ id \notin listening
      /\ \A i \in 1 .. Len(queue) : ~Receives(queue[i], id)
  BY <1>3 DEF Calm, Once, Receives
<1>8. Once'
  BY <1>1, <1>5 DEF Calm, Once, Receives
<1>9. \A f \in Range(stack') : InOrder(f)'
  <2>1. \A c \in Range(queue) : ~Receives(c, id)
    BY <1>7, RangeByIndex DEF Inv, TypeOK
  <2>2. \A f : f = tell => InOrder(f)'
    BY <1>1, <1>4 DEF InOrder
  <2>3. \A f : f = hear => InOrder(f)'
    BY <1>1, <1>4, <1>5, <1>7, <2>1 DEF InOrder, Receives
  <2> QED
    BY <1>6, <2>2, <2>3
<1>10. ASSUME ~prepared
       PROVE  Counting' /\ Canceled'
  <2>1. Counting /\ Canceled
    BY <1>10 DEF Calm
  <2>2. ready' # members'
    BY <1>1, <1>3, <1>5 DEF Inv, TypeOK
  <2>3. Counting'
    BY <1>1, <1>3, <1>4, <1>6, <2>1, <2>2 DEF Counting, allMembersReady
  <2>4. \A x : \A f \in Range(stack') : ~Receives(f, x)
    BY <1>4, <1>6 DEF Receives
  <2>5. \A x : Waiting(x) => Waiting(x)'
    BY <1>1, <1>5, <2>4 DEF Waiting
  <2>6. Waiting(id)'
    BY <1>1, <1>3, <1>5, <2>4 DEF Waiting, Inv, TypeOK
  <2>7. \A j \in 1 .. Len(queue) : Unready(id, j)'
    <3>1. Len(queue) \in Nat
      BY DEF Inv, TypeOK
    <3>2. \A j \in 1 .. Len(queue) : \A i \in 1 .. j - 1 :
            ~Receives(queue[i], id)
      BY <1>7, <3>1
    <3> QED
      BY <1>1, <2>6, <3>2 DEF Unready, Receives
  <2>8. \A x, j : Unready(x, j) => Unready(x, j)'
    BY <1>1, <2>5 DEF Unready, Receives
  <2>9. TimerDone("aborted") \notin Range(stack')
    BY <1>4, <1>6 DEF TimerDone
  <2> QED
    <3>1. ASSUME NEW j \in 1 .. Len(queue), queue[j] = TimerDone("aborted")
          PROVE  state = "Open" /\ \E x \in all : Unready(x, j)'
      <4>1. /\ state = "Open"
            /\ members = {} \/ \E x \in members : Unready(x, j)
        BY <2>1, <3>1 DEF Canceled
      <4> QED
        BY <1>5, <2>7, <2>8, <4>1
    <3>2. Canceled'
      BY <1>1, <2>9, <3>1 DEF Canceled, TimerDone
    <3> QED
      BY <2>3, <3>2
<1> QED
  BY <1>1, <1>6, <1>8, <1>9, <1>10 DEF Calm

\* Listening to a member whose request has been handled.
LEMMA CalmListen ==
  ASSUME Inv, Calm, Listen
  PROVE  Calm'
<1>1. stack # <<>> /\ Step.do = "listen"
  BY DEF Listen, Doing
<1>2. /\ Step \in Frames /\ Rest \in Seq(Frames) /\ Rest = <<>>
      /\ Range(stack) = {Step} /\ InOrder(Step)
  BY <1>1, CalmStep
<1>3. PICK id : id = Step.id
  OBVIOUS
<1>4. /\ id \in members \ listening
      /\ \A c \in Range(queue) : ~Receives(c, id)
  BY <1>1, <1>2, <1>3 DEF InOrder
<1>5. /\ listening' = listening \cup {id} /\ stack' = <<>>
      /\ UNCHANGED <<state, members, ready, dead, armed, queue, failed,
                     prepared>>
  BY <1>2, <1>3, <1>4 DEF Listen, lobbyVars
<1>6. Range(stack') = {} /\ Alone(stack')
  BY <1>5, EmptyRange DEF Alone
<1>7. Once'
  <2>1. \A i \in 1 .. Len(queue) : ~Receives(queue[i], id)
    BY <1>4, RangeByIndex DEF Inv, TypeOK
  <2> QED
    BY <1>4, <1>5, <2>1 DEF Calm, Once, Receives
<1>8. ASSUME ~prepared
      PROVE  Counting' /\ Canceled'
  <2>1. Counting /\ Canceled
    BY <1>8 DEF Calm
  <2>2. Counting'
    BY <1>1, <1>2, <1>5, <1>6, <2>1 DEF Counting, allMembersReady
  <2>3. \A x : Waiting(x) => Waiting(x)'
    BY <1>5, <1>6 DEF Waiting
  <2> QED
    BY <1>5, <1>6, <2>1, <2>2, <2>3, CanceledKept
<1> QED
  BY <1>5, <1>6, <1>7, <1>8 DEF Calm

\* Only the member whose request is being handled leaves.
LEMMA CalmLeave ==
  ASSUME Inv, Calm, HandleLoss \/ HandleLeave \/ HandleUnknown
  PROVE  Calm'
<1>0. PICK id : id = Step.id
  OBVIOUS
<1>1. stack # <<>> /\ Step.do = "receive"
  BY DEF HandleLoss, HandleLeave, HandleUnknown, Doing
<1>2. /\ Step \in Frames /\ Rest \in Seq(Frames) /\ Rest = <<>>
      /\ Range(stack) = {Step} /\ InOrder(Step)
  BY <1>1, CalmStep
<1>3. /\ id \in members \ listening
      /\ \A c \in Range(queue) : ~Receives(c, id)
  BY <1>0, <1>1, <1>2 DEF InOrder
<1>4. Disconnect(id, Rest)
  BY <1>0, <1>3 DEF HandleLoss, HandleLeave, HandleUnknown, Calm
<1> DEFINE tell == Sending(members')
           told == Then("left", id)
<1>5. /\ members' = members \ {id} /\ ready' = ready \ {id}
      /\ dead' = dead \ {id} /\ listening' = listening \ {id}
      /\ UNCHANGED <<state, armed, failed, prepared>>
      /\ queue' = queue
      /\ Pushed(stack', told, Rest) \/ PushedTwo(stack', tell, told, Rest)
  BY <1>2, <1>3, <1>4, DisconnectFacts DEF Inv
<1>6. /\ tell \in Frames /\ tell.do = "send" /\ tell.ids = members'
      /\ told \in Frames /\ told.do = "left" /\ told.id = id
  <2>1. members' \in SUBSET Ids /\ id \in Ids
    BY <1>3, <1>5 DEF Inv, TypeOK
  <2> QED
    BY <2>1 DEF Sending, Then, Frames, Steps
<1> HIDE DEF tell, told
<1>7. /\ Alone(stack') /\ Range(stack') \subseteq {tell} \cup {told}
      /\ told \in Range(stack')
  <2>1. CASE Pushed(stack', told, Rest)
    <3>1. Alone(stack') /\ Range(stack') = {told}
      BY <1>2, <1>6, <2>1, AloneOne
    <3> QED
      BY <3>1
  <2>2. CASE PushedTwo(stack', tell, told, Rest)
    <3>1. Alone(stack') /\ Range(stack') = {tell} \cup {told}
      BY <1>2, <1>6, <2>2, AloneTwo
    <3> QED
      BY <3>1
  <2> QED
    BY <1>5, <2>1, <2>2
<1>8. Once'
  <2>1. \A i \in 1 .. Len(queue) : ~Receives(queue[i], id)
    BY <1>3, RangeByIndex DEF Inv, TypeOK
  <2> QED
    BY <1>3, <1>5, <2>1 DEF Calm, Once, Receives
<1>9. \A f \in Range(stack') : InOrder(f)'
  <2>1. \A f : f = tell => InOrder(f)'
    BY <1>6 DEF InOrder
  <2>2. \A f : f = told => InOrder(f)'
    BY <1>6 DEF InOrder
  <2> QED
    BY <1>7, <2>1, <2>2
<1>10. ASSUME ~prepared
       PROVE  Counting' /\ Canceled'
  <2>1. Counting /\ Canceled
    BY <1>10 DEF Calm
  <2>2. state = "Starting" => ready = members
    BY <1>1, <1>2, <2>1 DEF Counting, allMembersReady
  <2>3. state = "Starting" => ready' = members'
    BY <1>5, <2>2
  <2>4. Counting'
    BY <1>5, <1>6, <1>7, <2>1, <2>3 DEF Counting
  <2>5. \A x : \A f \in Range(stack') : ~Receives(f, x)
    BY <1>6, <1>7 DEF Receives
  <2>6. \A x : Waiting(x) => Waiting(x)'
    <3>1. Receives(Step, id)
      BY <1>0, <1>1 DEF Receives
    <3>2. \A x : Waiting(x) => x \in members \ ready /\ x # id
      BY <1>2, <3>1 DEF Waiting
    <3> QED
      BY <1>5, <2>5, <3>2 DEF Waiting
  <2>7. TimerDone("aborted") \notin Range(stack')
    BY <1>6, <1>7 DEF TimerDone
  <2>8. members = {} => members' = {}
    BY <1>3
  <2> QED
    BY <1>5, <2>1, <2>4, <2>6, <2>7, <2>8, CanceledKept
<1> QED
  BY <1>5, <1>7, <1>8, <1>9, <1>10 DEF Calm

\* What completes between two handlers.
LEMMA CalmQueued ==
  ASSUME Inv, Calm, stack = <<>>, NEW c \in Completions,
         queue' = Append(queue, c), c # TimerDone("aborted"),
         UNCHANGED <<state, members, ready, dead, stack, failed, prepared>>,
         armed' => armed,
         \/ c.do # "receive" /\ UNCHANGED listening
         \/ c.do = "receive" /\ c.id \in listening
              /\ listening' = listening \ {c.id}
  PROVE  Calm'
<1>1. /\ Len(queue) \in Nat /\ Len(queue') = Len(queue) + 1
      /\ \A i \in 1 .. Len(queue) : queue'[i] = queue[i]
      /\ queue'[Len(queue) + 1] = c
  BY AppendFacts DEF Inv, TypeOK
<1>2. Range(stack') = {} /\ Alone(stack')
  BY EmptyRange DEF Alone
<1>3. \A i \in 1 .. Len(queue') : i \in 1 .. Len(queue) \/ i = Len(queue) + 1
  BY <1>1
<1>4. Once'
  <2>1. listening' \subseteq members
    BY DEF Calm, Once
  <2>2. \A i \in 1 .. Len(queue') :
          queue'[i].do = "receive" => queue'[i].id \in members \ listening'
    BY <1>1, <1>3 DEF Calm, Once
  <2>3. \A i \in 1 .. Len(queue) :
          ~(c.do = "receive" /\ Receives(queue[i], c.id))
    BY DEF Calm, Once, Receives
  <2>4. ASSUME NEW i \in 1 .. Len(queue'), NEW j \in 1 .. Len(queue'),
               queue'[i].do = "receive", Receives(queue'[j], queue'[i].id)
        PROVE  i = j
    <3>1. CASE i \in 1 .. Len(queue) /\ j \in 1 .. Len(queue)
      BY <1>1, <2>4, <3>1 DEF Calm, Once
    <3>2. CASE i = Len(queue) + 1 /\ j \in 1 .. Len(queue)
      BY <1>1, <2>3, <2>4, <3>2
    <3>3. CASE i \in 1 .. Len(queue) /\ j = Len(queue) + 1
      BY <1>1, <2>3, <2>4, <3>3 DEF Receives
    <3> QED
      BY <1>3, <3>1, <3>2, <3>3
  <2> QED
    BY <2>1, <2>2, <2>4 DEF Once, Receives
<1>5. ASSUME ~prepared
      PROVE  Counting' /\ Canceled'
  <2>1. Counting /\ Canceled
    BY <1>5 DEF Calm
  <2>2. Counting'
    BY <1>2, <2>1, EmptyRange DEF Counting, allMembersReady
  <2>3. ASSUME NEW j \in 1 .. Len(queue), NEW x, Unready(x, j)
        PROVE  Unready(x, j)'
    <3>1. \A i \in 1 .. j - 1 : i \in 1 .. Len(queue)
      BY <1>1
    <3> QED
      BY <1>1, <2>3, <3>1 DEF Unready, Waiting, Receives
  <2>4. ASSUME NEW j \in 1 .. Len(queue'), queue'[j] = TimerDone("aborted")
        PROVE  /\ state = "Open"
               /\ members = {} \/ \E x \in members : Unready(x, j)'
    <3>1. j \in 1 .. Len(queue) /\ queue[j] = TimerDone("aborted")
      BY <1>1, <1>3, <2>4
    <3>2. state = "Open" /\ (members = {} \/ \E x \in members : Unready(x, j))
      BY <2>1, <3>1 DEF Canceled
    <3> QED
      BY <2>3, <3>1, <3>2
  <2>5. Canceled'
    BY <1>2, <2>4 DEF Canceled, TimerDone
  <2> QED
    BY <2>2, <2>5
<1> QED
  BY <1>2, <1>4, <1>5 DEF Calm

LEMMA CalmNetwork ==
  ASSUME Inv, Calm, Network \/ Expire, losses' = 0
  PROVE  Calm'
<1>1. ASSUME NEW id \in Ids, Break(id)
      PROVE  FALSE
  BY <1>1 DEF Break, Inv, TypeOK
<1>2. ASSUME NEW id \in Ids, AskToJoin(id)
      PROVE  Calm'
  <2>1. /\ Joining(id) \in Completions /\ Joining(id).do # "receive"
        /\ Joining(id) # TimerDone("aborted")
    BY DEF Joining, TimerDone, Completions
  <2> QED
    BY <1>2, <2>1, CalmQueued DEF AskToJoin, AtRest, lobbyVars
<1>3. ASSUME NEW id \in Ids, NEW what \in Requests \cup {"broken"},
             Arrive(id, what)
      PROVE  Calm'
  <2> DEFINE c == Received(id, what)
  <2>1. /\ stack = <<>> /\ id \in listening
        /\ listening' = listening \ {id} /\ queue' = Append(queue, c)
        /\ UNCHANGED <<state, members, ready, dead, armed, stack, failed,
                       prepared>>
    BY <1>3 DEF Arrive, AtRest, lobbyVars
  <2>2. /\ c \in Completions /\ c.do = "receive" /\ c.id = id
        /\ c # TimerDone("aborted")
    BY DEF Received, TimerDone, Completions, Requests
  <2> HIDE DEF c
  <2> QED
    BY <2>1, <2>2, CalmQueued
<1>4. CASE JoinVanishes
  BY <1>4 DEF JoinVanishes, Inv, TypeOK
<1>5. CASE Expire
  <2>1. /\ TimerDone("none") \in Completions
        /\ TimerDone("none").do # "receive"
        /\ TimerDone("none") # TimerDone("aborted")
    BY DEF TimerDone, Completions
  <2> QED
    BY <1>5, <2>1, CalmQueued DEF Expire, AtRest, lobbyVars
<1> QED
  BY <1>1, <1>2, <1>3, <1>4, <1>5 DEF Network

\* The loop takes the first completion.
LEMMA CalmTake ==
  ASSUME Inv, Calm, Take
  PROVE  Calm'
<1> DEFINE c == Head(queue)
<1>1. /\ stack = <<>> /\ queue # <<>>
      /\ stack' = <<c>> /\ queue' = Tail(queue)
      /\ UNCHANGED <<state, members, ready, dead, listening, armed, failed,
                     prepared>>
  BY DEF Take, AtRest, lobbyVars
<1>2. /\ Len(queue) \in Nat \ {0} /\ Len(queue') = Len(queue) - 1
      /\ c = queue[1] /\ c \in Completions
      /\ \A i \in 1 .. Len(queue') : queue'[i] = queue[i + 1]
      /\ queue' \in Seq(Completions)
  BY <1>1 DEF Inv, TypeOK
<1> HIDE DEF c
<1>3. c.do \in {"timer", "receive", "join"}
  BY <1>2 DEF Completions
<1>4. Range(stack') = {c} /\ Alone(stack')
  BY <1>1, <1>2 DEF Alone, Range
<1>5. \A i \in 1 .. Len(queue') : i + 1 \in 1 .. Len(queue)
  BY <1>2
<1>6. Once'
  <2>1. \A i, j \in 1 .. Len(queue') :
          queue'[i].do = "receive" /\ Receives(queue'[j], queue'[i].id)
            => i = j
    <3>1. SUFFICES ASSUME NEW i \in 1 .. Len(queue'),
                          NEW j \in 1 .. Len(queue'),
                          queue'[i].do = "receive",
                          Receives(queue'[j], queue'[i].id)
                   PROVE  i = j
      OBVIOUS
    <3>2. i + 1 = j + 1
      BY <1>2, <1>5, <3>1 DEF Calm, Once
    <3> QED
      BY <3>2
  <2> QED
    BY <1>1, <1>2, <1>5, <2>1 DEF Calm, Once, Receives
<1>7. \A f \in Range(stack') : InOrder(f)'
  <2>1. ASSUME c.do = "receive"
        PROVE  /\ c.id \in members \ listening
               /\ \A d \in Range(queue') : ~Receives(d, c.id)
    <3>1. c.id \in members \ listening
      BY <1>2, <2>1 DEF Calm, Once
    <3>2. ASSUME NEW i \in 1 .. Len(queue'), Receives(queue'[i], c.id)
          PROVE  FALSE
      <4>1. 1 \in 1 .. Len(queue) /\ i + 1 \in 1 .. Len(queue) /\ 1 # i + 1
        BY <1>2, <1>5
      <4>2. Receives(queue[i + 1], queue[1].id) /\ queue[1].do = "receive"
        BY <1>2, <2>1, <3>2
      <4> QED
        BY <4>1, <4>2 DEF Calm, Once
    <3> QED
      BY <1>2, <3>1, <3>2, RangeByIndex
  <2>2. \A f : f = c => InOrder(f)'
    BY <1>1, <1>3, <2>1 DEF InOrder, Receives
  <2> QED
    BY <1>4, <2>2
<1>8. ASSUME ~prepared
      PROVE  Counting' /\ Canceled'
  <2>1. Counting /\ Canceled
    BY <1>8 DEF Calm
  <2>2. Counting'
    BY <1>1, <1>3, <1>4, <2>1, EmptyRange DEF Counting, allMembersReady
  <2>3. TimerDone("aborted") \in Range(stack') => state = "Open"
    BY <1>2, <1>4, <2>1 DEF Canceled
  <2>4. ASSUME NEW j \in 1 .. Len(queue'), NEW x, Unready(x, j + 1)
        PROVE  Unready(x, j)'
    <3>1. /\ 1 \in 1 .. (j + 1) - 1
          /\ \A i \in 1 .. j - 1 : /\ i + 1 \in 1 .. (j + 1) - 1
                                   /\ i \in 1 .. Len(queue')
      BY <1>2
    <3>2. ~Receives(c, x) /\ \A i \in 1 .. j - 1 : ~Receives(queue'[i], x)
      BY <1>2, <2>4, <3>1 DEF Unready
    <3>3. Waiting(x)'
      BY <1>1, <1>4, <2>4, <3>2 DEF Unready, Waiting
    <3> QED
      BY <3>2, <3>3 DEF Unready, Receives
  <2>5. ASSUME NEW j \in 1 .. Len(queue'), queue'[j] = TimerDone("aborted")
        PROVE  /\ state = "Open"
               /\ members = {} \/ \E x \in members : Unready(x, j)'
    <3>1. /\ j + 1 \in 1 .. Len(queue)
          /\ queue[j + 1] = TimerDone("aborted")
      BY <1>2, <1>5, <2>5
    <3>2. /\ state = "Open"
          /\ members = {} \/ \E x \in members : Unready(x, j + 1)
      BY <2>1, <3>1 DEF Canceled
    <3> QED
      BY <2>4, <3>2
  <2>6. Canceled'
    BY <1>1, <2>3, <2>5 DEF Canceled, TimerDone
  <2> QED
    BY <2>2, <2>6
<1> QED
  BY <1>1, <1>4, <1>6, <1>7, <1>8 DEF Calm

\* The receives that the end of the countdown aborts are those of members none
\* of whose requests is in the queue, each of them once.
LEMMA CalmEnd ==
  ASSUME Inv, Calm, CountdownEnds
  PROVE  Calm'
<1>1. /\ stack # <<>> /\ Step.do = "timer" /\ prepared' = TRUE
      /\ listening' = {} /\ stack' = Rest
      /\ UNCHANGED <<members, dead, failed>>
  BY DEF CountdownEnds, Doing
<1>2. Rest = <<>>
  BY <1>1, CalmStep
<1>3. Range(stack') = {} /\ Alone(stack')
  BY <1>1, <1>2, EmptyRange DEF Alone
<1>4. PICK ids \in [1 .. Cardinality(listening) -> listening] :
        /\ \A i, j \in DOMAIN ids : i < j => ids[i] < ids[j]
        /\ queue' = queue \o [ i \in DOMAIN ids |->
                                Received(ids[i], "aborted") ]
  BY DEF CountdownEnds
<1> DEFINE n == Cardinality(listening)
           m == Len(queue)
           aborted == [ i \in 1 .. n |-> Received(ids[i], "aborted") ]
<1>5. n \in Nat /\ listening \subseteq Ids /\ listening \subseteq members
  <2>1. listening \subseteq Ids
    BY DEF Inv, TypeOK
  <2> QED
    BY <2>1, FiniteAssumption, FS_Subset, FS_CardinalityType DEF Calm, Once
<1>6. queue \in Seq(Completions) /\ m \in Nat /\ queue' = queue \o aborted
  <2>1. queue \in Seq(Completions) /\ m \in Nat
    BY DEF Inv, TypeOK
  <2>2. DOMAIN ids = 1 .. n
    OBVIOUS
  <2>3. aborted = [ i \in DOMAIN ids |-> Received(ids[i], "aborted") ]
    BY <2>2
  <2> QED
    BY <1>4, <2>1, <2>3
<1>7. aborted \in Seq(Completions) /\ Len(aborted) = n
  <2>1. \A i \in 1 .. n : Received(ids[i], "aborted") \in Completions
    BY <1>5 DEF Received, Completions
  <2> QED
    BY <1>5, <2>1
<1>8. \A i \in 1 .. n : /\ aborted[i].do = "receive"
                        /\ aborted[i].id = ids[i] /\ ids[i] \in listening
  BY DEF Received
<1>9. \A i \in 1 .. n, j \in 1 .. n : ids[i] = ids[j] => i = j
  <2>1. SUFFICES ASSUME NEW i \in 1 .. n, NEW j \in 1 .. n, i < j
                 PROVE  ids[i] # ids[j]
    BY <1>5
  <2>2. ids[i] < ids[j] /\ ids[i] \in Nat /\ ids[j] \in Nat
    BY <1>4, <1>5, <2>1, IdsAssumption
  <2> QED
    BY <2>2
<1> HIDE DEF n, m, aborted
<1>10. /\ Len(queue') = m + n
       /\ \A i \in 1 .. m : queue'[i] = queue[i]
       /\ \A i \in m + 1 .. m + n : queue'[i] = aborted[i - m]
  BY <1>6, <1>7, Joined DEF m
<1>11. \A i \in 1 .. Len(queue') :
         i \in 1 .. m \/ (i \in m + 1 .. m + n /\ i - m \in 1 .. n)
  BY <1>5, <1>6, <1>10
<1>12. \A i \in 1 .. m : queue[i].do = "receive" =>
         queue[i].id \in members \ listening
  BY DEF Calm, Once, m
<1>13. ASSUME NEW i \in 1 .. Len(queue'), NEW j \in 1 .. Len(queue'),
              queue'[i].do = "receive", Receives(queue'[j], queue'[i].id)
       PROVE  i = j
  <2>1. queue'[j].do = "receive" /\ queue'[j].id = queue'[i].id
    BY <1>13 DEF Receives
  <2>2. CASE i \in 1 .. m /\ j \in 1 .. m
    BY <1>10, <1>13, <2>2 DEF Calm, Once, m
  <2>3. CASE i \in 1 .. m /\ j \in m + 1 .. m + n /\ j - m \in 1 .. n
    BY <1>8, <1>10, <1>12, <1>13, <2>1, <2>3
  <2>4. CASE j \in 1 .. m /\ i \in m + 1 .. m + n /\ i - m \in 1 .. n
    BY <1>8, <1>10, <1>12, <1>13, <2>1, <2>4
  <2>5. CASE /\ i \in m + 1 .. m + n /\ i - m \in 1 .. n
             /\ j \in m + 1 .. m + n /\ j - m \in 1 .. n
    <3>1. ids[i - m] = ids[j - m]
      BY <1>8, <1>10, <2>1, <2>5
    <3>2. i - m = j - m
      BY <1>9, <2>5, <3>1
    <3> QED
      BY <1>5, <1>6, <3>2
  <2> QED
    BY <1>11, <2>2, <2>3, <2>4, <2>5
<1>14. \A i \in 1 .. Len(queue') :
         queue'[i].do = "receive" => queue'[i].id \in members
  BY <1>5, <1>8, <1>10, <1>11, <1>12
<1>15. Once'
  BY <1>1, <1>13, <1>14 DEF Once, Receives
<1> QED
  BY <1>1, <1>3, <1>15 DEF Calm

LEMMA QuietInductive == Inv /\ Quiet /\ [Next]_vars => Quiet'
<1> SUFFICES ASSUME Inv, Quiet, [Next]_vars, losses' = 0
             PROVE  Calm'
  BY DEF Quiet
<1>1. losses = 0
  <2>1. losses \in Nat
    BY BoundsAssumption DEF Inv, TypeOK
  <2>2. losses' = losses \/ losses' = losses + 1
    BY DEF Next, EventsLoop, Take, Handler, CountdownEnds, CountdownAborted,
           HandleJoin, IgnoreAborted, HandleUnknown, HandleLoss, HandleLeave,
           HandleReady, Call, Send, SendEnds, AfterLeaving, TellLeaving,
           AfterReady, AfterJoining, Listen, Fail, Disconnect, Network, Break,
           AskToJoin, JoinVanishes, Arrive, Expire, Stopped, vars, bounds
  <2> QED
    BY <2>1, <2>2
<1>2. Calm
  BY <1>1 DEF Quiet
<1>3. CASE UNCHANGED vars
  <2>1. UNCHANGED <<state, members, ready, dead, listening, armed, queue,
                    stack, failed, prepared>>
    BY <1>3 DEF vars, lobbyVars, ioVars
  <2> QED
    BY <1>2, <2>1 DEF Calm, Once, Alone, InOrder, Counting, Canceled, Unready,
                      Waiting, Receives, allMembersReady, TimerDone
<1>4. CASE Take
  BY <1>2, <1>4, CalmTake
<1>5. CASE Handler
  BY <1>2, <1>5, CalmEnd, CalmAborted, CalmJoinRequest, CalmLeave, CalmReady
     DEF Handler
<1>6. CASE Call
  BY <1>2, <1>6, CalmSend, CalmLeft, CalmTold, CalmReadied, CalmJoined,
     CalmListen
     DEF Call
<1>7. CASE Network \/ Expire
  BY <1>2, <1>7, CalmNetwork
<1> QED
  BY <1>3, <1>4, <1>5, <1>6, <1>7 DEF Next, EventsLoop, Stopped

LEMMA InitQuiet == Init => Quiet
<1> SUFFICES ASSUME Init
             PROVE  Calm
  BY DEF Quiet
<1>1. queue = <<>> /\ Len(queue) = 0 /\ Range(queue) = {}
  BY EmptyRange DEF Init
<1>2. stack = <<>> /\ Range(stack) = {} /\ Alone(stack)
  BY EmptyRange DEF Init, Alone
<1>3. Once
  BY <1>1 DEF Init, Once
<1>4. Counting /\ Canceled
  BY <1>1, <1>2 DEF Init, Counting, Canceled, allMembersReady
<1> QED
  BY <1>2, <1>3, <1>4 DEF Init, Calm

\* Until the first connection breaks, each pending operation is there once, the
\* replies queued agree with who is a member, and a countdown is in progress
\* exactly when everyone is ready.
THEOREM LobbyIsCalm == Spec => []Quiet
<1> QED
  BY InitInv, InvInductive, InitQuiet, QuietInductive, PTL DEF Spec

\* The countdown follows the readiness of the members, and no handler looks
\* for a member who is gone, as long as no connection breaks.
THEOREM CountdownAlwaysFollows == Spec => []CountdownFollowsReadiness
<1>1. Quiet => CountdownFollowsReadiness
  BY EmptyRange DEF Quiet, Calm, Counting, CountdownFollowsReadiness,
     Gathering, AtRest
<1> QED
  BY LobbyIsCalm, <1>1, PTL
=============================================================================
