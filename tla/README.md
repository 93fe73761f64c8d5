# TLA+ verification of RpgBookOnline

RpgBookOnline runs game books ("livres dont vous êtes le héros") for several players: a server with a lobby where
clients gather, and sessions in which a Lua script tells the story, asks the players questions and waits for their
replies. Paths and line numbers are those of the repository, whose server is under `server/` and whose game library
is under `rbo/` (headers in `include/Rbo/`).

What can go wrong in it is concurrency and failure. Two threads share the lobby, the session and the sockets; every
send may find a broken connection and disconnect a client in the middle of whatever was being done; replies, losses,
timers, registrations and the stop of the server complete in any order. The unit tests cover the data (players,
inventories, statistics, game files, messages) and none of this.

Contents: the system; the modules and how they correspond to the code; what each run checks; bounds; fairness; what
is proved; where the code disagrees with itself; what is not modelled; the plan.

## 1. The system

Two threads (`include/Rbo/Server/Executor.hpp:45-104`):

- the *main thread* opens the lobby, sleeps while it gathers its members, then prepares a session, runs it and comes
  back; a session's script, its broadcasts and its requests all run on this thread, called the *session thread*
  below;
- the *events loop's thread* runs `io_context::run()`: completions of asynchronous accepts, receives, sends and
  timers, one after the other.

| Component | Source | State | Operations | Hard because |
|---|---|---|---|---|
| Lobby: members and countdown | `server/Lobby.cpp:36-283, 289-344, 386-414` | members and whether they are ready, master, state, preparation timer, pending receives | accept, register, ready, leave, begin/cancel the countdown, disconnect | a failed send disconnects a member inside any handler; completions already queued cannot be cancelled |
| Lobby: preparation | `server/Lobby.cpp:346-384, 416-649` | the parameters of the next session, the master | ask the master, configure, run, kick, retry | the master may be lost at any question; sockets move to the session and back |
| Session: connections and leader | `rbo/Session.cpp:38-71, 457-465, 652-695` | players, sockets, leader | send to one, to all, to the living; disconnect; change the leader | a failed send announces the crash with more sends: broadcasts nest |
| Request protocol | `rbo/Session.cpp:549-650`, `rbo/ReplyHandler.cpp` | the request's context: replies, errors, count, done | ask, handle replies, close, clean up | two threads; late, invalid and missing replies; losses; stop |
| Session lifecycle | `rbo/Session.cpp:82-448` | the game's progress | begin, new game or checkpoint, scenes, end | exceptions leave it anywhere, the sockets must go back to the lobby |
| Executor | `server/Executor.cpp`, `include/Rbo/Server/Executor.hpp` | state, two mutexes, the flags of a stop | start, stop | stop is called from several threads while the others work |
| Gameplay | `rbo/Gameplay.cpp` | what the clients know of each player | votes, confirmations, checks, updates | the players change while they are asked |
| Players, inventories, statistics | `rbo/Player.cpp`, `rbo/StatsManager.cpp` | values within limits, quantities within capacities, bonuses | set, change, add, consume, setCapacity | bonuses of items move statistics, which are clamped |
| Game: effects, conditions, validity | `rbo/Game.cpp` | none | simulate, apply, validity | the simulation must foresee what the application does |
| Enemies | `rbo/Enemy.cpp` | the group's cursor, hit points | nextAlive, next, goTo, hit | the cursor skips the dead and says when it has gone round |
| Checkpoint store | `server/LocalGameBuilder.cpp`, `rbo/JsonSerialization.cpp` | one JSON file of checkpoints | save, load, buildScene | the file is emptied, then rewritten; it outlives sessions and crashes |
| Instructions | `server/instructions/*.lua` | the targets, the group of enemies, the change they are in the middle of | texts, choices, tests, events, the surprise attack, saving a checkpoint | they loop on players taken before the loop, who die or are lost in it |
| Wire format | `rbo/Data.cpp`, `*DataFactory.cpp` | a buffer | put, add | lengths and counts are bytes and words |
| Votes and dice | `rbo/Common.cpp` | none | vote, rolls | ties are drawn at random |
| Lua API | `server/*API.cpp`, `server/InstructionsProvider.cpp` | none of its own | glue | - |

Interactions. The executor calls the lobby under `lobby_mtx_`, for a whole preparation; the loop's handlers call it
without. The lobby gives its sockets to `Session::start` and gets back those that are left. The script calls the
session through Gameplay; the session shares the context of its current request with the handlers that run on the
loop. An instruction is a Lua function that the scene calls; what it does to the session, to the players and to the
file of checkpoints goes through Gameplay. `Executor::stop` stops the loop first, then requests the closure of the
lobby and stops the session, and closes the lobby when it gets the mutex.

What makes each part correct, in a sentence:

- a broadcast loses exactly players whose connection is broken, tells the survivors who is lost, and leaves a leader
  among them;
- a request counts each of its targets once, keeps the replies it may keep, waits for what it must and for nothing
  else, and is left when the server stops;
- the lobby listens to every member, its master is its first member, and a countdown is on when everyone is ready;
- a preparation keeps the members who are there, follows a master who is there, and ends when it must;
- a session gives the lobby back the sockets of exactly those who are left, whatever it failed at;
- the lobby is closed when the loop begins no handler any more, stays closed unless one was still running, and a
  stop makes the server return;
- a character always is one that a checkpoint may hold, and the clients see it as it is;
- a checkpoint whose name the players were told can be loaded, as it was saved, by any later session, as long as the
  file can be read;
- in a surprise attack every living enemy attacks every living player once, in turn, and nobody else;
- the game of a party of the dead is over, whichever instruction killed the last of them.

## 2. The modules

```
SessionBroadcast ─┬─ AtomicBroadcast  <── implements ──  Broadcast
(outcomes of a    ├─ Request ── RequestContract     (a request ends in an outcome)
 broadcast and    └─ Session  ── implements ──>  SessionCall ── SessionOutcomes ── Preparation
 of a request)
EnemiesGroup ── Instructions ── every step is a scene's of ──>  Session
                     └── Checkpoints
Lobby        Executor        Character

SessionBroadcastProofs <── BroadcastProofs, RequestProofs, SessionProofs, PreparationProofs, LobbyProofs,
                           AdventureProofs (Checkpoints and Character)              ExecutorProofs
```

The system is too large for one state space, so its parts are composed through *contracts*: what a part promises is
a set of outcomes (an operator), the part in detail is checked to end in one of these, and its callers take an
outcome as one step. A broadcast's outcomes are `BroadcastOutcomes`, a request's `RequestOutcomes`, a session's
`SessionOutcomes`; each has a run that checks the detailed module against it (`broadcast`, `request_contract`,
`session`). In the other direction, `Session` lets a scene take any steps in any order, and `Instructions` says
which ones the scripts of the repository take: each of its steps is one of `Session`'s (`KeepsToScenes`), so that
what `session` checks of all scenes holds of these.

| Module | Models | Correspondence |
|---|---|---|
| `SessionBroadcast` | what a broadcast and a request may do to a session, as one step: pure operators | `LeaderAfter` is `disconnect` on `leader_`; the results are the ways out: return, `NoPlayerRemaining`, `UninitializedLeader`, `out_of_range` of a removed id |
| `AtomicBroadcast` | that step as a specification | the abstract broadcast: `ADrop`, `ABroadcast` |
| `Broadcast` | `sendToAll`, `sendToAlivePlayers`, `sendTo`, `disconnect`, `switchLeader`, send by send | `stack` is the C++ call stack: a frame of a loop holds the ids copied that it has not reached, a frame of `disconnect` the id; `Send`, `SendFails` ... are one `trySend` each |
| `Request` | `Session::request` and `ReplyHandler` | `pc` is the session thread's place (launching loop, waiting loop, clean-up), `handler[p]` the pending operation of a target, `replies`, `handled`, `errors` the `RequestCtx`; a completion is one action because `requestMtx` is held through it |
| `RequestContract` | Request with the memory of the session each request found | compares with `RequestOutcomes` |
| `Lobby` | the lobby's handlers on the events loop, from `open` to the end of a countdown and the leftovers after it | `queue` is the `io_context`'s queue of completions, `stack` what the running handler and its nested calls still have to do, `listening` the pending receives, `armed` the pending wait of the timer, `failed` an exception that leaves the handler |
| `SessionOutcomes`, `SessionCall` | what the lobby may expect of `Session::start`: an operator, and the specification of one call | `sockets` are the entrants who hold their socket |
| `Session` | `Session::start`, `begin`, `end`, `newGame`, `gameFromCheckpoint`, `checkEntrants`, `playScene`, and the calls of Gameplay that change a session | `pc` is the place in `start`, `thrown` the exception that leads to `end`; a scene takes any of the steps of a script |
| `Preparation` | `prepareSession`, `configureSession`, `runSession`, the questions to the master, the kicks | `pc`, `question`, `asked`: where the main thread is in this dialogue; `entrants` are those who play the session, which registrations do not stop; `closed` are members whose socket the session has kept; `intruded` records that a registration completed during a session |
| `Executor` | `Executor::start`, `stop`, `runEventsLoop`, the signal handler | `main` and `stopping[t]` are program counters over the accesses to shared variables; `handler` is what the handler that runs on the loop does next with the lobby's state, which it tests in one step and writes in another, also when the server is stopped between the two; `locked` is `lobby_mtx_`; `overtaken` records that the lobby was closed while a handler was running |
| `Character` | `StatsManager`, `Inventory`, `Player`, `EventEffect`, the cache of updates and the restoration of a player | `player` and `cache` are the program's, `view` what the clients have put together from the updates |
| `EnemiesGroup` | a group of enemies and its cursor, as operators | a group is the sequence of its enemies in queue order; `NextAlive` is `nextAlive` and its result |
| `Instructions` | the instructions of `Base.lua` and `Custom.lua`, with `checkPlayer`, `checkGame` and the hit points they change | `pc` is the place in the instruction, `left` the targets of a loop that are not done, `group` and `current` the enemies, `chosen` the player whose death is being announced; `struck` records the attacks for the properties |
| `Checkpoints` | `LocalGameBuilder::save` and `load`, in the sessions of `Instructions` | `file` and `whole` are the file, `draft` the content being written, `name` the name chosen; a write may fail with an exception, or when the stream is closed, which nobody is told; `promised` records what the players were told |
| `SessionBroadcastProofs`, `BroadcastProofs`, `RequestProofs`, `SessionProofs`, `PreparationProofs`, `LobbyProofs`, `ExecutorProofs`, `AdventureProofs` | proofs; the last one those of `Instructions`, `Checkpoints` and `Character` | section 6 |
| `MC*` | the modules TLC runs, one `.cfg` per run | values of the constants, and one narrowing described in section 4 |

Abstractions they share. Names, texts and payloads are left out; an answer is what the code does with it (valid or
not, yes or no, a checkpoint is the set of its players, those alive and the leader). A connection that is broken
(`dead`) stays so; a send to it *may* fail (a write to a dead TCP peer can succeed at first) and a send to any other
succeeds; a receive from it ends with an error sooner or later. Ids are naturals because the code takes the smallest
(`std::map::cbegin`) as leader or master. Where the C++ program has no defined behaviour any more (an erased element
under a range-for, `*nullopt`) the module goes to a place "undefined" from which nothing is claimed. The network is
external: its actions (`Drop`, `Break`) are modelled from how the code meets them.

Operators whose comment begins with "A fault:" are single mistakes in one definition. No specification uses them:
each stands for a plausible bug, and replacing the definition by it makes TLC find a property violated. Every
property of every passing run has such a fault.

## 3. The runs

| Run | Question | What it shows |
|---|---|---|
| `broadcast` | what does the recursion of sends, disconnections and announcements amount to? | it implements `AtomicBroadcast` (`ImplementsAtomicBroadcast`, safety and termination), tells every survivor of every loss (`SurvivorsToldOfCrashes`), and the clients know who leads when it lost at most one player (`LeaderKnownAfterOneLoss`) |
| `request` | what are the counter, the replies and the leader, however completions interleave, and is a request ever stuck? | each target is counted once (`HandledIsFinished`); replies are at most those accepted and every handled target is explained (`RepliesAccounted`); a call that waits for all returns a complete answer (`WaitedRepliesComplete`) and leaves nothing pending on its stack frame (`NothingOutlivesWait`); the leader is connected (`LeaderConnected`); a stop ends it (`StopEndsRequest`); it does not wait for targets that are all lost (`LostTargetsEndWait`) |
| `request_contract` | may Session take a request as one step? | whatever the interleaving it ends in one of `RequestOutcomes` (`RequestKeepsContract`) |
| `lobby` | what holds of a lobby between its handlers? | master, countdown and timer, listening, and readiness (`MasterIsFirst`, `CountdownHasTimer`, `MembersHeard`, `CountdownFollowsReadiness`); a countdown ends (`CountdownEndsOrStops`) |
| `session` | what does the lobby get back, and who leads the game? | `Session` implements `SessionCall` (`KeepsPromise`); the leader is a player while the game is played (`LeaderWhilePlaying`); a restored game has its players (`RestoredWithItsPlayers`); a stopped session ends (`StoppedSessionEnds`) |
| `preparation` | who is the master, who stays, does it end? | the master is a member, but for what a session leaves (`MasterIsMember`); only broken connections, the kicked and those whom a late registration displaces leave (`LivingMembersStay`); an idle lobby has no member without a socket (`NoMemberWithoutSocket`); a closure ends it (`ClosureEndsPreparation`), and so does the loss of the master who is asked (`LostMasterEndsWait`) |
| `executor` | how is the server stopped? | the lobby is closed for good once no handler runs, and never under a preparation (`ClosedForGood`, `ClosedOutOfPreparation`); `start` returns after a complete stop, with the lobby closed unless a handler was overtaken (`FinishedWhenStopped`); a stop reaches a running session (`RunningSessionStops`) and makes `start` return, unless a session or a handler missed it (`StopReturns`) |
| `character` | what can a character become, and what do clients see? | it stays one that a checkpoint may hold (`Restorable`); the simulation of an effect foresees its application (`SimulationMeansApplied`); the next update shows all (`NextUpdateShowsAll`); a restored character is the saved one, with the bonuses of its items twice (`RestoredAsSaved`) |
| `checkpoints` | what do the instructions do to a party that dies and is lost meanwhile, and what is left of a checkpoint? | as long as the file can be read, a promised checkpoint is in it as it was saved (`PromisedLoads`); no instruction for a party of the dead (`PartyDeadEnds`); every enemy attacks once, in its turn (`EnemiesAttackOnce`), and nobody who is dead or gone (`DeadLeftAlone`); each step is one of `Session` (`KeepsToScenes`); every instruction ends or comes to a question that nobody need answer (`InstructionEnds`) |
| `broadcast_assert`, `lobby_preparation`, `session_vote` | three statements of the code and its documentation | violated: section 7 |

## 4. Bounds, and why they are enough

- `broadcast`: four players, any of them broken from the start or breaking during the call, any message, any set
  addressed, with a leader or none. The nesting is as deep as the number of losses; the outcome that needs the most
  players (a stale id after three losses with a survivor) appears with four.
- `request`: two players, two requests, the second of which finds what the first has left (an operation still
  pending, a leader who has changed, a loss not discovered yet). Two players give a target that replies and one that
  fails, or that is not asked; more players add outcomes of a broadcast, which `request_contract` has, and the
  safety invariants are proved for any number.
- `request_contract`: four players, for the outcomes that need three losses and a survivor. `Narrow` (an action
  constraint by conjunction in `MCRequestContract`) leaves out what its property does not depend on: nobody is dead
  in the game, the request goes to everyone, connections break before it (every order of their discovery remains)
  and the stop, if any, comes in the launching loop (its flag is only read afterwards).
- `lobby`: two ids, four requests, two losses and one registration: enough for a member to be ready, not ready and
  ready again (two countdowns, of which the first leaves an aborted completion in the queue) while the other joins
  and while both are lost in each other's handlers. `lobby_preparation` needs no loss.
- `session`: three entrants (a leader who is lost, one who is lost while this is announced, one who is left), any
  checkpoint of these ids. A script takes any number of steps in any order.
- `preparation`: three members, any answers and any number of attempts, and one registration that completes at any
  step, also during a session. It takes one newcomer to displace a master; a second would only do so again.
- `executor`: no bound, the module is finite: three threads, each of which may call `stop` at any step. A
  handler may run at any step and change the countdown any number of times, also while a session is prepared.
- `character`: one statistic with three possible limits and steps of -1 and 1, two items (one with a bonus of 1, one
  of -1), a capacity of 1 or none, `MaxSize` = 2 items in an inventory without limit. The hazards are about one
  bonus, one clamp, one refused addition, one refused capacity (1 when two items are held) and the order of two item
  changes (one item for another in a full inventory); a second statistic would only repeat the first.

- `checkpoints`: two players of at most two hit points, events that take one (an enemy of negative skill adds one),
  five groups of enemies (the first one dead; one dead in the middle, with a negative skill that counts as none; all
  dead; two of the same name; empty). Three enemies are what it takes for the cursor to pass over one and still have
  one to reach, and two hit points for a player to die at a second attack. The file holds one checkpoint at first,
  and there are two names, so that a save meets a free name and one that is taken. Sessions follow each other
  without bound, and a connection breaks, the server crashes or a session is stopped at any step.

Every bound is a constant: `MaxRequests`, `MaxLosses`, `MaxJoins` (counters tested in the guards), `MaxSize` and the
sets of `Character`, `Names`, `MaxHp`, `Changes` and `Groups` of `checkpoints`. `CHECK_DEADLOCK FALSE` appears where
the modelled part really may stop: a lobby whose members have no request left (`lobby`, `lobby_preparation`), a
narrowed request (`request_contract`), and a session that has missed the stop of the server and waits for ever
(`executor`, section 7).

## 5. Fairness, and why the code justifies it

- The session thread, the main thread and the events loop's thread are scheduled by the operating system: weak
  fairness of the action that is the whole thread (`SessionThread`, `MainThread`, `EventsLoop`), restricted where
  the thread waits for somebody who need not act, as said below. The program's threads block only on mutexes and on
  the conditions that the guards state.
- `Executor::stop`, once in progress, goes on (`Running /\ StopSession` in `Request`). Nothing says that the server
  is ever stopped.
- An operation pending on a broken connection completes with an error (`ConnectionFails` in `Request`, `Arrive(id,
  "broken")` in `Lobby`, `MasterFails` in `Preparation`); a timer expires (`Expire`). Nothing says that a client who
  is there ever replies, nor that a member becomes ready.
- The wait for the master tests `closure_requested_` in a loop (`closure /\ Answer`). A session need not end: in
  `Preparation` the main thread is fair except in `pc = "playing"`, and `ClosureEndsPreparation` says nothing of a
  closure that comes to a session.
- In `Executor` the main thread is fair in a preparation only once the closure is requested, and in a session only
  once it is stopped (`Scheduled`); strong fairness of `HandlerEnds` says that a handler that runs ends, for it
  changes the countdown again only when it loses one more member. Nothing makes a handler begin or throw, nor a
  signal come.
- `Session` assumes strong fairness of `SceneOver`: an instruction of a script that goes on for ever keeps the
  session running after a stop, for `running()` is only tested between two instructions. `StoppedSessionEnds` is
  about the rest: that every end of an instruction, every exception and every chain of scenes leads to the end.
- `Checkpoints` has weak fairness of the session thread within an instruction, and not where the instruction has
  asked a question of a session that runs: a client need not reply, and a question for the first reply without a
  living target waits until the server stops (`rbo/Session.cpp:567`). A question of a session that was stopped
  returns (`StopEndsRequest` of `request`). Nothing is assumed of the lobby, so that no session need begin, nor of
  the choice between instructions, so that a scene may go on for ever: `InstructionEnds` is about each instruction.
- `Broadcast` has weak fairness of the one thread it models: its termination is part of the refinement.

## 6. What is proved

TLAPS checks every proof; the theorems hold for every value of the constants. Every invariant and every action
property of the passing runs is stated by a theorem, and so are the three refinements' safety (`BroadcastIsAtomic`,
`ContractCorrect`, `SessionKeepsPromise`) and the step simulation `KeepsToScenes`. Each module's invariant was
checked by TLC on the module's run before it was proved.

What the proofs assume of the constants: ids are naturals (they are bytes in the code), `NoLeader` and `NoMaster`
are none of them, and the bounds are naturals. Finitely many ids, where something is counted or the least is taken
of what a broadcast loses one after the other (`Request`, `Lobby`, `Instructions`); finitely many items with integer
bonuses, and limits, sizes and steps that are integers (`Character`); at least one hit point, integer changes and
groups made of descriptors (`Instructions`); a store whose checkpoints hold parties (`Checkpoints`). The running
program cannot be outside of these, and TLC evaluates them in every run.

### Shared lemmas: `SessionBroadcastProofs`

`FirstOfIsMember` (a non-empty set of naturals has its minimum), `LeaderAfterIsLeft`, and `OutcomeFacts`,
`RequestOutcomeFacts` for every outcome of a broadcast and of a request: who is left, who leads. `UpTo` and
`OfSubsets` state induction over numbers and over the subsets of a finite set with *sets* instead of predicates (the
least number, or a smallest subset, that were not in the set is impossible), so that the provers can use it;
`FoldExists`, `FoldInOrder` and `TraceOfFold` apply it to the folds of the community modules: they are defined, and
go through the elements of the sequence one by one.

### `BroadcastProofs`

- `BroadcastInvariant`, `TypesOK`; from it `SurvivorsAlwaysTold` (`SurvivorsToldOfCrashes`) and `LeaderAlwaysKnown`
  (`LeaderKnownAfterOneLoss`); `BroadcastIsAtomic`: every step of `Broadcast` is a step of `AtomicBroadcast` or a
  stutter, which is the safety part of `ImplementsAtomicBroadcast`.
- The properties speak of the call that has returned. The invariant says of the stack, whatever its depth, who is
  still to be told: each player left knows of each one lost *or* an activation on the stack announces it
  (`Telling`), and the same of the leader as long as one player at most is lost (`Presenting`). A loop may then
  reach an id that is gone only if a nested loss interrupted it (`Nesting`), which is what makes "stale" an outcome
  after two losses and never before.

### `RequestProofs`

- `TypeCorrect`, and `HandledCountCorrect`, `RepliesCorrect`, `WaitedRepliesCorrect`, `NothingOutlivesWaitCorrect`,
  `LeaderCorrect`: the safety invariants of `request`, for any number of players and requests.
- They follow from `IInv`. `TypeInv` adds to the types that the leader is a player, which a broadcast needs from the
  session it starts in. `HandledIsFinished` alone is not inductive: nothing in it says that a handler belongs to a
  target (`OnlyTargetsAsked`), nor that the launching loop meets each target before any completion does
  (`NotYetAsked`). `NothingOutlivesWait` and `WaitedRepliesComplete` speak of the request after it is closed, where
  the counter is no longer compared with anything: `AllHandledWhenClosed` keeps what the comparison established,
  which completions that come later do not disturb. `LostAreGone` keeps the lost ones out of the players while their
  crashes are announced.
- `ContractCorrect`: however completions, losses and a stop interleave, `request` ends in one of `RequestOutcomes`
  of the session it was called in, for any number of players. This is what entitles `Session` and `Instructions` to
  take it as one step.

### `SessionProofs`

- `SessionInvariant`, `TypesOK`, `AlwaysLed` (`LeaderWhilePlaying`), `AlwaysRestored` (`RestoredWithItsPlayers`),
  and `SessionKeepsPromise`: whatever fails and wherever, the lobby gets back what `SessionCall` says.
- `LeaderWhilePlaying` says nothing of the places where a leader is still to be found; `Leading` follows it from the
  first (nobody leads, all entrants are there) through the vote of a restored game, whose leader may be missing.
  `Restoring` keeps the consent to missing players with the checkpoint it was given for. `Ending` relates the
  exception to the players left: without it, nothing excludes a refusal of the parameters after players were lost,
  in which the lobby would keep sockets of members who are gone. `Boarding` says whose sockets the session holds.

### `PreparationProofs`

- `PreparationInvariant`, `TypesOK`, `MasterAlwaysMember` (`MasterIsMember`), `SocketsComeBack`
  (`NoMemberWithoutSocket`), and the action property `OnlyLostMembersLeave` (`LivingMembersStay`).
- `MasterKnown` leaves out the result of a session, after which the master may have stayed behind, unless it was
  refused, and everything after a registration that completed during a session. `SocketsKnown` says that the
  entrants are the members unless somebody registered meanwhile, and that a session keeps all sockets or none;
  `KicksUnexpected` that the names to be kicked are none of the checkpoint's, also after late registrations.
- `LivingMembersStay` names those who may leave: broken connections, the kicked and, once somebody registered late,
  those whom this displaces (`Displaced`): the member who became the master instead of the one who is asked, who is
  taken for it, and the newcomer whom the end of a session drops. `LateKnown` says that nothing of this happens
  without such a registration, and `WhoLeaves` and the lemmas after it say it of each broadcast and disconnection.

### `LobbyProofs`

- `LobbyInvariant`, `TypesOK`, `MasterAlwaysFirst`, `CountdownAlwaysTimed`, `MembersAlwaysHeard`, for any number of
  members, requests and losses. A lobby that is starting has a wait that will end it, pending, queued, or in the
  handler that is running (`Timing`); a member's next request is pending, completed, or will be asked for by a call
  on the stack (`Hearing`), which is what every early return of a handler must see to.
  The announcement of a departure (`TellLeaving`) is made to those who are members when the countdown that the
  departure changed has been announced, and who may be fewer than when it began (`server/Lobby.cpp:54-66`).
- `LobbyIsCalm` and from it `CountdownAlwaysFollows` (`CountdownFollowsReadiness`), as long as no connection breaks.
  The property itself is stated between two handlers; the invariant `Calm` says what each handler on the stack has
  still to do to the countdown (`Counting`), that each receive is pending or queued once (`Once`), and that an
  aborted wait in the queue comes to a lobby that is open, and stays so until then: some member is not ready and has
  no request before it in the queue that could begin another countdown (`Canceled`).

### `ExecutorProofs`

- `TypeCorrect`; `OrderCorrect`: the inductive invariant `StopOrder`; from it `FinishedCorrect`,
  `ClosedForGoodCorrect` and `ClosedOutCorrect`, the safety properties of the run `executor`. The module has no
  constants.
- `StopOrder` says in which order `stop` acts, whichever threads are in it: past its second step the io_context is
  stopped, so that no handler begins once the lobby is closed, and one that runs then was overtaken (`ServerFirst`);
  a preparation holds the mutex, and a held lobby is not closed (`LobbyHeld`); `stopDone`, and the join of the
  loop's thread, come after the lobby is closed, and it still is unless a handler was overtaken (`DoneWhenClosed`).
  `ClosedForGood` is not inductive without these: a handler that begins late would reopen a lobby closed while the
  loop still runs, and the end of a preparation makes its lobby idle. That `stop` does not wait for the handler that
  runs is the exception in the statements of both properties, not an assumption.

### `AdventureProofs`: what a session plays

- `NextAliveIsNearest`: for a group of any size that is not defeated, the cursor of `nextAlive` comes to a living
  enemy, passes over dead ones only, and says that it went round exactly when nobody ahead of it is alive.
- `TypeCorrect` and `DeadLeftAloneCorrect`, from `PlayInv`, the conjunction of four parts: the session's players
  have a leader among them (`SessionInv`), the variables of an instruction are those of the place it is at
  (`TaskInv`), the targets of an attack that are left are alive (`TargetInv`: only the target that is checked dies,
  and it is taken out of `left` in the same step), and the store holds parties that a session can begin with
  (`PartiesInv`). One lemma for each part that the instructions can disturb, with a step for every action of `Play`.
- `EnemiesAttackOnceCorrect`, from `AttackInv`: a living player has been attacked, in order, by the attackers up to
  the current one, or up to the one before while they are still a target; a dead one up to some earlier enemy.
  `NextAliveIsNearest` says that no attacker is passed over between two enemies, and that all have come when the
  cursor has gone round.
- `PromisedCorrect`: `PromisedLoads`, from `StoreInv`. `PromisedLoads` alone is not inductive: while the file is
  being rewritten the promises are kept by the draft, and between the writing and the announcement a file that is
  whole has the party under the name that is about to be told. A write that failed leaves a file that is not whole,
  of which nothing is claimed, and which no later save makes whole again.
- `PartyDeadEndsCorrect`, from `AliveInv`, which says it of every place from where the game may go on. The last
  player dies within an instruction, and the loop it dies in goes on: `AliveInv` leaves out only the places where a
  death is announced ("died") and where the end of the game is ("confirm"), from which a session that runs comes
  back with somebody alive.
- `KeepsToScenesCorrect`: each step of `Checkpoints` in a session is a step of `Session`'s next-state relation or
  leaves its variables as they are. A broadcast and a request are the same operators on both sides (`SameBroadcast`,
  `SameRequest`); one lemma for each way an instruction uses them (`SceneBroadcasts`, `SceneAsksNext`, `SceneLeaves`
  ...) gives the action of `Session` that the step is; the deaths, which `Session` plays in three steps as well, are
  mapped place by place.
- `CharacterInvariant`, `AlwaysRestorable`, `SimulationTellsTruth`, `UpdatesShowAll`, `SavedIsRestored`: the four
  invariants of the run `character`, for any items, bonuses, limits and calls. In `CharacterInv` the character is
  within its limits and its capacity (`Good`), the clients have what the cache says but for what is hidden
  (`Following`: `NextUpdateShowsAll` alone does not say which updates were already sent), and a character that was
  restored is still that of its checkpoint until the clients are told (`Restoring`).
- An effect and a restoration are folds over the items in an order of the hash table. `PartTrace` and `FillTrace`
  name the characters they go through; `PartKeeps` shows each of them good, whatever is refused on the way;
  `PartDoes` and `FillDoes` show that nothing is refused when the sums fit, by induction along the fold: what is
  held never exceeds what is held at the end (of the gains) or at the beginning (of the losses), which is why the
  order of the two parts matters and that within them does not. `FillDoes` also has the statistic: changes in the
  same direction are one change (`ChangeTwice`), so that the items add their whole bonus in any order
  (`RegainedNext`). `SumsExist` and the lemmas after it say what the sum over the items (`Inventory::size`, also a
  fold) does when items change.

### Only model-checked

All liveness properties, which are out of the prover's reach under fairness: `StopEndsRequest`,
`LostTargetsEndWait`, `CountdownEndsOrStops`, `StoppedSessionEnds`, `ClosureEndsPreparation`, `LostMasterEndsWait`,
`RunningSessionStops`, `StopReturns`, `InstructionEnds`, and of `ImplementsAtomicBroadcast` that a broadcast ends.

## 7. Where the code disagrees with its own statements

Each of the three violation runs checks one statement of the repository; its counterexample is an execution of the
code.

- `broadcast_assert`: with two broken connections, the outer loop of `sendToAll` (`rbo/Session.cpp:671-682`) reaches
  an id which the announcement of the first loss has already disconnected: `assert(connections_.count(id) == 1)`
  (`rbo/Session.cpp:39`) fails; without assertions `at` throws and the session crashes for everyone. It is the
  result "stale" of `BroadcastOutcomes`.
- `lobby_preparation`: `README.md:101` announces a "countdown before preparation when all lobby members are ready".
  When the timer has expired and its completion waits in the queue behind a request that cancels the countdown,
  `cancel()` has nothing left to abort, and the session is prepared with a member who is not ready.
- `session_vote`: `votePlayer` collects the names before the question and looks the winner up among the players left
  after it; `assert(selected_player != players_id.cend())` (`rbo/Gameplay.cpp:93`) fails when the winner was lost
  meanwhile.

Other disagreements met while modelling. They are in the modules, the properties are stated so as to hold beside
them, and they have no run of their own:

- a request for the first reply without a living target waits for a reply nobody was asked for, until the server
  stops (`rbo/Session.cpp:567`), and one whose first handled target is a lost connection returns no reply although
  living players could give one; `server/instructions/Base.lua:94` takes "no reply" for "nobody is alive";
- the newcomer is announced before it is inserted (`server/Lobby.cpp:268-270`): an announcement that disconnects the
  only member who was not ready begins a countdown, into which the newcomer is inserted unready
  (`CountdownFollowsReadiness` is stated as long as no connection breaks);
- in the lobby, too, a broadcast reaches ids that a nested one has disconnected (`server/Lobby.cpp:68-78`):
  `out_of_range` leaves the handler and stops the server (`failed` in `Lobby`, "stopped" in `Preparation`);
- a checkpoint whose leader is missing, in a game with `voteLeader`, always ends with `UninitializedLeader`, for the
  vote is a request and requests need a leader (`rbo/Session.cpp:632`); `include/Rbo/Gameplay.hpp:40` names no such
  exception;
- the consent to missing players is kept while the master chooses again (`server/Lobby.cpp:570`), and applied to
  another checkpoint or to a new game, where `server/Lobby.cpp:500` reads an optional without a value;
- the executor reads the lobby's state twice in one condition (`include/Rbo/Server/Executor.hpp:60`): it may go from
  Starting to Open between, and a preparation may then begin without a session;
- a stop between the test of the closure (`server/Lobby.cpp:523`) and the start of the session
  (`rbo/Session.cpp:355`) is seen by neither: `StopMissed` in `Executor`, which `StopReturns` excludes;
- a handler that runs when `server_.stop()` is called is not waited for (`server/Executor.cpp:16`): when another
  thread has closed the lobby, it may write `Starting`, `Open` or `Preparing` over `Closed` (`server/Lobby.cpp:106,
  118, 132`). `start` then returns with a lobby that is not closed, or waits for ever for the end of a countdown
  which no handler can end: `overtaken` and `Reopened` in `Executor`, which its properties except;
- a registration is not stopped by a preparation nor by a session (`server/Lobby.cpp:218-283` tests only
  `isStarting()`): a newcomer who registers during a session is announced to members whose sockets the session has,
  is dropped with them when it ends (`server/Lobby.cpp:529`), and may have become the master, who is then no
  member, so that the next question throws (`server/Lobby.cpp:363, 380`). A master displaced while it is asked makes
  its successor be disconnected for it. `LivingMembersStay` and `MasterIsMember` name these cases;
- a failed send inside two range-for loops erases the element they stand on (`rbo/Session.cpp:390`, `587`), and the
  launching loop inserts into a map that completions read (`577`, `581`): "undefined";
- a restored player gets the bonuses of its items twice, in the saved value and from the items that are added
  (`rbo/Session.cpp:307`). `RestoredAsSaved` states the value that it has then, within the limits, for every
  inventory whose bonuses go in one direction; when some add and others take away, the order of the hash table
  decides at which limit the value is cut, and nothing is stated of it;
- `PlayerCheckingResult::alive` is returned inverted (`rbo/Gameplay.cpp:155, 167, 174`); it is a value for scripts
  and not modelled;
- `EventTo` applies an effect to some targets before a later one fails (`server/instructions/Base.lua:130`);
- the targets of a loop and the players of a test are taken before broadcasts and questions that may lose them: the
  next use of a lost one throws `UnknownPlayer`, which ends the session for everyone (`TargetGone`, `Count`);
- a party whose last living player is *lost*, not killed, plays on: only a death looks whether anyone is alive
  (`rbo/Gameplay.cpp`), and `PartyDeadEnds` is stated of parties that still have a living name in `alive`;
- the first enemy of a group attacks even when it is dead, and a group of the dead attacks once, then `nextAlive`
  throws `NoMoreEnemies` and the session ends (`server/instructions/Custom.lua`);
- `ActionVote`, and the votes of `Test` and `IfHas`, call `votePlayer`, which no script defines
  (`server/instructions/Base.lua`): always an error;
- the file of checkpoints is truncated before it is written (`server/LocalGameBuilder.cpp:139`): a crash or a failed
  write between loses every checkpoint, and nothing can be saved or loaded afterwards. A write may even fail unseen:
  the failures are looked for (`server/LocalGameBuilder.cpp:148`) before the stream is flushed by its destructor,
  and the players are told the name of a checkpoint that nobody can load. `PromisedLoads` holds beside both because
  it says nothing of a file that cannot be read;
- `goTo` moves the cursor relatively to where it is (`rbo/Enemy.cpp:115-119`), while its parameter is a position in
  the queue (`include/Rbo/Enemy.hpp:92`); no script of the repository calls it;
- `DrinkMagicPotion` keeps a reference to a player across the messages it sends them
  (`server/instructions/Custom.lua:30`), which may find their connection broken and erase them: undefined behaviour,
  and the reason why that instruction is not in `Instructions`;
- a message of 1299 or 1300 bytes is refused although `MAX_LENGTH` is 1300 (`include/Rbo/Data.hpp`): writing the
  length prefix tests for room behind the end of the message.

## 8. What is not modelled, and why

- Lua glue, JSON parsing, logging, the command line: no state of their own that the rest depends on.
- Byte layouts of messages: the modules keep which message goes to whom.
- Overflow: a statistic is an `int` and a change may overflow it (`rbo/StatsManager.cpp`), the sum of an item's
  bonus is computed with an unsigned factor (`rbo/Player.cpp`); `Character` has unbounded integers within small
  limits, so it says nothing of these.
- During a preparation, what the lobby's handlers do besides completing a registration: a newcomer's next requests
  (to be ready, which may begin a countdown, or to leave), a reply taken by the lobby's own pending receive instead
  of the one of the preparation. `Preparation` keeps the registrations, `Executor` the countdowns.
- Data races inside one broadcast or one update of the members from both threads: the steps of the two threads
  alternate in `Preparation`, one broadcast being one step. The main thread's own reads and writes of the lobby's
  state are one step each in `Executor`; those of the handlers are apart.
- Registration before its completion (accepting, names, the checks of versions): only its end changes the members.
- Battles of Gameplay: they are messages and requests, which a scene of `Session` makes in any order.
- `DrinkMagicPotion`, whose behaviour is undefined when a player is lost to one of its messages; scripts that a game
  brings itself, which are any steps of `Session`'s scenes.
- Enemies: `hit`, `heal`, `unbuff`, `goTo` and `next`, which no script of the repository calls.
- What an instruction does to items: `Character` has it; `Instructions` keeps the hit points, on which deaths
  depend, and lets an event with items lead elsewhere.
- Votes (the counting of names) and dice: the winner is any of those asked.
- Validity of a game (`Game::validity`): the games of the modules are valid ones.

## 9. The plan

Done, in this order: the broadcast and its abstraction; the request, its proofs and its contract; the lobby; the
session's lifecycle and its contract; the preparation; the executor and its proofs; the character; the enemies and
the instructions; the store of checkpoints.

Then the proofs: of every safety property, and of the refinements.

Left, the most valuable first:

1. `Vote`: the counting of `rbo/Common.cpp` as a function, with its ties, and what `votePlayer` makes of its result;
   the length prefix of messages;
2. `Game`: validity of a game against what `Session` and `Character` assume of it, as a theorem about the two;
3. the instructions on a `Character` instead of hit points alone, with a refinement of `Instructions` by it;
4. the lemmas that the liveness properties rest on: for each, a measure that every step of the fair actions
   decreases and no other increases, which is an action property that can be proved.
