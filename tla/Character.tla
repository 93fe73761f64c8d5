----------------------------- MODULE Character -----------------------------
(***************************************************************************)
(* A player's character (rbo/Player.cpp, StatsManager.cpp, Game.cpp:28-74) *)
(* from the session that makes it or restores it (rbo/Session.cpp:221-309) *)
(* to what the clients are told of it (rbo/Gameplay.cpp:144-168, 228-293). *)
(*                                                                         *)
(* The character has one statistic and one inventory of a few items, some  *)
(* of which give the statistic a bonus.  The session thread does one call  *)
(* of the scripts at a time, so a call is a step.  A broadcast reaches the *)
(* clients that are left (Broadcast.tla); what these have put together     *)
(* from the updates is the variable view.  The display flag "main" behaves *)
(* as "hidden" does in a checkpoint and is left out; integers are          *)
(* unbounded.                                                              *)
(***************************************************************************)
EXTENDS Integers, Sequences, SequencesExt

CONSTANTS Items,        \* the items of the inventory
          Bonus,        \* ItemBonus::bonus of each item, 0 if it has none
          Initial,      \* initialStuff
          Unlimited,    \* an InventorySize without a value
          Sizes,        \* the capacities tried
          Limits,       \* the limits tried, records [min, max]
          Steps,        \* the changes of the statistic and its first values
          Quantities,   \* the changes of an item in an effect
          MaxSize,      \* bound on the size of an inventory without limit
          NoCheckpoint

ASSUME ItemsAssumption ==
  /\ IsFiniteSet(Items)
  /\ Bonus \in [Items -> Int] /\ Initial \in [Items -> Nat]
ASSUME BoundsAssumption ==
  /\ Steps \subseteq Int /\ Quantities \subseteq Int
  /\ Sizes \subseteq Nat /\ MaxSize \in Nat
  /\ Limits \subseteq [min : Int, max : Int]

VARIABLES
  player,        \* the Player
  cache,         \* PlayerCache::playerState
  initialized,   \* PlayerCache::initialized
  view,          \* what the clients know of the player
  chkpt,         \* the PlayerState just restored, or NoCheckpoint
  playing        \* a session has the player

characterVars == <<player, cache, initialized, view, chkpt, playing>>

Capacities == Nat \cup {Unlimited}
Stats == [value : Int, min : Int, max : Int, hidden : BOOLEAN]
Characters ==
  [stat : Stats, content : [Items -> Nat], capacity : Capacities,
   dead : BOOLEAN]

TypeOK ==
  /\ player \in Characters /\ cache \in Characters /\ view \in Characters
  /\ initialized \in BOOLEAN /\ playing \in BOOLEAN
  /\ chkpt \in Characters \cup {NoCheckpoint}

-----------------------------------------------------------------------------
(* StatsManager.                                                           *)

Readjust(stat) ==
  [stat EXCEPT !.value = IF @ > stat.max THEN stat.max
                         ELSE IF @ < stat.min THEN stat.min ELSE @]

Set(stat, value) == Readjust([stat EXCEPT !.value = value])
Change(stat, change) == Set(stat, stat.value + change)

\* Other limits are refused: InvalidLimit.
ValidLimits(min, max) == min <= 0 /\ max >= 0

\* A fault: the value is not readjusted.
LimitsOnly(stat, min, max) == [stat EXCEPT !.min = min, !.max = max]

SetLimits(stat, min, max) ==
  Readjust([stat EXCEPT !.min = min, !.max = max])

-----------------------------------------------------------------------------
(* Inventory, and the bonuses of Player::add and consume.                  *)

SumOver(count) == FoldFunction(+, 0, count)
Size(p) == SumOver(p.content)

\* The item's count changes, and the statistic by its bonus.
Moved(p, item, qty) ==
  [p EXCEPT !.content[item] = @ + qty,
            !.stat =
              IF Bonus[item] = 0 THEN @ ELSE Change(@, qty * Bonus[item])]

Fits(p, qty) == p.capacity = Unlimited \/ Size(p) + qty <= p.capacity

Added(p, item, qty) == IF Fits(p, qty) THEN Moved(p, item, qty) ELSE p

Consumed(p, item, qty) ==
  IF p.content[item] >= qty THEN Moved(p, item, -qty) ELSE p

\* Inventory::setCapacity, refused when more is held.
Resized(p, capacity) ==
  IF capacity = Unlimited \/ capacity >= Size(p)
  THEN [p EXCEPT !.capacity = capacity] ELSE p

-----------------------------------------------------------------------------
(* EventEffect: a change of the statistic and changes of the items, which  *)
(* come in the order of a hash table.                                      *)

Orders == SetToSeqs(Items)

\* Player::add or consume.
Gained(p, item, qty) ==
  IF qty > 0 THEN Added(p, item, qty) ELSE Consumed(p, item, -qty)

\* A fault: the changes are made in the order they come in.
AppliedAsTheyCome(p, change, items, order) ==
  FoldLeft(LAMBDA c, i : Gained(c, i, items[i]),
           [p EXCEPT !.stat = Change(@, change)], order)

\* The partition of the changes: those below 0, or the others.
Part(p, items, order, losses) ==
  FoldLeft(LAMBDA c, i : IF (items[i] < 0) = losses
                         THEN Gained(c, i, items[i]) ELSE c, p, order)

\* EventEffect::apply: the statistic, then what is lost, then the rest.
Applied(p, change, items, order) ==
  LET changed == [p EXCEPT !.stat = Change(@, change)]
  IN Part(Part(changed, items, order, TRUE), items, order, FALSE)

\* EventEffect::simulateItemsChanges.
Simulated(p, items) ==
  IF \E i \in Items : p.content[i] < -items[i] THEN "ItemEmpty"
  ELSE IF p.capacity # Unlimited /\ Size(p) + SumOver(items) > p.capacity
       THEN "InvFull" ELSE "Ok"

-----------------------------------------------------------------------------
(* Updates sent to the clients.                                            *)

\* A fault: nothing is cached of a hidden statistic.
HiddenUncached(known, stat) == IF stat.hidden THEN known ELSE stat

\* The cached statistic after it is sent: when hidden only that is sent, and
\* cached; a client knows what the cache does.
Cached(known, stat) ==
  IF stat.hidden THEN [known EXCEPT !.hidden = TRUE] ELSE stat

\* What a client knows after an update with the PlayerUpdate of p: what has not
\* been sent yet, and what differs from the cache "known".
Told(v, p, known, first) ==
  [ dead |-> p.dead,
    stat |-> IF ~first /\ p.stat = known.stat THEN v.stat
             ELSE IF p.stat.hidden THEN [v.stat EXCEPT !.hidden = TRUE]
             ELSE p.stat,
    content |-> [ i \in Items |->
                    IF ~first /\ p.content[i] = known.content[i]
                    THEN v.content[i] ELSE p.content[i] ],
    capacity |-> IF ~first /\ p.capacity = known.capacity
                 THEN v.capacity ELSE p.capacity ]

\* Gameplay::sendPlayerUpdate.
SendUpdate(p) ==
  /\ view' = Told(view, p, cache, ~initialized)
  /\ cache' = [p EXCEPT !.stat = Cached(cache.stat, @), !.dead = FALSE]
  /\ initialized' = TRUE

-----------------------------------------------------------------------------
(* A session begins.                                                       *)

\* The constructor of Player; a statistic has the limits of an int.
NewPlayer ==
  [ stat |-> [ value |-> 0, min |-> -2147483647 - 1, max |-> 2147483647,
               hidden |-> FALSE ],
    content |-> [i \in Items |-> 0], capacity |-> Unlimited, dead |-> FALSE ]

\* setLimits, set and setHidden.
Described(min, max, value, hidden) ==
  LET stat == Set(SetLimits(player.stat, min, max), value)
  IN [stat EXCEPT !.hidden = hidden]

Fill(p, content, order) ==
  FoldLeft(LAMBDA c, i : Added(c, i, content[i]), p, order)

\* The limit of a capped statistic is its first value.
Highest(l, value, capped) ==
  IF capped /\ value < l.max THEN value ELSE l.max

\* Session::initPlayer: the game gives the limits, the dice the first value and
\* the capacity, in which the initial content fits (Game::validity).  A value
\* that caps the limits below 0 ends the session.
InitPlayer(l, capped, value, hidden, capacity, order) ==
  Fill([ Resized(player, capacity) EXCEPT
           !.stat =
             Described(l.min, Highest(l, value, capped), value, hidden) ],
       Initial, order)

\* Session::restorePlayer.
RestorePlayer(state, order) ==
  Fill([ Resized(player, state.capacity) EXCEPT
           !.stat = Described(state.stat.min, state.stat.max,
                              state.stat.value, state.stat.hidden),
           !.dead = state.dead ],
       state.content, order)

\* What a checkpoint may hold: the file outlives the server, and was written
\* by Session::checkpoint from the character of any session.
Checkpoints ==
  { p \in [ stat : UNION { [ value : l.min .. l.max, min : {l.min},
                             max : {l.max}, hidden : BOOLEAN ] : l \in
                             {k \in Limits : ValidLimits(k.min, k.max)} },
            content : [Items -> 0 .. MaxSize],
            capacity : Sizes \cup {Unlimited}, dead : BOOLEAN ] :
      Size(p) <= IF p.capacity = Unlimited THEN MaxSize ELSE p.capacity }

\* Session::begin has made the players that are not there yet; the entries of a
\* PlayerCache are inserted before the first update.
Begin(p) ==
  /\ ~playing /\ playing' = TRUE
  /\ player' = p
  /\ cache' = [p EXCEPT !.dead = FALSE] /\ initialized' = FALSE
  /\ UNCHANGED view

NewCharacter ==
  /\ \E l \in Limits, capped \in BOOLEAN, value \in Steps, hidden \in BOOLEAN,
        capacity \in Sizes \cup {Unlimited}, order \in Orders :
       /\ ValidLimits(l.min, Highest(l, value, capped))
       /\ capacity # Unlimited => SumOver(Initial) <= capacity
       /\ Begin(InitPlayer(l, capped, value, hidden, capacity, order))
  /\ chkpt' = NoCheckpoint

Restore ==
  \E state \in Checkpoints, order \in Orders :
    /\ Begin(RestorePlayer(state, order))
    /\ chkpt' = state

\* A fault: the session keeps its players.
PlayersKept == UNCHANGED player

\* Session::reset, or another session.
PlayersCleared == player' = NewPlayer

\* The session ends; the clients may still show what they know.
EndSession ==
  /\ playing /\ playing' = FALSE
  /\ PlayersCleared
  /\ cache' = NewPlayer /\ initialized' = FALSE
  /\ chkpt' = NoCheckpoint
  /\ UNCHANGED view

CharacterInit ==
  /\ player = NewPlayer /\ cache = NewPlayer /\ view = NewPlayer
  /\ initialized = FALSE /\ playing = FALSE
  /\ chkpt = NoCheckpoint

\* Session::start sends everything before the first scene.
FirstUpdate ==
  /\ playing /\ ~initialized
  /\ SendUpdate(player)
  /\ chkpt' = NoCheckpoint
  /\ UNCHANGED <<player, playing>>

-----------------------------------------------------------------------------
(* Calls of the scripts.                                                   *)

\* The character changes, and the clients are not told.
Becomes(p) ==
  /\ initialized
  /\ p.capacity = Unlimited => Size(p) <= MaxSize
  /\ player' = p
  /\ UNCHANGED <<cache, initialized, view, chkpt, playing>>

BecomesStat(stat) == Becomes([player EXCEPT !.stat = stat])

ChangeStat == \E d \in Steps : BecomesStat(Change(player.stat, d))
LimitStat ==
  \E l \in Limits : /\ ValidLimits(l.min, l.max)
                    /\ BecomesStat(SetLimits(player.stat, l.min, l.max))
HideStat == \E h \in BOOLEAN : BecomesStat([player.stat EXCEPT !.hidden = h])

\* Player::add and consume, or those of the inventory, which know no bonus.
BecomesHolder(p) ==
  Becomes(p) \/ Becomes([p EXCEPT !.stat = player.stat])

AddItem == \E i \in Items : BecomesHolder(Added(player, i, 1))
ConsumeItem == \E i \in Items : BecomesHolder(Consumed(player, i, 1))
Resize == \E c \in Sizes \cup {Unlimited} : Becomes(Resized(player, c))

ApplyEffect ==
  \E d \in Steps, items \in [Items -> Quantities], order \in Orders :
    Becomes(Applied(player, d, items, order))

PlayerUpdate ==
  /\ initialized
  /\ SendUpdate(player)
  /\ UNCHANGED <<player, chkpt, playing>>

\* Condition::test, for the condition "statistic <= 0".
Dies(p) == p.stat.value <= 0

\* Gameplay::checkPlayer.
CheckPlayer ==
  /\ initialized
  /\ Dies(player)
  /\ player' = [player EXCEPT !.dead = TRUE]
  /\ SendUpdate(player')
  /\ UNCHANGED <<chkpt, playing>>

CharacterNext ==
  \/ FirstUpdate
  \/ ChangeStat \/ LimitStat \/ HideStat
  \/ AddItem \/ ConsumeItem \/ Resize \/ ApplyEffect
  \/ PlayerUpdate \/ CheckPlayer
  \/ NewCharacter \/ Restore \/ EndSession

CharacterSpec == CharacterInit /\ [][CharacterNext]_characterVars

-----------------------------------------------------------------------------
(* Properties.                                                             *)

\* Whatever the scripts do, a character in a session is one that
\* Session::restorePlayer asserts of a checkpoint: the statistic is within its
\* limits, which contain 0, and the inventory holds no more than its capacity.
Restorable ==
  playing =>
    /\ player.stat.min <= player.stat.value
    /\ player.stat.value <= player.stat.max
    /\ ValidLimits(player.stat.min, player.stat.max)
    /\ player.capacity # Unlimited => Size(player) <= player.capacity

\* A simulation is "Ok" exactly when the effect, applied to the same character,
\* makes all of its item changes, in whatever order they come.
SimulationMeansApplied ==
  \A items \in [Items -> Quantities], order \in Orders :
    Simulated(player, items) = "Ok" <=>
      \A i \in Items : Applied(player, 0, items, order).content[i] =
                         player.content[i] + items[i]

\* What a client that knows v can tell of p: all but a hidden value.
Shows(v, p) ==
  /\ v.dead = p.dead /\ v.content = p.content /\ v.capacity = p.capacity
  /\ IF p.stat.hidden THEN v.stat.hidden ELSE v.stat = p.stat

\* However long ago the last update was, and whatever was hidden, shown or
\* changed and changed back since then or since an earlier session, the next
\* one shows the clients the character as it is.
NextUpdateShowsAll ==
  playing => Shows(Told(view, player, cache, ~initialized), player)

\* What the bonuses of a content add up to, and whether none works against
\* another.
Regained(content) == SumOver([i \in Items |-> content[i] * Bonus[i]])
BonusesAgree(content) ==
  \/ \A i \in Items : content[i] # 0 => Bonus[i] >= 0
  \/ \A i \in Items : content[i] # 0 => Bonus[i] <= 0

\* A restored character has what the checkpoint holds, but for its statistic:
\* the saved value had the bonuses of the items held, which are added to it
\* again, within the limits, and only once whatever their order is.  Only when
\* some of them add and others take away does the value depend on the order.
RestoredAsSaved ==
  chkpt # NoCheckpoint =>
    /\ player.content = chkpt.content /\ player.capacity = chkpt.capacity
    /\ player.dead = chkpt.dead
    /\ [player.stat EXCEPT !.value = chkpt.stat.value] = chkpt.stat
    /\ BonusesAgree(chkpt.content) =>
         player.stat = Change(chkpt.stat, Regained(chkpt.content))
=============================================================================
