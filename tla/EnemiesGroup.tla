---------------------------- MODULE EnemiesGroup ----------------------------
(***************************************************************************)
(* A group of enemies and its cursor (rbo/Enemy.cpp), as operators.  A     *)
(* group is the sequence of its enemies in the order of the queue; the     *)
(* cursor current_ is a position in it, from 1.                            *)
(***************************************************************************)
EXTENDS Integers, Sequences, FiniteSetsExt

Descriptors == Seq([name : STRING, hp : Int, skill : Int])

\* The constructor of Enemy: hit points and skill have no negative value.
EnemyMade(described) ==
  [ name  |-> described.name,
    hp    |-> Max({0, described.hp}),
    skill |-> Max({0, described.skill}) ]

\* The constructor of EnemiesGroup makes the enemies in order ...
GroupMade(descriptor) ==
  [ i \in DOMAIN descriptor |-> EnemyMade(descriptor[i]) ]

\* ... and refuses two of the same name (SameEnemiesName).
NamesDiffer(descriptor) ==
  \A i, j \in DOMAIN descriptor :
    descriptor[i].name = descriptor[j].name => i = j

IsAlive(enemy) == enemy.hp # 0

Defeated(group) == \A i \in DOMAIN group : ~IsAlive(group[i])

\* The position "steps" further, from the end back to the beginning.
Further(group, current, steps) ==
  IF current + steps > Len(group) THEN current + steps - Len(group)
                                  ELSE current + steps

\* How many steps away the next living enemies are.  The current one is the
\* first of them, or the last when it is not included.
StepsToLiving(group, current, selfIncluded) ==
  { steps \in (IF selfIncluded THEN 0 ELSE 1) .. Len(group) :
      IsAlive(group[Further(group, current, steps)]) }

\* A fault: the dead are not passed over.
NextWhoever(group, current, selfIncluded) ==
  [ current |-> Further(group, current, 1),
    looped  |-> current = Len(group) ]

\* A fault: going back to the beginning is only noticed at the first step.
NextLoopForgotten(group, current, selfIncluded) ==
  LET steps == Min(StepsToLiving(group, current, selfIncluded))
  IN [ current |-> Further(group, current, steps),
       looped  |-> ~selfIncluded /\ current = Len(group) ]

\* nextAlive, of a group that is not defeated: the nearest living enemy, and
\* whether the cursor has gone back to the beginning.
NextAlive(group, current, selfIncluded) ==
  LET steps == Min(StepsToLiving(group, current, selfIncluded))
  IN [ current |-> Further(group, current, steps),
       looped  |-> current + steps > Len(group) ]
=============================================================================
