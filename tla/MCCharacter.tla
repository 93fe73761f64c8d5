---------------------------- MODULE MCCharacter ----------------------------
(* Character for TLC: two items, one of which adds to the statistic and the  *)
(* other takes away from it.                                               *)
EXTENDS Character

MCBonus == [i \in Items |-> IF i = "sword" THEN 1 ELSE -1]
MCInitial == [i \in Items |-> IF i = "sword" THEN 1 ELSE 0]
MCLimits ==
  {[min |-> 1, max |-> 2], [min |-> -1, max |-> 1], [min |-> 0, max |-> 2]}
MCSteps == {-1, 1}
MCQuantities == -1 .. 1
=============================================================================
