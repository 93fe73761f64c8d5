--------------------------- MODULE MCCheckpoints ---------------------------
(* Checkpoints for TLC: groups of enemies in which the first is dead, one   *)
(* in the middle or the last is, all are, two have the same name, or there  *)
(* is nobody; and a file with a checkpoint, which is the only one of its    *)
(* name.                                                                    *)
EXTENDS Checkpoints

Enemy(id, points, skill) == [name |-> id, hp |-> points, skill |-> skill]

MCGroups ==
  { << Enemy("A", -1, 1), Enemy("B", 1, 1), Enemy("C", 0, 1) >>,
    << Enemy("A", 1, -1), Enemy("B", 0, 1), Enemy("C", 1, 1) >>,
    << Enemy("A", 0, 1) >>,
    << Enemy("A", 1, 1), Enemy("A", 1, 1) >>,
    << >> }

MCChanges == {-1}

MCFound ==
  { [ n \in {"old"} |-> [ hp |-> <<2, 1>>, alive |-> {1, 2}, boss |-> 2 ] ] }
=============================================================================
