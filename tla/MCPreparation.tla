--------------------------- MODULE MCPreparation ---------------------------
(* Preparation for TLC: the ids are naturals because the code orders them. *)
EXTENDS Preparation
=============================================================================
