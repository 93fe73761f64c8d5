----------------------------- MODULE MCRequest -----------------------------
(* Request for TLC: the ids are naturals because the code orders them.     *)
EXTENDS Request
=============================================================================
