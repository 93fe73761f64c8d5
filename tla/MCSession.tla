----------------------------- MODULE MCSession -----------------------------
(* Session for TLC: the ids are naturals because the code orders them.     *)
EXTENDS Session
=============================================================================
