----------------------------- MODULE MCExecutor -----------------------------
(* Executor for TLC: it has no parameter.                                  *)
EXTENDS Executor
=============================================================================
