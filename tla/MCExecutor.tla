----------------------------- MODULE MCExecutor -----------------------------
(* TLC instances of the executor; the .cfg files choose the bounds. *)
EXTENDS Executor, TLC
=============================================================================
