---------------------------- MODULE MCTurnEngine ----------------------------
(* One hero of the user, one tower and two line creeps, on three threads.  *)
EXTENDS TurnEngine
=============================================================================
