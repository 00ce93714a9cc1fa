---------------------------- MODULE MCSupervisor ----------------------------
(* Constants for model checking Supervisor: a timeout of 0 has
   passed at the first tick of the clock. *)
EXTENDS Supervisor
MCTimeout == <<0, 0>>
MCStuckAfter == <<0, 0>>
MCMaxAttempts == <<2, 1, 1, 1, 1>>
===============================================================================
