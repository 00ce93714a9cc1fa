----------------------------- MODULE MCExecution -----------------------------
(* Constants for model checking ExecutionEngine. *)
EXTENDS ExecutionProperties
MCIntents == {"i1"}
MCClock == <<1, 2>>
MCStoppedClock == <<1, 1, 1>>
===============================================================================
