---------------------------- MODULE MCOrchestration ----------------------------
(* Constants for model checking Orchestration: a context goes from a strategy
   event to the end of the loop, while a regime event may be published too; the
   handlers are those of research/harness/stage2_final_replay.py in their order,
   without the last, "shadow", which makes one REALITY_GAP more of every event
   and by this only lengthens the queue.  The queue of the strategy's loop just
   fits the bus: with the regime event it does not. *)
EXTENDS Orchestration, TLC
CONSTANT x
MCRoots == (x :> {"STRATEGY", "REGIME"})
MCHandlers == <<"curiosity", "research", "strategy", "drift_regime", "policy_capital",
                "reality_rca">>
===============================================================================
