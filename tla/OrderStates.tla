----------------------------- MODULE OrderStates -----------------------------
(***************************************************************************)
(* The life cycle of an order: src/src/crypto/execution/states.py.         *)
(*                                                                         *)
(* A state machine given as the set of successors of each state.  The      *)
(* function transition() of the source is the relation Moves: staying in   *)
(* place is always a no-op, any other move must be an edge, and the code   *)
(* raises TransitionError when it is not.                                  *)
(***************************************************************************)

OrderState ==
  {"PROPOSED", "RISK_PENDING", "RISK_APPROVED", "SUBMITTING", "SUBMITTED",
   "OPEN", "PARTIALLY_FILLED", "FILLED", "CANCEL_PENDING", "CANCELLED",
   "REJECTED", "FAILED", "UNKNOWN", "RECONCILING"}

Terminal == {"FILLED", "CANCELLED", "REJECTED", "FAILED"}

Successors(s) ==
  CASE s \in {"PROPOSED"}      -> {"RISK_PENDING", "REJECTED", "FAILED"}
    [] s \in {"RISK_PENDING"}  -> {"RISK_APPROVED", "REJECTED", "FAILED"}
    [] s \in {"RISK_APPROVED"} -> {"SUBMITTING", "REJECTED", "FAILED"}
    [] s \in {"SUBMITTING"}    -> {"SUBMITTED", "OPEN", "PARTIALLY_FILLED", "FILLED",
                                   "REJECTED", "FAILED", "UNKNOWN"}
    [] s \in {"SUBMITTED"}     -> {"OPEN", "PARTIALLY_FILLED", "FILLED", "CANCEL_PENDING",
                                   "CANCELLED", "REJECTED", "FAILED", "UNKNOWN",
                                   "RECONCILING"}
    [] s \in {"OPEN", "PARTIALLY_FILLED"}
                               -> {"PARTIALLY_FILLED", "FILLED", "CANCEL_PENDING",
                                   "CANCELLED", "UNKNOWN", "RECONCILING"}
    [] s \in {"CANCEL_PENDING"} -> {"CANCELLED", "FILLED", "PARTIALLY_FILLED", "UNKNOWN",
                                   "RECONCILING", "FAILED"}
    [] s \in {"UNKNOWN"}       -> {"RECONCILING", "OPEN", "PARTIALLY_FILLED", "FILLED",
                                   "CANCELLED", "REJECTED", "FAILED"}
    [] s \in {"RECONCILING"}   -> {"OPEN", "PARTIALLY_FILLED", "FILLED", "CANCELLED",
                                   "REJECTED", "FAILED", "UNKNOWN", "SUBMITTED"}
    [] OTHER                   -> {}

\* MUTANT: no edge from CANCEL_PENDING to RECONCILING.
MovesUnlessCanceling(s, t) ==
  s = t \/ (t \in Successors(s) /\ <<s, t>> # <<"CANCEL_PENDING", "RECONCILING">>)

Moves(s, t) == s = t \/ t \in Successors(s)

===============================================================================
