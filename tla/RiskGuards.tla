------------------------------- MODULE RiskGuards -------------------------------
(***************************************************************************)
(* The risk engine of the crypto desk (crypto/risk/engine.py) with its     *)
(* equity tracker (risk/models.py): the safety mode and its circuit        *)
(* breakers, the reconciliation flag, the losses of the day, and the       *)
(* verdict on a proposal.  What else rejects a proposal (its data, its     *)
(* size, the positions held) is a choice.                                  *)
(***************************************************************************)
EXTENDS Integers

CONSTANTS
  Equities,             \* the equities a portfolio is met with
  MaxDailyLossPct,      \* policy.max_daily_loss_pct
  MaxDrawdownPct,       \* policy.max_drawdown_pct
  MaxConsecutiveLosses  \* policy.max_consecutive_losses

ASSUME RiskAssumption ==
  /\ Equities \subseteq Nat /\ Equities # {}
  /\ MaxDailyLossPct \in 1..100 /\ MaxDrawdownPct \in 1..100
  /\ MaxConsecutiveLosses \in Nat

SafetyModes == {"NORMAL", "WARNING", "BLOCK_NEW_ENTRIES", "REDUCE_ONLY", "EMERGENCY_STOP"}

\* EquityTracker; there is none, or it is an earlier day's, unless "todays".
DayTracker == [todays : BOOLEAN, start : Equities, peak : Equities,
               losses : 0..MaxConsecutiveLosses]

VARIABLES
  safety,      \* _safety_mode
  reconciled,  \* _reconciliation_ok
  day,         \* _tracker
  equity,      \* the portfolio's equity
  bought,      \* history: the last step approved a BUY
  mismatched,  \* history: a mismatch was seen and nobody has cleared it
  seen         \* history: the equities the engine has counted today

riskVars == <<safety, reconciled, day, equity, bought, mismatched, seen>>

RiskTypeOK ==
  /\ safety \in SafetyModes
  /\ reconciled \in BOOLEAN /\ bought \in BOOLEAN /\ mismatched \in BOOLEAN
  /\ day \in DayTracker
  /\ equity \in Equities
  /\ seen \in SUBSET Equities

NoDay(e) == [todays |-> FALSE, start |-> e, peak |-> e, losses |-> 0]

RiskInit ==
  /\ safety = "NORMAL" /\ reconciled = TRUE
  /\ equity \in Equities
  /\ day = NoDay(equity)
  /\ bought = FALSE /\ mismatched = FALSE /\ seen = {}

-------------------------------------------------------------------------------
Higher(a, b) == IF a > b THEN a ELSE b

\* update_equity_tracker: a new day starts anew, losses in a row included.
Counted(e) ==
  IF day.todays THEN [day EXCEPT !.peak = Higher(@, e)] ELSE [NoDay(e) EXCEPT !.todays = TRUE]

CountsEquity == day' = Counted(equity) /\ seen' = seen \union {equity}

\* Percentages of the start and of the peak; of nothing they are 0.
LossReached(start, e) == start > 0 /\ e < start /\ (start - e) * 100 >= MaxDailyLossPct * start

DrawdownReached(peak, e) == peak > 0 /\ (peak - e) * 100 >= MaxDrawdownPct * peak

\* RejectReason's first: the safety mode, then the reconciliation.
LetsBuy == safety \in {"NORMAL", "WARNING"} /\ reconciled

LetsSell == safety # "EMERGENCY_STOP" /\ reconciled

\* evaluate, from the tracker on; a proposal turned away before changes nothing.
Evaluate(buys, approved) ==
  /\ IF buys THEN LetsBuy ELSE LetsSell
  /\ CountsEquity
  /\ approved => /\ ~LossReached(day'.start, equity)
                 /\ ~DrawdownReached(day'.peak, equity)
                 /\ day'.losses < MaxConsecutiveLosses
  /\ bought' = (buys /\ approved)
  /\ UNCHANGED <<safety, reconciled, equity, mismatched>>

-------------------------------------------------------------------------------
\* evaluate_circuit_breakers: the first condition met decides.
Breaker == {"outage", "mismatch", "bad_data", "abnormal_move", "clear"}

Tripped(condition) ==
  IF condition \in {"outage", "mismatch"} THEN "BLOCK_NEW_ENTRIES"
  ELSE IF DrawdownReached(day'.peak, equity) THEN "EMERGENCY_STOP"
  ELSE IF LossReached(day'.start, equity) THEN "BLOCK_NEW_ENTRIES"
  ELSE IF condition = "bad_data" THEN "WARNING"
  ELSE IF condition = "abnormal_move" THEN "REDUCE_ONLY"
  ELSE IF safety = "EMERGENCY_STOP" THEN safety
  ELSE "NORMAL"

BreakersForgetting(condition) ==   \* MUTANT: a mismatch only sets the safety mode
  /\ CountsEquity
  /\ safety' = Tripped(condition)
  /\ mismatched' = (mismatched \/ condition = "mismatch")
  /\ bought' = FALSE
  /\ UNCHANGED <<reconciled, equity>>

EvaluateCircuitBreakers(condition) ==
  /\ CountsEquity
  /\ safety' = Tripped(condition)
  /\ reconciled' = (reconciled /\ condition # "mismatch")
  /\ mismatched' = (mismatched \/ condition = "mismatch")
  /\ bought' = FALSE
  /\ UNCHANGED equity

SetSafetyMode(m) ==
  /\ safety' = m
  /\ bought' = FALSE
  /\ UNCHANGED <<reconciled, day, equity, mismatched, seen>>

SetReconciliationOk(ok) ==
  /\ reconciled' = ok
  /\ mismatched' = (mismatched /\ ~ok)
  /\ bought' = FALSE
  /\ UNCHANGED <<safety, day, equity, seen>>

\* record_trade_result of the tracker there is; of losses the limit tells enough.
RecordTradeResult(loss) ==
  /\ day.todays
  /\ day' = [day EXCEPT !.losses = IF ~loss THEN 0
                                   ELSE IF @ < MaxConsecutiveLosses THEN @ + 1 ELSE @]
  /\ bought' = FALSE
  /\ UNCHANGED <<safety, reconciled, equity, mismatched, seen>>

\* A new engine: its caller loads the tracker again (load_equity_tracker), or not.
Restart(loads) ==
  /\ safety' = "NORMAL" /\ reconciled' = TRUE /\ mismatched' = FALSE
  /\ IF loads THEN UNCHANGED <<day, seen>> ELSE day' = NoDay(equity) /\ seen' = {}
  /\ bought' = FALSE
  /\ UNCHANGED equity

-------------------------------------------------------------------------------
\* The world: the equity moves, and the day ends.
EquityMoves(e) ==
  /\ equity' = e
  /\ bought' = FALSE
  /\ UNCHANGED <<safety, reconciled, day, mismatched, seen>>

DayEnds ==
  /\ day' = [day EXCEPT !.todays = FALSE]
  /\ seen' = {}
  /\ bought' = FALSE
  /\ UNCHANGED <<safety, reconciled, equity, mismatched>>

RiskNext ==
  \/ \E b, approved \in BOOLEAN : Evaluate(b, approved)
  \/ \E condition \in Breaker : EvaluateCircuitBreakers(condition)
  \/ \E m \in SafetyModes : SetSafetyMode(m)
  \/ \E b \in BOOLEAN : SetReconciliationOk(b) \/ RecordTradeResult(b) \/ Restart(b)
  \/ \E e \in Equities : EquityMoves(e)
  \/ DayEnds

RiskSpec == RiskInit /\ [][RiskNext]_riskVars

-------------------------------------------------------------------------------
(***************************************************************************)
(* No entry is approved in the red: not while a mismatch once seen is      *)
(* unresolved, however the safety mode has recovered since, and not while  *)
(* the equity has fallen by the drawdown limit from anything the engine    *)
(* counted today, by a proposal or by the breakers, or since the tracker   *)
(* was loaded or made.                                                     *)
(***************************************************************************)
NoEntryInTheRed ==
  bought => /\ ~mismatched
            /\ \A e \in seen : ~DrawdownReached(e, equity)

===============================================================================
