------------------------------- MODULE LiveGate -------------------------------
(***************************************************************************)
(* The live gate of the crypto desk: LiveGateController                    *)
(* (crypto/control/live_gate.py), which opens the adapter's trading switch *)
(* and promotes the execution mode when the environment authorizes it and  *)
(* the preflight passes, and recovers from soft failures with a linear     *)
(* backoff; composed with what it acts on, the adapter's switch            *)
(* (exchanges/base.py) and the engine's mode (execution/engine.py).        *)
(*                                                                         *)
(* The controller has no lock.  Its tick loop and the operator's thread    *)
(* each have a place ("at") in the operation they are in, one for each     *)
(* call they make between what they read and write, and between two places *)
(* the other thread can do anything.  Promoting and demoting have the same *)
(* order, and so the same places: the switch, the mode, mode_fn, the state.*)
(* The environment may change at any moment, so it is read together with   *)
(* what the code reads or writes next to it.                               *)
(***************************************************************************)
EXTENDS Integers

CONSTANTS
  Threads,      \* who uses the gate: the tick loop and the operators
  Loop,         \* the thread that runs tick()
  BaseBackoff,  \* base_backoff_minutes
  MaxBackoff    \* max_backoff_minutes

ASSUME GateAssumption == /\ BaseBackoff \in Nat \ {0} /\ MaxBackoff \in Nat \ {0}
                         /\ Loop \in Threads

\* Attempts beyond this one wait no longer: a bound that tells nothing apart.
AttemptCap == MaxBackoff + 1

VARIABLES
  setup,       \* how the host wired it: mode_fn, continue_at_cap, sandbox
  gate,        \* LiveGateState
  attempt,     \* _attempt, up to AttemptCap
  wait,        \* minutes until _next_retry_mono
  mode,        \* _execution_mode, the mode the gate believes in
  at,          \* thread -> its place
  why,         \* thread -> what it promotes or demotes for
  count,       \* thread -> the attempt it has counted
  trading,     \* adapter.trading_enabled
  engineMode,  \* the mode of the engine behind mode_fn
  sending,     \* where that engine is with an order of its own
  outside,     \* what the environment authorizes and the preflight finds
  missed,      \* history: the last call of mode_fn raised
  crowded,     \* history: threads whose act under way has met another's
  mixed         \* history: the act that ended last had met another's

state   == <<gate, attempt, wait>>
target  == <<mode, trading, engineMode, missed>>
threads == <<at, why, count, crowded, mixed>>
world   == <<setup, outside>>
gateVars == <<setup, gate, attempt, wait, mode, at, why, count, trading, engineMode, sending,
              outside, missed, crowded, mixed>>

Setup == [wired : BOOLEAN, continues : BOOLEAN, sandbox : BOOLEAN]
GateStates == {"IDLE", "LIVE_ENABLED", "RECOVERING", "HARD_STOP"}
Causes == {"live", "soft", "hard", "stop"}

\* A thread asks, and then it acts.
Asking == {"away", "starting", "preflight"}
Acting == {"opening", "enabling", "switch", "mode", "telling", "engine", "ending", "counting",
           "deciding", "timing"}

\* "well": authorized, and the preflight passes; "failing": authorized, and it does not.
Outside == {"well", "failing", "unauthorized"}

env == outside # "unauthorized"

\* How a preflight may be classified.
Answers == CASE outside = "well"    -> {"fine"}
             [] outside = "failing" -> {"soft", "hard"}
             [] OTHER               -> {"fine", "soft", "hard"}

GateTypeOK ==
  /\ setup \in Setup
  /\ gate \in GateStates
  /\ attempt \in 0..AttemptCap
  /\ wait \in 0..MaxBackoff
  /\ mode \in {"PAPER", "LIVE"} /\ engineMode \in {"PAPER", "LIVE"}
  /\ at \in [Threads -> Asking \union Acting]
  /\ why \in [Threads -> Causes]
  /\ count \in [Threads -> 0..AttemptCap]
  /\ crowded \in SUBSET Threads
  /\ sending \in {"no", "passed", "open"}
  /\ trading \in BOOLEAN /\ missed \in BOOLEAN /\ mixed \in BOOLEAN
  /\ outside \in Outside

GateInit ==
  /\ setup \in Setup
  /\ gate = "IDLE" /\ attempt = 0 /\ wait = 0 /\ mode = "PAPER"
  /\ at = [t \in Threads |-> "away"]
  /\ why = [t \in Threads |-> "stop"]
  /\ count = [t \in Threads |-> 0]
  /\ crowded = {} /\ mixed = FALSE
  /\ trading = FALSE /\ engineMode = "PAPER" /\ sending = "no" /\ missed = FALSE
  /\ outside \in Outside

-------------------------------------------------------------------------------
\* t goes on to another place of the operation it is in.
GoesTo(t, place) ==
  at' = [at EXCEPT ![t] = place] /\ UNCHANGED <<why, count, crowded, mixed>>

\* t begins to act; an act meets another when they overlap.
Others(t) == {o \in Threads \ {t} : at[o] \in Acting}

BeginsAct(t, place, cause) ==
  /\ at' = [at EXCEPT ![t] = place]
  /\ why' = [why EXCEPT ![t] = cause]
  /\ crowded' = IF Others(t) = {} THEN crowded ELSE crowded \union Others(t) \union {t}
  /\ UNCHANGED <<count, mixed>>

\* A promotion refused, or a recovery given up, demotes (once more) for a hard stop.
BecomesHard(t) ==
  /\ at' = [at EXCEPT ![t] = "switch"]
  /\ why' = [why EXCEPT ![t] = "hard"]
  /\ UNCHANGED <<count, crowded, mixed>>

EndsAct(t) ==
  /\ at' = [at EXCEPT ![t] = "away"]
  /\ why' = [why EXCEPT ![t] = "stop"]
  /\ count' = [count EXCEPT ![t] = 0]
  /\ crowded' = crowded \ {t}
  /\ mixed' = (t \in crowded)

-------------------------------------------------------------------------------
(***************************************************************************)
(* tick() of the loop and evaluate() of an operator.  The state is tested  *)
(* once, before the preflight is asked; what it answers is acted upon      *)
(* whatever happened meanwhile.  The readings of a tick are one, since     *)
(* evaluate() tests the state again.                                       *)
(***************************************************************************)
TickTooSoon ==   \* MUTANT: the comparison with the time of the next retry is reversed
  /\ at[Loop] = "away" /\ gate # "HARD_STOP"
  /\ gate = "RECOVERING" => wait > 0
  /\ GoesTo(Loop, "starting")
  /\ UNCHANGED <<state, target, sending, world>>

\* The retries of a recovery keep to their time.
Tick ==
  /\ at[Loop] = "away" /\ gate # "HARD_STOP"
  /\ gate = "RECOVERING" => wait = 0
  /\ GoesTo(Loop, "starting")
  /\ UNCHANGED <<state, target, sending, world>>

EvaluateGate(t) ==
  /\ at[t] = "away" /\ t # Loop
  /\ GoesTo(t, "starting")
  /\ UNCHANGED <<state, target, sending, world>>

TestsState(t) ==
  /\ at[t] = "starting"
  /\ \/ gate = "HARD_STOP" /\ GoesTo(t, "away")
     \/ gate # "HARD_STOP" /\ env /\ GoesTo(t, "preflight")
     \/ gate # "HARD_STOP" /\ ~env /\ BeginsAct(t, "switch", "hard")
  /\ UNCHANGED <<state, target>>

AsksPreflight(t) ==
  /\ at[t] = "preflight"
  /\ \/ "fine" \in Answers /\ BeginsAct(t, "opening", "live")
     \/ "soft" \in Answers /\ BeginsAct(t, "switch", "soft")
     \/ "hard" \in Answers /\ BeginsAct(t, "switch", "hard")
  /\ UNCHANGED <<state, target>>

-------------------------------------------------------------------------------
(***************************************************************************)
(* The act.  To open the switch the adapter asks the environment again,    *)
(* outside a sandbox, and a refusal turns the promotion into a hard stop.  *)
(* Shutting the switch only when it is open is the same as shutting it.    *)
(***************************************************************************)
TestsSwitch(t) ==
  /\ at[t] = "opening"
  /\ GoesTo(t, IF trading THEN "mode" ELSE "enabling")
  /\ UNCHANGED <<state, target>>

Refused == ~setup.sandbox /\ ~env

EnablesTrading(t) ==
  /\ at[t] = "enabling"
  /\ \/ ~Refused /\ trading' = TRUE /\ GoesTo(t, "mode")
     \/ Refused /\ BecomesHard(t) /\ UNCHANGED trading
  /\ UNCHANGED <<state, mode, engineMode, missed>>

LeavesSwitch(t) ==   \* MUTANT: a demotion leaves the switch to mode_fn
  /\ at[t] = "switch"
  /\ GoesTo(t, "mode")
  /\ UNCHANGED <<state, target>>

ShutsSwitch(t) ==
  /\ at[t] = "switch"
  /\ trading' = FALSE
  /\ GoesTo(t, "mode")
  /\ UNCHANGED <<state, mode, engineMode, missed>>

ModeOf(cause) == IF cause = "live" THEN "LIVE" ELSE "PAPER"

\* Where the act goes when the mode has been told: to the state it ends in.
Last(t) == IF why[t] = "soft" THEN "counting" ELSE "ending"

SetsMode(t) ==
  /\ at[t] = "mode"
  /\ mode' = ModeOf(why[t])
  /\ GoesTo(t, IF setup.wired THEN "telling" ELSE Last(t))
  /\ UNCHANGED <<state, trading, engineMode, missed>>

\* mode_fn is the engine's set_mode; when it raises, that is ignored.
TellsEngine(t) ==
  /\ at[t] = "telling"
  /\ \/ missed' = TRUE /\ UNCHANGED engineMode /\ GoesTo(t, Last(t))
     \/ missed' = FALSE /\ engineMode' = ModeOf(why[t]) /\ GoesTo(t, "engine")
  /\ UNCHANGED <<state, mode, trading>>

\* set_mode shuts the switch whatever the mode.
EngineShuts(t) ==
  /\ at[t] = "engine"
  /\ trading' = FALSE
  /\ GoesTo(t, Last(t))
  /\ UNCHANGED <<state, mode, engineMode, missed>>

\* _on_success, _on_hard and force_hard_stop end by writing the state.
EndsLive(t) ==
  /\ at[t] = "ending" /\ why[t] = "live"
  /\ gate' = "LIVE_ENABLED" /\ attempt' = 0 /\ wait' = 0
  /\ EndsAct(t)
  /\ UNCHANGED target

EndsStopped(t) ==
  /\ at[t] = "ending" /\ why[t] \in {"hard", "stop"}
  /\ gate' = "HARD_STOP"
  /\ wait' = IF why[t] = "hard" THEN 0 ELSE wait
  /\ EndsAct(t)
  /\ UNCHANGED <<attempt, target>>

-------------------------------------------------------------------------------
(***************************************************************************)
(* _on_soft counts the failure, gives up beyond the cap if so configured   *)
(* by demoting once more for a hard stop, or sets the time of its retry.   *)
(***************************************************************************)
Smaller(a, b) == IF a < b THEN a ELSE b

Counts(t) ==
  /\ at[t] = "counting"
  /\ attempt' = Smaller(attempt + 1, AttemptCap)
  /\ count' = [count EXCEPT ![t] = attempt']
  /\ at' = [at EXCEPT ![t] = "deciding"]
  /\ UNCHANGED <<why, crowded, mixed, gate, wait, target>>

GivesUp(n) == ~setup.continues /\ n * BaseBackoff > MaxBackoff

Decides(t) ==
  /\ at[t] = "deciding"
  /\ \/ GivesUp(attempt) /\ BecomesHard(t) /\ UNCHANGED gate
     \/ ~GivesUp(attempt) /\ gate' = "RECOVERING" /\ GoesTo(t, "timing")
  /\ UNCHANGED <<attempt, wait, target>>

Backoff(n) == Smaller(MaxBackoff, BaseBackoff * n)

SetsRetry(t) ==
  /\ at[t] = "timing"
  /\ wait' = Backoff(count[t])
  /\ EndsAct(t)
  /\ UNCHANGED <<gate, attempt, target>>

-------------------------------------------------------------------------------
\* force_hard_stop demotes and stops; the operator's reset goes on with evaluate().
ForceHardStop(t) ==
  /\ at[t] = "away" /\ t # Loop
  /\ BeginsAct(t, "switch", "stop")
  /\ UNCHANGED <<state, target, sending, world>>

ResetHardStop(t) ==
  /\ at[t] = "away" /\ t # Loop /\ gate = "HARD_STOP"
  /\ gate' = "IDLE" /\ attempt' = 0 /\ wait' = 0
  /\ GoesTo(t, "starting")
  /\ UNCHANGED <<target, sending, world>>

(***************************************************************************)
(* The world: time, the environment, the exchange, and the engine, which   *)
(* tests its mode, opens the switch for an order of its own and shuts it   *)
(* behind.                                                                 *)
(***************************************************************************)
GateElapse ==
  /\ wait > 0
  /\ wait' = wait - 1
  /\ UNCHANGED <<gate, attempt, target, threads, sending, world>>

WorldChanges ==
  /\ outside' \in Outside
  /\ UNCHANGED <<setup, state, target, threads, sending>>

EngineSubmits ==
  /\ setup.wired
  /\ \/ sending = "no" /\ engineMode = "LIVE" /\ sending' = "passed" /\ UNCHANGED trading
     \/ sending = "passed" /\ ~Refused /\ sending' = "open" /\ trading' = TRUE
     \/ sending = "passed" /\ Refused /\ sending' = "no" /\ trading' = FALSE
     \/ sending = "open" /\ sending' = "no" /\ trading' = FALSE
  /\ UNCHANGED <<state, mode, engineMode, missed, threads, world>>

\* A thread goes on with what it is doing.
GoesOn(t) ==
  /\ \/ TestsState(t) \/ AsksPreflight(t)
     \/ TestsSwitch(t) \/ EnablesTrading(t) \/ ShutsSwitch(t) \/ SetsMode(t)
     \/ TellsEngine(t) \/ EngineShuts(t) \/ EndsLive(t) \/ EndsStopped(t)
     \/ Counts(t) \/ Decides(t) \/ SetsRetry(t)
  /\ UNCHANGED <<sending, world>>

GateNext ==
  \/ Tick
  \/ \E t \in Threads : EvaluateGate(t) \/ ForceHardStop(t) \/ ResetHardStop(t) \/ GoesOn(t)
  \/ GateElapse \/ WorldChanges \/ EngineSubmits

GateSpec == GateInit /\ [][GateNext]_gateVars
                     /\ WF_gateVars(Tick) /\ WF_gateVars(GateElapse)
                     /\ \A t \in Threads : WF_gateVars(GoesOn(t))

-------------------------------------------------------------------------------
(***************************************************************************)
(* The gate, the mode it believes in and what it acts on agree when nobody *)
(* acts and the last act met no other: LIVE is believed exactly in         *)
(* LIVE_ENABLED; an engine behind mode_fn has the same mode unless the     *)
(* last call of it raised; between orders of that engine the switch stands *)
(* open only where a promotion could not tell it; and without an engine    *)
(* the switch is open exactly in LIVE_ENABLED.  Acts that met leave what   *)
(* they leave, and the next act that meets none repairs it.                *)
(***************************************************************************)
PaperUnlessLive ==
  (\A t \in Threads : at[t] \notin Acting) /\ ~mixed =>
    /\ mode = "LIVE" <=> gate = "LIVE_ENABLED"
    /\ setup.wired => engineMode = mode \/ missed
    /\ setup.wired /\ trading /\ sending = "no" => missed /\ gate = "LIVE_ENABLED"
    /\ ~setup.wired => (trading <=> gate = "LIVE_ENABLED")

(***************************************************************************)
(* live_gate.py:10: "On hard failure -> stop recovery loop, demote PAPER,  *)
(* require human": a hard stop is left by the operator's reset only, which *)
(* leads to IDLE.  An evaluation that tested the state before the stop     *)
(* writes LIVE_ENABLED or RECOVERING over it.                              *)
(***************************************************************************)
HardStopRequiresHuman ==
  [][gate = "HARD_STOP" /\ gate' # "HARD_STOP" => gate' = "IDLE"]_gateVars

(***************************************************************************)
(* The gate recovers by itself: once the environment authorizes and the    *)
(* preflight passes for good, the backoff runs out and the gate is back in *)
(* LIVE_ENABLED, or has been stopped hard, again and again.                *)
(***************************************************************************)
Recovers ==
  <>[](outside = "well") => []<>(gate \in {"LIVE_ENABLED", "HARD_STOP"})

===============================================================================
