------------------------------ MODULE LiveControl ------------------------------
(***************************************************************************)
(* The boundary of live execution: LiveExecutionController                 *)
(* (god/live/controller.py) with its LiveAuthorizationGate                 *)
(* (god/live/authorization.py) and its preflight (preflight.py).           *)
(*                                                                         *)
(* Nothing here holds a lock, so every operation of the controller is cut  *)
(* wherever it reads or writes what it shares: each thread has a place     *)
(* ("at") in the operation it is in, and between two places every other    *)
(* thread can do anything.  What is read between two calls is read in one  *)
(* step, since CPython changes threads at calls only; += on an attribute   *)
(* is one step for the same reason.  The authorization gate is used by one *)
(* thread at a time, so that an operation of the gate's own is one step.   *)
(* LiveCapitalGate (god/mt5_runtime/safety_gate.py) is the owner's to open *)
(* and shut at any time: what it allows is chosen where it is read, and so *)
(* is what the caller of an operation asked for.                           *)
(***************************************************************************)
EXTENDS Integers, FiniteSets

CONSTANTS
  Ids,             \* client order ids of the intents
  Callers,         \* threads that use the controller
  Modes,           \* the modes a controller is built for
  MaxOpen,         \* limits.max_open_positions
  MaxSends,        \* bound: how often orders are sent in all
  None             \* no argument

ASSUME LiveAssumption ==
  /\ MaxOpen \in Nat
  /\ MaxSends \in Nat
  /\ Modes \subseteq {"DEMO", "PAPER", "LIVE"}
  /\ IsFiniteSet(Callers) /\ Callers # {}

\* READY and ARMING are declared and never assigned.
ControllerState ==
  {"DISABLED", "ARMED", "EXECUTING", "MONITORING", "DEGRADED", "HALTED", "BLOCKED"}

ValidationState == {"DEMO", "LIVE_DISABLED", "LIVE_READY", "LIVE_ARMED", "SAFE_MODE"}

\* Of the nine prerequisites the gate itself writes one, operator_authorized.
Gate == [state : ValidationState, safe : BOOLEAN, armed : BOOLEAN,
         operator : BOOLEAN, others : BOOLEAN]

\* How the gate is asked to arm: with an operator's acknowledgement, blank or not, or
\* by the administrative policy, with its prerequisites satisfied or not.
How == {"blank", "given", "satisfied", "unsatisfied"}

\* Where a thread is: what the operation it is in does next.
SubmitPlaces == {"gate", "ids", "limits", "capital", "ready", "sending"}
OtherPlaces  == {"idle", "accepted", "held", "rejected", "preflight", "armCapital",
                 "authorizing", "arming", "failed", "blocking", "disarming", "gateDisarm",
                 "resetting", "clearing"}
Places       == SubmitPlaces \union OtherPlaces

\* What it takes along: the id it submits.
Argument(place) == IF place \in SubmitPlaces THEN Ids ELSE {None}

VARIABLES
  mode,         \* LiveMode of the controller
  state,        \* its LiveExecutionState
  preflight,    \* the last preflight report is PASS
  gate,         \* auth_gate
  ids,          \* _client_order_ids
  positions,    \* _open_positions
  at, arg,      \* thread -> its place, and its argument
  sent,         \* history: how often an id went to the broker
  raised,       \* history: how often broker_submit raised for it
  overtaken,    \* history: threads in an operation under which another thread changed
                \* state or preflight
  meddled,      \* history: such a thread wrote one of the two nevertheless
  redo          \* history: until then, what a kill switch requires that is not yet done again

control == <<mode, state, preflight, gate>>
book    == <<ids, positions>>
broker  == <<sent, raised>>
history == <<meddled, redo>>
vars    == <<mode, state, preflight, gate, ids, positions, at, arg, sent, raised, overtaken, meddled, redo>>

TypeOK ==
  /\ mode \in Modes
  /\ state \in ControllerState
  /\ preflight \in BOOLEAN /\ meddled \in BOOLEAN
  /\ gate \in Gate
  /\ ids \in SUBSET Ids
  /\ positions \in Nat
  /\ at \in [Callers -> Places]
  /\ arg \in [Callers -> Ids \union {None}]
  /\ \A c \in Callers : arg[c] \in Argument(at[c])
  /\ sent \in [Ids -> Nat] /\ raised \in [Ids -> Nat]
  /\ redo \in SUBSET {"reset", "preflight", "arm"}
  /\ overtaken \in SUBSET Callers

Init ==
  /\ mode \in Modes
  /\ state = "DISABLED"
  /\ preflight = FALSE
  /\ gate = [state |-> IF mode = "LIVE" THEN "LIVE_DISABLED" ELSE "DEMO", safe |-> FALSE,
             armed |-> FALSE, operator |-> FALSE, others |-> FALSE]
  /\ ids = {}
  /\ positions = 0
  /\ at = [c \in Callers |-> "idle"] /\ arg = [c \in Callers |-> None]
  /\ sent = [i \in Ids |-> 0] /\ raised = [i \in Ids |-> 0]
  /\ overtaken = {} /\ meddled = FALSE /\ redo = {}

\* What the histories keep of a step, here and until somebody has meddled.
Remember(meddles, r) ==
  /\ meddled' = (meddled \/ meddles)
  /\ redo' = IF meddled' THEN {} ELSE r

Overtakes(others) ==
  overtaken' = IF meddled' THEN {}
               ELSE {d \in Callers :
                       /\ at'[d] # "idle"
                       /\ \/ d \in overtaken
                          \/ d \in others /\ (state' # state \/ preflight' # preflight)}

Moves(c, place, x) ==
  /\ at' = [at EXCEPT ![c] = place] /\ arg' = [arg EXCEPT ![c] = x]
  /\ Overtakes(Callers \ {c})

\* A thread goes on to a place, with its argument while that still has a use for it.
GoesOn(c, place) == Moves(c, place, IF place \in OtherPlaces THEN None ELSE arg[c])

-------------------------------------------------------------------------------
(***************************************************************************)
(* The authorization gate: what an operation makes of it.                  *)
(***************************************************************************)
Satisfied(g) == g.operator /\ g.others

Disarmed(g) == [g EXCEPT !.armed = FALSE]

RecomputedKeepingArm(g) ==   \* MUTANT: a lost prerequisite leaves the arm in place
  IF g.safe THEN [g EXCEPT !.state = "SAFE_MODE", !.armed = FALSE]
  ELSE IF g.state = "DEMO" THEN g
  ELSE IF g.armed /\ Satisfied(g) THEN [g EXCEPT !.state = "LIVE_ARMED"]
  ELSE [g EXCEPT !.state = IF Satisfied(g) THEN "LIVE_READY" ELSE "LIVE_DISABLED"]

Recomputed(g) ==
  IF g.safe THEN [g EXCEPT !.state = "SAFE_MODE", !.armed = FALSE]
  ELSE IF g.state = "DEMO" THEN g
  ELSE IF g.armed /\ Satisfied(g) THEN [g EXCEPT !.state = "LIVE_ARMED"]
  ELSE [g EXCEPT !.armed = FALSE,
                 !.state = IF Satisfied(g) THEN "LIVE_READY" ELSE "LIVE_DISABLED"]

Armed(g) == [g EXCEPT !.armed = TRUE, !.state = "LIVE_ARMED"]

GateArmed(g, authorized) ==
  IF g.state = "DEMO" \/ g.safe \/ g.state = "SAFE_MODE" THEN g
  ELSE IF authorized /\ Satisfied(g) THEN Armed(g) ELSE Recomputed(Disarmed(g))

GateDisarmed(g) == Recomputed(Disarmed(g))

\* resume_from_admin_policy.  It vouches for the operator, and it arms a DEMO gate.
GateResumed(g, autonomous, satisfied) ==
  IF (g.state = "DEMO" /\ ~autonomous) \/ g.safe THEN g
  ELSE IF ~autonomous \/ ~satisfied THEN Recomputed(Disarmed(g))
  ELSE LET h == [g EXCEPT !.operator = TRUE]
       IN  IF Satisfied(h) THEN Armed(h) ELSE Recomputed(Disarmed(h))

SafeModeEntered(g) == [g EXCEPT !.safe = TRUE, !.armed = FALSE, !.state = "SAFE_MODE"]

SafeModeExited(g) == Recomputed([g EXCEPT !.safe = FALSE, !.armed = FALSE])

WithPrerequisites(g, op, oth) == Recomputed([g EXCEPT !.operator = op, !.others = oth])

CanSubmitLive == gate.state = "LIVE_ARMED" /\ ~gate.safe /\ gate.armed /\ Satisfied(gate)

\* The gate is the owner's to use as well.
UseGate ==
  /\ gate' \in {GateDisarmed(gate), SafeModeEntered(gate), SafeModeExited(gate)}
               \union {GateArmed(gate, a) : a \in BOOLEAN}
               \union {GateResumed(gate, a, s) : a \in BOOLEAN, s \in BOOLEAN}
               \union {WithPrerequisites(gate, o, p) : o \in BOOLEAN, p \in BOOLEAN}
  /\ UNCHANGED <<mode, state, preflight, book, at, arg, broker, overtaken, history>>

-------------------------------------------------------------------------------
(***************************************************************************)
(* The controller: preflight, arming, disarming, the kill switch.  A test  *)
(* that fails ends the operation, or leads to the writing of BLOCKED.      *)
(***************************************************************************)
Tests(c, place, next) ==
  /\ at[c] = place
  /\ UNCHANGED <<control, book, broker, history>>
  /\ GoesOn(c, next)

\* A thread writes "state", and "preflight" unless it keeps that.
Writes(c, place, s, next, r) ==
  /\ at[c] = place
  /\ state' = s
  /\ Remember(c \in overtaken, r)
  /\ GoesOn(c, next)
  /\ UNCHANGED <<mode, book, broker>>

EvaluatePreflight(c, pass) ==
  /\ preflight' = pass /\ UNCHANGED gate
  /\ Writes(c, "idle", state, IF pass THEN "idle" ELSE "failed",
            IF pass /\ "reset" \notin redo THEN redo \ {"preflight"} ELSE redo)

PreflightFailed(c) ==
  Tests(c, "failed", IF state \in {"HALTED", "BLOCKED"} THEN "idle" ELSE "blocking")

WriteBlocked(c) ==
  UNCHANGED <<preflight, gate>> /\ Writes(c, "blocking", "BLOCKED", "idle", redo)

\* arm, and by the administrative policy arm_from_admin_policy, which is for LIVE only.
Arm(c) ==
  /\ at[c] = "idle"
  /\ state # "HALTED"
  /\ UNCHANGED <<control, book, broker, history>>
  /\ Moves(c, "preflight", None)

ArmPreflight(c, policy) ==
  Tests(c, "preflight",
        CASE ~preflight -> "blocking"
          [] preflight /\ policy /\ mode # "LIVE" -> "idle"
          [] preflight /\ (policy => mode = "LIVE") -> "armCapital")

ArmCapital(c, allowed, acknowledged) ==
  Tests(c, "armCapital",
        CASE mode = "LIVE" /\ ~allowed -> "blocking"
          [] (mode = "LIVE" => allowed) /\ ~acknowledged -> "idle"
          [] mode = "LIVE" /\ allowed /\ acknowledged -> "authorizing"
          [] mode # "LIVE" /\ acknowledged -> "arming")

Authorized(how) ==
  IF how \in {"blank", "given"} THEN GateArmed(gate, how = "given")
  ELSE GateResumed(gate, TRUE, how = "satisfied")

AskGate(c, how) ==
  /\ at[c] = "authorizing"
  /\ gate' = Authorized(how)
  /\ UNCHANGED <<mode, state, preflight, book, broker, history>>
  /\ GoesOn(c, IF gate'.armed THEN "arming" ELSE "blocking")

WriteArmed(c) ==
  /\ UNCHANGED <<preflight, gate>>
  /\ Writes(c, "arming", "ARMED", "idle", IF redo = {"arm"} THEN {} ELSE redo)

Disarm(c) ==
  Tests(c, "idle", IF state = "HALTED" THEN "idle" ELSE "disarming")

WriteDisabled(c) ==
  UNCHANGED <<preflight, gate>> /\ Writes(c, "disarming", "DISABLED", "gateDisarm", redo)

DisarmGate(c) ==
  /\ at[c] = "gateDisarm"
  /\ gate' = GateDisarmed(gate)
  /\ UNCHANGED <<mode, state, preflight, book, broker, history>>
  /\ GoesOn(c, "idle")

\* The kill switch is one write, of a thread that does nothing else.
KillSwitch ==
  /\ state' = "HALTED"
  /\ UNCHANGED <<mode, preflight, gate, book, at, arg, broker>>
  /\ Remember(FALSE, {"reset", "preflight", "arm"})
  /\ Overtakes(Callers)

ResetAfterHalt(c) ==
  Tests(c, "idle", IF state = "HALTED" THEN "resetting" ELSE "idle")

WriteReset(c) ==
  /\ UNCHANGED <<preflight, gate>>
  /\ Writes(c, "resetting", "DISABLED", "clearing", redo \ {"reset"})

ClearNothing(c) ==   \* MUTANT: the preflight of before the halt still counts
  preflight' = preflight /\ UNCHANGED gate /\ Writes(c, "clearing", state, "idle", redo)

ClearPreflight(c) ==
  preflight' = FALSE /\ UNCHANGED gate /\ Writes(c, "clearing", state, "idle", redo)

-------------------------------------------------------------------------------
(***************************************************************************)
(* submit_live_order: one check after the other, EXECUTING, broker_submit, *)
(* and from its answer on.                                                 *)
(***************************************************************************)
SubmitLiveOrder(c, i) ==
  /\ at[c] = "idle"
  /\ state \in {"ARMED", "MONITORING"}
  /\ UNCHANGED <<control, book, broker, history>>
  /\ Moves(c, "gate", i)

Checks(c, place, test, next) == Tests(c, place, IF test THEN next ELSE "idle")

CheckGate(c) == Checks(c, "gate", mode = "LIVE" => CanSubmitLive, "ids")

CheckId(c) == Checks(c, "ids", arg[c] \notin ids, "limits")

RoomForOneMore(losses) == positions <= MaxOpen /\ losses   \* MUTANT: off by one

\* "losses" says that the losses, of the day and in a row, are within their limits.
WithinLimits(losses) == positions < MaxOpen /\ losses

CheckLimits(c, losses) == Checks(c, "limits", WithinLimits(losses), "capital")

CheckCapital(c, allowed) == Checks(c, "capital", mode = "LIVE" => allowed, "ready")

Sends == {s \in Ids \X (1..MaxSends) : s[2] <= sent[s[1]]}

\* EXECUTING is written and the request goes out; nothing is read in between.
Execute(c) ==
  /\ at[c] = "ready" /\ Cardinality(Sends) < MaxSends
  /\ sent' = [sent EXCEPT ![arg[c]] = @ + 1]
  /\ state' = "EXECUTING"
  /\ UNCHANGED <<mode, preflight, gate, book, raised>>
  /\ Remember(c \in overtaken, redo)
  /\ GoesOn(c, "sending")

\* A broker_submit that raised leaves no trace of the id, whatever the broker did.
BrokerRaises(c) ==
  /\ at[c] = "sending"
  /\ raised' = [raised EXCEPT ![arg[c]] = @ + 1]
  /\ state' = "DEGRADED"
  /\ UNCHANGED <<mode, preflight, gate, book, sent>>
  /\ Remember(c \in overtaken, redo)
  /\ GoesOn(c, "idle")

AnswersForgettingRejected(c, ok) ==   \* MUTANT: the id of a rejected order is free again
  /\ at[c] = "sending"
  /\ ids' = IF ok THEN ids \union {arg[c]} ELSE ids
  /\ UNCHANGED <<control, positions, broker, history>>
  /\ GoesOn(c, IF ok THEN "accepted" ELSE "rejected")

BrokerAnswers(c, ok) ==
  /\ at[c] = "sending"
  /\ ids' = ids \union {arg[c]}
  /\ UNCHANGED <<control, positions, broker, history>>
  /\ GoesOn(c, IF ok THEN "accepted" ELSE "rejected")

HoldPosition(c) ==
  /\ at[c] = "accepted"
  /\ positions' = positions + 1
  /\ UNCHANGED <<control, ids, broker, history>>
  /\ GoesOn(c, "held")

\* "state" is written whatever happened to it in the meantime.
Settle(c) ==
  /\ UNCHANGED <<preflight, gate>>
  /\ \/ Writes(c, "held", "MONITORING", "idle", redo)
     \/ Writes(c, "rejected", "ARMED", "idle", redo)

CloseBelowZero ==   \* MUTANT: closes a position nobody has
  /\ positions' = positions - 1
  /\ UNCHANGED <<control, ids, at, arg, broker, overtaken, history>>

\* record_fill_outcome closes a position, if there is one.
RecordFillOutcome ==
  /\ positions' = IF positions > 0 THEN positions - 1 ELSE positions
  /\ UNCHANGED <<control, ids, at, arg, broker, overtaken, history>>

Controls(c) ==
  \/ \E pass \in BOOLEAN : EvaluatePreflight(c, pass)
  \/ PreflightFailed(c) \/ WriteBlocked(c)
  \/ Arm(c)
  \/ \E policy \in BOOLEAN : ArmPreflight(c, policy)
  \/ \E allowed \in BOOLEAN, acknowledged \in BOOLEAN :
       ArmCapital(c, allowed, acknowledged)
  \/ \E how \in How : AskGate(c, how)
  \/ WriteArmed(c)
  \/ Disarm(c) \/ WriteDisabled(c) \/ DisarmGate(c)
  \/ ResetAfterHalt(c) \/ WriteReset(c) \/ ClearPreflight(c)

Submits(c) ==
  \/ \E i \in Ids : SubmitLiveOrder(c, i)
  \/ CheckGate(c) \/ CheckId(c)
  \/ \E losses \in BOOLEAN : CheckLimits(c, losses)
  \/ \E allowed \in BOOLEAN : CheckCapital(c, allowed)
  \/ Execute(c)
  \/ BrokerRaises(c) \/ \E ok \in BOOLEAN : BrokerAnswers(c, ok)
  \/ HoldPosition(c) \/ Settle(c)

Next ==
  \/ UseGate \/ KillSwitch \/ RecordFillOutcome
  \/ \E c \in Callers : Controls(c) \/ Submits(c)

Spec == Init /\ [][Next]_vars

-------------------------------------------------------------------------------
(***************************************************************************)
(* The authorization gate agrees with itself after any mix of arming, lost *)
(* prerequisites, safe mode and policy resumption: it is armed exactly     *)
(* when it says LIVE_ARMED, that and LIVE_READY mean every prerequisite    *)
(* holds, and it says SAFE_MODE exactly while safe mode lasts.             *)
(***************************************************************************)
GateCoherent ==
  /\ gate.armed <=> gate.state = "LIVE_ARMED"
  /\ gate.state \in {"LIVE_READY", "LIVE_ARMED"} => Satisfied(gate)
  /\ gate.safe <=> gate.state = "SAFE_MODE"

(***************************************************************************)
(* No thread can overdraw the position budget by more than the orders that *)
(* passed the check together: the positions held and the orders past the   *)
(* check exceed max_open_positions by at most the other threads, and a     *)
(* single thread keeps to it, whatever is halted and armed in between.     *)
(***************************************************************************)
Committed == {c \in Callers : at[c] \in {"capital", "ready", "sending", "accepted"}}

PositionsWithinLimit ==
  positions + Cardinality(Committed) <= MaxOpen + Cardinality(Callers) - 1

(***************************************************************************)
(* An id goes to the broker once for every thread that submits it at the   *)
(* same time, and again only as often as broker_submit raised for it: once *)
(* answered, accepted or rejected, it is used up.                          *)
(***************************************************************************)
SentAgainOnlyAfterRaise == \A i \in Ids : sent[i] <= raised[i] + Cardinality(Callers)

(***************************************************************************)
(* Unless a thread wrote the state or the preflight that another one had   *)
(* changed under its operation: a controller that can trade stands on a    *)
(* passing preflight, and after a kill switch it can trade again only when *)
(* it has been reset, has passed a new preflight and was armed anew, in    *)
(* this order.  A failing evaluate_preflight that is about to block it and *)
(* a reset that is about to clear the preflight are waited for.            *)
(***************************************************************************)
CanTrade == {"ARMED", "EXECUTING", "MONITORING"}

ArmedIsEarned ==
  \/ meddled \/ \E c \in Callers : at[c] \in {"failed", "blocking", "clearing"}
  \/ state \in CanTrade => preflight /\ redo = {}

===============================================================================
