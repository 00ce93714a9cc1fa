------------------------------ MODULE Supervisor ------------------------------
(***************************************************************************)
(* The recovery supervisor: Supervisor (recovery/supervisor.py) with its   *)
(* heartbeat records (health.py), RecoveryCircuitBreaker (circuit.py) and  *)
(* SafeModeController (safe_mode.py).                                      *)
(*                                                                         *)
(* The code reads a monotonic clock only to subtract, so the model keeps   *)
(* ages instead of times: how long ago a component last beat or progressed *)
(* and how long ago each recovery event in the storm window was recorded.  *)
(* An age stops growing once no comparison can tell it from a larger one.  *)
(*                                                                         *)
(* The code has no lock: its owner calls it from one thread, or takes one  *)
(* of its own.  The one place where it lets go is recover_fn, the owner's  *)
(* code in the middle of recover_component: while that restarts something, *)
(* components beat, ticks run, the breaker opens and other recoveries      *)
(* start.  A recovery is therefore two steps.                              *)
(***************************************************************************)
EXTENDS Integers, FiniteSets, Sequences

CONSTANTS
  N,              \* components are 1..N, in the order they were registered
  Background,     \* the components of class BACKGROUND
  Timeout,        \* per component: heartbeat interval * (miss tolerance + 1)
  Grace,          \* diagnostic_grace_seconds
  StuckAfter,     \* per component: progress timeout
  MaxAttempts,    \* levelN_max_attempts
  MaxEvents,      \* storm_max_events
  Window,         \* storm_window_seconds
  MaxRunning      \* bound: recover_fn calls under way for one component

Components == 1..N
Levels     == 1..5

ASSUME NAssumption       == N \in Nat \ {0}
ASSUME ClassAssumption   == Background \subseteq 1..N
ASSUME TimeAssumption    == /\ Timeout \in [1..N -> Nat] /\ StuckAfter \in [1..N -> Nat]
                            /\ Grace \in Nat /\ Window \in Nat
ASSUME LimitAssumption   == MaxAttempts \in [1..5 -> Nat \ {0}] /\ MaxEvents \in Nat \ {0}
                            /\ MaxRunning \in Nat \ {0}

\* UNRESPONSIVE is missing: the tick that assigns it replaces it at once.
Health == {"HEALTHY", "DEGRADED", "SUSPECT", "RECOVERING", "FAILED", "SAFE_MODE"}

\* "running" has a name and a start.  Only a name, without a start, is never looked
\* at and so is "none" still; "paused" has a start and an empty name.
Operation == {"none", "running", "paused"}

BeatCap(c)     == Timeout[c] + Grace + 1
ProgressCap(c) == StuckAfter[c] + 1

VARIABLES
  health,       \* component -> health
  beatAge,      \* component -> time since its last heartbeat
  progressAge,  \* component -> time since its last progress
  operation,    \* component -> the operation it is known to be in
  level,        \* component -> recovery_level
  attempts,     \* component -> recovery_attempts, at that level
  storm,        \* ages of the breaker's events, oldest first, while it is closed
  open,         \* the breaker has opened
  safe,         \* SAFE MODE is active
  running       \* component -> calls of recover_fn that are under way for it

vars == <<health, beatAge, progressAge, operation, level, attempts, storm, open, safe, running>>

TypeOK ==
  /\ health \in [Components -> Health]
  /\ beatAge \in [Components -> Nat] /\ progressAge \in [Components -> Nat]
  /\ \A c \in Components : beatAge[c] <= BeatCap(c) /\ progressAge[c] <= ProgressCap(c)
  /\ operation \in [Components -> Operation]
  /\ level \in [Components -> 0..5]
  /\ attempts \in [Components -> Nat]
  /\ storm \in Seq(0..Window)
  /\ open \in BOOLEAN
  /\ safe \in BOOLEAN
  /\ running \in [Components -> 0..MaxRunning]

Init ==
  /\ health = [c \in Components |-> "HEALTHY"]
  /\ beatAge = [c \in Components |-> 0] /\ progressAge = [c \in Components |-> 0]
  /\ operation = [c \in Components |-> "none"]
  /\ level = [c \in Components |-> 0]
  /\ attempts = [c \in Components |-> 0]
  /\ storm = <<>>
  /\ open = FALSE
  /\ safe = FALSE
  /\ running = [c \in Components |-> 0]

-------------------------------------------------------------------------------
\* Time passes.  The breaker prunes only when it records; to prune at once is the same.
Capped(age, cap) == IF age < cap THEN age + 1 ELSE cap

\* popleft() as long as the oldest event is out of the window: how many that drops.
Expired(events, k) ==
  /\ \A i \in 1..k : events[i] >= Window
  /\ k < Len(events) => events[k + 1] < Window

Older(events, k) == [i \in 1..(Len(events) - k) |-> events[i + k] + 1]

Elapse ==
  /\ beatAge' = [c \in Components |-> Capped(beatAge[c], BeatCap(c))]
  /\ progressAge' = [c \in Components |-> Capped(progressAge[c], ProgressCap(c))]
  /\ \E k \in 0..Len(storm) : Expired(storm, k) /\ storm' = Older(storm, k)
  /\ UNCHANGED <<health, operation, level, attempts, open, safe, running>>

\* MUTANT: a heartbeat ends a recovery as well.
ClearedWhenRecovering(h) == IF h \in {"SUSPECT", "RECOVERING"} THEN "HEALTHY" ELSE h

\* A heartbeat clears a suspicion, and nothing worse.
Cleared(h) == IF h = "SUSPECT" THEN "HEALTHY" ELSE h

\* A heartbeat may name the operation anew or clear its name, but starts none.
Renamed(op) == IF op = "none" THEN {"none"} ELSE {"running", "paused"}

Heartbeat(c) ==
  /\ beatAge' = [beatAge EXCEPT ![c] = 0]
  /\ health' = [health EXCEPT ![c] = Cleared(@)]
  /\ \E op \in Renamed(operation[c]) : operation' = [operation EXCEPT ![c] = op]
  /\ UNCHANGED <<progressAge, level, attempts, storm, open, safe, running>>

\* A component marks the start of an operation, which is a beat that clears nothing.
MarkOperation(c) ==
  /\ beatAge' = [beatAge EXCEPT ![c] = 0]
  /\ operation' = [operation EXCEPT ![c] = "running"]
  /\ UNCHANGED <<health, progressAge, level, attempts, storm, open, safe, running>>

\* Progress is a heartbeat too, but clears no suspicion, only DEGRADED.
\* The caller may name an operation or not.
Progress(c, named) ==
  /\ beatAge' = [beatAge EXCEPT ![c] = 0]
  /\ progressAge' = [progressAge EXCEPT ![c] = 0]
  /\ operation' = [operation EXCEPT ![c] = IF named THEN "running" ELSE @]
  /\ health' = [health EXCEPT ![c] = IF @ = "DEGRADED" THEN "HEALTHY" ELSE @]
  /\ UNCHANGED <<level, attempts, storm, open, safe, running>>

-------------------------------------------------------------------------------
(***************************************************************************)
(* tick().  It goes over the components in order.  A stuck component is    *)
(* DEGRADED, a silent one SUSPECT; one that was SUSPECT already and stayed *)
(* silent through the grace period begins recovery, which records an event *)
(* with the breaker: the event that fills the window opens it, and that    *)
(* component and all later ones go to SAFE_MODE instead.                   *)
(***************************************************************************)
Late(c, slack) == beatAge[c] > Timeout[c] + slack

Lost == {c \in Components : health[c] = "SUSPECT" /\ Late(c, Grace)}

\* MUTANT: the breaker opens one event late.
RoomForOneMore == IF open THEN 0 ELSE MaxEvents - Len(storm)

\* Events the breaker can still record without opening.
Room == IF open THEN 0 ELSE MaxEvents - 1 - Len(storm)

Recovering == {c \in Lost : Cardinality({d \in Lost : d <= c}) <= Room}

Stuck(c) == operation[c] = "running" /\ progressAge[c] > StuckAfter[c]

CheckedUnlessStuck(c) ==   \* MUTANT: a stuck component is not watched for silence
  IF health[c] = "HEALTHY" /\ Stuck(c) THEN "DEGRADED"
  ELSE IF health[c] = "HEALTHY" /\ Late(c, 0) THEN "SUSPECT"
  ELSE health[c]

Checked(c) ==
  IF health[c] \in {"HEALTHY", "DEGRADED"} /\ Late(c, 0) THEN "SUSPECT"
  ELSE IF health[c] = "HEALTHY" /\ Stuck(c) THEN "DEGRADED"
  ELSE health[c]

ParksOnOpening == ~open /\ Lost # Recovering   \* MUTANT: SAFE MODE comes with the opening only

\* This tick parks a component.
Parks == Lost # Recovering

\* An open breaker is never reset and looks at its events no more: they are forgotten.
Recorded(n) == storm \o [i \in 1..n |-> 0]

Tick ==
  /\ health' = [c \in Components |-> IF c \in Recovering THEN "RECOVERING"
                                     ELSE IF c \in Lost THEN "SAFE_MODE" ELSE Checked(c)]
  /\ level' = [c \in Components |-> IF c \in Recovering /\ level[c] = 0 THEN 1 ELSE level[c]]
  /\ storm' = IF open \/ Parks THEN <<>> ELSE Recorded(Cardinality(Recovering))
  /\ open' = (open \/ Parks)
  /\ safe' = (safe \/ Parks)
  /\ UNCHANGED <<beatAge, progressAge, operation, attempts, running>>

-------------------------------------------------------------------------------
(***************************************************************************)
(* recover_component().  An open breaker refuses.  A level whose attempts  *)
(* are used up escalates, the last one ends in SAFE_MODE.  The attempt is  *)
(* counted and recorded with the breaker before recover_fn is called; if   *)
(* that opens the breaker, it is not called any more.                      *)
(***************************************************************************)
Level(c) == IF level[c] = 0 THEN 1 ELSE level[c]

UsedUpOneLate(c) == attempts[c] > MaxAttempts[Level(c)]   \* MUTANT: one attempt too many

UsedUp(c) == attempts[c] >= MaxAttempts[Level(c)]

ExhaustedNever(c) == UsedUp(c) /\ Level(c) > 5   \* MUTANT: there is no last level

Exhausted(c) == UsedUp(c) /\ Level(c) = 5

RecoverRefused(c) ==
  /\ open
  /\ safe' = TRUE
  /\ UNCHANGED <<health, beatAge, progressAge, operation, level, attempts, storm, open, running>>

RecoverExhausted(c) ==
  /\ ~open
  /\ Exhausted(c)
  /\ safe' = TRUE
  /\ health' = [health EXCEPT ![c] = "SAFE_MODE"]
  /\ UNCHANGED <<beatAge, progressAge, operation, level, attempts, storm, open, running>>

\* The level and the number of the attempt recover_component makes.
NextLevel(c)   == IF UsedUp(c) THEN Level(c) + 1 ELSE level[c]
NextAttempt(c) == IF UsedUp(c) THEN 1 ELSE attempts[c] + 1

RecoverStorm(c) ==
  /\ ~open
  /\ ~Exhausted(c)
  /\ Room = 0
  /\ open' = TRUE
  /\ safe' = TRUE
  /\ storm' = <<>>
  /\ level' = [level EXCEPT ![c] = NextLevel(c)]
  /\ attempts' = [attempts EXCEPT ![c] = NextAttempt(c)]
  /\ UNCHANGED <<health, beatAge, progressAge, operation, running>>

RecoverAttempt(c) ==
  /\ ~open
  /\ ~Exhausted(c)
  /\ Room > 0
  /\ running[c] < MaxRunning
  /\ storm' = Recorded(1)
  /\ level' = [level EXCEPT ![c] = NextLevel(c)]
  /\ attempts' = [attempts EXCEPT ![c] = NextAttempt(c)]
  /\ running' = [running EXCEPT ![c] = @ + 1]
  /\ UNCHANGED <<health, beatAge, progressAge, operation, open, safe>>

\* recover_fn is back; what it says is written whatever happened meanwhile.
RecoverEnds(c, ok) ==
  /\ running[c] > 0
  /\ running' = [running EXCEPT ![c] = @ - 1]
  /\ health' = [health EXCEPT ![c] = IF ok THEN "HEALTHY" ELSE "FAILED"]
  /\ level' = [level EXCEPT ![c] = IF ok THEN 0 ELSE @]
  /\ attempts' = [attempts EXCEPT ![c] = IF ok THEN 0 ELSE @]
  /\ beatAge' = [beatAge EXCEPT ![c] = IF ok THEN 0 ELSE @]
  /\ progressAge' = [progressAge EXCEPT ![c] = IF ok THEN 0 ELSE @]
  /\ UNCHANGED <<operation, storm, open, safe>>

RecoverComponent(c) ==
  \/ RecoverRefused(c) \/ RecoverExhausted(c) \/ RecoverStorm(c) \/ RecoverAttempt(c)
  \/ \E ok \in BOOLEAN : RecoverEnds(c, ok)

-------------------------------------------------------------------------------
\* enter_safe_mode() by the owner; the background components are parked.
EnterSafeMode ==
  /\ safe' = TRUE
  /\ health' = [c \in Components |-> IF c \in Background THEN "SAFE_MODE" ELSE health[c]]
  /\ UNCHANGED <<beatAge, progressAge, operation, level, attempts, storm, open, running>>

\* try_exit() leaves SAFE MODE when all its gates pass.  Of the gates, the caller's
\* components_healthy is the only one about this state; it is taken to be true of it.
Gates == \A c \in Components : health[c] = "HEALTHY"

TryExitSafeMode ==
  /\ safe /\ Gates
  /\ safe' = FALSE
  /\ UNCHANGED <<health, beatAge, progressAge, operation, level, attempts, storm, open, running>>

Next ==
  \/ Elapse
  \/ Tick
  \/ \E c \in Components : Heartbeat(c) \/ MarkOperation(c) \/ RecoverComponent(c)
  \/ \E c \in Components, named \in BOOLEAN : Progress(c, named)
  \/ EnterSafeMode
  \/ TryExitSafeMode

Spec     == Init /\ [][Next]_vars
FairSpec == Spec /\ WF_vars(Elapse) /\ WF_vars(Tick)

-------------------------------------------------------------------------------
(***************************************************************************)
(* The attempts at a level never exceed its limit, whatever mix of         *)
(* watchdog escalations, storms and successes came before.                 *)
(***************************************************************************)
AttemptsWithinLimit == \A c \in Components : attempts[c] <= MaxAttempts[Level(c)]

(***************************************************************************)
(* The circuit breaker: while it is closed there is room in the window, so *)
(* fewer than storm_max_events recoveries of any kind and component happen *)
(* within any storm_window_seconds.                                        *)
(***************************************************************************)
ClosedMeansRoom == open \/ Len(storm) < MaxEvents

(***************************************************************************)
(* SAFE MODE lasts as long as any component is parked in it.               *)
(***************************************************************************)
ParkedMeansSafeMode == (\E c \in Components : health[c] = "SAFE_MODE") => safe

(***************************************************************************)
(* After a storm recovery is over: no recover_fn is called any more, and a *)
(* component that was being recovered, failed or parked when the breaker   *)
(* opened stays so, since heartbeats do not help it and recover_component  *)
(* refuses.  The one exception is a call of recover_fn for it that was     *)
(* under way already: its result still counts.                             *)
(***************************************************************************)
Down == {"RECOVERING", "FAILED", "SAFE_MODE"}

LateAnswer(c) == running'[c] < running[c]

NoHealingInStorm ==
  [][open => \A c \in Components :
       /\ running'[c] <= running[c]
       /\ health[c] \in Down => health'[c] \in {health[c], "SAFE_MODE"} \/ LateAnswer(c)]_vars

(***************************************************************************)
(* The watchdog notices: a component that has been silent beyond its       *)
(* timeout and grace either beats again, or has recovery begun for it, or  *)
(* is parked in SAFE_MODE; it is not left HEALTHY, DEGRADED or SUSPECT.    *)
(***************************************************************************)
Silent(c) == health[c] \in {"HEALTHY", "DEGRADED", "SUSPECT"} /\ Late(c, Grace)

SilenceIsNoticed == \A c \in Components : Silent(c) ~> ~Silent(c)

\* The breaker's deque has the oldest event in front, which is why it may be pruned
\* there only (with TypeOK and ClosedMeansRoom, inductive).
OldestInFront == \A i, j \in DOMAIN storm : i < j => storm[i] >= storm[j]

===============================================================================
