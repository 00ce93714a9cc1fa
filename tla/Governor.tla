-------------------------------- MODULE Governor --------------------------------
(***************************************************************************)
(* The resource governor (crypto/governor/engine.py): telemetry is mapped  *)
(* to the state it calls for, and hysteresis decides when the governor     *)
(* follows.  Times are kept as what _maybe_transition computes of them,    *)
(* the time since.                                                         *)
(***************************************************************************)
EXTENDS Integers

CONSTANTS
  MinDwell,    \* min_dwell_seconds
  Brief,       \* the five seconds a change for the worse waits at most, in the same unit
  Stability,   \* recovery_stability_seconds
  Samples      \* the telemetry met: sets of the pressures below

\* What _desired_state finds in a sample, and how severe it is.
Pressure ==
  [cpu_high |-> 1, cpu_saturated |-> 2, ram_warning |-> 1, ram_critical |-> 3,
   disk_slow |-> 1, disk_very_slow |-> 2, network_slow |-> 1, network_very_slow |-> 2,
   queue_long |-> 1, queue_very_long |-> 2, hot |-> 2, on_battery |-> 1]

ASSUME GovernorAssumption ==
  /\ MinDwell \in Nat /\ Brief \in Nat /\ Stability \in Nat
  /\ Samples \subseteq SUBSET DOMAIN Pressure

GovernorStates == {"NORMAL", "DEGRADED", "RECOVERY", "CONSTRAINED", "CRITICAL"}

Severity == [NORMAL |-> 0, DEGRADED |-> 1, RECOVERY |-> 1, CONSTRAINED |-> 2, CRITICAL |-> 3]

\* The worst pressure decides.
DesiredState(sample) ==
  IF \E p \in sample : Pressure[p] = 3 THEN "CRITICAL"
  ELSE IF \E p \in sample : Pressure[p] = 2 THEN "CONSTRAINED"
  ELSE IF sample # {} THEN "DEGRADED"
  ELSE "NORMAL"

\* No comparison tells longer times apart: a bound.
Longest == Stability + MinDwell

VARIABLES
  governor,    \* _state
  inState,     \* time since _state_entered_at
  pressured,   \* _pressure_since is set; its value is never read
  recovering,  \* time since _recovery_since, or -1 for None
  cooled       \* history: time since the state was last CRITICAL

governorVars == <<governor, inState, pressured, recovering, cooled>>

GovernorTypeOK ==
  /\ governor \in GovernorStates
  /\ inState \in 0..Longest /\ cooled \in 0..Longest
  /\ recovering \in -1..Longest
  /\ pressured \in BOOLEAN

GovernorInit ==
  /\ governor = "NORMAL" /\ inState = 0
  /\ pressured = FALSE /\ recovering = -1
  /\ cooled = Longest

-------------------------------------------------------------------------------
SetState(s) ==
  /\ governor' = s
  /\ inState' = 0
  /\ cooled' = IF s = "CRITICAL" THEN 0 ELSE cooled

Worsens(desired) ==
  /\ Severity[desired] > Severity[governor]
  /\ inState >= Brief \/ inState >= MinDwell
  /\ SetState(desired)
  /\ pressured' = TRUE /\ recovering' = -1

Relieved(desired) == Severity[desired] < Severity[governor] /\ inState >= MinDwell

EntersRecovery(desired) ==
  /\ Relieved(desired)
  /\ governor = "CRITICAL" /\ recovering = -1
  /\ SetState("RECOVERY")
  /\ recovering' = 0
  /\ UNCHANGED pressured

\* Less severe than RECOVERY is NORMAL only; it keeps _recovery_since.
LeavesRecovery(desired) ==
  /\ Relieved(desired)
  /\ governor = "RECOVERY" /\ recovering >= Stability
  /\ SetState("DEGRADED")
  /\ UNCHANGED <<pressured, recovering>>

Stepped(desired) == governor = "CONSTRAINED" /\ desired = "NORMAL"

ImprovesAtOnce(desired) ==   \* MUTANT: relief after pressure need not be stable
  /\ Relieved(desired)
  /\ governor \in {"DEGRADED", "CONSTRAINED"}
  /\ SetState(IF Stepped(desired) THEN "DEGRADED" ELSE desired)
  /\ pressured' = (Stepped(desired) /\ pressured)
  /\ UNCHANGED recovering

\* One step at a time; only the last forgets the pressure.
Improves(desired) ==
  /\ Relieved(desired)
  /\ governor \in {"DEGRADED", "CONSTRAINED"}
  /\ pressured => inState >= Stability
  /\ SetState(IF Stepped(desired) THEN "DEGRADED" ELSE desired)
  /\ pressured' = (Stepped(desired) /\ pressured)
  /\ UNCHANGED recovering

Evaluated(sample) ==
  LET desired == DesiredState(sample)
  IN  Worsens(desired) \/ EntersRecovery(desired) \/ LeavesRecovery(desired) \/ Improves(desired)

Later(t) == IF t < Longest THEN t + 1 ELSE t

GovernorElapse ==
  /\ inState' = Later(inState)
  /\ recovering' = IF recovering = -1 THEN -1 ELSE Later(recovering)
  /\ cooled' = IF governor = "CRITICAL" THEN 0 ELSE Later(cooled)
  /\ UNCHANGED <<governor, pressured>>

GovernorNext == GovernorElapse \/ \E sample \in Samples : Evaluated(sample)

GovernorSpec == GovernorInit /\ [][GovernorNext]_governorVars

-------------------------------------------------------------------------------
(***************************************************************************)
(* Whatever the pressures do in between: from the last moment of CRITICAL  *)
(* to full capacity it takes at least the stability time and one dwell     *)
(* time.                                                                   *)
(***************************************************************************)
CriticalCoolsDown == governor = "NORMAL" => cooled = Longest

===============================================================================
