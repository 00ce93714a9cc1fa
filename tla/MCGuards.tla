-------------------------------- MODULE MCGuards --------------------------------
(* Six components that share no state with each other, checked in one run: the
   resource governor, the risk engine, the resolver of UNKNOWN orders, the
   desktop's supervisor, the notifications and the live gate.  "subject" is the
   one at work; the others rest. *)
EXTENDS Governor, RiskGuards, UnknownOrders, UnifiedRuntime, Notifications, LiveGate, TLC

CONSTANTS e1, e2, k1, alarm, fill, note
MCPriority == (alarm :> 0) @@ (fill :> 1) @@ (note :> 3)
MCClientOf == (e1 :> k1) @@ (e2 :> k1)
MCSchedule == <<0, 1, 2>>
MCSamples == {{}, {"on_battery"}, {"cpu_saturated", "on_battery"}, {"ram_critical"}}

\* Two of the ways to wire the gate, opposite in all three respects.
MCWired   == [wired |-> TRUE, continues |-> FALSE, sandbox |-> FALSE]
MCUnwired == [wired |-> FALSE, continues |-> TRUE, sandbox |-> TRUE]

VARIABLE subject

\* What rests does so in one state.
Init ==
  /\ subject \in {"governor", "risk", "unknown", "runtime", "notify", "gate"}
  /\ GovernorInit /\ RiskInit /\ UnknownInit /\ RuntimeInit /\ NotifyInit /\ GateInit
  /\ setup \in {MCWired, MCUnwired}
  /\ subject # "risk" => equity = 10
  /\ subject # "notify" => up
  /\ subject # "gate" => setup = MCWired /\ outside = "failing"

Rest(others) == UNCHANGED subject /\ UNCHANGED others

GovernorWorks ==
  /\ subject = "governor" /\ GovernorNext
  /\ Rest(<<riskVars, unknownVars, runtimeVars, notifyVars, gateVars>>)

RiskWorks ==
  /\ subject = "risk" /\ RiskNext
  /\ Rest(<<governorVars, unknownVars, runtimeVars, notifyVars, gateVars>>)

UnknownWorks ==
  /\ subject = "unknown" /\ UnknownNext
  /\ Rest(<<governorVars, riskVars, runtimeVars, notifyVars, gateVars>>)

RuntimeWorks ==
  /\ subject = "runtime" /\ RuntimeNext
  /\ Rest(<<governorVars, riskVars, unknownVars, notifyVars, gateVars>>)

Notifies(step) ==
  /\ subject = "notify" /\ step
  /\ Rest(<<governorVars, riskVars, unknownVars, runtimeVars, gateVars>>)

NotifyWorks == Notifies(NotifyNext)

Gates(step) ==
  /\ subject = "gate" /\ step
  /\ Rest(<<governorVars, riskVars, unknownVars, runtimeVars, notifyVars>>)

GateWorks == Gates(GateNext)

Next == GovernorWorks \/ RiskWorks \/ UnknownWorks \/ RuntimeWorks \/ NotifyWorks \/ GateWorks

vars == <<subject, governorVars, riskVars, unknownVars, runtimeVars, notifyVars, gateVars>>

\* The fairness of NotifySpec and of GateSpec, while they are at work.
Spec == Init /\ [][Next]_vars
             /\ WF_vars(Notifies(Flush)) /\ WF_vars(Notifies(FlushStep))
             /\ WF_vars(Notifies(NotifyElapse))
             /\ WF_vars(Gates(Tick)) /\ WF_vars(Gates(GateElapse))
             /\ \A t \in Threads : WF_vars(Gates(GoesOn(t)))

(* Every component keeps to its types. *)
TypeOK == /\ GovernorTypeOK /\ RiskTypeOK /\ UnknownTypeOK
          /\ RuntimeTypeOK /\ NotifyTypeOK /\ GateTypeOK
===============================================================================
