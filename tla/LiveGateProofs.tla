----------------------------- MODULE LiveGateProofs -----------------------------
(***************************************************************************)
(* Proofs about LiveGate for any threads and any backoff.                  *)
(***************************************************************************)
EXTENDS LiveGate, TLAPS

(***************************************************************************)
(* What an act that has met no other owes at each of its places: what it   *)
(* has written so far still stands, but for the switch, which the engine   *)
(* behind mode_fn opens and shuts for its own orders.                      *)
(***************************************************************************)
Finishing == {"ending", "counting", "deciding", "timing"}

Standing(t) ==
  /\ at[t] \in {"mode", "telling"} \union Finishing /\ ~setup.wired =>
       (trading <=> why[t] = "live")
  /\ at[t] \in {"mode", "telling"} /\ setup.wired /\ why[t] # "live" /\ trading =>
       sending = "open"
  /\ at[t] \in {"telling", "engine"} \union Finishing => mode = ModeOf(why[t])
  /\ at[t] = "engine" => engineMode = mode /\ ~missed
  /\ at[t] \in Finishing /\ setup.wired =>
       /\ engineMode = mode \/ missed
       /\ trading /\ sending = "no" => missed /\ why[t] = "live"
  /\ at[t] = "timing" => gate = "RECOVERING"

\* Which causes lead to which places.
Reasons(t) ==
  /\ at[t] \in {"opening", "enabling"} => why[t] = "live"
  /\ at[t] = "switch" => why[t] # "live"
  /\ at[t] \in {"counting", "deciding", "timing"} => why[t] = "soft"
  /\ at[t] = "ending" => why[t] # "soft"
  /\ at[t] \in {"telling", "engine"} => setup.wired

\* Two acts at a time have both met another.
Meeting ==
  /\ \A t \in crowded : at[t] \in Acting
  /\ \A t, o \in Threads : t # o /\ at[t] \in Acting /\ at[o] \in Acting => t \in crowded

GateInv ==
  /\ GateTypeOK
  /\ Meeting
  /\ \A t \in Threads : Reasons(t)
  /\ \A t \in Threads : at[t] \in Acting /\ t \notin crowded => Standing(t)
  /\ PaperUnlessLive

LEMMA PlacesDiffer == Asking \cap Acting = {} /\ "away" \in Asking /\ Finishing \subseteq Acting
  BY DEF Asking, Acting, Finishing

\* A backoff is a number of minutes up to the longest.
LEMMA BackoffType ==
  ASSUME NEW n \in Nat
  PROVE  Backoff(n) \in 0..MaxBackoff
  <1>1. BaseBackoff * n \in Nat
    BY GateAssumption
  <1> QED
    BY <1>1, GateAssumption DEF Backoff, Smaller

-------------------------------------------------------------------------------
\* Types.
LEMMA TypesStep ==
  ASSUME GateTypeOK, [GateNext]_gateVars
  PROVE  GateTypeOK'
  <1> USE GateAssumption DEF GateTypeOK
  <1>0. 0 \in 0..AttemptCap /\ 0 \in 0..MaxBackoff /\ AttemptCap \in Nat
    BY DEF AttemptCap
  <1>1. CASE Tick
    BY <1>1 DEF Tick, GoesTo, state, target, world, Asking
  <1>2. ASSUME NEW t \in Threads, EvaluateGate(t)
        PROVE  GateTypeOK'
    BY <1>2 DEF EvaluateGate, GoesTo, state, target, world, Asking
  <1>3. ASSUME NEW t \in Threads, ForceHardStop(t)
        PROVE  GateTypeOK'
    <2>1. Others(t) \subseteq Threads
      BY DEF Others
    <2> QED
      BY <1>3, <2>1 DEF ForceHardStop, BeginsAct, state, target, world, Acting, Causes
  <1>4. ASSUME NEW t \in Threads, ResetHardStop(t)
        PROVE  GateTypeOK'
    BY <1>0, <1>4 DEF ResetHardStop, GoesTo, target, world, Asking, GateStates
  <1>5. ASSUME NEW t \in Threads, GoesOn(t)
        PROVE  GateTypeOK'
    <2>0. UNCHANGED <<sending, setup, outside>> /\ Others(t) \subseteq Threads
      BY <1>5 DEF GoesOn, world, Others
    <2>1. CASE TestsState(t)
      BY <2>0, <2>1 DEF TestsState, GoesTo, BeginsAct, state, target, Asking, Acting, Causes
    <2>2. CASE AsksPreflight(t)
      BY <2>0, <2>2 DEF AsksPreflight, BeginsAct, state, target, Acting, Causes
    <2>3. CASE TestsSwitch(t) \/ ShutsSwitch(t)
      BY <2>0, <2>3 DEF TestsSwitch, ShutsSwitch, GoesTo, state, target, Acting
    <2>4. CASE EnablesTrading(t)
      BY <2>0, <2>4 DEF EnablesTrading, GoesTo, BecomesHard, state, Acting, Causes
    <2>5. CASE SetsMode(t)
      BY <2>0, <2>5 DEF SetsMode, GoesTo, ModeOf, Last, state, Acting
    <2>6. CASE TellsEngine(t) \/ EngineShuts(t)
      BY <2>0, <2>6 DEF TellsEngine, EngineShuts, GoesTo, ModeOf, Last, state, Acting
    <2>7. CASE EndsLive(t) \/ EndsStopped(t)
      <3>1. /\ at' \in [Threads -> Asking \union Acting] /\ why' \in [Threads -> Causes]
            /\ count' \in [Threads -> 0..AttemptCap]
            /\ crowded' \in SUBSET Threads /\ mixed' \in BOOLEAN
        <4>1. EndsAct(t)
          BY <2>7 DEF EndsLive, EndsStopped
        <4> QED
          BY <1>0, <4>1 DEF EndsAct, Asking, Causes
      <3>2. /\ gate' \in GateStates /\ attempt' \in 0..AttemptCap /\ wait' \in 0..MaxBackoff
            /\ UNCHANGED target
        BY <1>0, <2>7 DEF EndsLive, EndsStopped, GateStates
      <3> QED
        BY <2>0, <3>1, <3>2 DEF target
    <2>8. CASE Counts(t)
      <3>1. attempt' \in 0..AttemptCap
        BY <1>0, <2>8 DEF Counts, Smaller
      <3> QED
        BY <2>0, <2>8, <3>1 DEF Counts, target, Acting
    <2>9. CASE Decides(t)
      BY <2>0, <2>9 DEF Decides, BecomesHard, GoesTo, target, Acting, Causes, GateStates
    <2>10. CASE SetsRetry(t)
      <3>1. wait' \in 0..MaxBackoff
        BY <1>0, <2>10, BackoffType DEF SetsRetry
      <3> QED
        BY <1>0, <2>0, <2>10, <3>1 DEF SetsRetry, EndsAct, target, Asking, Causes
    <2> QED
      BY <1>5, <2>1, <2>2, <2>3, <2>4, <2>5, <2>6, <2>7, <2>8, <2>9, <2>10 DEF GoesOn
  <1>6. CASE GateElapse
    BY <1>6 DEF GateElapse, target, threads, world
  <1>7. CASE WorldChanges
    BY <1>7 DEF WorldChanges, state, target, threads
  <1>8. CASE EngineSubmits
    BY <1>8 DEF EngineSubmits, state, threads, world
  <1>9. CASE UNCHANGED gateVars
    BY <1>9 DEF gateVars
  <1> QED
    BY <1>1, <1>2, <1>3, <1>4, <1>5, <1>6, <1>7, <1>8, <1>9 DEF GateNext

-------------------------------------------------------------------------------
\* What is left of the invariant when the types are known.
ActsKeep ==
  /\ Meeting
  /\ \A t \in Threads : Reasons(t)
  /\ \A t \in Threads : at[t] \in Acting /\ t \notin crowded => Standing(t)
  /\ PaperUnlessLive

\* A step within an act: only that act can have met no other, if any.
LEMMA WithinAct ==
  ASSUME GateInv, NEW t \in Threads, NEW place \in Acting,
         at[t] \in Acting, at' = [at EXCEPT ![t] = place],
         \A o \in Threads \ {t} : why'[o] = why[o],
         UNCHANGED <<setup, crowded, mixed>>,
         Reasons(t)',
         t \notin crowded => Standing(t)'
  PROVE  ActsKeep'
  <1>1. \A o \in Threads : at'[o] = IF o = t THEN place ELSE at[o]
    BY DEF GateInv, GateTypeOK
  <1>2. \A o \in Threads : at'[o] \in Acting <=> at[o] \in Acting
    BY <1>1
  <1>3. crowded \subseteq Threads
    BY DEF GateInv, GateTypeOK
  <1>4. Meeting'
    BY <1>2, <1>3 DEF GateInv, Meeting
  <1>5. ASSUME NEW o \in Threads
        PROVE  Reasons(o)'
    BY <1>1 DEF GateInv, Reasons
  <1>6. ASSUME NEW o \in Threads, at'[o] \in Acting, o \notin crowded'
        PROVE  Standing(o)'
    <2>1. o = t
      BY <1>2, <1>6 DEF GateInv, Meeting
    <2> QED
      BY <1>6, <2>1
  <1>7. PaperUnlessLive'
    BY <1>1 DEF PaperUnlessLive
  <1> QED
    BY <1>4, <1>5, <1>6, <1>7 DEF ActsKeep

\* A step outside of the acts: each of them finds what it has written.
LEMMA OutsideActs ==
  ASSUME GateInv, at' \in [Threads -> Asking \union Acting],
         \A o \in Threads : at'[o] = at[o] \/ (at[o] \in Asking /\ at'[o] \in Asking),
         UNCHANGED <<setup, why, crowded, mixed>>,
         \A o \in Threads : Standing(o) /\ at[o] \in Acting => Standing(o)',
         PaperUnlessLive'
  PROVE  ActsKeep'
  <1>1. \A o \in Threads : /\ at'[o] \in Acting <=> at[o] \in Acting
                           /\ at[o] \in Acting => at'[o] = at[o]
    BY PlacesDiffer DEF GateInv, GateTypeOK
  <1>2. crowded \subseteq Threads
    BY DEF GateInv, GateTypeOK
  <1>3. Meeting'
    BY <1>1, <1>2 DEF GateInv, Meeting
  <1>4. ASSUME NEW o \in Threads
        PROVE  Reasons(o)'
    <2>1. CASE at[o] \in Acting
      BY <1>1, <2>1 DEF GateInv, Reasons
    <2>2. CASE at[o] \notin Acting
      BY <1>1, <2>2 DEF Reasons, Acting
    <2> QED
      BY <2>1, <2>2
  <1>5. ASSUME NEW o \in Threads, at'[o] \in Acting, o \notin crowded'
        PROVE  Standing(o)'
    BY <1>1, <1>5 DEF GateInv
  <1> QED
    BY <1>3, <1>4, <1>5 DEF ActsKeep

\* An act that begins owes nothing yet.
LEMMA ActBegins ==
  ASSUME GateInv, NEW t \in Threads, at[t] \in Asking,
         NEW place, NEW cause,
         \/ place = "opening" /\ cause = "live"
         \/ place = "switch" /\ cause # "live",
         BeginsAct(t, place, cause), UNCHANGED <<state, target, sending, setup>>
  PROVE  ActsKeep'
  <1>1. /\ at \in [Threads -> Asking \union Acting] /\ why \in [Threads -> Causes]
        /\ crowded \subseteq Threads
    BY DEF GateInv, GateTypeOK
  <1>2. \A o \in Threads : /\ at'[o] = IF o = t THEN place ELSE at[o]
                           /\ why'[o] = IF o = t THEN cause ELSE why[o]
    BY <1>1 DEF BeginsAct
  <1>3. place \in Acting /\ at[t] \notin Acting
    BY PlacesDiffer DEF Acting
  <1>4. t \notin crowded
    BY <1>3 DEF GateInv, Meeting
  <1>5. CASE Others(t) = {}
    <2>1. \A o \in Threads : at[o] \notin Acting
      BY <1>3, <1>5 DEF Others
    <2>2. crowded' = crowded /\ crowded = {}
      BY <1>1, <1>5, <2>1 DEF BeginsAct, GateInv, Meeting
    <2>3. Meeting'
      BY <1>2, <2>1, <2>2 DEF Meeting
    <2>4. ASSUME NEW o \in Threads
          PROVE  Reasons(o)' /\ (at'[o] \in Acting => Standing(o)')
      <3>1. CASE o = t
        BY <1>2, <3>1 DEF Reasons, Standing, Finishing
      <3>2. CASE o # t
        BY <1>2, <2>1, <3>2 DEF Reasons, Acting
      <3> QED
        BY <3>1, <3>2
    <2>5. PaperUnlessLive'
      BY <1>2, <1>3 DEF PaperUnlessLive
    <2> QED
      BY <2>3, <2>4, <2>5 DEF ActsKeep
  <1>6. CASE Others(t) # {}
    <2>1. crowded' = crowded \union Others(t) \union {t}
      BY <1>6 DEF BeginsAct
    <2>2. \A o \in Threads : at'[o] \in Acting <=> o \in Others(t) \union {t}
      BY <1>2, <1>3 DEF Others
    <2>3. \A o \in crowded : o \in Others(t)
      BY <1>1, <1>4 DEF GateInv, Meeting, Others
    <2>4. Meeting'
      <3>1. Others(t) \subseteq Threads
        BY DEF Others
      <3> QED
        BY <2>1, <2>2, <2>3, <3>1 DEF Meeting
    <2>5. ASSUME NEW o \in Threads
          PROVE  Reasons(o)'
      <3>1. CASE o = t
        BY <1>2, <3>1 DEF Reasons
      <3>2. CASE o # t
        BY <1>2, <3>2 DEF GateInv, Reasons, target
      <3> QED
        BY <3>1, <3>2
    <2>6. \A o \in Threads : at'[o] \in Acting => o \in crowded'
      BY <2>1, <2>2
    <2>7. PaperUnlessLive'
      BY <1>2, <1>3 DEF PaperUnlessLive
    <2> QED
      BY <2>4, <2>5, <2>6, <2>7 DEF ActsKeep
  <1> QED
    BY <1>5, <1>6

\* An act that ends and has met no other leaves the gate in agreement.
LEMMA ActEnds ==
  ASSUME GateInv, NEW t \in Threads, at[t] \in {"ending", "timing"}, EndsAct(t),
         UNCHANGED <<target, sending, setup>>,
         t \notin crowded => (gate' = "LIVE_ENABLED" <=> why[t] = "live")
  PROVE  ActsKeep'
  <1>1. /\ at \in [Threads -> Asking \union Acting] /\ why \in [Threads -> Causes]
        /\ crowded \subseteq Threads /\ at[t] \in Acting /\ at[t] \in Finishing
    BY DEF GateInv, GateTypeOK, Acting, Finishing
  <1>2. \A o \in Threads : /\ at'[o] = IF o = t THEN "away" ELSE at[o]
                           /\ o # t => why'[o] = why[o]
    BY <1>1 DEF EndsAct
  <1>3. "away" \notin Acting
    BY DEF Acting
  <1>4. crowded' = crowded \ {t} /\ mixed' = (t \in crowded)
    BY DEF EndsAct
  <1>5. Meeting'
    BY <1>1, <1>2, <1>3, <1>4 DEF GateInv, Meeting
  <1>6. ASSUME NEW o \in Threads
        PROVE  Reasons(o)'
    <2>1. CASE o = t
      BY <1>2, <2>1 DEF Reasons
    <2>2. CASE o # t
      BY <1>2, <2>2 DEF GateInv, Reasons
    <2> QED
      BY <2>1, <2>2
  <1>7. ASSUME NEW o \in Threads, at'[o] \in Acting
        PROVE  o \in crowded'
    BY <1>1, <1>2, <1>3, <1>4, <1>7 DEF GateInv, Meeting
  <1>8. PaperUnlessLive'
    <2>1. CASE t \in crowded
      BY <1>4, <2>1 DEF PaperUnlessLive
    <2>2. CASE t \notin crowded
      <3>1. Standing(t)
        BY <1>1, <2>2 DEF GateInv
      <3>2. mode' = ModeOf(why[t]) /\ mode' = mode /\ trading' = trading
            /\ engineMode' = engineMode /\ missed' = missed /\ setup' = setup /\ sending' = sending
        BY <1>1, <3>1 DEF Standing, target
      <3>3. mode' = "LIVE" <=> gate' = "LIVE_ENABLED"
        BY <2>2, <3>2 DEF ModeOf
      <3>4. ~setup.wired => (trading <=> why[t] = "live")
        BY <1>1, <3>1 DEF Standing
      <3>5. setup.wired => /\ engineMode = mode \/ missed
                           /\ trading /\ sending = "no" => missed /\ why[t] = "live"
        BY <1>1, <3>1 DEF Standing
      <3> QED
        BY <2>2, <3>2, <3>3, <3>4, <3>5 DEF PaperUnlessLive
    <2> QED
      BY <2>1, <2>2
  <1> QED
    BY <1>5, <1>6, <1>7, <1>8 DEF ActsKeep

LEMMA GateStep ==
  ASSUME GateInv, [GateNext]_gateVars
  PROVE  GateInv'
  <1>0. at \in [Threads -> Asking \union Acting] /\ why \in [Threads -> Causes]
    BY DEF GateInv, GateTypeOK
  <1>1. ASSUME NEW t \in Threads, NEW place \in Asking, at[t] \in Asking, GoesTo(t, place),
               UNCHANGED <<target, sending, setup>>,
               gate' = gate \/ (gate = "HARD_STOP" /\ gate' = "IDLE")
        PROVE  ActsKeep'
    <2>1. \A o \in Threads : at'[o] = IF o = t THEN place ELSE at[o]
      BY <1>0, <1>1 DEF GoesTo
    <2>2. at' \in [Threads -> Asking \union Acting]
      BY <1>0, <1>1 DEF GoesTo
    <2>3. /\ \A o \in Threads : at'[o] = at[o] \/ (at[o] \in Asking /\ at'[o] \in Asking)
          /\ UNCHANGED <<setup, why, crowded, mixed>>
      BY <1>1, <2>1 DEF GoesTo
    <2>4. \A o \in Threads : at[o] \in Acting => at'[o] = at[o]
      BY <1>1, <2>1, PlacesDiffer
    <2>5. ASSUME NEW o \in Threads, Standing(o), at[o] \in Acting
          PROVE  Standing(o)'
      BY <1>1, <2>3, <2>4, <2>5 DEF Standing, target
    <2>6. PaperUnlessLive'
      <3>1. \A o \in Threads : at'[o] \notin Acting => at[o] \notin Acting
        BY <2>4
      <3> QED
        BY <1>1, <2>3, <3>1 DEF GateInv, PaperUnlessLive, target
    <2> QED
      BY <2>2, <2>3, <2>5, <2>6, OutsideActs
  <1>2. ASSUME UNCHANGED <<setup, gate, mode, engineMode, missed, threads>>,
               trading' # trading \/ sending' # sending => EngineSubmits
        PROVE  ActsKeep'
    <2>1. /\ at' = at
          /\ UNCHANGED <<setup, why, crowded, mixed>>
      BY <1>2 DEF threads
    <2>2. ASSUME NEW o \in Threads, Standing(o)
          PROVE  Standing(o)'
      BY <1>2, <2>1, <2>2 DEF Standing, EngineSubmits
    <2>3. PaperUnlessLive'
      BY <1>2, <2>1 DEF GateInv, PaperUnlessLive, EngineSubmits
    <2> QED
      BY <1>0, <2>1, <2>2, <2>3, OutsideActs
  <1>3. GateTypeOK'
    BY TypesStep DEF GateInv
  <1> SUFFICES ActsKeep'
    BY <1>3 DEF GateInv, ActsKeep
  <1>4. CASE Tick
    BY <1>1, <1>4, GateAssumption DEF Tick, state, world, Asking
  <1>5. ASSUME NEW t \in Threads, EvaluateGate(t)
        PROVE  ActsKeep'
    BY <1>1, <1>5 DEF EvaluateGate, state, world, Asking
  <1>6. ASSUME NEW t \in Threads, ForceHardStop(t)
        PROVE  ActsKeep'
    BY <1>6, ActBegins DEF ForceHardStop, world, Asking
  <1>7. ASSUME NEW t \in Threads, ResetHardStop(t)
        PROVE  ActsKeep'
    BY <1>1, <1>7 DEF ResetHardStop, world, Asking
  <1>8. ASSUME NEW t \in Threads, GoesOn(t)
        PROVE  ActsKeep'
    <2>0. UNCHANGED <<sending, setup>>
      BY <1>8 DEF GoesOn, world
    <2>a. Reasons(t) /\ (at[t] \in Acting /\ t \notin crowded => Standing(t))
      BY DEF GateInv
    <2>1. CASE TestsState(t)
      <3>1. at[t] \in Asking /\ UNCHANGED <<state, target>>
        BY <2>1 DEF TestsState, Asking
      <3>2. CASE \E place \in Asking : GoesTo(t, place)
        BY <1>1, <2>0, <3>1, <3>2 DEF state
      <3>3. CASE BeginsAct(t, "switch", "hard")
        BY <2>0, <3>1, <3>3, ActBegins
      <3> QED
        BY <2>1, <3>2, <3>3 DEF TestsState, Asking
    <2>2. CASE AsksPreflight(t)
      BY <2>0, <2>2, ActBegins DEF AsksPreflight, Asking
    <2>3. CASE TestsSwitch(t)
      BY <1>0, <2>0, <2>a, <2>3, WithinAct
         DEF TestsSwitch, GoesTo, state, target, Acting, Reasons, Standing, Finishing
    <2>4. CASE EnablesTrading(t)
      <3>1. CASE GoesTo(t, "mode")
        BY <1>0, <2>0, <2>a, <2>4, <3>1, WithinAct
           DEF EnablesTrading, Refused, GoesTo, BecomesHard, Acting, Reasons, Standing, Finishing
      <3>2. CASE BecomesHard(t)
        BY <1>0, <2>0, <2>a, <2>4, <3>2, WithinAct
           DEF EnablesTrading, BecomesHard, Acting, Reasons, Standing, Finishing
      <3> QED
        BY <2>4, <3>1, <3>2 DEF EnablesTrading
    <2>5. CASE ShutsSwitch(t)
      BY <1>0, <2>0, <2>a, <2>5, WithinAct
         DEF ShutsSwitch, GoesTo, Acting, Reasons, Standing, Finishing
    <2>6. CASE SetsMode(t)
      <3>1. PICK place : place = (IF setup.wired THEN "telling" ELSE Last(t)) /\ GoesTo(t, place)
        BY <2>6 DEF SetsMode
      <3>2. place \in {"telling"} \union Finishing
        BY <3>1 DEF Last, Finishing
      <3> QED
        BY <1>0, <2>0, <2>a, <2>6, <3>1, <3>2, WithinAct
           DEF SetsMode, GoesTo, Last, Acting, Reasons, Standing, Finishing
    <2>7. CASE TellsEngine(t)
      <3>1. CASE GoesTo(t, Last(t)) /\ missed' = TRUE /\ UNCHANGED engineMode
        BY <1>0, <2>0, <2>a, <2>7, <3>1, WithinAct
           DEF TellsEngine, GoesTo, Last, Acting, Reasons, Standing, Finishing
      <3>2. CASE GoesTo(t, "engine") /\ missed' = FALSE /\ engineMode' = ModeOf(why[t])
        BY <1>0, <2>0, <2>a, <2>7, <3>2, WithinAct
           DEF TellsEngine, GoesTo, Last, Acting, Reasons, Standing, Finishing
      <3> QED
        BY <2>7, <3>1, <3>2 DEF TellsEngine
    <2>8. CASE EngineShuts(t)
      BY <1>0, <2>0, <2>a, <2>8, WithinAct
         DEF EngineShuts, GoesTo, Last, Acting, Reasons, Standing, Finishing
    <2>9. CASE EndsLive(t)
      BY <2>0, <2>9, ActEnds DEF EndsLive
    <2>10. CASE EndsStopped(t)
      BY <2>0, <2>10, ActEnds DEF EndsStopped
    <2>11. CASE Counts(t)
      BY <1>0, <2>0, <2>a, <2>11, WithinAct
         DEF Counts, target, Acting, Reasons, Standing, Finishing
    <2>12. CASE Decides(t)
      BY <1>0, <2>0, <2>a, <2>12, WithinAct
         DEF Decides, GoesTo, BecomesHard, target, Acting, Reasons, Standing, Finishing
    <2>13. CASE SetsRetry(t)
      BY <2>0, <2>a, <2>13, ActEnds DEF SetsRetry, Reasons, Standing, Acting
    <2> QED
      BY <1>8, <2>1, <2>2, <2>3, <2>4, <2>5, <2>6, <2>7, <2>8, <2>9, <2>10, <2>11, <2>12, <2>13
         DEF GoesOn
  <1>9. CASE GateElapse
    BY <1>2, <1>9 DEF GateElapse, target, world
  <1>10. CASE WorldChanges
    BY <1>2, <1>10 DEF WorldChanges, state, target
  <1>11. CASE EngineSubmits
    BY <1>2, <1>11 DEF EngineSubmits, state, world
  <1>12. CASE UNCHANGED gateVars
    BY <1>2, <1>12 DEF gateVars, threads
  <1> QED
    BY <1>4, <1>5, <1>6, <1>7, <1>8, <1>9, <1>10, <1>11, <1>12 DEF GateNext

LEMMA GateStart == GateInit => GateInv
  <1> SUFFICES ASSUME GateInit
               PROVE  GateInv
    OBVIOUS
  <1>0. 0 \in 0..AttemptCap /\ 0 \in 0..MaxBackoff
    BY GateAssumption DEF AttemptCap
  <1>1. GateTypeOK
    BY <1>0, Zenon DEF GateInit, GateTypeOK, Asking, Causes, GateStates
  <1>2. /\ at = [t \in Threads |-> "away"] /\ crowded = {} /\ gate = "IDLE" /\ mode = "PAPER"
        /\ engineMode = "PAPER" /\ trading = FALSE
    BY DEF GateInit
  <1>3. \A t \in Threads : at[t] \notin Acting /\ Reasons(t)
    BY <1>2 DEF Reasons, Acting
  <1> QED
    BY <1>1, <1>2, <1>3 DEF GateInv, Meeting, PaperUnlessLive

LEMMA GateInvariance == GateSpec => []GateInv
  <1>1. GateInv /\ [GateNext]_gateVars => GateInv'
    BY GateStep
  <1> QED
    BY <1>1, GateStart, PTL DEF GateSpec

\* Every variable of the gate has its type.
THEOREM GateTypes == GateSpec => []GateTypeOK
  <1>1. GateInv => GateTypeOK
    BY DEF GateInv
  <1> QED
    BY <1>1, GateInvariance, PTL

(***************************************************************************)
(* Cut at every call its code makes, with any number of threads: an act    *)
(* that meets no other leaves the gate, the mode it believes in, the       *)
(* engine's mode and the adapter's switch in agreement, as far as mode_fn  *)
(* lets them, whatever acts that met left before it.                       *)
(***************************************************************************)
THEOREM GateAgreesWithEngine == GateSpec => []PaperUnlessLive
  <1>1. GateInv => PaperUnlessLive
    BY DEF GateInv
  <1> QED
    BY <1>1, GateInvariance, PTL

===============================================================================
