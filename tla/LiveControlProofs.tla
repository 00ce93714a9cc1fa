---------------------------- MODULE LiveControlProofs ----------------------------
(***************************************************************************)
(* Proofs about LiveControl for any ids and callers and any limits.        *)
(***************************************************************************)
EXTENDS LiveControl, FiniteSetTheorems, TLAPS

\* GateCoherent of a gate that an operation is about to leave behind.
Coherent(g) ==
  /\ g.armed <=> g.state = "LIVE_ARMED"
  /\ g.state \in {"LIVE_READY", "LIVE_ARMED"} => Satisfied(g)
  /\ g.safe <=> g.state = "SAFE_MODE"

Sound(g) == g \in Gate /\ Coherent(g)

\* Whatever the state was, recomputing it makes the gate agree with itself.
LEMMA RecomputedSound ==
  ASSUME NEW g \in Gate, g.state = "DEMO" => ~g.armed
  PROVE  Sound(Recomputed(g))
  <1> USE DEF Sound, Coherent, Gate, ValidationState, Satisfied
  <1>1. CASE g.safe
    BY <1>1 DEF Recomputed
  <1>2. CASE ~g.safe /\ g.state = "DEMO"
    BY <1>2 DEF Recomputed
  <1>3. CASE ~g.safe /\ g.state # "DEMO"
    BY <1>3 DEF Recomputed
  <1> QED
    BY <1>1, <1>2, <1>3

LEMMA DisarmedSound ==
  ASSUME NEW g \in Gate
  PROVE  Sound(Recomputed(Disarmed(g)))
  <1>1. Disarmed(g) \in Gate /\ ~Disarmed(g).armed
    BY DEF Disarmed, Gate
  <1> QED
    BY <1>1, RecomputedSound

LEMMA ArmedSound ==
  ASSUME NEW g \in Gate, ~g.safe, Satisfied(g)
  PROVE  Sound(Armed(g))
  BY DEF Armed, Sound, Coherent, Gate, ValidationState, Satisfied

LEMMA GateArmedSound ==
  ASSUME NEW g, Sound(g), NEW authorized \in BOOLEAN
  PROVE  Sound(GateArmed(g, authorized))
  BY ArmedSound, DisarmedSound DEF GateArmed, Sound

LEMMA GateResumedSound ==
  ASSUME NEW g, Sound(g), NEW autonomous \in BOOLEAN, NEW satisfied \in BOOLEAN
  PROVE  Sound(GateResumed(g, autonomous, satisfied))
  <1> DEFINE h == [g EXCEPT !.operator = TRUE]
  <1>1. h \in Gate /\ h.safe = g.safe
    BY DEF Sound, Gate
  <1>2. CASE (g.state = "DEMO" /\ ~autonomous) \/ g.safe
    BY <1>2 DEF GateResumed
  <1>3. CASE ~((g.state = "DEMO" /\ ~autonomous) \/ g.safe) /\ (~autonomous \/ ~satisfied)
    BY <1>3, DisarmedSound DEF GateResumed, Sound
  <1>4. CASE ~((g.state = "DEMO" /\ ~autonomous) \/ g.safe) /\ ~(~autonomous \/ ~satisfied)
    <2>1. GateResumed(g, autonomous, satisfied)
            = IF Satisfied(h) THEN Armed(h) ELSE Recomputed(Disarmed(h))
      BY <1>4 DEF GateResumed
    <2> HIDE DEF h
    <2> QED
      BY <1>1, <1>4, <2>1, ArmedSound, DisarmedSound
  <1> QED
    BY <1>2, <1>3, <1>4

LEMMA SafeModeEnteredSound ==
  ASSUME NEW g \in Gate
  PROVE  Sound(SafeModeEntered(g))
  BY DEF SafeModeEntered, Sound, Coherent, Gate, ValidationState

LEMMA SafeModeExitedSound ==
  ASSUME NEW g \in Gate
  PROVE  Sound(SafeModeExited(g))
  <1> DEFINE h == [g EXCEPT !.safe = FALSE, !.armed = FALSE]
  <1>1. h \in Gate /\ ~h.armed
    BY DEF Gate
  <1> HIDE DEF h
  <1>2. Sound(Recomputed(h))
    BY <1>1, RecomputedSound
  <1> QED
    BY <1>2 DEF SafeModeExited, h

LEMMA WithPrerequisitesSound ==
  ASSUME NEW g, Sound(g), NEW o \in BOOLEAN, NEW p \in BOOLEAN
  PROVE  Sound(WithPrerequisites(g, o, p))
  <1> DEFINE h == [g EXCEPT !.operator = o, !.others = p]
  <1>1. h \in Gate /\ (h.state = "DEMO" => ~h.armed)
    BY DEF Gate, Sound, Coherent
  <1> HIDE DEF h
  <1>2. Sound(Recomputed(h))
    BY <1>1, RecomputedSound
  <1> QED
    BY <1>2 DEF WithPrerequisites, h

-------------------------------------------------------------------------------
(***************************************************************************)
(* Where the threads are.                                                  *)
(***************************************************************************)
ThreadsOK ==
  /\ at \in [Callers -> Places]
  /\ arg \in [Callers -> Ids \union {None}]
  /\ \A c \in Callers : arg[c] \in Argument(at[c])
  /\ overtaken \in SUBSET Callers

\* Thread c is at place p now, and only it has moved.
Moved(c, p) ==
  /\ at' = [at EXCEPT ![c] = p]
  /\ arg' = [arg EXCEPT ![c] = IF p \in OtherPlaces THEN None ELSE @]
  /\ Overtakes(Callers \ {c})

LEMMA MovesOn ==
  ASSUME TypeOK, NEW c \in Callers, NEW p \in Places, GoesOn(c, p),
         p \in SubmitPlaces => at[c] \in SubmitPlaces
  PROVE  Moved(c, p) /\ ThreadsOK'
  <1>1. Moved(c, p)
    BY DEF GoesOn, Moves, Moved
  <1>2. at' \in [Callers -> Places] /\ \A d \in Callers : at'[d] = IF d = c THEN p ELSE at[d]
    BY <1>1 DEF Moved, TypeOK
  <1>3. p \notin OtherPlaces => p \in SubmitPlaces /\ arg[c] \in Ids
    BY DEF Places, TypeOK, Argument
  <1>4. /\ arg' \in [Callers -> Ids \union {None}]
        /\ \A d \in Callers :
             arg'[d] = IF d = c THEN IF p \in OtherPlaces THEN None ELSE arg[c] ELSE arg[d]
    BY <1>1, <1>3 DEF Moved, TypeOK
  <1>5. \A d \in Callers : arg'[d] \in Argument(at'[d])
    <2> SUFFICES ASSUME NEW d \in Callers
                 PROVE  arg'[d] \in Argument(at'[d])
      OBVIOUS
    <2>1. CASE d # c
      BY <1>2, <1>4, <2>1 DEF TypeOK
    <2>2. CASE d = c /\ p \in OtherPlaces
      BY <1>2, <1>4, <2>2 DEF Argument, OtherPlaces, SubmitPlaces
    <2>3. CASE d = c /\ p \notin OtherPlaces
      BY <1>2, <1>3, <1>4, <2>3 DEF Argument
    <2> QED
      BY <2>1, <2>2, <2>3
  <1>6. overtaken' \in SUBSET Callers
    BY <1>1 DEF Moved, Overtakes
  <1> QED
    BY <1>1, <1>2, <1>4, <1>5, <1>6 DEF ThreadsOK

LEMMA Submitting ==
  ASSUME TypeOK, NEW c \in Callers, NEW i \in Ids, Moves(c, "gate", i)
  PROVE  /\ at' = [at EXCEPT ![c] = "gate"] /\ arg' = [arg EXCEPT ![c] = i]
         /\ Overtakes(Callers \ {c}) /\ ThreadsOK'
  <1>1. at' = [at EXCEPT ![c] = "gate"] /\ arg' = [arg EXCEPT ![c] = i]
        /\ Overtakes(Callers \ {c})
    BY DEF Moves
  <1>2. at' \in [Callers -> Places] /\ arg' \in [Callers -> Ids \union {None}]
    BY <1>1 DEF TypeOK, Places, SubmitPlaces
  <1>3. \A d \in Callers : arg'[d] \in Argument(at'[d])
    BY <1>1 DEF TypeOK, Argument, SubmitPlaces
  <1> QED
    BY <1>1, <1>2, <1>3 DEF ThreadsOK, Overtakes

\* What the histories are, whatever the step.
LEMMA Remembered ==
  ASSUME TypeOK, NEW m \in BOOLEAN, NEW r \in SUBSET {"reset", "preflight", "arm"},
         Remember(m, r)
  PROVE  /\ meddled' \in BOOLEAN /\ redo' \in SUBSET {"reset", "preflight", "arm"}
         /\ ~meddled' => ~meddled /\ ~m /\ redo' = r
  BY DEF Remember, TypeOK

(***************************************************************************)
(* The places of arming, disarming and resetting: nothing of a submission  *)
(* is under way there.                                                     *)
(***************************************************************************)
Controlling == OtherPlaces \ {"accepted", "held", "rejected"}

ControlMoves(c) ==
  /\ at[c] \in Controlling
  /\ \E p \in Controlling : Moved(c, p)
  /\ ThreadsOK'
  /\ UNCHANGED <<mode, ids, positions, sent, raised>>

LEMMA TestMoves ==
  ASSUME TypeOK, NEW c \in Callers, NEW place \in Controlling, NEW p \in Controlling,
         Tests(c, place, p)
  PROVE  /\ ControlMoves(c) /\ Moved(c, p) /\ at[c] = place
         /\ UNCHANGED <<state, preflight, gate, meddled, redo>>
  <1>1. p \in Places /\ p \in OtherPlaces /\ p \notin SubmitPlaces
    BY DEF Controlling, Places, OtherPlaces, SubmitPlaces
  <1>2. Moved(c, p) /\ ThreadsOK'
    BY <1>1, MovesOn DEF Tests
  <1> QED
    BY <1>2 DEF Tests, ControlMoves, control, book, broker, history

LEMMA WriteMoves ==
  ASSUME TypeOK, NEW c \in Callers, NEW place \in Controlling, NEW p \in Controlling,
         NEW s \in ControllerState, NEW r \in SUBSET {"reset", "preflight", "arm"},
         Writes(c, place, s, p, r)
  PROVE  /\ ControlMoves(c) /\ Moved(c, p) /\ at[c] = place /\ state' = s
         /\ meddled' \in BOOLEAN /\ redo' \in SUBSET {"reset", "preflight", "arm"}
         /\ ~meddled' => ~meddled /\ c \notin overtaken /\ redo' = r
  <1>1. p \in Places /\ p \in OtherPlaces /\ p \notin SubmitPlaces
    BY DEF Controlling, Places, OtherPlaces, SubmitPlaces
  <1>2. Moved(c, p) /\ ThreadsOK'
    BY <1>1, MovesOn DEF Writes
  <1>3. Remember(c \in overtaken, r)
    BY DEF Writes
  <1>4. (c \in overtaken) \in BOOLEAN
    OBVIOUS
  <1>5. /\ meddled' \in BOOLEAN /\ redo' \in SUBSET {"reset", "preflight", "arm"}
        /\ ~meddled' => ~meddled /\ c \notin overtaken /\ redo' = r
    BY <1>3, <1>4, Remembered
  <1> QED
    BY <1>2, <1>5 DEF Writes, ControlMoves, book, broker

\* A step of a controlling operation: where it leads, and what it may write.
LEMMA ControlStep ==
  ASSUME TypeOK, Sound(gate), NEW c \in Callers, Controls(c)
  PROVE  /\ ControlMoves(c) /\ Sound(gate') /\ state' \in ControllerState
         /\ preflight' \in BOOLEAN /\ meddled' \in BOOLEAN
         /\ redo' \in SUBSET {"reset", "preflight", "arm"}
  <1> USE DEF Controlling, OtherPlaces
  <1>t. /\ state \in ControllerState /\ preflight \in BOOLEAN /\ meddled \in BOOLEAN
        /\ redo \in SUBSET {"reset", "preflight", "arm"}
        /\ {"ARMED", "DISABLED", "BLOCKED"} \subseteq ControllerState
    BY DEF TypeOK, ControllerState
  <1>1. ASSUME NEW pass \in BOOLEAN, EvaluatePreflight(c, pass)
        PROVE  ControlMoves(c) /\ UNCHANGED gate /\ state' \in ControllerState
               /\ preflight' \in BOOLEAN /\ meddled' \in BOOLEAN
               /\ redo' \in SUBSET {"reset", "preflight", "arm"}
    <2> DEFINE r == IF pass /\ "reset" \notin redo THEN redo \ {"preflight"} ELSE redo
               p == IF pass THEN "idle" ELSE "failed"
    <2>1. Writes(c, "idle", state, p, r) /\ preflight' = pass /\ UNCHANGED gate
      BY <1>1 DEF EvaluatePreflight
    <2>2. r \in SUBSET {"reset", "preflight", "arm"} /\ p \in Controlling
      BY <1>t
    <2> HIDE DEF r, p
    <2> QED
      BY <1>t, <2>1, <2>2, WriteMoves
  <1>2. ASSUME PreflightFailed(c) \/ (\E policy \in BOOLEAN : ArmPreflight(c, policy))
                 \/ (\E a \in BOOLEAN, k \in BOOLEAN : ArmCapital(c, a, k))
                 \/ Disarm(c) \/ ResetAfterHalt(c)
        PROVE  ControlMoves(c) /\ UNCHANGED <<state, preflight, gate, meddled, redo>>
    <2>1. CASE PreflightFailed(c)
      BY <2>1, TestMoves DEF PreflightFailed
    <2>2. ASSUME NEW policy \in BOOLEAN, ArmPreflight(c, policy)
          PROVE  ControlMoves(c) /\ UNCHANGED <<state, preflight, gate, meddled, redo>>
      <3> DEFINE p == CASE ~preflight -> "blocking"
                        [] preflight /\ policy /\ mode # "LIVE" -> "idle"
                        [] preflight /\ (policy => mode = "LIVE") -> "armCapital"
      <3>1. p \in Controlling
        BY <1>t
      <3>2. Tests(c, "preflight", p)
        BY <2>2 DEF ArmPreflight
      <3> HIDE DEF p
      <3> QED
        BY <3>1, <3>2, TestMoves
    <2>3. ASSUME NEW a \in BOOLEAN, NEW k \in BOOLEAN, ArmCapital(c, a, k)
          PROVE  ControlMoves(c) /\ UNCHANGED <<state, preflight, gate, meddled, redo>>
      <3> DEFINE p == CASE mode = "LIVE" /\ ~a -> "blocking"
                        [] (mode = "LIVE" => a) /\ ~k -> "idle"
                        [] mode = "LIVE" /\ a /\ k -> "authorizing"
                        [] mode # "LIVE" /\ k -> "arming"
      <3>1. p \in Controlling
        OBVIOUS
      <3>2. Tests(c, "armCapital", p)
        BY <2>3 DEF ArmCapital
      <3> HIDE DEF p
      <3> QED
        BY <3>1, <3>2, TestMoves
    <2>4. CASE Disarm(c)
      BY <2>4, TestMoves DEF Disarm
    <2>5. CASE ResetAfterHalt(c)
      BY <2>5, TestMoves DEF ResetAfterHalt
    <2> QED
      BY <1>2, <2>1, <2>2, <2>3, <2>4, <2>5
  <1>3. ASSUME WriteBlocked(c) \/ WriteArmed(c) \/ WriteDisabled(c) \/ WriteReset(c)
                 \/ ClearPreflight(c)
        PROVE  ControlMoves(c) /\ UNCHANGED gate /\ state' \in ControllerState
               /\ preflight' \in BOOLEAN /\ meddled' \in BOOLEAN
               /\ redo' \in SUBSET {"reset", "preflight", "arm"}
    <2>1. CASE WriteBlocked(c)
      BY <1>t, <2>1, WriteMoves DEF WriteBlocked
    <2>2. CASE WriteArmed(c)
      <3> DEFINE r == IF redo = {"arm"} THEN {} ELSE redo
      <3>1. r \in SUBSET {"reset", "preflight", "arm"} /\ Writes(c, "arming", "ARMED", "idle", r)
            /\ UNCHANGED <<preflight, gate>>
        BY <1>t, <2>2 DEF WriteArmed
      <3> HIDE DEF r
      <3> QED
        BY <1>t, <3>1, WriteMoves
    <2>3. CASE WriteDisabled(c)
      BY <1>t, <2>3, WriteMoves DEF WriteDisabled
    <2>4. CASE WriteReset(c)
      <3>1. redo \ {"reset"} \in SUBSET {"reset", "preflight", "arm"}
        BY <1>t
      <3> QED
        BY <1>t, <2>4, <3>1, WriteMoves DEF WriteReset
    <2>5. CASE ClearPreflight(c)
      BY <1>t, <2>5, WriteMoves DEF ClearPreflight
    <2> QED
      BY <1>3, <2>1, <2>2, <2>3, <2>4, <2>5
  <1>4. ASSUME Arm(c)
        PROVE  ControlMoves(c) /\ UNCHANGED <<state, preflight, gate, meddled, redo>>
    <2>1. GoesOn(c, "preflight")
      BY <1>4 DEF Arm, GoesOn
    <2>2. Moved(c, "preflight") /\ ThreadsOK'
      BY <2>1, MovesOn DEF Places, SubmitPlaces
    <2> QED
      BY <1>4, <2>2 DEF Arm, ControlMoves, control, book, broker, history
  <1>5. ASSUME (\E how \in How : AskGate(c, how)) \/ DisarmGate(c)
        PROVE  /\ ControlMoves(c) /\ Sound(gate')
               /\ UNCHANGED <<state, preflight, meddled, redo>>
    <2>1. PICK place \in Controlling, p \in Controlling :
            /\ at[c] = place /\ GoesOn(c, p)
            /\ UNCHANGED <<mode, state, preflight, book, broker, history>>
      <3>1. CASE \E how \in How : AskGate(c, how)
        BY <3>1 DEF AskGate
      <3>2. CASE DisarmGate(c)
        BY <3>2 DEF DisarmGate
      <3> QED
        BY <1>5, <3>1, <3>2
    <2>2. Moved(c, p) /\ ThreadsOK'
      BY <2>1, MovesOn DEF Places, SubmitPlaces
    <2>3. Sound(gate')
      BY <1>5, DisarmedSound, GateArmedSound, GateResumedSound
         DEF AskGate, DisarmGate, Authorized, GateDisarmed, Sound, How
    <2> QED
      BY <2>1, <2>2, <2>3 DEF ControlMoves, book, broker, history
  <1> QED
    BY <1>t, <1>1, <1>2, <1>3, <1>4, <1>5 DEF Controls

-------------------------------------------------------------------------------
(***************************************************************************)
(* A submission.                                                           *)
(***************************************************************************)
SubmitMoves(c, place, p) ==
  /\ at[c] = place /\ Moved(c, p) /\ ThreadsOK'
  /\ UNCHANGED <<mode, gate, preflight>>

LEMMA CheckMoves ==
  ASSUME TypeOK, NEW c \in Callers, NEW place \in SubmitPlaces, NEW next \in SubmitPlaces,
         NEW test, Checks(c, place, test, next)
  PROVE  /\ SubmitMoves(c, place, IF test THEN next ELSE "idle")
         /\ UNCHANGED <<state, ids, positions, sent, raised, meddled, redo>>
  <1> DEFINE p == IF test THEN next ELSE "idle"
  <1>1. p \in Places /\ Tests(c, place, p)
    BY DEF Checks, Places, OtherPlaces
  <1> HIDE DEF p
  <1>2. at[c] = place /\ GoesOn(c, p) /\ UNCHANGED <<control, book, broker, history>>
    BY <1>1 DEF Tests
  <1>3. Moved(c, p) /\ ThreadsOK'
    BY <1>1, <1>2, MovesOn
  <1>4. SubmitMoves(c, place, p) /\ UNCHANGED <<state, ids, positions, sent, raised, meddled, redo>>
    BY <1>2, <1>3 DEF SubmitMoves, control, book, broker, history
  <1> QED
    BY <1>4 DEF p

LEMMA ExecuteMoves ==
  ASSUME TypeOK, NEW c \in Callers, Execute(c)
  PROVE  /\ SubmitMoves(c, "ready", "sending") /\ state' = "EXECUTING"
         /\ sent' = [sent EXCEPT ![arg[c]] = @ + 1]
         /\ UNCHANGED <<ids, positions, raised>>
         /\ meddled' \in BOOLEAN /\ redo' \in SUBSET {"reset", "preflight", "arm"}
         /\ ~meddled' => ~meddled /\ c \notin overtaken /\ redo' = redo
  <1>1. at[c] = "ready" /\ GoesOn(c, "sending") /\ Remember(c \in overtaken, redo)
        /\ redo \in SUBSET {"reset", "preflight", "arm"}
    BY DEF Execute, TypeOK
  <1>2. Moved(c, "sending") /\ ThreadsOK'
    BY <1>1, MovesOn DEF Places, SubmitPlaces
  <1>3. (c \in overtaken) \in BOOLEAN
    OBVIOUS
  <1>4. /\ meddled' \in BOOLEAN /\ redo' \in SUBSET {"reset", "preflight", "arm"}
        /\ ~meddled' => ~meddled /\ c \notin overtaken /\ redo' = redo
    BY <1>1, <1>3, Remembered
  <1> QED
    BY <1>1, <1>2, <1>4 DEF Execute, SubmitMoves, book

LEMMA RaiseMoves ==
  ASSUME TypeOK, NEW c \in Callers, BrokerRaises(c)
  PROVE  /\ SubmitMoves(c, "sending", "idle") /\ state' = "DEGRADED"
         /\ raised' = [raised EXCEPT ![arg[c]] = @ + 1]
         /\ UNCHANGED <<ids, positions, sent>>
         /\ meddled' \in BOOLEAN /\ redo' \in SUBSET {"reset", "preflight", "arm"}
         /\ ~meddled' => ~meddled /\ c \notin overtaken /\ redo' = redo
  <1>1. at[c] = "sending" /\ GoesOn(c, "idle") /\ Remember(c \in overtaken, redo)
        /\ redo \in SUBSET {"reset", "preflight", "arm"}
    BY DEF BrokerRaises, TypeOK
  <1>2. Moved(c, "idle") /\ ThreadsOK'
    BY <1>1, MovesOn DEF Places, OtherPlaces, SubmitPlaces
  <1>3. (c \in overtaken) \in BOOLEAN
    OBVIOUS
  <1>4. /\ meddled' \in BOOLEAN /\ redo' \in SUBSET {"reset", "preflight", "arm"}
        /\ ~meddled' => ~meddled /\ c \notin overtaken /\ redo' = redo
    BY <1>1, <1>3, Remembered
  <1> QED
    BY <1>1, <1>2, <1>4 DEF BrokerRaises, SubmitMoves, book

LEMMA AnswerMoves ==
  ASSUME TypeOK, NEW c \in Callers, NEW ok \in BOOLEAN, BrokerAnswers(c, ok)
  PROVE  /\ SubmitMoves(c, "sending", IF ok THEN "accepted" ELSE "rejected")
         /\ ids' = ids \union {arg[c]}
         /\ UNCHANGED <<state, positions, sent, raised, meddled, redo>>
  <1> DEFINE p == IF ok THEN "accepted" ELSE "rejected"
  <1>1. p \in Places /\ p \notin SubmitPlaces /\ at[c] = "sending" /\ GoesOn(c, p)
    BY DEF BrokerAnswers, Places, OtherPlaces, SubmitPlaces
  <1> HIDE DEF p
  <1>2. Moved(c, p) /\ ThreadsOK'
    BY <1>1, MovesOn
  <1>3. SubmitMoves(c, "sending", p)
    BY <1>1, <1>2 DEF BrokerAnswers, SubmitMoves, control
  <1> QED
    BY <1>3 DEF p, BrokerAnswers, control, broker, history

LEMMA HoldMoves ==
  ASSUME TypeOK, NEW c \in Callers, HoldPosition(c)
  PROVE  /\ SubmitMoves(c, "accepted", "held") /\ positions' = positions + 1
         /\ UNCHANGED <<state, ids, sent, raised, meddled, redo>>
  <1>1. at[c] = "accepted" /\ GoesOn(c, "held")
    BY DEF HoldPosition
  <1>2. Moved(c, "held") /\ ThreadsOK'
    BY <1>1, MovesOn DEF Places, OtherPlaces, SubmitPlaces
  <1> QED
    BY <1>1, <1>2 DEF HoldPosition, SubmitMoves, control, broker, history

LEMMA SettleMoves ==
  ASSUME TypeOK, NEW c \in Callers, Settle(c)
  PROVE  /\ SubmitMoves(c, "held", "idle") \/ SubmitMoves(c, "rejected", "idle")
         /\ state' \in {"MONITORING", "ARMED"}
         /\ UNCHANGED <<ids, positions, sent, raised>>
         /\ meddled' \in BOOLEAN /\ redo' \in SUBSET {"reset", "preflight", "arm"}
         /\ ~meddled' => ~meddled /\ c \notin overtaken /\ redo' = redo
  <1>1. PICK place \in {"held", "rejected"}, s \in {"MONITORING", "ARMED"} :
          Writes(c, place, s, "idle", redo) /\ UNCHANGED <<preflight, gate>>
    BY DEF Settle
  <1>2. /\ at[c] = place /\ GoesOn(c, "idle") /\ Remember(c \in overtaken, redo) /\ state' = s
        /\ redo \in SUBSET {"reset", "preflight", "arm"} /\ UNCHANGED <<mode, book, broker>>
    BY <1>1 DEF Writes, TypeOK
  <1>3. Moved(c, "idle") /\ ThreadsOK'
    BY <1>2, MovesOn DEF Places, OtherPlaces, SubmitPlaces
  <1>4. (c \in overtaken) \in BOOLEAN
    OBVIOUS
  <1>5. /\ meddled' \in BOOLEAN /\ redo' \in SUBSET {"reset", "preflight", "arm"}
        /\ ~meddled' => ~meddled /\ c \notin overtaken /\ redo' = redo
    BY <1>2, <1>4, Remembered
  <1>6. SubmitMoves(c, place, "idle")
    BY <1>1, <1>2, <1>3 DEF SubmitMoves
  <1> QED
    BY <1>1, <1>2, <1>5, <1>6 DEF book, broker

-------------------------------------------------------------------------------
(***************************************************************************)
(* Types, and the coherence of the gate, which they need.                  *)
(***************************************************************************)
Typed == TypeOK /\ GateCoherent

LEMMA TypedIsSound ==
  ASSUME Typed
  PROVE  TypeOK /\ Sound(gate)
  BY DEF Typed, TypeOK, GateCoherent, Sound, Coherent

LEMMA SoundIsTyped ==
  ASSUME ThreadsOK', Sound(gate'), mode' \in Modes, state' \in ControllerState,
         preflight' \in BOOLEAN, meddled' \in BOOLEAN, ids' \in SUBSET Ids, positions' \in Nat,
         sent' \in [Ids -> Nat], raised' \in [Ids -> Nat],
         redo' \in SUBSET {"reset", "preflight", "arm"}
  PROVE  Typed'
  BY DEF Typed, TypeOK, ThreadsOK, GateCoherent, Sound, Coherent

\* A submitting thread's id is one of Ids.
LEMMA SubmitsId ==
  ASSUME TypeOK, NEW c \in Callers, at[c] \in SubmitPlaces
  PROVE  arg[c] \in Ids
  BY DEF TypeOK, Argument

LEMMA TypedSubmit ==
  ASSUME Typed, NEW c \in Callers, Submits(c)
  PROVE  Typed'
  <1>0. TypeOK /\ Sound(gate)
    BY TypedIsSound
  <1>t. /\ mode \in Modes /\ state \in ControllerState /\ preflight \in BOOLEAN
        /\ meddled \in BOOLEAN /\ ids \in SUBSET Ids /\ positions \in Nat
        /\ sent \in [Ids -> Nat] /\ raised \in [Ids -> Nat]
        /\ redo \in SUBSET {"reset", "preflight", "arm"}
        /\ {"EXECUTING", "DEGRADED", "MONITORING", "ARMED"} \subseteq ControllerState
    BY <1>0 DEF TypeOK, ControllerState
  <1>1. ASSUME NEW i \in Ids, SubmitLiveOrder(c, i)
        PROVE  Typed'
    <2>1. ThreadsOK' /\ UNCHANGED <<control, book, broker, history>>
      BY <1>0, <1>1, Submitting DEF SubmitLiveOrder
    <2> QED
      BY <1>0, <1>t, <2>1, SoundIsTyped DEF control, book, broker, history
  <1>2. ASSUME NEW place \in SubmitPlaces, NEW next \in SubmitPlaces, NEW test,
               Checks(c, place, test, next)
        PROVE  Typed'
    <2>1. /\ SubmitMoves(c, place, IF test THEN next ELSE "idle")
          /\ UNCHANGED <<state, ids, positions, sent, raised, meddled, redo>>
      BY <1>0, <1>2, CheckMoves
    <2> QED
      BY <1>0, <1>t, <2>1, SoundIsTyped DEF SubmitMoves
  <1>3. ASSUME CheckGate(c) \/ CheckId(c) \/ (\E losses \in BOOLEAN : CheckLimits(c, losses))
                 \/ (\E allowed \in BOOLEAN : CheckCapital(c, allowed))
        PROVE  Typed'
    BY <1>2, <1>3 DEF CheckGate, CheckId, CheckLimits, CheckCapital, SubmitPlaces
  <1>4. CASE Execute(c)
    <2>1. arg[c] \in Ids
      BY <1>0, <1>4, SubmitsId DEF Execute, SubmitPlaces
    <2> QED
      BY <1>0, <1>t, <1>4, <2>1, ExecuteMoves, SoundIsTyped DEF SubmitMoves
  <1>5. CASE BrokerRaises(c)
    <2>1. arg[c] \in Ids
      BY <1>0, <1>5, SubmitsId DEF BrokerRaises, SubmitPlaces
    <2> QED
      BY <1>0, <1>t, <1>5, <2>1, RaiseMoves, SoundIsTyped DEF SubmitMoves
  <1>6. ASSUME NEW ok \in BOOLEAN, BrokerAnswers(c, ok)
        PROVE  Typed'
    <2>1. arg[c] \in Ids
      BY <1>0, <1>6, SubmitsId DEF BrokerAnswers, SubmitPlaces
    <2> QED
      BY <1>0, <1>t, <1>6, <2>1, AnswerMoves, SoundIsTyped DEF SubmitMoves
  <1>7. CASE HoldPosition(c)
    <2>1. SubmitMoves(c, "accepted", "held") /\ positions' = positions + 1
          /\ UNCHANGED <<state, ids, sent, raised, meddled, redo>>
      BY <1>0, <1>7, HoldMoves
    <2>2. positions' \in Nat
      BY <1>t, <2>1
    <2> QED
      BY <1>0, <1>t, <2>1, <2>2, SoundIsTyped DEF SubmitMoves
  <1>8. CASE Settle(c)
    BY <1>0, <1>t, <1>8, SettleMoves, SoundIsTyped DEF SubmitMoves
  <1> QED
    BY <1>1, <1>3, <1>4, <1>5, <1>6, <1>7, <1>8 DEF Submits

LEMMA TypedStep ==
  ASSUME Typed, [Next]_vars
  PROVE  Typed'
  <1>0. TypeOK /\ Sound(gate)
    BY TypedIsSound
  <1>t. /\ mode \in Modes /\ state \in ControllerState /\ preflight \in BOOLEAN
        /\ meddled \in BOOLEAN /\ ids \in SUBSET Ids /\ positions \in Nat
        /\ sent \in [Ids -> Nat] /\ raised \in [Ids -> Nat]
        /\ redo \in SUBSET {"reset", "preflight", "arm"} /\ ThreadsOK
    BY <1>0 DEF TypeOK, ThreadsOK
  <1>1. CASE UseGate
    <2>1. Sound(gate')
      BY <1>0, <1>1, DisarmedSound, SafeModeEnteredSound, SafeModeExitedSound, GateArmedSound,
         GateResumedSound, WithPrerequisitesSound
         DEF UseGate, GateDisarmed, Sound
    <2>2. UNCHANGED <<mode, state, preflight, ids, positions, at, arg, sent, raised,
                      overtaken, meddled, redo>>
      BY <1>1 DEF UseGate, book, broker, history
    <2>3. ThreadsOK'
      BY <1>t, <2>2 DEF ThreadsOK
    <2> QED
      BY <1>t, <2>1, <2>2, <2>3, SoundIsTyped
  <1>2. CASE KillSwitch
    <2>1. /\ UNCHANGED <<mode, preflight, gate, ids, positions, at, arg, sent, raised>>
          /\ state' = "HALTED" /\ Remember(FALSE, {"reset", "preflight", "arm"})
          /\ Overtakes(Callers)
      BY <1>2 DEF KillSwitch, book, broker
    <2>2. ThreadsOK'
      BY <1>t, <2>1 DEF ThreadsOK, Overtakes
    <2>3. meddled' \in BOOLEAN /\ redo' \in SUBSET {"reset", "preflight", "arm"}
      BY <1>0, <2>1, Remembered
    <2>4. state' \in ControllerState
      BY <2>1 DEF ControllerState
    <2> QED
      BY <1>0, <1>t, <2>1, <2>2, <2>3, <2>4, SoundIsTyped
  <1>3. CASE RecordFillOutcome
    <2>1. /\ UNCHANGED <<mode, state, preflight, gate, ids, at, arg, sent, raised,
                         overtaken, meddled, redo>>
          /\ positions' \in Nat
      BY <1>t, <1>3 DEF RecordFillOutcome, control, broker, history
    <2>2. ThreadsOK'
      BY <1>t, <2>1 DEF ThreadsOK
    <2> QED
      BY <1>0, <1>t, <2>1, <2>2, SoundIsTyped
  <1>4. ASSUME NEW c \in Callers, Controls(c)
        PROVE  Typed'
    BY <1>0, <1>t, <1>4, ControlStep, SoundIsTyped DEF ControlMoves
  <1>5. CASE UNCHANGED vars
    BY <1>5 DEF vars, Typed, TypeOK, GateCoherent, Satisfied
  <1> QED
    BY <1>1, <1>2, <1>3, <1>4, <1>5, TypedSubmit DEF Next

LEMMA TypedInit == Init => Typed
  <1> SUFFICES ASSUME Init
               PROVE  Typed
    OBVIOUS
  <1>1. gate \in Gate /\ GateCoherent
    BY DEF Init, Gate, ValidationState, GateCoherent
  <1>2. at \in [Callers -> Places] /\ arg \in [Callers -> Ids \union {None}]
        /\ \A c \in Callers : arg[c] \in Argument(at[c])
    BY DEF Init, Places, OtherPlaces, SubmitPlaces, Argument
  <1>3. sent \in [Ids -> Nat] /\ raised \in [Ids -> Nat]
    BY DEF Init
  <1> QED
    BY <1>1, <1>2, <1>3 DEF Init, Typed, TypeOK, ControllerState

LEMMA TypedInvariance == Spec => []Typed
  BY TypedInit, TypedStep, PTL DEF Spec

\* Every variable of the controller and of its gates has its type.
THEOREM LiveTypes == Spec => []TypeOK
  <1>1. Typed => TypeOK
    BY DEF Typed
  <1> QED
    BY <1>1, TypedInvariance, PTL

(***************************************************************************)
(* The authorization gate agrees with itself after any use of it.          *)
(***************************************************************************)
THEOREM GateAgreesWithItself == Spec => []GateCoherent
  <1>1. Typed => GateCoherent
    BY DEF Typed
  <1> QED
    BY <1>1, TypedInvariance, PTL

-------------------------------------------------------------------------------
(***************************************************************************)
(* Sets of threads, and how they count.                                    *)
(***************************************************************************)
LEMMA ThreadsCount ==
  ASSUME NEW S, S \subseteq Callers
  PROVE  /\ IsFiniteSet(S) /\ Cardinality(S) \in Nat /\ Cardinality(S) <= Cardinality(Callers)
         /\ Cardinality(Callers) \in Nat /\ Cardinality(Callers) >= 1
  <1>1. IsFiniteSet(S) /\ Cardinality(S) <= Cardinality(Callers)
    BY FS_Subset, LiveAssumption
  <1>2. Cardinality(S) \in Nat /\ Cardinality(Callers) \in Nat
    BY <1>1, FS_CardinalityType, LiveAssumption
  <1>3. Cardinality(Callers) # 0
    BY FS_EmptySet, LiveAssumption
  <1> QED
    BY <1>1, <1>2, <1>3

LEMMA FewerThreads ==
  ASSUME NEW S, S \subseteq Callers, NEW T, T \subseteq S
  PROVE  Cardinality(T) <= Cardinality(S)
  BY ThreadsCount, FS_Subset

LEMMA OneLeaves ==
  ASSUME NEW S, S \subseteq Callers, NEW c \in S
  PROVE  Cardinality(S \ {c}) = Cardinality(S) - 1
  BY ThreadsCount, FS_RemoveElement

LEMMA OneJoins ==
  ASSUME NEW S, S \subseteq Callers, NEW c \in Callers, c \notin S
  PROVE  Cardinality(S \union {c}) = Cardinality(S) + 1
  BY ThreadsCount, FS_AddElement

-------------------------------------------------------------------------------
(***************************************************************************)
(* The position budget.  The threads past the check are at most all of     *)
(* them, and the last of them found room: that is all the limit can say.   *)
(***************************************************************************)
AreCommitted == {"capital", "ready", "sending", "accepted"}

LEMMA CommittedMoves ==
  ASSUME TypeOK, NEW c \in Callers, NEW p, at' = [at EXCEPT ![c] = p]
  PROVE  /\ Committed \subseteq Callers
         /\ p \in AreCommitted => Committed' = Committed \union {c}
         /\ p \notin AreCommitted => Committed' = Committed \ {c}
         /\ c \in Committed <=> at[c] \in AreCommitted
  BY DEF Committed, AreCommitted, TypeOK

LEMMA BoundKept ==
  ASSUME NEW a \in Nat, NEW b \in Nat, NEW k \in Nat, NEW n \in Nat, NEW m \in Int,
         b + k <= m, a <= b, n <= k
  PROVE  a + n <= m
  OBVIOUS

\* Nobody new is committed, and no position is new.
LEMMA BudgetKept ==
  ASSUME TypeOK, PositionsWithinLimit, Committed' \subseteq Committed,
         positions' \in Nat, positions' <= positions
  PROVE  PositionsWithinLimit'
  <1> DEFINE k == Cardinality(Committed)
             n == Cardinality(Committed')
             m == Cardinality(Callers)
  <1>1. k \in Nat /\ n \in Nat /\ m \in Nat /\ n <= k
    BY ThreadsCount, FewerThreads DEF Committed
  <1>2. positions + k <= MaxOpen + m - 1 /\ positions \in Nat /\ MaxOpen \in Nat
    BY LiveAssumption DEF PositionsWithinLimit, TypeOK
  <1> HIDE DEF k, n, m
  <1>3. positions' + n <= MaxOpen + m - 1
    <2>1. MaxOpen + m - 1 \in Int
      BY <1>1, <1>2
    <2> QED
      BY <1>1, <1>2, <2>1, BoundKept
  <1> QED
    BY <1>3 DEF PositionsWithinLimit, k, n, m

LEMMA BudgetStep ==
  ASSUME Typed, Typed', PositionsWithinLimit, [Next]_vars
  PROVE  PositionsWithinLimit'
  <1>0. TypeOK /\ positions \in Nat /\ positions' \in Nat
    BY DEF Typed, TypeOK
  <1>1. ASSUME NEW c \in Callers, Controls(c)
        PROVE  PositionsWithinLimit'
    <2>1. positions' = positions /\ at[c] \in Controlling
          /\ \E p \in Controlling : at' = [at EXCEPT ![c] = p]
      BY <1>0, <1>1, TypedIsSound, ControlStep DEF ControlMoves, Moved
    <2>2. Committed' \subseteq Committed
      BY <1>0, <2>1, CommittedMoves DEF Controlling, AreCommitted, OtherPlaces
    <2> QED
      BY <1>0, <2>1, <2>2, BudgetKept
  <1>2. ASSUME NEW c \in Callers, Submits(c), ~HoldPosition(c),
               ~\E losses \in BOOLEAN : CheckLimits(c, losses)
        PROVE  PositionsWithinLimit'
    <2>1. /\ positions' = positions
          /\ \E p \in Places : /\ at' = [at EXCEPT ![c] = p]
                               /\ p \in AreCommitted => at[c] \in AreCommitted
      <3> USE DEF Places, SubmitPlaces, OtherPlaces, AreCommitted
      <3>1. ASSUME NEW i \in Ids, SubmitLiveOrder(c, i)
            PROVE  positions' = positions /\ at' = [at EXCEPT ![c] = "gate"]
        BY <3>1 DEF SubmitLiveOrder, Moves, book
      <3>2. ASSUME NEW place \in SubmitPlaces, NEW next \in SubmitPlaces, NEW test,
                   Checks(c, place, test, next)
            PROVE  /\ positions' = positions /\ at[c] = place
                   /\ \E p \in {next, "idle"} : at' = [at EXCEPT ![c] = p]
        <4>1. /\ SubmitMoves(c, place, IF test THEN next ELSE "idle") /\ positions' = positions
          BY <1>0, <3>2, CheckMoves
        <4>2. at' = [at EXCEPT ![c] = IF test THEN next ELSE "idle"] /\ at[c] = place
          BY <4>1 DEF SubmitMoves, Moved
        <4>3. (IF test THEN next ELSE "idle") \in {next, "idle"}
          OBVIOUS
        <4> QED
          BY <4>1, <4>2, <4>3
      <3>3. ASSUME CheckGate(c) \/ CheckId(c)
            PROVE  /\ positions' = positions
                   /\ \E p \in {"ids", "limits", "idle"} : at' = [at EXCEPT ![c] = p]
        BY <3>2, <3>3 DEF CheckGate, CheckId
      <3>4. ASSUME NEW allowed \in BOOLEAN, CheckCapital(c, allowed)
            PROVE  /\ positions' = positions /\ at[c] = "capital"
                   /\ \E p \in {"ready", "idle"} : at' = [at EXCEPT ![c] = p]
        BY <3>2, <3>4 DEF CheckCapital
      <3>5. CASE Execute(c)
        BY <1>0, <3>5, ExecuteMoves DEF SubmitMoves, Moved
      <3>6. CASE BrokerRaises(c)
        BY <1>0, <3>6, RaiseMoves DEF SubmitMoves, Moved
      <3>7. ASSUME NEW ok \in BOOLEAN, BrokerAnswers(c, ok)
            PROVE  /\ positions' = positions /\ at[c] = "sending"
                   /\ \E p \in {"accepted", "rejected"} : at' = [at EXCEPT ![c] = p]
        BY <1>0, <3>7, AnswerMoves DEF SubmitMoves, Moved
      <3>8. CASE Settle(c)
        BY <1>0, <3>8, SettleMoves DEF SubmitMoves, Moved
      <3> QED
        BY <1>2, <3>1, <3>3, <3>4, <3>5, <3>6, <3>7, <3>8 DEF Submits
    <2>2. Committed' \subseteq Committed
      BY <1>0, <2>1, CommittedMoves
    <2> QED
      BY <1>0, <2>1, <2>2, BudgetKept
  <1>3. ASSUME NEW c \in Callers, NEW losses \in BOOLEAN, CheckLimits(c, losses)
        PROVE  PositionsWithinLimit'
    <2>1. /\ SubmitMoves(c, "limits", IF WithinLimits(losses) THEN "capital" ELSE "idle")
          /\ UNCHANGED positions
      BY <1>0, <1>3, CheckMoves DEF CheckLimits, SubmitPlaces
    <2>2. /\ at[c] = "limits"
          /\ at' = [at EXCEPT ![c] = IF WithinLimits(losses) THEN "capital" ELSE "idle"]
      BY <2>1 DEF SubmitMoves, Moved
    <2>3. CASE WithinLimits(losses)
      <3>1. positions < MaxOpen
        BY <2>3 DEF WithinLimits
      <3>2. Committed' \subseteq Callers
        BY <1>0, <2>2, <2>3, CommittedMoves DEF AreCommitted
      <3>3. /\ Cardinality(Committed') \in Nat /\ Cardinality(Callers) \in Nat
            /\ Cardinality(Committed') <= Cardinality(Callers)
        BY <3>2, ThreadsCount
      <3> QED
        BY <1>0, <2>1, <3>1, <3>3, LiveAssumption DEF PositionsWithinLimit
    <2>4. CASE ~WithinLimits(losses)
      <3>0. at' = [at EXCEPT ![c] = "idle"] /\ "idle" \notin AreCommitted
        BY <2>2, <2>4 DEF AreCommitted
      <3>1. Committed' \subseteq Committed
        BY <1>0, <3>0, CommittedMoves
      <3> QED
        BY <1>0, <2>1, <3>1, BudgetKept
    <2> QED
      BY <2>3, <2>4
  <1>4. ASSUME NEW c \in Callers, HoldPosition(c)
        PROVE  PositionsWithinLimit'
    <2>1. at[c] = "accepted" /\ positions' = positions + 1 /\ at' = [at EXCEPT ![c] = "held"]
      BY <1>0, <1>4, HoldMoves DEF SubmitMoves, Moved
    <2>0. "held" \notin AreCommitted /\ "accepted" \in AreCommitted
      BY DEF AreCommitted
    <2>2. Committed \subseteq Callers /\ c \in Committed /\ Committed' = Committed \ {c}
      BY <1>0, <2>0, <2>1, CommittedMoves
    <2>3. Cardinality(Committed') = Cardinality(Committed) - 1
      BY <2>2, OneLeaves
    <2>4. Cardinality(Committed) \in Nat /\ Cardinality(Callers) \in Nat
      BY <2>2, ThreadsCount
    <2> QED
      BY <1>0, <2>1, <2>3, <2>4, LiveAssumption DEF PositionsWithinLimit
  <1>5. CASE UseGate \/ KillSwitch \/ RecordFillOutcome \/ UNCHANGED vars
    <2>1. at' = at /\ (positions' = positions \/ positions' = positions - 1)
      <3>1. CASE UseGate
        BY <3>1 DEF UseGate, book
      <3>2. CASE KillSwitch
        BY <3>2 DEF KillSwitch, book
      <3>3. CASE RecordFillOutcome
        BY <3>3 DEF RecordFillOutcome
      <3>4. CASE UNCHANGED vars
        BY <3>4 DEF vars
      <3> QED
        BY <1>5, <3>1, <3>2, <3>3, <3>4
    <2>3. positions' <= positions
      BY <1>0, <2>1
    <2>2. Committed' \subseteq Committed
      BY <2>1 DEF Committed
    <2> QED
      BY <1>0, <2>2, <2>3, BudgetKept
  <1> QED
    BY <1>1, <1>2, <1>3, <1>4, <1>5 DEF Next

(***************************************************************************)
(* For any number of threads and any limit, the positions and the orders   *)
(* past the check exceed the limit by at most the other threads.           *)
(***************************************************************************)
THEOREM PositionBudgetHolds == Spec => []PositionsWithinLimit
  <1>1. Init => PositionsWithinLimit
    <2> SUFFICES ASSUME Init
                 PROVE  PositionsWithinLimit
      OBVIOUS
    <2>1. Committed = {} /\ positions = 0
      BY DEF Init, Committed
    <2>2. Cardinality(Committed) = 0 /\ Cardinality(Callers) \in Nat /\ Cardinality(Callers) >= 1
      BY <2>1, FS_EmptySet, ThreadsCount
    <2> QED
      BY <2>1, <2>2, LiveAssumption DEF PositionsWithinLimit
  <1>2. Typed /\ Typed' /\ PositionsWithinLimit /\ [Next]_vars => PositionsWithinLimit'
    BY BudgetStep
  <1> QED
    BY <1>1, <1>2, TypedInvariance, PTL DEF Spec

-------------------------------------------------------------------------------
(***************************************************************************)
(* The ids.  An id not yet answered went out once for every time it raised *)
(* and once for every thread that waits for the broker with it; the        *)
(* threads past the check of an id are no more than all.                   *)
(***************************************************************************)
Checked == {"limits", "capital", "ready"}
Past(i)    == {c \in Callers : at[c] \in Checked /\ arg[c] = i}
Calling(i) == {c \in Callers : at[c] = "sending" /\ arg[c] = i}

CountedFor(i) ==
  /\ sent[i] + Cardinality(Past(i)) <= raised[i] + Cardinality(Callers)
  /\ i \notin ids => sent[i] = raised[i] + Cardinality(Calling(i))

Counted == \A i \in Ids : CountedFor(i)

\* Thread c moves on with its id, or without.
LEMMA CountsMove ==
  ASSUME TypeOK, NEW c \in Callers, NEW p \in Places, Moved(c, p), NEW i \in Ids,
         p \in SubmitPlaces => at[c] \in SubmitPlaces
  PROVE  /\ p \in Checked /\ arg[c] = i => Past(i)' = Past(i) \union {c}
         /\ ~(p \in Checked /\ arg[c] = i) => Past(i)' = Past(i) \ {c}
         /\ p = "sending" /\ arg[c] = i => Calling(i)' = Calling(i) \union {c}
         /\ ~(p = "sending" /\ arg[c] = i) => Calling(i)' = Calling(i) \ {c}
  <1>1. \A d \in Callers : at'[d] = IF d = c THEN p ELSE at[d]
    BY DEF Moved, TypeOK
  <1>2. \A d \in Callers : d # c => arg'[d] = arg[d]
    BY DEF Moved, TypeOK
  <1>3. p \in SubmitPlaces => arg'[c] = arg[c]
    BY DEF Moved, TypeOK, SubmitPlaces, OtherPlaces
  <1>4. p \in Checked \/ p = "sending" => p \in SubmitPlaces
    BY DEF Checked, SubmitPlaces
  <1> QED
    BY <1>1, <1>2, <1>3, <1>4 DEF Past, Calling

\* Nothing is sent, raised or answered, and no thread passes the check.
LEMMA CountKept ==
  ASSUME NEW i \in Ids, TypeOK, TypeOK', CountedFor(i), sent'[i] = sent[i], raised'[i] = raised[i],
         i \in ids => i \in ids',
         Past(i)' \subseteq Past(i), i \notin ids' => Calling(i)' = Calling(i)
  PROVE  CountedFor(i)'
  <1>1. /\ Cardinality(Past(i)) \in Nat /\ Cardinality(Past(i)') \in Nat
        /\ Cardinality(Past(i)') <= Cardinality(Past(i)) /\ Cardinality(Callers) \in Nat
    BY ThreadsCount, FewerThreads DEF Past
  <1>2. sent[i] \in Nat /\ raised[i] \in Nat
    BY DEF TypeOK
  <1>3. sent[i] + Cardinality(Past(i)') <= raised[i] + Cardinality(Callers)
    <2>1. sent[i] + Cardinality(Past(i)) <= raised[i] + Cardinality(Callers)
      BY DEF CountedFor
    <2>2. raised[i] + Cardinality(Callers) \in Int
      BY <1>1, <1>2
    <2> QED
      BY <1>1, <1>2, <2>1, <2>2, SMT
  <1>4. i \notin ids' => sent[i] = raised[i] + Cardinality(Calling(i)')
    BY DEF CountedFor
  <1> QED
    BY <1>3, <1>4 DEF CountedFor

\* A thread elsewhere is in neither set.
LEMMA Elsewhere ==
  ASSUME NEW c \in Callers, NEW i \in Ids, at[c] \notin Checked \union {"sending"}
  PROVE  c \notin Past(i) /\ c \notin Calling(i)
  BY DEF Past, Calling

LEMMA CountedControl ==
  ASSUME Typed, Typed', Counted, NEW c \in Callers, Controls(c)
  PROVE  Counted'
  <1> SUFFICES ASSUME NEW i \in Ids
               PROVE  CountedFor(i)'
    BY DEF Counted
  <1>0. TypeOK /\ TypeOK' /\ CountedFor(i)
    BY DEF Typed, Counted
  <1>1. /\ at[c] \in Controlling /\ UNCHANGED <<ids, sent, raised>>
        /\ \E p \in Controlling : Moved(c, p)
    BY <1>0, TypedIsSound, ControlStep DEF ControlMoves
  <1>2. PICK p \in Controlling : Moved(c, p)
    BY <1>1
  <1>3. /\ p \in Places /\ p \notin SubmitPlaces /\ p \notin Checked /\ p # "sending"
        /\ at[c] \notin Checked \union {"sending"}
    BY <1>1 DEF Controlling, Places, OtherPlaces, SubmitPlaces, Checked
  <1>4. Past(i)' = Past(i) \ {c} /\ Calling(i)' = Calling(i) \ {c}
    BY <1>0, <1>2, <1>3, CountsMove
  <1>5. Calling(i)' = Calling(i)
    BY <1>3, <1>4, Elsewhere
  <1> QED
    BY <1>0, <1>1, <1>4, <1>5, CountKept

LEMMA CountedSubmit ==
  ASSUME Typed, Typed', Counted, NEW c \in Callers, Submits(c)
  PROVE  Counted'
  <1> SUFFICES ASSUME NEW i \in Ids
               PROVE  CountedFor(i)'
    BY DEF Counted
  <1>0. TypeOK /\ TypeOK' /\ CountedFor(i)
    BY DEF Typed, Counted
  <1>t. sent[i] \in Nat /\ raised[i] \in Nat
    BY <1>0 DEF TypeOK
  <1>p. SubmitPlaces \subseteq Places /\ Checked \subseteq SubmitPlaces
        /\ "sending" \in SubmitPlaces /\ "sending" \notin Checked
        /\ {"idle", "accepted", "rejected", "held"} \subseteq Places
        /\ {"idle", "accepted", "rejected", "held", "gate", "ids"}
             \intersect (Checked \union {"sending"}) = {}
    BY DEF Places, OtherPlaces, SubmitPlaces, Checked
  \* A thread that is in neither set before and after.
  <1>a. ASSUME NEW p, p \in {"idle", "accepted", "rejected", "held", "ids"},
               at[c] \in {"gate", "ids", "accepted", "rejected", "held"},
               p \in SubmitPlaces => at[c] \in SubmitPlaces,
               Moved(c, p), UNCHANGED <<ids, sent, raised>>
        PROVE  CountedFor(i)'
    <2>1. p \in Places /\ p \notin Checked /\ p # "sending"
          /\ at[c] \notin Checked \union {"sending"}
      BY <1>a, <1>p DEF Checked, SubmitPlaces, Places
    <2>2. Past(i)' = Past(i) \ {c} /\ Calling(i)' = Calling(i) \ {c}
      BY <1>0, <1>a, <2>1, CountsMove
    <2>3. Calling(i)' = Calling(i)
      BY <2>1, <2>2, Elsewhere
    <2> QED
      BY <1>0, <1>a, <2>2, <2>3, CountKept
  \* A thread past the check that stays so, or gives up.
  <1>b. ASSUME NEW p \in {"idle", "capital", "ready"}, at[c] \in Checked, Moved(c, p),
               UNCHANGED <<ids, sent, raised>>
        PROVE  CountedFor(i)'
    <2>1. p \in Places /\ p # "sending" /\ at[c] # "sending" /\ at[c] \in SubmitPlaces
      BY <1>b, <1>p DEF Checked, SubmitPlaces
    <2>2. Calling(i)' = Calling(i) \ {c} /\ c \notin Calling(i)
      BY <1>0, <1>b, <2>1, CountsMove DEF Calling
    <2>3. Past(i)' \subseteq Past(i)
      <3>1. CASE arg[c] = i
        BY <1>0, <1>b, <2>1, <3>1, CountsMove DEF Past
      <3>2. CASE arg[c] # i
        BY <1>0, <1>b, <2>1, <3>2, CountsMove
      <3> QED
        BY <3>1, <3>2
    <2> QED
      BY <1>0, <1>b, <2>2, <2>3, CountKept
  <1>1. ASSUME NEW j \in Ids, SubmitLiveOrder(c, j)
        PROVE  CountedFor(i)'
    <2>1. /\ at[c] = "idle" /\ at' = [at EXCEPT ![c] = "gate"] /\ arg' = [arg EXCEPT ![c] = j]
          /\ UNCHANGED <<ids, sent, raised>>
      BY <1>1 DEF SubmitLiveOrder, Moves, book, broker
    <2>2. Past(i)' = Past(i) /\ Calling(i)' = Calling(i)
      BY <1>0, <2>1 DEF Past, Calling, Checked, TypeOK
    <2> QED
      BY <1>0, <2>1, <2>2, CountKept
  <1>2. CASE CheckGate(c)
    <2> DEFINE p == IF mode = "LIVE" => CanSubmitLive THEN "ids" ELSE "idle"
    <2>1. SubmitMoves(c, "gate", p) /\ UNCHANGED <<ids, sent, raised>>
      BY <1>0, <1>2, CheckMoves DEF CheckGate, SubmitPlaces
    <2>2. p \in {"ids", "idle"}
      OBVIOUS
    <2> HIDE DEF p
    <2>3. at[c] = "gate" /\ Moved(c, p) /\ "gate" \in SubmitPlaces
      BY <2>1 DEF SubmitMoves, SubmitPlaces
    <2> QED
      BY <1>a, <2>1, <2>2, <2>3
  <1>3. CASE CheckId(c)
    <2>1. SubmitMoves(c, "ids", IF arg[c] \notin ids THEN "limits" ELSE "idle")
          /\ UNCHANGED <<ids, sent, raised>>
      BY <1>0, <1>3, CheckMoves DEF CheckId, SubmitPlaces
    <2>2. at[c] = "ids" /\ at[c] \in SubmitPlaces /\ at[c] \notin Checked \union {"sending"}
      BY <2>1 DEF SubmitMoves, SubmitPlaces, Checked
    <2>3. CASE arg[c] \in ids
      <3>1. Moved(c, "idle") /\ "idle" \notin SubmitPlaces
        BY <2>1, <2>3 DEF SubmitMoves, SubmitPlaces
      <3> QED
        BY <1>a, <2>1, <2>2, <3>1
    <2>4. CASE arg[c] \notin ids
      <3>1. Moved(c, "limits") /\ "limits" \in Checked /\ "limits" \in Places
        BY <1>p, <2>1, <2>4 DEF SubmitMoves, Checked
      <3>2. Calling(i)' = Calling(i) \ {c} /\ c \notin Calling(i) /\ c \notin Past(i)
        BY <1>0, <2>2, <3>1, CountsMove, Elsewhere DEF Checked
      <3>3. CASE arg[c] # i
        <4>1. Past(i)' = Past(i) \ {c}
          BY <1>0, <2>2, <3>1, <3>3, CountsMove
        <4>2. Calling(i)' = Calling(i)
          BY <3>2
        <4> QED
          BY <1>0, <2>1, <4>1, <4>2, CountKept
      <3>4. CASE arg[c] = i
        <4>1. Past(i)' = Past(i) \union {c}
          BY <1>0, <2>2, <3>1, <3>4, CountsMove
        <4>2. sent[i] = raised[i] + Cardinality(Calling(i))
          BY <1>0, <2>4, <3>4 DEF CountedFor
        <4>3. Past(i)' \subseteq Callers \ Calling(i) /\ Calling(i) \subseteq Callers
          BY <3>2, <4>1 DEF Past, Calling, Checked
        <4>4. Cardinality(Past(i)') + Cardinality(Calling(i)) <= Cardinality(Callers)
          <5>1. Cardinality(Callers \ Calling(i)) = Cardinality(Callers) - Cardinality(Calling(i))
            <6>1. Callers \intersect Calling(i) = Calling(i)
              BY <4>3
            <6> QED
              BY <6>1, FS_Difference, LiveAssumption
          <5>2. Cardinality(Past(i)') <= Cardinality(Callers \ Calling(i))
            BY <4>3, FewerThreads
          <5>3. /\ Cardinality(Past(i)') \in Nat /\ Cardinality(Calling(i)) \in Nat
                /\ Cardinality(Callers) \in Nat
            BY <4>3, ThreadsCount DEF Past
          <5> QED
            BY <5>1, <5>2, <5>3
        <4>5. /\ Cardinality(Past(i)') \in Nat /\ Cardinality(Calling(i)) \in Nat
              /\ Cardinality(Callers) \in Nat
          BY <4>3, ThreadsCount DEF Past
        <4>6. sent[i] + Cardinality(Past(i)') <= raised[i] + Cardinality(Callers)
          BY <1>t, <4>2, <4>4, <4>5
        <4>7. Calling(i)' = Calling(i)
          BY <3>2
        <4> QED
          BY <2>1, <4>2, <4>6, <4>7 DEF CountedFor
      <3> QED
        BY <3>3, <3>4
    <2> QED
      BY <2>3, <2>4
  <1>4. ASSUME NEW losses \in BOOLEAN, CheckLimits(c, losses)
        PROVE  CountedFor(i)'
    <2> DEFINE p == IF WithinLimits(losses) THEN "capital" ELSE "idle"
    <2>1. SubmitMoves(c, "limits", p) /\ UNCHANGED <<ids, sent, raised>>
      BY <1>0, <1>4, CheckMoves DEF CheckLimits, SubmitPlaces
    <2>2. p \in {"idle", "capital", "ready"}
      OBVIOUS
    <2> HIDE DEF p
    <2>3. at[c] \in Checked /\ Moved(c, p)
      BY <2>1 DEF SubmitMoves, Checked
    <2> QED
      BY <1>b, <2>1, <2>2, <2>3
  <1>5. ASSUME NEW allowed \in BOOLEAN, CheckCapital(c, allowed)
        PROVE  CountedFor(i)'
    <2> DEFINE p == IF mode = "LIVE" => allowed THEN "ready" ELSE "idle"
    <2>1. SubmitMoves(c, "capital", p) /\ UNCHANGED <<ids, sent, raised>>
      BY <1>0, <1>5, CheckMoves DEF CheckCapital, SubmitPlaces
    <2>2. p \in {"idle", "capital", "ready"}
      OBVIOUS
    <2> HIDE DEF p
    <2>3. at[c] \in Checked /\ Moved(c, p)
      BY <2>1 DEF SubmitMoves, Checked
    <2> QED
      BY <1>b, <2>1, <2>2, <2>3
  <1>6. CASE Execute(c)
    <2>1. /\ at[c] = "ready" /\ Moved(c, "sending") /\ sent' = [sent EXCEPT ![arg[c]] = @ + 1]
          /\ UNCHANGED <<ids, raised>>
      BY <1>0, <1>6, ExecuteMoves DEF SubmitMoves
    <2>2. "ready" \in Checked /\ at[c] \in SubmitPlaces /\ "sending" \in Places
      BY <1>p, <2>1 DEF Checked
    <2>3. CASE arg[c] # i
      <3>1. sent'[i] = sent[i]
        BY <1>0, <2>1, <2>3 DEF TypeOK
      <3>2. Past(i)' = Past(i) \ {c} /\ Calling(i)' = Calling(i) \ {c} /\ c \notin Calling(i)
        <4>1. c \notin Calling(i)
          BY <2>3 DEF Calling
        <4>2. Past(i)' = Past(i) \ {c} /\ Calling(i)' = Calling(i) \ {c}
          BY <1>0, <2>1, <2>2, <2>3, CountsMove
        <4> QED
          BY <4>1, <4>2
      <3> QED
        BY <1>0, <2>1, <3>1, <3>2, CountKept
    <2>4. CASE arg[c] = i
      <3>1. sent'[i] = sent[i] + 1
        BY <1>0, <2>1, <2>4 DEF TypeOK
      <3>2. Past(i)' = Past(i) \ {c} /\ Calling(i)' = Calling(i) \union {c}
        BY <1>0, <1>p, <2>1, <2>2, <2>4, CountsMove
      <3>3. c \in Past(i) /\ c \notin Calling(i) /\ Past(i) \subseteq Callers
            /\ Calling(i) \subseteq Callers
        BY <2>1, <2>2, <2>4 DEF Past, Calling
      <3>4. Cardinality(Past(i)') = Cardinality(Past(i)) - 1
            /\ Cardinality(Calling(i)') = Cardinality(Calling(i)) + 1
        BY <3>2, <3>3, OneLeaves, OneJoins
      <3>5. Cardinality(Past(i)) \in Nat /\ Cardinality(Calling(i)) \in Nat
            /\ Cardinality(Callers) \in Nat
        BY <3>3, ThreadsCount
      <3>6. sent'[i] + Cardinality(Past(i)') <= raised'[i] + Cardinality(Callers)
        BY <1>0, <1>t, <2>1, <3>1, <3>4, <3>5 DEF CountedFor
      <3>7. i \notin ids' => sent'[i] = raised'[i] + Cardinality(Calling(i)')
        BY <1>0, <1>t, <2>1, <3>1, <3>4, <3>5 DEF CountedFor
      <3> QED
        BY <3>6, <3>7 DEF CountedFor
    <2> QED
      BY <2>3, <2>4
  <1>7. CASE BrokerRaises(c)
    <2>1. /\ at[c] = "sending" /\ Moved(c, "idle")
          /\ raised' = [raised EXCEPT ![arg[c]] = @ + 1] /\ UNCHANGED <<ids, sent>>
      BY <1>0, <1>7, RaiseMoves DEF SubmitMoves
    <2>2. /\ "idle" \in Places /\ "idle" \notin Checked /\ "idle" \notin SubmitPlaces
          /\ at[c] \notin Checked
      BY <1>p, <2>1 DEF SubmitPlaces
    <2>3. Past(i)' = Past(i) \ {c} /\ c \notin Past(i) /\ Calling(i)' = Calling(i) \ {c}
      BY <1>0, <2>1, <2>2, CountsMove DEF Past
    <2>4. CASE arg[c] # i
      <3>1. raised'[i] = raised[i] /\ c \notin Calling(i)
        BY <1>0, <2>1, <2>4 DEF TypeOK, Calling
      <3> QED
        BY <1>0, <2>1, <2>3, <3>1, CountKept
    <2>5. CASE arg[c] = i
      <3>1. raised'[i] = raised[i] + 1 /\ c \in Calling(i) /\ Calling(i) \subseteq Callers
            /\ Past(i) \subseteq Callers
        BY <1>0, <2>1, <2>5 DEF TypeOK, Calling, Past
      <3>2. Cardinality(Calling(i)') = Cardinality(Calling(i)) - 1 /\ Past(i)' = Past(i)
        BY <2>3, <3>1, OneLeaves
      <3>3. Cardinality(Past(i)) \in Nat /\ Cardinality(Calling(i)) \in Nat
            /\ Cardinality(Callers) \in Nat
        BY <3>1, ThreadsCount
      <3>4. sent'[i] + Cardinality(Past(i)') <= raised'[i] + Cardinality(Callers)
        BY <1>0, <1>t, <2>1, <3>1, <3>2, <3>3 DEF CountedFor
      <3>5. i \notin ids' => sent'[i] = raised'[i] + Cardinality(Calling(i)')
        BY <1>0, <1>t, <2>1, <3>1, <3>2, <3>3 DEF CountedFor
      <3> QED
        BY <3>4, <3>5 DEF CountedFor
    <2> QED
      BY <2>4, <2>5
  <1>8. ASSUME NEW ok \in BOOLEAN, BrokerAnswers(c, ok)
        PROVE  CountedFor(i)'
    <2> DEFINE p == IF ok THEN "accepted" ELSE "rejected"
    <2>1. /\ SubmitMoves(c, "sending", p) /\ ids' = ids \union {arg[c]}
          /\ UNCHANGED <<sent, raised>>
      BY <1>0, <1>8, AnswerMoves
    <2>2. p \in Places /\ p \notin Checked /\ p # "sending" /\ p \notin SubmitPlaces
      BY <1>p DEF SubmitPlaces
    <2> HIDE DEF p
    <2>3. at[c] = "sending" /\ Moved(c, p)
      BY <2>1 DEF SubmitMoves
    <2>4. Past(i)' = Past(i) \ {c} /\ Calling(i)' = Calling(i) \ {c}
      BY <1>0, <2>2, <2>3, CountsMove
    <2>5. i \notin ids' => Calling(i)' = Calling(i)
      BY <2>1, <2>4 DEF Calling
    <2> QED
      BY <1>0, <2>1, <2>4, <2>5, CountKept
  <1>9. CASE HoldPosition(c)
    <2>1. at[c] = "accepted" /\ Moved(c, "held") /\ UNCHANGED <<ids, sent, raised>>
      BY <1>0, <1>9, HoldMoves DEF SubmitMoves
    <2>2. "held" \notin SubmitPlaces
      BY DEF SubmitPlaces
    <2> QED
      BY <1>a, <2>1, <2>2
  <1>10. CASE Settle(c)
    <2>1. at[c] \in {"held", "rejected"} /\ Moved(c, "idle") /\ UNCHANGED <<ids, sent, raised>>
      BY <1>0, <1>10, SettleMoves DEF SubmitMoves
    <2>2. "idle" \notin SubmitPlaces
      BY DEF SubmitPlaces
    <2> QED
      BY <1>a, <2>1, <2>2
  <1> QED
    BY <1>1, <1>2, <1>3, <1>4, <1>5, <1>6, <1>7, <1>8, <1>9, <1>10 DEF Submits

LEMMA CountedStep ==
  ASSUME Typed, Typed', Counted, [Next]_vars
  PROVE  Counted'
  <1>1. CASE UseGate \/ KillSwitch \/ RecordFillOutcome \/ UNCHANGED vars
    <2>1. UNCHANGED <<ids, at, arg, sent, raised>>
      <3>1. CASE UseGate
        BY <3>1 DEF UseGate, book, broker
      <3>2. CASE KillSwitch
        BY <3>2 DEF KillSwitch, book, broker
      <3>3. CASE RecordFillOutcome
        BY <3>3 DEF RecordFillOutcome, broker
      <3>4. CASE UNCHANGED vars
        BY <3>4 DEF vars
      <3> QED
        BY <1>1, <3>1, <3>2, <3>3, <3>4
    <2> QED
      BY <2>1 DEF Counted, CountedFor, Past, Calling
  <1> QED
    BY <1>1, CountedControl, CountedSubmit DEF Next

(***************************************************************************)
(* For any ids and threads, an id is sent once for every thread that       *)
(* submits it at the same time, and again only for every time it raised.   *)
(***************************************************************************)
THEOREM IdsAreUsedUp == Spec => []SentAgainOnlyAfterRaise
  <1>1. Init => Counted
    <2> SUFFICES ASSUME Init, NEW i \in Ids
                 PROVE  CountedFor(i)
      BY DEF Counted
    <2>1. Past(i) = {} /\ Calling(i) = {} /\ sent[i] = 0 /\ raised[i] = 0
      BY DEF Init, Past, Calling, Checked
    <2>2. /\ Cardinality(Past(i)) = 0 /\ Cardinality(Calling(i)) = 0
          /\ Cardinality(Callers) \in Nat
      BY <2>1, FS_EmptySet, ThreadsCount
    <2> QED
      BY <2>1, <2>2 DEF CountedFor
  <1>2. Typed /\ Typed' /\ Counted /\ [Next]_vars => Counted'
    BY CountedStep
  <1>3. Typed /\ Counted => SentAgainOnlyAfterRaise
    <2> SUFFICES ASSUME Typed, Counted, NEW i \in Ids
                 PROVE  sent[i] <= raised[i] + Cardinality(Callers)
      BY DEF SentAgainOnlyAfterRaise
    <2>1. sent[i] \in Nat /\ raised[i] \in Nat
      BY DEF Typed, TypeOK
    <2>2. Cardinality(Past(i)) \in Nat /\ Cardinality(Callers) \in Nat
      BY ThreadsCount DEF Past
    <2>3. sent[i] + Cardinality(Past(i)) <= raised[i] + Cardinality(Callers)
      BY DEF Counted, CountedFor
    <2> QED
      BY <2>1, <2>2, <2>3
  <1> QED
    BY <1>1, <1>2, <1>3, TypedInvariance, PTL DEF Spec

-------------------------------------------------------------------------------
(***************************************************************************)
(* What a thread relies on while nobody has changed the state or the       *)
(* preflight under it, and what they mean until somebody has meddled.      *)
(***************************************************************************)
Trading  == SubmitPlaces \union {"accepted", "held", "rejected"}
Arming   == {"armCapital", "authorizing", "arming"}
Pending  == {"failed", "blocking", "clearing"}

Claim(c) ==
  /\ at[c] \in Trading => state \in CanTrade
  /\ at[c] \in Arming \union {"preflight", "blocking", "disarming"} => state # "HALTED"
  /\ at[c] \in Arming => preflight
  /\ at[c] = "clearing" => state = "DISABLED"

Stands == (\E c \in Callers : at[c] \in Pending) \/ (state \in CanTrade => preflight /\ redo = {})

Owed ==
  /\ "reset" \in redo => state = "HALTED"
  /\ preflight /\ state # "HALTED" /\ (\A c \in Callers : at[c] # "clearing")
       => redo \subseteq {"arm"}

Earned == (\A c \in Callers : c \notin overtaken => Claim(c)) /\ Stands /\ Owed

\* A step of c disturbs the claims of the others only by overtaking them.
LEMMA ClaimsMove ==
  ASSUME TypeOK, NEW c \in Callers, NEW p, at' = [at EXCEPT ![c] = p],
         Overtakes(Callers \ {c}), ~meddled',
         \A d \in Callers : d \notin overtaken => Claim(d),
         p # "idle" /\ c \notin overtaken => Claim(c)'
  PROVE  \A d \in Callers : d \notin overtaken' => Claim(d)'
  <1> SUFFICES ASSUME NEW d \in Callers, d \notin overtaken'
               PROVE  Claim(d)'
    OBVIOUS
  <1>1. at'[d] = IF d = c THEN p ELSE at[d]
    BY DEF TypeOK
  <1>2. at'[d] # "idle" => /\ d \notin overtaken
                           /\ d # c => state' = state /\ preflight' = preflight
    BY DEF Overtakes
  <1>3. CASE at'[d] = "idle"
    BY <1>3 DEF Claim, Trading, Arming, SubmitPlaces
  <1>4. CASE at'[d] # "idle" /\ d = c
    BY <1>1, <1>2, <1>4
  <1>5. CASE at'[d] # "idle" /\ d # c
    <2>1. Claim(d) /\ at'[d] = at[d] /\ state' = state /\ preflight' = preflight
      BY <1>1, <1>2, <1>5
    <2> QED
      BY <2>1 DEF Claim
  <1> QED
    BY <1>3, <1>4, <1>5

\* The threads that are waited for, when c moves.
LEMMA PendingMove ==
  ASSUME TypeOK, NEW c \in Callers, NEW p, at' = [at EXCEPT ![c] = p]
  PROVE  /\ p \in Pending => \E d \in Callers : at'[d] \in Pending
         /\ at[c] \notin Pending /\ (\E d \in Callers : at[d] \in Pending)
              => \E d \in Callers : at'[d] \in Pending
         /\ at[c] # "clearing" /\ (\A d \in Callers : at'[d] # "clearing")
              => \A d \in Callers : at[d] # "clearing"
         /\ p = "clearing" => ~\A d \in Callers : at'[d] # "clearing"
  <1>1. \A d \in Callers : at'[d] = IF d = c THEN p ELSE at[d]
    BY DEF TypeOK
  <1> QED
    BY <1>1

\* A step that writes nothing of it and begins or goes on with an operation.
LEMMA Undisturbed ==
  ASSUME TypeOK, Stands, Owed, NEW c \in Callers, NEW p, at' = [at EXCEPT ![c] = p],
         UNCHANGED <<state, preflight, redo>>, at[c] \notin Pending
  PROVE  Stands' /\ Owed'
  <1>1. at[c] # "clearing"
    BY DEF Pending
  <1>2. Stands'
    BY PendingMove DEF Stands
  <1>3. Owed'
    BY <1>1, PendingMove DEF Owed
  <1> QED
    BY <1>2, <1>3

LEMMA EarnedTest ==
  ASSUME TypeOK, Earned, ~meddled', NEW c \in Callers, NEW p, at' = [at EXCEPT ![c] = p],
         Overtakes(Callers \ {c}), UNCHANGED <<state, preflight, redo>>, at[c] \notin Pending,
         p # "idle" /\ Claim(c) => Claim(c)'
  PROVE  Earned'
  <1>1. \A d \in Callers : d \notin overtaken' => Claim(d)'
    BY ClaimsMove DEF Earned
  <1>2. Stands' /\ Owed'
    BY Undisturbed DEF Earned
  <1> QED
    BY <1>1, <1>2 DEF Earned

-------------------------------------------------------------------------------
\* Preflight, arming, disarming and resetting, one write after the other.
LEMMA EarnedPreflight ==
  ASSUME TypeOK, Earned, ~meddled', NEW c \in Callers, NEW pass \in BOOLEAN,
         EvaluatePreflight(c, pass)
  PROVE  Earned'
  <1> DEFINE p == IF pass THEN "idle" ELSE "failed"
             r == IF pass /\ "reset" \notin redo THEN redo \ {"preflight"} ELSE redo
  <1>1. p \in Controlling /\ r \in SUBSET {"reset", "preflight", "arm"}
        /\ state \in ControllerState /\ "idle" \in Controlling
    BY DEF TypeOK, Controlling, OtherPlaces
  <1>2. Writes(c, "idle", state, p, r) /\ preflight' = pass
    BY DEF EvaluatePreflight
  <1>3. Moved(c, p) /\ at[c] = "idle" /\ state' = state /\ redo' = r
    <2> HIDE DEF p, r
    <2> QED
      BY <1>1, <1>2, WriteMoves
  <1>4. at' = [at EXCEPT ![c] = p] /\ Overtakes(Callers \ {c}) /\ at'[c] = p
    BY <1>3 DEF Moved, TypeOK
  <1>5. Claim(c)'
    BY <1>4 DEF Claim, Trading, Arming, SubmitPlaces
  <1>6. \A d \in Callers : d \notin overtaken' => Claim(d)'
    BY <1>4, <1>5, ClaimsMove DEF Earned
  <1>7. at[c] \notin Pending
    BY <1>3 DEF Pending
  <1>8. Stands'
    <2>1. CASE ~pass
      <3>1. p \in Pending
        BY <2>1 DEF Pending
      <3> QED
        BY <1>4, <3>1, PendingMove DEF Stands
    <2>2. CASE pass
      <3>1. redo = {} => redo' = {}
        BY <1>3
      <3> QED
        BY <1>2, <1>3, <1>4, <1>7, <2>2, <3>1, PendingMove DEF Stands, Earned
    <2> QED
      BY <2>1, <2>2
  <1>9. Owed'
    <2>1. redo' \subseteq redo /\ state' = state
      BY <1>3
    <2>2. "reset" \notin redo /\ pass => redo' \subseteq {"arm"}
      BY <1>1, <1>3 DEF TypeOK
    <2> QED
      BY <1>2, <2>1, <2>2 DEF Owed, Earned
  <1> QED
    BY <1>6, <1>8, <1>9 DEF Earned

\* A test leads c from its place to p, and p claims nothing that is not so.
TestsTo(c, p) ==
  /\ at' = [at EXCEPT ![c] = p] /\ Overtakes(Callers \ {c})
  /\ UNCHANGED <<state, preflight, redo>> /\ at[c] \notin Pending
  /\ p # "idle" /\ Claim(c) => Claim(c)'

\* The tests of these operations.
LEMMA EarnedControlTest ==
  ASSUME TypeOK, Earned, ~meddled', NEW c \in Callers,
         \/ Arm(c) \/ Disarm(c) \/ ResetAfterHalt(c)
         \/ \E policy \in BOOLEAN : ArmPreflight(c, policy)
         \/ \E allowed \in BOOLEAN, acknowledged \in BOOLEAN :
              ArmCapital(c, allowed, acknowledged)
         \/ \E how \in How : AskGate(c, how)
         \/ DisarmGate(c)
  PROVE  Earned'
  <1> USE DEF Trading, Arming, SubmitPlaces, Pending
  <1>0. \A p : at' = [at EXCEPT ![c] = p] => at'[c] = p
    BY DEF TypeOK
  <1>1. ASSUME Arm(c)
        PROVE  TestsTo(c, "preflight")
    <2>1. /\ at' = [at EXCEPT ![c] = "preflight"] /\ Overtakes(Callers \ {c})
          /\ UNCHANGED <<state, preflight, redo>> /\ at[c] = "idle" /\ state # "HALTED"
      BY <1>1 DEF Arm, Moves, control, history
    <2> QED
      BY <1>0, <2>1 DEF TestsTo, Claim
  <1>2. ASSUME NEW place, NEW p, Tests(c, place, p)
        PROVE  /\ at' = [at EXCEPT ![c] = p] /\ at'[c] = p /\ Overtakes(Callers \ {c})
               /\ UNCHANGED <<state, preflight, redo>> /\ at[c] = place
    BY <1>0, <1>2 DEF Tests, GoesOn, Moves, control, history
  <1>3. ASSUME Disarm(c)
        PROVE  TestsTo(c, IF state = "HALTED" THEN "idle" ELSE "disarming")
    BY <1>2, <1>3 DEF Disarm, TestsTo, Claim
  <1>4. ASSUME ResetAfterHalt(c)
        PROVE  TestsTo(c, IF state = "HALTED" THEN "resetting" ELSE "idle")
    BY <1>2, <1>4 DEF ResetAfterHalt, TestsTo, Claim
  <1>5. ASSUME NEW policy \in BOOLEAN, ArmPreflight(c, policy)
        PROVE  \E p : TestsTo(c, p)
    <2> DEFINE p == CASE ~preflight -> "blocking"
                      [] preflight /\ policy /\ mode # "LIVE" -> "idle"
                      [] preflight /\ (policy => mode = "LIVE") -> "armCapital"
    <2>1. p \in {"blocking", "idle", "armCapital"} /\ (p = "armCapital" => preflight)
      BY DEF TypeOK
    <2>2. Tests(c, "preflight", p)
      BY <1>5 DEF ArmPreflight
    <2> HIDE DEF p
    <2>3. TestsTo(c, p)
      BY <1>2, <2>1, <2>2 DEF TestsTo, Claim
    <2> QED
      BY <2>3
  <1>6. ASSUME NEW allowed \in BOOLEAN, NEW acknowledged \in BOOLEAN,
               ArmCapital(c, allowed, acknowledged)
        PROVE  \E p : TestsTo(c, p)
    <2> DEFINE p == CASE mode = "LIVE" /\ ~allowed -> "blocking"
                      [] (mode = "LIVE" => allowed) /\ ~acknowledged -> "idle"
                      [] mode = "LIVE" /\ allowed /\ acknowledged -> "authorizing"
                      [] mode # "LIVE" /\ acknowledged -> "arming"
    <2>1. p \in {"blocking", "idle", "authorizing", "arming"}
      OBVIOUS
    <2>2. Tests(c, "armCapital", p)
      BY <1>6 DEF ArmCapital
    <2> HIDE DEF p
    <2>3. TestsTo(c, p)
      BY <1>2, <2>1, <2>2 DEF TestsTo, Claim
    <2> QED
      BY <2>3
  <1>7. ASSUME NEW how \in How, AskGate(c, how)
        PROVE  \E p : TestsTo(c, p)
    <2> DEFINE p == IF gate'.armed THEN "arming" ELSE "blocking"
    <2>1. p \in {"arming", "blocking"}
      OBVIOUS
    <2>2. /\ at[c] = "authorizing" /\ GoesOn(c, p) /\ UNCHANGED <<state, preflight, redo>>
      BY <1>7 DEF AskGate, history
    <2> HIDE DEF p
    <2>3. at' = [at EXCEPT ![c] = p] /\ Overtakes(Callers \ {c})
      BY <2>2 DEF GoesOn, Moves
    <2>4. TestsTo(c, p)
      BY <1>0, <2>1, <2>2, <2>3 DEF TestsTo, Claim
    <2> QED
      BY <2>4
  <1>8. ASSUME DisarmGate(c)
        PROVE  TestsTo(c, "idle")
    BY <1>8 DEF DisarmGate, GoesOn, Moves, history, TestsTo
  <1>9. \E p : TestsTo(c, p)
    BY <1>1, <1>3, <1>4, <1>5, <1>6, <1>7, <1>8
  <1>10. PICK p : TestsTo(c, p)
    BY <1>9
  <1> QED
    BY <1>10, EarnedTest DEF TestsTo

LEMMA EarnedFailed ==
  ASSUME TypeOK, Earned, ~meddled', NEW c \in Callers, PreflightFailed(c)
  PROVE  Earned'
  <1> DEFINE p == IF state \in {"HALTED", "BLOCKED"} THEN "idle" ELSE "blocking"
  <1>1. Tests(c, "failed", p)
    BY DEF PreflightFailed
  <1>2. /\ at[c] = "failed" /\ at' = [at EXCEPT ![c] = p] /\ Overtakes(Callers \ {c})
        /\ UNCHANGED <<state, preflight, redo>>
    BY <1>1 DEF Tests, GoesOn, Moves, control, history
  <1>3. at'[c] = p
    BY <1>2 DEF TypeOK
  <1>4. p # "idle" => Claim(c)'
    BY <1>2, <1>3 DEF Claim, Trading, Arming, SubmitPlaces
  <1>5. \A d \in Callers : d \notin overtaken' => Claim(d)'
    BY <1>2, <1>4, ClaimsMove DEF Earned
  <1>6. Stands'
    <2>1. CASE state \in {"HALTED", "BLOCKED"}
      BY <1>2, <2>1 DEF Stands, CanTrade
    <2>2. CASE state \notin {"HALTED", "BLOCKED"}
      <3>1. p \in Pending
        BY <2>2 DEF Pending
      <3> QED
        BY <1>2, <3>1, PendingMove DEF Stands
    <2> QED
      BY <2>1, <2>2
  <1>7. Owed'
    <2>1. at[c] # "clearing"
      BY <1>2
    <2> QED
      BY <1>2, <2>1, PendingMove DEF Owed, Earned
  <1> QED
    BY <1>5, <1>6, <1>7 DEF Earned

\* A thread that writes unmeddled stands by its claim, and claims nothing afterwards
\* but what it has written.
LEMMA EarnedWrite ==
  ASSUME TypeOK, Earned, NEW c \in Callers,
         WriteBlocked(c) \/ WriteArmed(c) \/ WriteDisabled(c) \/ WriteReset(c)
           \/ ClearPreflight(c),
         ~meddled'
  PROVE  Earned'
  <1> USE DEF Controlling, OtherPlaces
  <1>t. /\ redo \in SUBSET {"reset", "preflight", "arm"} /\ state \in ControllerState
        /\ {"ARMED", "DISABLED", "BLOCKED"} \subseteq ControllerState
    BY DEF TypeOK, ControllerState
  <1>w. ASSUME NEW place \in Controlling, NEW p \in Controlling, NEW s \in ControllerState,
               NEW r \in SUBSET {"reset", "preflight", "arm"}, Writes(c, place, s, p, r)
        PROVE  /\ at[c] = place /\ at' = [at EXCEPT ![c] = p] /\ at'[c] = p
               /\ Overtakes(Callers \ {c}) /\ state' = s /\ redo' = r /\ Claim(c)
    <2>1. Moved(c, p) /\ at[c] = place /\ state' = s /\ c \notin overtaken /\ redo' = r
      BY <1>w, WriteMoves
    <2> QED
      BY <2>1 DEF Moved, Earned, TypeOK
  <1>1. CASE WriteBlocked(c)
    <2>1. /\ at[c] = "blocking" /\ at' = [at EXCEPT ![c] = "idle"] /\ Overtakes(Callers \ {c})
          /\ state' = "BLOCKED" /\ redo' = redo /\ preflight' = preflight /\ Claim(c)
      BY <1>t, <1>w, <1>1 DEF WriteBlocked
    <2>2. \A d \in Callers : d \notin overtaken' => Claim(d)'
      BY <2>1, ClaimsMove DEF Earned
    <2>3. Stands'
      BY <2>1 DEF Stands, CanTrade
    <2>4. Owed'
      BY <2>1, PendingMove DEF Owed, Earned, Claim
    <2> QED
      BY <2>2, <2>3, <2>4 DEF Earned
  <1>2. CASE WriteArmed(c)
    <2> DEFINE r == IF redo = {"arm"} THEN {} ELSE redo
    <2>0. r \in SUBSET {"reset", "preflight", "arm"} /\ Writes(c, "arming", "ARMED", "idle", r)
          /\ preflight' = preflight
      BY <1>t, <1>2 DEF WriteArmed
    <2>1. /\ at[c] = "arming" /\ at' = [at EXCEPT ![c] = "idle"] /\ Overtakes(Callers \ {c})
          /\ state' = "ARMED" /\ redo' = r /\ Claim(c)
      <3> HIDE DEF r
      <3> QED
        BY <1>t, <1>w, <2>0
    <2>2. \A d \in Callers : d \notin overtaken' => Claim(d)'
      BY <2>1, ClaimsMove DEF Earned
    <2>3. preflight /\ state # "HALTED" /\ "reset" \notin redo
      BY <2>1 DEF Claim, Arming, Earned, Owed
    <2>4. (\A d \in Callers : at[d] # "clearing") => redo' = {}
      <3>1. (\A d \in Callers : at[d] # "clearing") => redo \subseteq {"arm"}
        BY <2>3 DEF Earned, Owed
      <3> QED
        BY <2>1, <3>1
    <2>5. at[c] # "clearing" /\ at[c] \notin Pending /\ "clearing" \in Pending
      BY <2>1 DEF Pending
    <2>6. Stands'
      BY <2>0, <2>1, <2>3, <2>4, <2>5, PendingMove DEF Stands
    <2>7. "reset" \notin redo'
      BY <2>1, <2>3
    <2>8. Owed'
      BY <2>1, <2>4, <2>5, <2>7, PendingMove DEF Owed
    <2> QED
      BY <2>2, <2>6, <2>8 DEF Earned
  <1>3. CASE WriteDisabled(c)
    <2>1. /\ at[c] = "disarming" /\ at' = [at EXCEPT ![c] = "gateDisarm"]
          /\ at'[c] = "gateDisarm" /\ Overtakes(Callers \ {c})
          /\ state' = "DISABLED" /\ redo' = redo /\ preflight' = preflight /\ Claim(c)
      BY <1>t, <1>w, <1>3 DEF WriteDisabled
    <2>2. Claim(c)'
      BY <2>1 DEF Claim, Trading, Arming, SubmitPlaces
    <2>3. \A d \in Callers : d \notin overtaken' => Claim(d)'
      BY <2>1, <2>2, ClaimsMove DEF Earned
    <2>4. Stands'
      BY <2>1 DEF Stands, CanTrade
    <2>5. Owed'
      BY <2>1, PendingMove DEF Owed, Earned, Claim
    <2> QED
      BY <2>3, <2>4, <2>5 DEF Earned
  <1>4. CASE WriteReset(c)
    <2>0. redo \ {"reset"} \in SUBSET {"reset", "preflight", "arm"}
      BY <1>t
    <2>1. /\ at[c] = "resetting" /\ at' = [at EXCEPT ![c] = "clearing"]
          /\ at'[c] = "clearing" /\ Overtakes(Callers \ {c})
          /\ state' = "DISABLED" /\ redo' = redo \ {"reset"} /\ preflight' = preflight
      BY <1>t, <1>w, <1>4, <2>0 DEF WriteReset
    <2>2. Claim(c)'
      BY <2>1 DEF Claim, Trading, Arming, SubmitPlaces
    <2>3. \A d \in Callers : d \notin overtaken' => Claim(d)'
      BY <2>1, <2>2, ClaimsMove DEF Earned
    <2>4. Stands'
      BY <2>1 DEF Stands, CanTrade
    <2>5. Owed'
      BY <2>1 DEF Owed
    <2> QED
      BY <2>3, <2>4, <2>5 DEF Earned
  <1>5. CASE ClearPreflight(c)
    <2>1. /\ at[c] = "clearing" /\ at' = [at EXCEPT ![c] = "idle"] /\ Overtakes(Callers \ {c})
          /\ state' = state /\ redo' = redo /\ preflight' = FALSE /\ Claim(c)
      BY <1>t, <1>w, <1>5 DEF ClearPreflight
    <2>2. \A d \in Callers : d \notin overtaken' => Claim(d)'
      BY <2>1, ClaimsMove DEF Earned
    <2>3. state = "DISABLED"
      BY <2>1 DEF Claim
    <2>4. Stands'
      BY <2>1, <2>3 DEF Stands, CanTrade
    <2>5. Owed'
      BY <2>1 DEF Owed, Earned
    <2> QED
      BY <2>2, <2>4, <2>5 DEF Earned
  <1> QED
    BY <1>1, <1>2, <1>3, <1>4, <1>5

\* The kill switch overtakes every operation that is under way.
LEMMA EarnedKill ==
  ASSUME TypeOK, Earned, ~meddled', KillSwitch
  PROVE  Earned'
  <1>1. /\ at' = at /\ state' = "HALTED" /\ preflight' = preflight /\ Overtakes(Callers)
        /\ Remember(FALSE, {"reset", "preflight", "arm"})
    BY DEF KillSwitch
  <1>2. redo' = {"reset", "preflight", "arm"}
    BY <1>1 DEF Remember
  <1>3. ASSUME NEW d \in Callers, d \notin overtaken'
        PROVE  Claim(d)'
    <2>1. at[d] = "idle" \/ (d \notin overtaken /\ state' = state)
      BY <1>1, <1>3 DEF Overtakes
    <2>2. CASE at[d] = "idle"
      BY <1>1, <2>2 DEF Claim, Trading, Arming, SubmitPlaces
    <2>3. CASE d \notin overtaken /\ state' = state
      <3>1. Claim(d) /\ at'[d] = at[d]
        BY <1>1, <2>3 DEF Earned
      <3> QED
        BY <1>1, <2>3, <3>1 DEF Claim
    <2> QED
      BY <2>1, <2>2, <2>3
  <1>4. Stands' /\ Owed'
    BY <1>1 DEF Stands, Owed, CanTrade
  <1> QED
    BY <1>3, <1>4 DEF Earned

-------------------------------------------------------------------------------
\* A submission reads and goes on: it claims the same throughout.
LEMMA EarnedSubmitTest ==
  ASSUME TypeOK, Earned, ~meddled', NEW c \in Callers, NEW place, NEW p,
         at[c] = place, at' = [at EXCEPT ![c] = p], Overtakes(Callers \ {c}),
         UNCHANGED <<state, preflight, redo>>,
         place \in Trading, p \in Trading \union {"idle"}
  PROVE  Earned'
  <1>1. at'[c] = p /\ at[c] \notin Pending
    BY DEF TypeOK, Trading, SubmitPlaces, Pending
  <1>2. p # "idle" /\ Claim(c) => Claim(c)'
    BY <1>1 DEF Claim, Trading, Arming, SubmitPlaces
  <1> QED
    BY <1>1, <1>2, EarnedTest

\* It writes its states only out of states it could trade in.
LEMMA EarnedSubmitWrite ==
  ASSUME TypeOK, Earned, ~meddled', NEW c \in Callers, NEW p,
         at[c] \in Trading, c \notin overtaken,
         at' = [at EXCEPT ![c] = p], Overtakes(Callers \ {c}),
         UNCHANGED <<preflight, redo>>, state' \in CanTrade \union {"DEGRADED"},
         p = "idle" \/ (p \in Trading /\ state' \in CanTrade)
  PROVE  Earned'
  <1>1. at'[c] = p /\ at[c] \notin Pending /\ "clearing" \in Pending
    BY DEF TypeOK, Trading, SubmitPlaces, Pending
  <1>2. p # "idle" => Claim(c)'
    BY <1>1 DEF Claim, Trading, Arming, SubmitPlaces
  <1>3. \A d \in Callers : d \notin overtaken' => Claim(d)'
    BY <1>2, ClaimsMove DEF Earned
  <1>4. state \in CanTrade /\ state # "HALTED" /\ state' # "HALTED"
    BY DEF Earned, Claim, CanTrade
  <1>5. Stands'
    BY <1>1, <1>4, PendingMove DEF Stands, Earned
  <1>6. Owed'
    <2>1. at[c] # "clearing"
      BY <1>1
    <2> QED
      BY <1>4, <2>1, PendingMove DEF Owed, Earned
  <1> QED
    BY <1>3, <1>5, <1>6 DEF Earned

LEMMA EarnedSubmit ==
  ASSUME TypeOK, Earned, NEW c \in Callers, Submits(c), ~meddled'
  PROVE  Earned'
  <1> USE DEF SubmitPlaces, Trading, CanTrade
  <1>1. ASSUME NEW i \in Ids, SubmitLiveOrder(c, i)
        PROVE  Earned'
    <2>1. /\ at[c] = "idle" /\ state \in CanTrade /\ at' = [at EXCEPT ![c] = "gate"]
          /\ Overtakes(Callers \ {c}) /\ UNCHANGED <<state, preflight, redo>>
      BY <1>1 DEF SubmitLiveOrder, Moves, control, history
    <2>2. at'[c] = "gate" /\ at[c] \notin Pending
      BY <2>1 DEF TypeOK, Pending
    <2>3. Claim(c)'
      BY <2>1, <2>2 DEF Claim, Arming
    <2> QED
      BY <2>1, <2>2, <2>3, EarnedTest
  <1>2. ASSUME NEW place \in SubmitPlaces, NEW next \in SubmitPlaces, NEW test,
               Checks(c, place, test, next)
        PROVE  Earned'
    <2> DEFINE p == IF test THEN next ELSE "idle"
    <2>1. SubmitMoves(c, place, p) /\ UNCHANGED <<state, redo>>
      BY <1>2, CheckMoves
    <2>2. p \in Trading \union {"idle"} /\ place \in Trading
      OBVIOUS
    <2> HIDE DEF p
    <2>3. at[c] = place /\ at' = [at EXCEPT ![c] = p] /\ Overtakes(Callers \ {c})
          /\ UNCHANGED <<state, preflight, redo>>
      BY <2>1 DEF SubmitMoves, Moved
    <2> QED
      BY <2>2, <2>3, EarnedSubmitTest
  <1>3. ASSUME CheckGate(c) \/ CheckId(c) \/ (\E losses \in BOOLEAN : CheckLimits(c, losses))
                 \/ (\E allowed \in BOOLEAN : CheckCapital(c, allowed))
        PROVE  Earned'
    BY <1>2, <1>3 DEF CheckGate, CheckId, CheckLimits, CheckCapital
  <1>4. CASE Execute(c)
    <2>1. /\ at[c] = "ready" /\ at' = [at EXCEPT ![c] = "sending"] /\ Overtakes(Callers \ {c})
          /\ UNCHANGED <<preflight, redo>> /\ state' = "EXECUTING" /\ c \notin overtaken
      BY <1>4, ExecuteMoves DEF SubmitMoves, Moved
    <2> QED
      BY <2>1, EarnedSubmitWrite
  <1>5. CASE BrokerRaises(c)
    <2>1. /\ at[c] = "sending" /\ at' = [at EXCEPT ![c] = "idle"] /\ Overtakes(Callers \ {c})
          /\ UNCHANGED <<preflight, redo>> /\ state' = "DEGRADED" /\ c \notin overtaken
      BY <1>5, RaiseMoves DEF SubmitMoves, Moved
    <2> QED
      BY <2>1, EarnedSubmitWrite
  <1>6. ASSUME NEW ok \in BOOLEAN, BrokerAnswers(c, ok)
        PROVE  Earned'
    <2> DEFINE p == IF ok THEN "accepted" ELSE "rejected"
    <2>1. SubmitMoves(c, "sending", p) /\ UNCHANGED <<state, redo>>
      BY <1>6, AnswerMoves
    <2>2. p \in Trading \union {"idle"} /\ "sending" \in Trading
      OBVIOUS
    <2> HIDE DEF p
    <2>3. at[c] = "sending" /\ at' = [at EXCEPT ![c] = p] /\ Overtakes(Callers \ {c})
          /\ UNCHANGED <<state, preflight, redo>>
      BY <2>1 DEF SubmitMoves, Moved
    <2> QED
      BY <2>2, <2>3, EarnedSubmitTest
  <1>7. CASE HoldPosition(c)
    <2>1. /\ at[c] = "accepted" /\ at' = [at EXCEPT ![c] = "held"] /\ Overtakes(Callers \ {c})
          /\ UNCHANGED <<state, preflight, redo>>
      BY <1>7, HoldMoves DEF SubmitMoves, Moved
    <2> QED
      BY <2>1, EarnedSubmitTest
  <1>8. CASE Settle(c)
    <2>1. /\ at[c] \in {"held", "rejected"} /\ at' = [at EXCEPT ![c] = "idle"]
          /\ Overtakes(Callers \ {c}) /\ UNCHANGED <<preflight, redo>>
          /\ state' \in {"MONITORING", "ARMED"} /\ c \notin overtaken
      BY <1>8, SettleMoves DEF SubmitMoves, Moved
    <2> QED
      BY <2>1, EarnedSubmitWrite
  <1> QED
    BY <1>1, <1>3, <1>4, <1>5, <1>6, <1>7, <1>8 DEF Submits

EarnedInv == ~meddled => Earned

\* Nothing undoes that somebody has meddled.
LEMMA MeddledStays ==
  ASSUME TypeOK, [Next]_vars, meddled
  PROVE  meddled'
  <1>1. ASSUME NEW m, NEW r, Remember(m, r)
        PROVE  meddled'
    BY <1>1 DEF Remember
  <1>2. ASSUME NEW c \in Callers, NEW place, NEW p, Tests(c, place, p)
        PROVE  meddled'
    BY <1>2 DEF Tests, history
  <1>3. ASSUME NEW c \in Callers, NEW place, NEW s, NEW p, NEW r, Writes(c, place, s, p, r)
        PROVE  meddled'
    BY <1>1, <1>3 DEF Writes
  <1>4. ASSUME NEW c \in Callers, Controls(c)
        PROVE  meddled'
    <2>1. CASE \E pass \in BOOLEAN : EvaluatePreflight(c, pass)
      BY <1>3, <2>1 DEF EvaluatePreflight
    <2>2. CASE PreflightFailed(c) \/ Disarm(c) \/ ResetAfterHalt(c)
      BY <1>2, <2>2 DEF PreflightFailed, Disarm, ResetAfterHalt
    <2>3. CASE \E policy \in BOOLEAN : ArmPreflight(c, policy)
      BY <1>2, <2>3 DEF ArmPreflight
    <2>4. CASE \E allowed \in BOOLEAN, acknowledged \in BOOLEAN :
                 ArmCapital(c, allowed, acknowledged)
      BY <1>2, <2>4 DEF ArmCapital
    <2>5. CASE WriteBlocked(c) \/ WriteArmed(c) \/ WriteDisabled(c)
      BY <1>3, <2>5 DEF WriteBlocked, WriteArmed, WriteDisabled
    <2>6. CASE WriteReset(c) \/ ClearPreflight(c)
      BY <1>3, <2>6 DEF WriteReset, ClearPreflight
    <2>7. CASE Arm(c) \/ (\E how \in How : AskGate(c, how)) \/ DisarmGate(c)
      BY <2>7 DEF Arm, AskGate, DisarmGate, history
    <2> QED
      BY <1>4, <2>1, <2>2, <2>3, <2>4, <2>5, <2>6, <2>7 DEF Controls
  <1>5. ASSUME NEW c \in Callers, Submits(c)
        PROVE  meddled'
    <2>1. CASE \/ CheckGate(c) \/ CheckId(c) \/ \E losses \in BOOLEAN : CheckLimits(c, losses)
               \/ \E allowed \in BOOLEAN : CheckCapital(c, allowed)
      BY <1>2, <2>1 DEF CheckGate, CheckId, CheckLimits, CheckCapital, Checks
    <2>2. CASE Execute(c) \/ BrokerRaises(c)
      BY <1>1, <2>2 DEF Execute, BrokerRaises
    <2>3. CASE Settle(c)
      BY <1>3, <2>3 DEF Settle
    <2>4. CASE \/ \E i \in Ids : SubmitLiveOrder(c, i)
               \/ \E ok \in BOOLEAN : BrokerAnswers(c, ok)
               \/ HoldPosition(c)
      BY <2>4 DEF SubmitLiveOrder, BrokerAnswers, HoldPosition, history
    <2> QED
      BY <1>5, <2>1, <2>2, <2>3, <2>4 DEF Submits
  <1>6. CASE UseGate
    BY <1>6 DEF UseGate, history
  <1>7. CASE RecordFillOutcome
    BY <1>7 DEF RecordFillOutcome, history
  <1>8. CASE KillSwitch
    BY <1>1, <1>8 DEF KillSwitch
  <1>9. CASE UNCHANGED vars
    BY <1>9 DEF vars
  <1> QED
    BY <1>4, <1>5, <1>6, <1>7, <1>8, <1>9 DEF Next

LEMMA EarnedStep ==
  ASSUME Typed, EarnedInv, [Next]_vars
  PROVE  EarnedInv'
  <1> SUFFICES ASSUME ~meddled'
               PROVE  Earned'
    BY DEF EarnedInv
  <1>0. TypeOK /\ Earned
    BY MeddledStays DEF Typed, EarnedInv
  <1>1. ASSUME NEW c \in Callers, Controls(c)
        PROVE  Earned'
    BY <1>0, <1>1, EarnedPreflight, EarnedControlTest, EarnedFailed, EarnedWrite DEF Controls
  <1>2. CASE UseGate \/ RecordFillOutcome
    <2>1. UNCHANGED <<state, preflight, redo, at, overtaken>>
      <3>1. CASE UseGate
        BY <3>1 DEF UseGate, history
      <3>2. CASE RecordFillOutcome
        BY <3>2 DEF RecordFillOutcome, control, history
      <3> QED
        BY <1>2, <3>1, <3>2
    <2> QED
      BY <1>0, <2>1 DEF Earned, Claim, Stands, Owed
  <1>3. CASE UNCHANGED vars
    BY <1>0, <1>3 DEF vars, Earned, Claim, Stands, Owed
  <1> QED
    BY <1>0, <1>1, <1>2, <1>3, EarnedSubmit, EarnedKill DEF Next

(***************************************************************************)
(* For any number of threads: unless one wrote what another had changed    *)
(* under it, trading stands on a passing preflight and, after a kill       *)
(* switch, on a reset, a new preflight and a new arming.                   *)
(***************************************************************************)
THEOREM ArmingIsEarned == Spec => []ArmedIsEarned
  <1>1. Init => EarnedInv
    BY DEF Init, EarnedInv, Earned, Claim, Stands, Owed, Trading, Arming, SubmitPlaces, CanTrade
  <1>2. Typed /\ EarnedInv /\ [Next]_vars => EarnedInv'
    BY EarnedStep
  <1>3. EarnedInv => ArmedIsEarned
    BY DEF EarnedInv, Earned, Stands, Pending, ArmedIsEarned
  <1> QED
    BY <1>1, <1>2, <1>3, TypedInvariance, PTL DEF Spec

===============================================================================
