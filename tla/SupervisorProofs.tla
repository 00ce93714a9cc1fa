-------------------------- MODULE SupervisorProofs --------------------------
(***************************************************************************)
(* Proofs about Supervisor for any number of components, any timeouts and  *)
(* any attempt and event limits.                                           *)
(***************************************************************************)
EXTENDS Supervisor, FiniteSetTheorems, SequenceTheorems, WellFoundedInduction,
        TLAPS

USE DEF Components

\* The part of the state the proofs are about: the recovery ladder of each component.
LadderTypeOK ==
  /\ health \in [Components -> Health]
  /\ level \in [Components -> 0..5]
  /\ attempts \in [Components -> Nat]
  /\ open \in BOOLEAN
  /\ safe \in BOOLEAN

LadderInv == LadderTypeOK /\ AttemptsWithinLimit /\ ParkedMeansSafeMode

\* recover_component works on a level between 1 and 5, with an attempt limit of its own.
LEMMA LevelType ==
  ASSUME LadderTypeOK, NEW c \in Components
  PROVE  Level(c) \in Levels /\ MaxAttempts[Level(c)] \in Nat \ {0}
  <1>1. level[c] \in 0..5
    BY DEF LadderTypeOK
  <1>2. Level(c) \in Levels
    BY <1>1 DEF Level, Levels
  <1> QED
    BY <1>2, LimitAssumption DEF Levels

\* An attempt recover_component makes is within the limit of the level it makes it at.
LEMMA AttemptFits ==
  ASSUME LadderInv, NEW c \in Components, ~Exhausted(c)
  PROVE  /\ NextLevel(c) \in 0..5 /\ NextAttempt(c) \in Nat
         /\ NextAttempt(c) <= MaxAttempts[IF NextLevel(c) = 0 THEN 1 ELSE NextLevel(c)]
  <1>1. Level(c) \in Levels /\ MaxAttempts[Level(c)] \in Nat \ {0}
    BY LevelType DEF LadderInv
  <1>2. level[c] \in 0..5 /\ attempts[c] \in Nat
    BY DEF LadderInv, LadderTypeOK
  <1>3. CASE UsedUp(c)
    <2>1. NextLevel(c) = Level(c) + 1 /\ NextAttempt(c) = 1 /\ Level(c) # 5
      BY <1>3 DEF NextLevel, NextAttempt, Exhausted
    <2>2. NextLevel(c) \in 2..5
      BY <1>1, <2>1 DEF Levels
    <2>3. MaxAttempts[NextLevel(c)] \in Nat \ {0}
      BY <2>2, LimitAssumption
    <2> QED
      BY <2>1, <2>2, <2>3
  <1>4. CASE ~UsedUp(c)
    <2>1. NextLevel(c) = level[c] /\ NextAttempt(c) = attempts[c] + 1
      BY <1>4 DEF NextLevel, NextAttempt
    <2>2. attempts[c] + 1 <= MaxAttempts[Level(c)]
      BY <1>1, <1>2, <1>4 DEF UsedUp
    <2> QED
      BY <1>2, <2>1, <2>2 DEF Level
  <1> QED
    BY <1>3, <1>4

\* With the breaker open a tick begins no recovery.
LEMMA NoRoomInStorm ==
  ASSUME open
  PROVE  Recovering = {}
  <1> SUFFICES ASSUME NEW c \in Recovering
               PROVE  FALSE
    OBVIOUS
  <1> DEFINE upto == {d \in Lost : d <= c}
  <1>1. c \in Lost /\ c \in 1..N /\ Cardinality(upto) <= 0
    BY DEF Recovering, Room, Lost
  <1>2. IsFiniteSet(upto)
    <2>1. IsFiniteSet(1..N)
      BY FS_Interval, NAssumption
    <2>2. upto \subseteq 1..N
      BY DEF Lost
    <2> QED
      BY <2>1, <2>2, FS_Subset
  <1>3. c \in upto
    BY <1>1, NAssumption
  <1> HIDE DEF upto
  <1>4. Cardinality(upto) \in Nat /\ upto # {}
    BY <1>2, <1>3, FS_CardinalityType
  <1> QED
    BY <1>1, <1>2, <1>4, FS_EmptySet

-------------------------------------------------------------------------------
\* Registered components start healthy, outside SAFE MODE.
LEMMA LadderInit == Init => LadderInv
  <1> SUFFICES ASSUME Init
               PROVE  LadderInv
    OBVIOUS
  <1>1. LadderTypeOK
    <2>1. health \in [Components -> Health]
      BY DEF Init, Health
    <2>2. level \in [Components -> 0..5] /\ attempts \in [Components -> Nat]
      BY DEF Init
    <2>3. open \in BOOLEAN /\ safe \in BOOLEAN
      BY DEF Init
    <2> QED
      BY <2>1, <2>2, <2>3 DEF LadderTypeOK
  <1>2. AttemptsWithinLimit
    <2> SUFFICES ASSUME NEW c \in Components
                 PROVE  attempts[c] <= MaxAttempts[Level(c)]
      BY DEF AttemptsWithinLimit
    <2>1. attempts[c] = 0 /\ MaxAttempts[Level(c)] \in Nat
      BY <1>1, LevelType DEF Init
    <2> QED
      BY <2>1
  <1>3. ParkedMeansSafeMode
    BY DEF Init, ParkedMeansSafeMode
  <1> QED
    BY <1>1, <1>2, <1>3 DEF LadderInv

\* tick, the reports of the components, the recoveries and the owner's entering and
\* leaving of SAFE MODE preserve the invariant.
LEMMA LadderNext == LadderInv /\ [Next]_vars => LadderInv'
  <1> SUFFICES ASSUME LadderInv, [Next]_vars
               PROVE  LadderInv'
    OBVIOUS
  <1> USE DEF LadderInv, LadderTypeOK
  <1>1. CASE Elapse \/ TryExitSafeMode \/ UNCHANGED vars
    BY <1>1 DEF Elapse, TryExitSafeMode, Gates, vars, AttemptsWithinLimit,
                ParkedMeansSafeMode, Level
  <1>2. ASSUME NEW c \in Components,
               Heartbeat(c) \/ MarkOperation(c) \/ (\E b \in BOOLEAN : Progress(c, b))
        PROVE  LadderInv'
    <2>1. PICK h \in Health : /\ health' = [health EXCEPT ![c] = h]
                              /\ h = health[c] \/ h = "HEALTHY"
      BY <1>2 DEF Heartbeat, MarkOperation, Progress, Cleared, Health
    <2>2. UNCHANGED <<level, attempts, open, safe>>
      BY <1>2 DEF Heartbeat, MarkOperation, Progress
    <2> QED
      BY <2>1, <2>2 DEF AttemptsWithinLimit, ParkedMeansSafeMode, Level
  <1>3. CASE Tick
    <2>1. health' \in [Components -> Health]
      BY <1>3 DEF Tick, Checked, Health
    <2>2. /\ level' \in [Components -> 0..5] /\ attempts' = attempts
          /\ \A c \in Components : Level(c)' = Level(c)
      BY <1>3 DEF Tick, Level
    <2>3. open' \in BOOLEAN /\ safe' \in BOOLEAN
      BY <1>3 DEF Tick, Parks
    <2>4. ParkedMeansSafeMode'
      <3> SUFFICES ASSUME NEW c \in Components, health'[c] = "SAFE_MODE"
                   PROVE  safe'
        BY DEF ParkedMeansSafeMode
      <3>1. CASE c \in Lost
        <4>1. c \notin Recovering
          BY <1>3, <3>1 DEF Tick
        <4> QED
          BY <1>3, <3>1, <4>1 DEF Tick, Parks
      <3>2. CASE c \notin Lost
        <4>1. c \notin Recovering
          BY <3>2 DEF Recovering
        <4>2. health[c] = "SAFE_MODE"
          BY <1>3, <3>2, <4>1 DEF Tick, Checked
        <4> QED
          BY <1>3, <4>2 DEF Tick, ParkedMeansSafeMode
      <3> QED
        BY <3>1, <3>2
    <2> QED
      BY <2>1, <2>2, <2>3, <2>4 DEF AttemptsWithinLimit
  <1>4. ASSUME NEW c \in Components, RecoverComponent(c)
        PROVE  LadderInv'
    <2>1. CASE RecoverRefused(c) \/ RecoverExhausted(c)
      BY <2>1 DEF RecoverRefused, RecoverExhausted, AttemptsWithinLimit,
                  ParkedMeansSafeMode, Level, Health
    <2>2. CASE RecoverStorm(c)
      <3>1. /\ NextLevel(c) \in 0..5 /\ NextAttempt(c) \in Nat
            /\ NextAttempt(c) <= MaxAttempts[IF NextLevel(c) = 0 THEN 1 ELSE NextLevel(c)]
        BY <2>2, AttemptFits DEF RecoverStorm
      <3> QED
        BY <2>2, <3>1 DEF RecoverStorm, AttemptsWithinLimit, ParkedMeansSafeMode, Level
    <2>3. CASE RecoverAttempt(c)
      <3>1. /\ NextLevel(c) \in 0..5 /\ NextAttempt(c) \in Nat
            /\ NextAttempt(c) <= MaxAttempts[IF NextLevel(c) = 0 THEN 1 ELSE NextLevel(c)]
        BY <2>3, AttemptFits DEF RecoverAttempt
      <3> QED
        BY <2>3, <3>1 DEF RecoverAttempt, AttemptsWithinLimit, ParkedMeansSafeMode, Level
    <2>4. ASSUME NEW ok \in BOOLEAN, RecoverEnds(c, ok)
          PROVE  LadderInv'
      <3> DEFINE l == IF ok THEN 0 ELSE level[c]
                 a == IF ok THEN 0 ELSE attempts[c]
                 h == IF ok THEN "HEALTHY" ELSE "FAILED"
      <3>1. attempts[c] <= MaxAttempts[Level(c)]
        BY DEF AttemptsWithinLimit
      <3>2. /\ l \in 0..5 /\ a \in Nat /\ a <= MaxAttempts[IF l = 0 THEN 1 ELSE l]
            /\ h \in Health /\ h # "SAFE_MODE"
        BY <3>1, LimitAssumption DEF Health, Level
      <3>3. /\ level' = [level EXCEPT ![c] = l] /\ attempts' = [attempts EXCEPT ![c] = a]
            /\ health' = [health EXCEPT ![c] = h] /\ UNCHANGED <<open, safe>>
        BY <2>4 DEF RecoverEnds
      <3> HIDE DEF l, a, h
      <3> QED
        BY <3>2, <3>3 DEF AttemptsWithinLimit, ParkedMeansSafeMode, Level
    <2> QED
      BY <1>4, <2>1, <2>2, <2>3, <2>4 DEF RecoverComponent
  <1>5. CASE EnterSafeMode
    BY <1>5 DEF EnterSafeMode, AttemptsWithinLimit, ParkedMeansSafeMode, Level, Health
  <1> QED
    BY <1>1, <1>2, <1>3, <1>4, <1>5 DEF Next

\* The calls of recover_fn under way.
RunningTypeOK == running \in [Components -> 0..MaxRunning]

LEMMA RunningInvariance == Spec => []RunningTypeOK
  <1>1. Init => RunningTypeOK
    BY LimitAssumption DEF Init, RunningTypeOK
  <1>2. ASSUME RunningTypeOK, [Next]_vars
        PROVE  RunningTypeOK'
    <2> USE DEF RunningTypeOK
    <2>1. ASSUME NEW c \in Components, RecoverAttempt(c)
          PROVE  RunningTypeOK'
      <3>1. running[c] + 1 \in 0..MaxRunning
        BY <1>2, <2>1, LimitAssumption DEF RecoverAttempt
      <3> QED
        BY <1>2, <2>1, <3>1 DEF RecoverAttempt
    <2>2. ASSUME NEW c \in Components, NEW ok \in BOOLEAN, RecoverEnds(c, ok)
          PROVE  RunningTypeOK'
      <3>1. running[c] - 1 \in 0..MaxRunning
        BY <1>2, <2>2, LimitAssumption DEF RecoverEnds
      <3> QED
        BY <1>2, <2>2, <3>1 DEF RecoverEnds
    <2>3. CASE UNCHANGED running
      BY <1>2, <2>3
    <2>4. \/ UNCHANGED running
          \/ \E c \in Components : \/ RecoverAttempt(c)
                                   \/ \E ok \in BOOLEAN : RecoverEnds(c, ok)
      BY <1>2 DEF Next, Elapse, Tick, Heartbeat, MarkOperation, Progress, RecoverComponent,
                  RecoverRefused, RecoverExhausted, RecoverStorm, EnterSafeMode,
                  TryExitSafeMode, vars
    <2> QED
      BY <2>1, <2>2, <2>3, <2>4
  <1> QED
    BY <1>1, <1>2, PTL DEF Spec

(***************************************************************************)
(* The recovery ladder is well typed, keeps to its limits, and a parked    *)
(* component keeps SAFE MODE active, in every execution.                   *)
(***************************************************************************)
THEOREM LadderInvariance == Spec => []LadderInv
  BY LadderInit, LadderNext, PTL DEF Spec

(***************************************************************************)
(* recover_component() never makes more attempts at a level than its limit.*)
(***************************************************************************)
THEOREM AttemptsLimited == Spec => []AttemptsWithinLimit
  <1>1. LadderInv => AttemptsWithinLimit
    BY DEF LadderInv
  <1> QED
    BY <1>1, LadderInvariance, PTL

(***************************************************************************)
(* SAFE MODE is not left while a component is parked in it, provided the   *)
(* caller of try_exit tells the truth about components_healthy.            *)
(***************************************************************************)
THEOREM SafeModeWhileParked == Spec => []ParkedMeansSafeMode
  <1>1. LadderInv => ParkedMeansSafeMode
    BY DEF LadderInv
  <1> QED
    BY <1>1, LadderInvariance, PTL

(***************************************************************************)
(* Once the breaker has opened, no recover_fn is called any more, and a    *)
(* component that is being recovered, has failed or is parked changes only *)
(* when a recover_fn called for it before comes back.                      *)
(***************************************************************************)
THEOREM StormIsFinal == Spec => NoHealingInStorm
  <1>1. ASSUME LadderInv, RunningTypeOK, [Next]_vars, open, NEW c \in Components
        PROVE  /\ running'[c] <= running[c]
               /\ health[c] \in Down => health'[c] \in {health[c], "SAFE_MODE"} \/ LateAnswer(c)
    <2> USE DEF LadderInv, LadderTypeOK, RunningTypeOK, Down
    <2>0. running[c] \in Nat
      BY <1>1
    <2>1. CASE Tick
      <3>1. Recovering = {}
        BY <1>1, NoRoomInStorm
      <3> QED
        BY <1>1, <2>0, <2>1, <3>1 DEF Tick, Checked
    <2>2. ASSUME NEW d \in Components,
                 \/ Heartbeat(d) \/ MarkOperation(d)
                 \/ (\E b \in BOOLEAN : Progress(d, b))
          PROVE  running' = running /\ (health[c] \in Down => health'[c] = health[c])
      BY <1>1, <2>2 DEF Heartbeat, Cleared, MarkOperation, Progress
    <2>3. ASSUME NEW d \in Components, RecoverComponent(d)
          PROVE  \/ running' = running /\ health'[c] = health[c]
                 \/ /\ running[d] > 0 /\ running' = [running EXCEPT ![d] = @ - 1]
                    /\ c # d => health'[c] = health[c]
      BY <1>1, <2>3 DEF RecoverComponent, RecoverRefused, RecoverExhausted, RecoverStorm,
                        RecoverAttempt, RecoverEnds
    <2>4. CASE Elapse \/ EnterSafeMode \/ TryExitSafeMode \/ UNCHANGED vars
      <3>1. running' = running
        BY <2>4 DEF Elapse, EnterSafeMode, TryExitSafeMode, vars
      <3>2. health'[c] \in {health[c], "SAFE_MODE"}
        BY <1>1, <2>4 DEF Elapse, EnterSafeMode, TryExitSafeMode, vars
      <3> QED
        BY <2>0, <3>1, <3>2
    <2>5. ASSUME NEW d \in Components, RecoverComponent(d)
          PROVE  /\ running'[c] <= running[c]
                 /\ health'[c] = health[c] \/ LateAnswer(c)
      <3>1. running[d] \in Nat /\ running \in [Components -> 0..MaxRunning]
        BY <1>1
      <3>2. CASE running' = running /\ health'[c] = health[c]
        BY <2>0, <3>2
      <3>3. CASE /\ running[d] > 0 /\ running' = [running EXCEPT ![d] = @ - 1]
                 /\ c # d => health'[c] = health[c]
        BY <2>0, <3>1, <3>3 DEF LateAnswer
      <3> QED
        BY <2>3, <2>5, <3>2, <3>3
    <2>6. ASSUME NEW d \in Components,
                 \/ Heartbeat(d) \/ MarkOperation(d)
                 \/ (\E b \in BOOLEAN : Progress(d, b)) \/ RecoverComponent(d)
          PROVE  /\ running'[c] <= running[c]
                 /\ health[c] \in Down => health'[c] \in {health[c], "SAFE_MODE"} \/ LateAnswer(c)
      BY <2>0, <2>2, <2>5, <2>6
    <2> QED
      BY <1>1, <2>1, <2>4, <2>6 DEF Next
  <1>2. LadderInv /\ RunningTypeOK /\ [Next]_vars =>
          [open => \A c \in Components :
             /\ running'[c] <= running[c]
             /\ health[c] \in Down => health'[c] \in {health[c], "SAFE_MODE"} \/ LateAnswer(c)]_vars
    BY <1>1
  <1> QED
    BY <1>2, LadderInvariance, RunningInvariance, PTL DEF Spec, NoHealingInStorm

-------------------------------------------------------------------------------
(***************************************************************************)
(* The breaker.  What keeps room in the window is that a tick stops        *)
(* recovering at the last event that fits: the components it recovers are  *)
(* those of Lost with no more than Room of them up to their place.         *)
(***************************************************************************)

\* A set of components has a last one.
LEMMA LastComponent ==
  ASSUME NEW S \in SUBSET (1..N), S # {}
  PROVE  \E m \in S : \A c \in S : c <= m
  <1> DEFINE T == {i \in Nat : N - i \in S}
             Less == OpToRel(<, Nat)
  <1>1. T \subseteq Nat /\ T # {}
    <2>1. PICK c \in S : TRUE
      OBVIOUS
    <2>2. N - c \in Nat /\ N - (N - c) = c
      BY <2>1, NAssumption
    <2>3. N - c \in T
      BY <2>1, <2>2
    <2> QED
      BY <2>3
  <1>2. PICK x \in T : \A y \in T : <<y, x>> \notin Less
    <2> HIDE DEF T, Less
    <2>1. IsWellFoundedOn(Less, Nat)
      BY NatLessThanWellFounded DEF Less
    <2> QED
      BY <1>1, <2>1, WFMin
  <1>3. ASSUME NEW c \in S
        PROVE  c <= N - x
    <2>1. N - c \in Nat /\ N - (N - c) = c
      BY NAssumption
    <2>2. N - c \in T
      BY <2>1
    <2>3. ~(N - c < x)
      BY <1>2, <2>1, <2>2 DEF OpToRel
    <2> QED
      BY <2>1, <2>3, NAssumption
  <1> QED
    BY <1>2, <1>3

LEMMA LostFinite ==
  ASSUME NEW S \in SUBSET Lost
  PROVE  IsFiniteSet(S) /\ Cardinality(S) \in Nat
  <1>1. IsFiniteSet(1..N) /\ S \subseteq 1..N
    BY FS_Interval, NAssumption DEF Lost
  <1> QED
    BY <1>1, FS_Subset, FS_CardinalityType

\* A tick that parks nothing had room for all the components it lost.
LEMMA AllLostFit ==
  ASSUME Lost = Recovering, Room \in Nat
  PROVE  Cardinality(Lost) <= Room
  <1>1. CASE Lost = {}
    BY <1>1, FS_EmptySet
  <1>2. CASE Lost # {}
    <2>1. PICK m \in Lost : \A c \in Lost : c <= m
      BY <1>2, LastComponent DEF Lost
    <2>2. {d \in Lost : d <= m} = Lost
      BY <2>1
    <2> QED
      BY <2>1, <2>2 DEF Recovering
  <1> QED
    BY <1>1, <1>2

\* What the proofs about the ladder leave out of the types.
ClockTypeOK ==
  /\ beatAge \in [Components -> Nat] /\ progressAge \in [Components -> Nat]
  /\ \A c \in Components : beatAge[c] <= BeatCap(c) /\ progressAge[c] <= ProgressCap(c)
  /\ operation \in [Components -> Operation]

StormInv ==
  /\ ClockTypeOK
  /\ storm \in Seq(0..Window)
  /\ ClosedMeansRoom
  /\ OldestInFront

\* Recording appends events that are newer than all before.
LEMMA RecordedKeeps ==
  ASSUME storm \in Seq(0..Window), OldestInFront, NEW n \in Nat, storm' = Recorded(n)
  PROVE  storm' \in Seq(0..Window) /\ Len(storm') = Len(storm) + n /\ OldestInFront'
  <1> DEFINE zeros == [i \in 1..n |-> 0]
  <1>1. zeros \in Seq(0..Window) /\ Len(zeros) = n
    BY TimeAssumption
  <1>2. \A i \in 1..n : zeros[i] = 0
    OBVIOUS
  <1>3. storm' = storm \o zeros
    BY DEF Recorded
  <1> HIDE DEF zeros
  <1>4. /\ storm' \in Seq(0..Window) /\ Len(storm') = Len(storm) + n
        /\ \A i \in 1..Len(storm') :
             storm'[i] = IF i <= Len(storm) THEN storm[i] ELSE zeros[i - Len(storm)]
    <2> DEFINE S == 0..Window
    <2>1. storm \in Seq(S) /\ zeros \in Seq(S) /\ Len(zeros) = n
      BY <1>1
    <2> HIDE DEF S
    <2>2. /\ storm \o zeros \in Seq(S) /\ Len(storm \o zeros) = Len(storm) + Len(zeros)
          /\ \A i \in 1..Len(storm) + Len(zeros) : (storm \o zeros)[i] =
               IF i <= Len(storm) THEN storm[i] ELSE zeros[i - Len(storm)]
      BY <2>1, ConcatProperties
    <2> QED
      BY <1>3, <2>1, <2>2 DEF S
  <1>5. \A i \in 1..Len(storm') :
          storm'[i] = IF i <= Len(storm) THEN storm[i] ELSE 0
    BY <1>1, <1>2, <1>4
  <1>6. \A i \in 1..Len(storm) : storm[i] \in 0..Window
    BY ElementOfSeq
  <1>7. OldestInFront'
    <2>1. DOMAIN storm = 1..Len(storm) /\ DOMAIN storm' = 1..Len(storm')
      BY <1>4, LenProperties
    <2> QED
      BY <1>4, <1>5, <1>6, <2>1, TimeAssumption DEF OldestInFront
  <1> QED
    BY <1>4, <1>7

\* Time drops the events at the front that are out of the window, and those only.
LEMMA OlderKeeps ==
  ASSUME storm \in Seq(0..Window), OldestInFront, Elapse
  PROVE  storm' \in Seq(0..Window) /\ Len(storm') <= Len(storm) /\ OldestInFront'
  <1>1. PICK k \in 0..Len(storm) : Expired(storm, k) /\ storm' = Older(storm, k)
    BY DEF Elapse
  <1> DEFINE m == Len(storm) - k
  <1>2. m \in Nat /\ m <= Len(storm) /\ k \in Nat /\ Len(storm) \in Nat
        /\ Len(storm) = m + k
    BY <1>1
  <1>3. storm' = [i \in 1..m |-> storm[i + k] + 1]
    BY <1>1 DEF Older
  <1> HIDE DEF m
  <1>4. \A i \in 1..m : i + k \in 1..Len(storm) /\ storm[i + k] \in 0..Window
    <2>1. \A i \in 1..m : i + k \in 1..Len(storm)
      BY <1>2
    <2> QED
      BY <2>1, ElementOfSeq
  <1>5. \A i \in 1..m : storm[i + k] < Window
    <2> SUFFICES ASSUME NEW i \in 1..m
                 PROVE  storm[i + k] < Window
      OBVIOUS
    <2>1. k < Len(storm) /\ k + 1 \in 1..Len(storm) /\ (k + 1 < i + k \/ k + 1 = i + k)
      BY <1>2
    <2>2. storm[k + 1] < Window
      BY <1>1, <2>1 DEF Expired
    <2>3. storm[k + 1] >= storm[i + k]
      BY <1>4, <2>1 DEF OldestInFront
    <2>4. storm[k + 1] \in 0..Window
      BY <2>1, ElementOfSeq
    <2> QED
      BY <1>4, <2>2, <2>3, <2>4, TimeAssumption
  <1>6. \A i \in 1..m : storm[i + k] + 1 \in 0..Window
    BY <1>4, <1>5, TimeAssumption
  <1>7. storm' \in Seq(0..Window) /\ Len(storm') = m
    BY <1>2, <1>3, <1>6
  <1>8. OldestInFront'
    <2> SUFFICES ASSUME NEW i \in DOMAIN storm', NEW j \in DOMAIN storm', i < j
                 PROVE  storm'[i] >= storm'[j]
      BY DEF OldestInFront
    <2>1. i \in 1..m /\ j \in 1..m
      BY <1>3
    <2>2. storm[i + k] >= storm[j + k]
      BY <1>2, <1>4, <2>1 DEF OldestInFront
    <2> QED
      BY <1>3, <1>4, <2>1, <2>2
  <1> QED
    BY <1>2, <1>7, <1>8

\* With the breaker closed there is a number of events it can still take.
LEMMA RoomType ==
  ASSUME storm \in Seq(0..Window), ClosedMeansRoom, open \in BOOLEAN
  PROVE  Room \in Nat /\ (~open => Len(storm) + Room < MaxEvents)
  BY LimitAssumption DEF ClosedMeansRoom, Room

LEMMA ClockInit == Init => StormInv
  <1> SUFFICES ASSUME Init
               PROVE  StormInv
    OBVIOUS
  <1>1. ClockTypeOK
    BY TimeAssumption DEF Init, ClockTypeOK, BeatCap, ProgressCap, Operation
  <1> QED
    BY <1>1, LimitAssumption DEF Init, StormInv, ClosedMeansRoom, OldestInFront

\* The clock, the reports and the recoveries keep the ages within their caps.
LEMMA ClockStep ==
  ASSUME ClockTypeOK, [Next]_vars
  PROVE  ClockTypeOK'
  <1> USE DEF ClockTypeOK
  <1>0. \A c \in Components : BeatCap(c) \in Nat /\ ProgressCap(c) \in Nat
    BY TimeAssumption DEF BeatCap, ProgressCap
  <1>1. CASE Elapse
    <2>1. \A c \in Components : /\ Capped(beatAge[c], BeatCap(c)) \in 0..BeatCap(c)
                                /\ Capped(progressAge[c], ProgressCap(c)) \in 0..ProgressCap(c)
      BY <1>0 DEF Capped
    <2> QED
      BY <1>0, <1>1, <2>1 DEF Elapse, BeatCap, ProgressCap
  <1>2. ASSUME NEW c \in Components, NEW b \in {0, beatAge[c]}, NEW p \in {0, progressAge[c]},
               NEW op \in Operation,
               beatAge' = [beatAge EXCEPT ![c] = b],
               progressAge' = [progressAge EXCEPT ![c] = p],
               operation' = [operation EXCEPT ![c] = op]
        PROVE  ClockTypeOK'
    BY <1>0, <1>2 DEF BeatCap, ProgressCap
  <1>3. CASE UNCHANGED <<beatAge, progressAge, operation>>
    BY <1>3 DEF BeatCap, ProgressCap
  <1>4. ASSUME NEW c \in Components, Heartbeat(c)
        PROVE  ClockTypeOK'
    <2>1. PICK op \in Renamed(operation[c]) : operation' = [operation EXCEPT ![c] = op]
      BY <1>4 DEF Heartbeat
    <2>2. op \in Operation
      BY <2>1 DEF Renamed, Operation
    <2> QED
      BY <1>2, <1>4, <2>1, <2>2 DEF Heartbeat
  <1>5. ASSUME NEW c \in Components, MarkOperation(c)
        PROVE  ClockTypeOK'
    <2>1. "running" \in Operation
      BY DEF Operation
    <2> QED
      BY <1>2, <1>5, <2>1 DEF MarkOperation
  <1>6. ASSUME NEW c \in Components, NEW named \in BOOLEAN, Progress(c, named)
        PROVE  ClockTypeOK'
    <2> DEFINE op == IF named THEN "running" ELSE operation[c]
    <2>1. op \in Operation
      BY DEF Operation
    <2>2. operation' = [operation EXCEPT ![c] = op]
      BY <1>6 DEF Progress
    <2> HIDE DEF op
    <2> QED
      BY <1>2, <1>6, <2>1, <2>2 DEF Progress
  <1>7. ASSUME NEW c \in Components, NEW ok \in BOOLEAN, RecoverEnds(c, ok)
        PROVE  ClockTypeOK'
    <2>1. operation' = [operation EXCEPT ![c] = operation[c]] /\ operation[c] \in Operation
      BY <1>7 DEF RecoverEnds
    <2> QED
      BY <1>2, <1>7, <2>1 DEF RecoverEnds
  <1>8. ASSUME NEW c \in Components, RecoverComponent(c)
        PROVE  ClockTypeOK'
    BY <1>3, <1>7, <1>8 DEF RecoverComponent, RecoverRefused, RecoverExhausted, RecoverStorm, RecoverAttempt
  <1> QED
    BY <1>1, <1>3, <1>4, <1>5, <1>6, <1>8
    DEF Next, Tick, EnterSafeMode, TryExitSafeMode, vars

\* Every step keeps the breaker's events in order, and room for one while it is closed.
LEMMA StormStep ==
  ASSUME LadderInv, StormInv, [Next]_vars
  PROVE  StormInv'
  <1> USE DEF StormInv
  <1>0. open \in BOOLEAN /\ Len(storm) \in Nat /\ MaxEvents \in Nat \ {0}
    BY LimitAssumption DEF LadderInv, LadderTypeOK
  <1>1. ClockTypeOK'
    BY ClockStep
  <1>2. CASE UNCHANGED storm /\ (open => open')
    BY <1>1, <1>2 DEF ClosedMeansRoom, OldestInFront
  <1>3. CASE Elapse
    <2>1. storm' \in Seq(0..Window) /\ Len(storm') <= Len(storm) /\ OldestInFront'
      BY <1>3, OlderKeeps
    <2>2. ClosedMeansRoom'
      BY <1>0, <1>3, <2>1 DEF Elapse, ClosedMeansRoom
    <2> QED
      BY <1>1, <2>1, <2>2
  <1>4. ASSUME NEW n \in Nat, storm' = Recorded(n), open' \/ Len(storm) + n < MaxEvents
        PROVE  StormInv'
    <2>1. storm' \in Seq(0..Window) /\ Len(storm') = Len(storm) + n /\ OldestInFront'
      BY <1>4, RecordedKeeps
    <2>2. ClosedMeansRoom'
      BY <1>4, <2>1 DEF ClosedMeansRoom
    <2> QED
      BY <1>1, <2>1, <2>2
  <1>5. ASSUME storm' = <<>>, open'
        PROVE  StormInv'
    <2>1. storm' \in Seq(0..Window) /\ DOMAIN storm' = {}
      BY <1>5
    <2> QED
      BY <1>1, <1>5, <2>1 DEF ClosedMeansRoom, OldestInFront
  <1>6. CASE Tick
    <2>1. CASE open \/ Parks
      BY <1>5, <1>6, <2>1 DEF Tick
    <2>2. CASE ~open /\ ~Parks
      <3> DEFINE n == Cardinality(Recovering)
      <3>1. n \in Nat
        <4>1. Recovering \in SUBSET Lost
          BY DEF Recovering
        <4> QED
          BY <4>1, LostFinite
      <3>2. storm' = Recorded(n)
        BY <1>6, <2>2 DEF Tick
      <3>3. n <= Room /\ Room \in Nat /\ Len(storm) + Room < MaxEvents
        BY <1>0, <2>2, RoomType, AllLostFit DEF Parks
      <3>4. Len(storm) + n < MaxEvents
        BY <1>0, <3>1, <3>3
      <3> HIDE DEF n
      <3> QED
        BY <1>4, <3>1, <3>2, <3>4
    <2> QED
      BY <2>1, <2>2
  <1>7. ASSUME NEW c \in Components, RecoverStorm(c) \/ RecoverAttempt(c)
        PROVE  StormInv'
    <2>1. CASE RecoverStorm(c)
      BY <1>5, <2>1 DEF RecoverStorm
    <2>2. CASE RecoverAttempt(c)
      <3>1. Room > 0 /\ Room \in Nat /\ Len(storm) + Room < MaxEvents /\ storm' = Recorded(1)
        BY <1>0, <2>2, RoomType DEF RecoverAttempt
      <3>2. Len(storm) + 1 < MaxEvents
        BY <1>0, <3>1
      <3> QED
        BY <1>4, <3>1, <3>2
    <2> QED
      BY <1>7, <2>1, <2>2
  <1>8. ASSUME NEW c \in Components, \/ Heartbeat(c) \/ MarkOperation(c)
                                     \/ RecoverRefused(c) \/ RecoverExhausted(c)
                                     \/ (\E b \in BOOLEAN : Progress(c, b))
                                     \/ \E ok \in BOOLEAN : RecoverEnds(c, ok)
        PROVE  StormInv'
    BY <1>2, <1>8 DEF Heartbeat, MarkOperation, RecoverRefused, RecoverExhausted, Progress,
                      RecoverEnds
  <1>9. CASE EnterSafeMode \/ TryExitSafeMode \/ UNCHANGED vars
    BY <1>2, <1>9 DEF EnterSafeMode, TryExitSafeMode, vars
  <1> QED
    BY <1>3, <1>6, <1>7, <1>8, <1>9 DEF Next, RecoverComponent

LEMMA StormInvariance == Spec => []StormInv
  BY ClockInit, StormStep, LadderInvariance, PTL DEF Spec

(***************************************************************************)
(* Supervisor is well typed; in particular no age outgrows its cap and the *)
(* breaker holds no event older than its window.                           *)
(***************************************************************************)
THEOREM SupervisorTypes == Spec => []TypeOK
  <1>1. LadderInv /\ StormInv /\ RunningTypeOK => TypeOK
    BY DEF LadderInv, LadderTypeOK, StormInv, ClockTypeOK, RunningTypeOK, TypeOK
  <1> QED
    BY <1>1, LadderInvariance, StormInvariance, RunningInvariance, PTL

(***************************************************************************)
(* RecoveryCircuitBreaker: as long as it is closed there is room in its    *)
(* window, however many components a single tick loses.                    *)
(***************************************************************************)
THEOREM BreakerLimits == Spec => []ClosedMeansRoom
  <1>1. StormInv => ClosedMeansRoom
    BY DEF StormInv
  <1> QED
    BY <1>1, StormInvariance, PTL

===============================================================================
