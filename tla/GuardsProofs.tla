------------------------------ MODULE GuardsProofs ------------------------------
(***************************************************************************)
(* Proofs about the guards around trading, each by itself: the resource    *)
(* governor for any times, the risk engine for any limits and equities,    *)
(* the resolver of UNKNOWN orders for any schedule, the desktop's          *)
(* supervisor for any number of threads and the notification queue for any *)
(* keys, priorities and size; and then about these and the live gate       *)
(* (LiveGateProofs) side by side.                                          *)
(***************************************************************************)
EXTENDS MCGuards, LiveGateProofs, SequenceTheorems, TLAPS

(***************************************************************************)
(* The governor.  What a state on the way down from CRITICAL owes to the   *)
(* time since: RECOVERY is left by its own timer and CONSTRAINED only      *)
(* after the stability time, so that DEGRADED starts with that time spent. *)
(***************************************************************************)
CoolingInv ==
  /\ GovernorTypeOK
  /\ governor = "NORMAL" => cooled = Longest
  /\ governor = "DEGRADED" => cooled = Longest \/ cooled >= Stability + inState
  /\ governor = "RECOVERY" => recovering <= cooled
  /\ governor = "CONSTRAINED" => pressured /\ inState <= cooled

\* Telemetry calls for one of four states; RECOVERY is not among them.
LEMMA Desired ==
  ASSUME NEW sample
  PROVE  DesiredState(sample) \in {"NORMAL", "DEGRADED", "CONSTRAINED", "CRITICAL"}
  BY DEF DesiredState

LEMMA CoolingStep ==
  ASSUME CoolingInv, [GovernorNext]_governorVars
  PROVE  CoolingInv'
  <1> USE GovernorAssumption DEF CoolingInv, GovernorTypeOK, GovernorStates, Longest
  <1>1. CASE GovernorElapse
    BY <1>1 DEF GovernorElapse, Later
  <1>2. ASSUME NEW sample \in Samples, Evaluated(sample)
        PROVE  CoolingInv'
    <2> DEFINE desired == DesiredState(sample)
    <2>1. desired \in {"NORMAL", "DEGRADED", "CONSTRAINED", "CRITICAL"}
      BY Desired
    <2> HIDE DEF desired
    <2>2. Worsens(desired) \/ EntersRecovery(desired) \/ LeavesRecovery(desired) \/ Improves(desired)
      BY <1>2 DEF Evaluated, desired
    <2>3. CASE Worsens(desired)
      BY <2>1, <2>3 DEF Worsens, SetState, Severity
    <2>4. CASE EntersRecovery(desired)
      BY <2>1, <2>4 DEF EntersRecovery, Relieved, SetState, Severity
    <2>5. CASE LeavesRecovery(desired)
      BY <2>1, <2>5 DEF LeavesRecovery, Relieved, SetState, Severity
    <2>6. CASE Improves(desired)
      BY <2>1, <2>6 DEF Improves, Relieved, Stepped, SetState, Severity
    <2> QED
      BY <2>2, <2>3, <2>4, <2>5, <2>6
  <1>3. CASE UNCHANGED governorVars
    BY <1>3 DEF governorVars
  <1> QED
    BY <1>1, <1>2, <1>3 DEF GovernorNext

LEMMA CoolingStart == GovernorInit => CoolingInv
  <1>1. Longest \in Nat
    BY GovernorAssumption DEF Longest
  <1> SUFFICES ASSUME GovernorInit
               PROVE  CoolingInv
    OBVIOUS
  <1>2. /\ governor = "NORMAL" /\ inState = 0 /\ cooled = Longest
        /\ recovering = -1 /\ pressured \in BOOLEAN
    BY DEF GovernorInit
  <1>3. GovernorTypeOK
    BY <1>1, <1>2 DEF GovernorTypeOK, GovernorStates
  <1> QED
    BY <1>2, <1>3 DEF CoolingInv

(***************************************************************************)
(* Full capacity comes back only after the stability time and a dwell      *)
(* time without CRITICAL, whatever the telemetry and the times configured. *)
(***************************************************************************)
THEOREM GovernorCoolsDown == GovernorSpec => [](GovernorTypeOK /\ CriticalCoolsDown)
  <1>1. GovernorInit => CoolingInv
    BY CoolingStart
  <1>2. CoolingInv /\ [GovernorNext]_governorVars => CoolingInv'
    BY CoolingStep
  <1>3. CoolingInv => GovernorTypeOK /\ CriticalCoolsDown
    BY DEF CoolingInv, CriticalCoolsDown
  <1> QED
    BY <1>1, <1>2, <1>3, PTL DEF GovernorSpec

-------------------------------------------------------------------------------
(***************************************************************************)
(* The risk engine.  The tracker's peak is at least everything counted     *)
(* today, and a mismatch keeps the reconciliation flag down.               *)
(***************************************************************************)
RedInv ==
  /\ RiskTypeOK
  /\ mismatched => ~reconciled
  /\ \A e \in seen : day.todays /\ e <= day.peak
  /\ NoEntryInTheRed

\* An equity that is no drawdown from the peak is none from anything below the peak.
LEMMA DrawdownFromPeak ==
  ASSUME NEW peak \in Nat, NEW e \in Nat, NEW now \in Nat,
         e <= peak, ~DrawdownReached(peak, now)
  PROVE  ~DrawdownReached(e, now)
  <1> USE RiskAssumption
  <1>1. CASE e = 0
    BY <1>1 DEF DrawdownReached
  <1>2. CASE e > 0
    <2>1. (peak - now) * 100 < MaxDrawdownPct * peak
      BY <1>2 DEF DrawdownReached
    <2>2. (100 - MaxDrawdownPct) * (peak - e) >= 0
      <3>1. 100 - MaxDrawdownPct \in Nat /\ peak - e \in Nat
        OBVIOUS
      <3> QED
        BY <3>1
    <2>3. (100 - MaxDrawdownPct) * (peak - e)
            = ((peak - now) * 100 - MaxDrawdownPct * peak) - ((e - now) * 100 - MaxDrawdownPct * e)
      OBVIOUS
    <2>4. /\ (peak - now) * 100 \in Int /\ MaxDrawdownPct * peak \in Int
          /\ (e - now) * 100 \in Int /\ MaxDrawdownPct * e \in Int
      OBVIOUS
    <2> QED
      BY <2>1, <2>2, <2>3, <2>4 DEF DrawdownReached
  <1> QED
    BY <1>1, <1>2

LEMMA NoDayType ==
  ASSUME NEW e \in Equities
  PROVE  NoDay(e) \in DayTracker
  BY RiskAssumption DEF NoDay, DayTracker

\* Counting the equity keeps the peak above everything counted.
LEMMA CountingRaisesPeak ==
  ASSUME RedInv, CountsEquity
  PROVE  /\ day' \in DayTracker
         /\ seen' \in SUBSET Equities
         /\ \A e \in seen' : day'.todays /\ e <= day'.peak
  <1> USE RiskAssumption DEF RedInv, RiskTypeOK, DayTracker
  <1>1. equity \in Nat /\ day.peak \in Nat
    OBVIOUS
  <1>2. CASE day.todays
    BY <1>1, <1>2 DEF CountsEquity, Counted, Higher
  <1>3. CASE ~day.todays
    <2>1. seen = {}
      BY <1>3
    <2>2. day' = [todays |-> TRUE, start |-> equity, peak |-> equity, losses |-> 0]
      BY <1>3 DEF CountsEquity, Counted, NoDay
    <2> QED
      BY <1>1, <2>1, <2>2 DEF CountsEquity
  <1> QED
    BY <1>2, <1>3

LEMMA RedStep ==
  ASSUME RedInv, [RiskNext]_riskVars
  PROVE  RedInv'
  <1>0. bought' \in BOOLEAN /\ ~bought' => NoEntryInTheRed'
    BY DEF NoEntryInTheRed
  <1>1. ASSUME NEW buys \in BOOLEAN, NEW approved \in BOOLEAN, Evaluate(buys, approved)
        PROVE  RedInv'
    <2>1. CountsEquity /\ UNCHANGED <<safety, reconciled, equity, mismatched>>
      BY <1>1 DEF Evaluate
    <2>2. day' \in DayTracker /\ seen' \in SUBSET Equities
          /\ \A e \in seen' : day'.todays /\ e <= day'.peak
      BY <2>1, CountingRaisesPeak
    <2>3. NoEntryInTheRed'
      <3> SUFFICES ASSUME bought'
                   PROVE  ~mismatched' /\ \A e \in seen' : ~DrawdownReached(e, equity')
        BY DEF NoEntryInTheRed
      <3>1. buys /\ approved
        BY <1>1 DEF Evaluate
      <3>2. reconciled /\ ~DrawdownReached(day'.peak, equity)
        BY <1>1, <3>1 DEF Evaluate, LetsBuy
      <3>3. ~mismatched'
        BY <2>1, <3>2 DEF RedInv
      <3>4. ASSUME NEW e \in seen'
            PROVE  ~DrawdownReached(e, equity')
        <4>1. e \in Nat /\ e <= day'.peak /\ day'.peak \in Nat /\ equity \in Nat
          BY <2>2, RiskAssumption DEF RedInv, RiskTypeOK, DayTracker
        <4> QED
          BY <4>1, <3>2, <2>1, DrawdownFromPeak
      <3> QED
        BY <3>3, <3>4
    <2>4. bought' \in BOOLEAN
      BY <1>1 DEF Evaluate
    <2> QED
      BY <2>1, <2>2, <2>3, <2>4 DEF RedInv, RiskTypeOK
  <1>2. ASSUME NEW condition \in Breaker, EvaluateCircuitBreakers(condition)
        PROVE  RedInv'
    <2>1. day' \in DayTracker /\ seen' \in SUBSET Equities
          /\ \A e \in seen' : day'.todays /\ e <= day'.peak
      BY <1>2, CountingRaisesPeak DEF EvaluateCircuitBreakers
    <2>2. safety' \in SafetyModes
      BY <1>2 DEF EvaluateCircuitBreakers, Tripped, SafetyModes, RedInv, RiskTypeOK
    <2>3. /\ ~bought' /\ bought' \in BOOLEAN /\ equity' = equity
          /\ reconciled' \in BOOLEAN /\ mismatched' \in BOOLEAN
          /\ mismatched' => ~reconciled'
      BY <1>2 DEF EvaluateCircuitBreakers, RedInv, RiskTypeOK
    <2> QED
      BY <1>0, <2>1, <2>2, <2>3 DEF RedInv, RiskTypeOK
  <1>3. ASSUME NEW m \in SafetyModes, SetSafetyMode(m)
        PROVE  RedInv'
    BY <1>0, <1>3 DEF SetSafetyMode, RedInv, RiskTypeOK
  <1>4. ASSUME NEW ok \in BOOLEAN, SetReconciliationOk(ok)
        PROVE  RedInv'
    BY <1>0, <1>4 DEF SetReconciliationOk, RedInv, RiskTypeOK
  <1>5. ASSUME NEW loss \in BOOLEAN, RecordTradeResult(loss)
        PROVE  RedInv'
    <2> DEFINE n == IF ~loss THEN 0 ELSE IF day.losses < MaxConsecutiveLosses
                                         THEN day.losses + 1 ELSE day.losses
    <2>1. n \in 0..MaxConsecutiveLosses
      BY RiskAssumption DEF RedInv, RiskTypeOK, DayTracker
    <2>2. day' = [day EXCEPT !.losses = n]
      BY <1>5 DEF RecordTradeResult
    <2> HIDE DEF n
    <2>3. day' \in DayTracker /\ day'.todays = day.todays /\ day'.peak = day.peak
      BY <2>1, <2>2 DEF RedInv, RiskTypeOK, DayTracker
    <2> QED
      BY <1>0, <1>5, <2>3 DEF RecordTradeResult, RedInv, RiskTypeOK
  <1>6. ASSUME NEW loads \in BOOLEAN, Restart(loads)
        PROVE  RedInv'
    <2>1. NoDay(equity) \in DayTracker
      BY NoDayType DEF RedInv, RiskTypeOK
    <2>2. safety' \in SafetyModes
      BY <1>6 DEF Restart, SafetyModes
    <2> QED
      BY <1>0, <1>6, <2>1, <2>2 DEF Restart, RedInv, RiskTypeOK
  <1>7. ASSUME NEW e \in Equities, EquityMoves(e)
        PROVE  RedInv'
    BY <1>0, <1>7 DEF EquityMoves, RedInv, RiskTypeOK
  <1>8. CASE DayEnds
    BY <1>0, <1>8 DEF DayEnds, RedInv, RiskTypeOK, DayTracker
  <1>9. CASE UNCHANGED riskVars
    BY <1>9 DEF riskVars, RedInv, RiskTypeOK, NoEntryInTheRed, DrawdownReached
  <1> QED
    BY <1>1, <1>2, <1>3, <1>4, <1>5, <1>6, <1>7, <1>8, <1>9 DEF RiskNext

LEMMA RedStart == RiskInit => RedInv
  BY NoDayType DEF RiskInit, RedInv, RiskTypeOK, SafetyModes, NoEntryInTheRed

(***************************************************************************)
(* No BUY is approved while a mismatch is unresolved, or at a drawdown     *)
(* from anything counted today, for all limits and equities.               *)
(***************************************************************************)
THEOREM RiskKeepsOutOfTheRed == RiskSpec => [](RiskTypeOK /\ NoEntryInTheRed)
  <1>1. RiskInit => RedInv
    BY RedStart
  <1>2. RedInv /\ [RiskNext]_riskVars => RedInv'
    BY RedStep
  <1>3. RedInv => RiskTypeOK /\ NoEntryInTheRed
    BY DEF RedInv
  <1> QED
    BY <1>1, <1>2, <1>3, PTL DEF RiskSpec

-------------------------------------------------------------------------------
(***************************************************************************)
(* The resolver of UNKNOWN orders.  Only what the exchange said ends a     *)
(* tracker, and what is over at the exchange stays over.                   *)
(***************************************************************************)
FoundInv ==
  /\ UnknownTypeOK
  /\ \A e \in Executions : tracker[e].resolution \in Ended => venue[e] \in Over

\* An order understood to have ended is over.
LEMMA UnderstoodEnded ==
  ASSUME NEW word \in Over \union {"absent", "open"},
         NEW understood \in Understood[word], understood \in Ended
  PROVE  word \in Over
  BY DEF Understood, Ended, Over

LEMMA QueryFound ==
  ASSUME FoundInv, NEW e \in Executions, NEW understood \in Resolution, QueryOnce(e, understood)
  PROVE  FoundInv'
  <1> USE DEF FoundInv, UnknownTypeOK
  <1> DEFINE r == IF understood = "PENDING" THEN MaybeUnresolved(e) ELSE understood
             t == [resolution |-> r, attempts |-> tracker[e].attempts + 1, age |-> tracker[e].age]
  <1>1. tracker[e] \in Tracker
    OBVIOUS
  <1>2. tracker[e].attempts < Len(Schedule) /\ Len(Schedule) \in Nat
    BY UnknownAssumption DEF QueryOnce, ShouldQuery
  <1>3. r \in Resolution
    BY DEF MaybeUnresolved, Resolution, Ended
  <1>4. r \in Ended => venue[e] \in Over
    <2> SUFFICES ASSUME r \in Ended
                 PROVE  venue[e] \in Over
      OBVIOUS
    <2>1. understood = r /\ understood # "PENDING"
      BY DEF MaybeUnresolved, Ended
    <2>2. understood \in Understood[venue[e]]
      BY <2>1 DEF QueryOnce
    <2> QED
      BY <2>1, <2>2, UnderstoodEnded
  <1>5. t \in Tracker
    BY <1>1, <1>2, <1>3 DEF Tracker
  <1>6. tracker' = [tracker EXCEPT ![e] = t]
    BY DEF QueryOnce
  <1>7. venue' = venue
    BY DEF QueryOnce
  <1> HIDE DEF t, r
  <1>8. t.resolution = r
    BY DEF t
  <1> QED
    BY <1>4, <1>5, <1>6, <1>7, <1>8

LEMMA FoundStep ==
  ASSUME FoundInv, [UnknownNext]_unknownVars
  PROVE  FoundInv'
  <1> USE DEF FoundInv, UnknownTypeOK
  <1>1. CASE UnknownElapse
    <2> DEFINE t(e) == [tracker[e] EXCEPT !.age = IF @ < OldAge THEN @ + 1 ELSE @]
    <2>1. ASSUME NEW e \in Executions
          PROVE  t(e) \in Tracker /\ t(e).resolution = tracker[e].resolution
      <3>1. tracker[e] \in Tracker
        OBVIOUS
      <3> QED
        BY <3>1 DEF Tracker
    <2>2. tracker' = [e \in Executions |-> t(e)] /\ venue' = venue
      BY <1>1 DEF UnknownElapse
    <2> HIDE DEF t
    <2> QED
      BY <2>1, <2>2
  <1>2. ASSUME NEW e \in Executions, Track(e)
        PROVE  FoundInv'
    <2> DEFINE t == [resolution |-> "PENDING", attempts |-> 0, age |-> 0]
    <2>1. t \in Tracker
      BY UnknownAssumption DEF Tracker, Resolution
    <2>2. tracker' = [tracker EXCEPT ![e] = t] /\ venue' = venue
      <3>1. [Untracked EXCEPT !.resolution = "PENDING"] = t
        BY DEF Untracked
      <3> QED
        BY <1>2, <3>1 DEF Track
    <2>3. t.resolution \notin Ended
      BY DEF Ended
    <2> HIDE DEF t
    <2> QED
      BY <2>1, <2>2, <2>3
  <1>3. ASSUME NEW e \in Executions, NEW understood \in Resolution, QueryOnce(e, understood)
        PROVE  FoundInv'
    BY <1>3, QueryFound
  <1>4. ASSUME NEW e \in Executions, NEW word \in Over \union {"open"}, VenueMoves(e, word)
        PROVE  FoundInv'
    <2>1. tracker' = tracker /\ venue' = [venue EXCEPT ![e] = word]
      BY <1>4 DEF VenueMoves
    <2>2. venue[e] \notin Over
      BY <1>4 DEF VenueMoves, Over
    <2> QED
      BY <2>1, <2>2
  <1>5. CASE UNCHANGED unknownVars
    BY <1>5 DEF unknownVars
  <1> QED
    BY <1>1, <1>2, <1>3, <1>4, <1>5 DEF UnknownNext

LEMMA FoundStart == UnknownInit => FoundInv
  <1>1. Untracked \in Tracker /\ Untracked.resolution \notin Ended
    BY UnknownAssumption DEF Untracked, Tracker, Resolution, Ended
  <1> QED
    BY <1>1 DEF UnknownInit, FoundInv, UnknownTypeOK

(***************************************************************************)
(* A client order id is never free while an order tracked under it may     *)
(* still be alive at the exchange, for any schedule and any sharing of ids.*)
(***************************************************************************)
THEOREM UnknownBlocks == UnknownSpec => [](UnknownTypeOK /\ BlocksUntilOver)
  <1>1. UnknownInit => FoundInv
    BY FoundStart
  <1>2. FoundInv /\ [UnknownNext]_unknownVars => FoundInv'
    BY FoundStep
  <1>3. FoundInv => UnknownTypeOK /\ BlocksUntilOver
    <2> SUFFICES ASSUME FoundInv, NEW e \in Executions,
                        tracker[e].resolution # "UNTRACKED", ~BlocksDuplicate(ClientOf[e])
                 PROVE  venue[e] \in Over
      BY DEF FoundInv, BlocksUntilOver
    <2>1. tracker[e].resolution \in Resolution
      BY DEF FoundInv, UnknownTypeOK, Tracker
    <2>2. tracker[e].resolution \notin Blocking
      BY DEF BlocksDuplicate
    <2>3. tracker[e].resolution \in Ended
      BY <2>1, <2>2 DEF Resolution, Blocking
    <2> QED
      BY <2>3 DEF FoundInv
  <1> QED
    BY <1>1, <1>2, <1>3, PTL DEF UnknownSpec

-------------------------------------------------------------------------------
(***************************************************************************)
(* The desktop's supervisor.  Whoever waits in force_stop for the thread   *)
(* of now has told it to stop, and a thread that ends has been told.       *)
(***************************************************************************)
OneThreadInv ==
  /\ RuntimeTypeOK
  /\ OneSupervisor
  /\ thread \in Loops => loop[thread] # "unborn"
  /\ \A s \in Stoppers : joining[s] \in Loops => loop[joining[s]] # "unborn"
  /\ \A s \in Stoppers : joining[s] = thread => stop \/ thread \notin Loops
  /\ \A t \in Loops : loop[t] \in {"ending", "ended"} => stop

LEMMA OneThreadStep ==
  ASSUME OneThreadInv, [RuntimeNext]_runtimeVars
  PROVE  OneThreadInv'
  <1> USE RuntimeAssumption DEF OneThreadInv, RuntimeTypeOK, Places, OneSupervisor, Alive
  <1>1. ASSUME NEW t \in Loops, Start(t)
        PROVE  OneThreadInv'
    BY <1>1 DEF Start, Launch, ThreadAlive
  <1>2. CASE RequestGraceStop
    BY <1>2 DEF RequestGraceStop
  <1>3. CASE DeadlinePasses
    BY <1>3 DEF DeadlinePasses
  <1>4. ASSUME NEW s \in Stoppers, ForceStop(s)
        PROVE  OneThreadInv'
    BY <1>4 DEF ForceStop, status
  <1>5. ASSUME NEW s \in Stoppers, ForceStopEnds(s)
        PROVE  OneThreadInv'
    BY <1>5 DEF ForceStopEnds
  <1>6. ASSUME NEW t \in Loops, LoopStep(t)
        PROVE  OneThreadInv'
    <2>1. CASE Wakes(t)
      BY <2>1 DEF Wakes, Goes, status
    <2>2. CASE Cycles(t)
      BY <2>2 DEF Cycles, Goes, status
    <2>3. CASE Refreshes(t)
      BY <2>3 DEF Refreshes, Goes, status
    <2>4. CASE Ends(t)
      BY <2>4 DEF Ends, Goes
    <2>5. CASE Dies(t)
      BY <2>5 DEF Dies, Goes, status
    <2> QED
      BY <1>6, <2>1, <2>2, <2>3, <2>4, <2>5 DEF LoopStep
  <1>7. CASE UNCHANGED runtimeVars
    BY <1>7 DEF runtimeVars, status
  <1> QED
    BY <1>1, <1>2, <1>3, <1>4, <1>5, <1>6, <1>7 DEF RuntimeNext

LEMMA OneThreadStart == RuntimeInit => OneThreadInv
  BY RuntimeAssumption
     DEF RuntimeInit, OneThreadInv, RuntimeTypeOK, Places, OneSupervisor, Alive

(***************************************************************************)
(* At most one supervisor thread is alive, for any number of starts and    *)
(* of threads that stop it.                                                *)
(***************************************************************************)
THEOREM RuntimeHasOneSupervisor == RuntimeSpec => [](RuntimeTypeOK /\ OneSupervisor)
  <1>1. RuntimeInit => OneThreadInv
    BY OneThreadStart
  <1>2. OneThreadInv /\ [RuntimeNext]_runtimeVars => OneThreadInv'
    BY OneThreadStep
  <1>3. OneThreadInv => RuntimeTypeOK /\ OneSupervisor
    BY DEF OneThreadInv
  <1> QED
    BY <1>1, <1>2, <1>3, PTL DEF RuntimeSpec

-------------------------------------------------------------------------------
(***************************************************************************)
(* The notifications.  The queue is always in the order sort() leaves it   *)
(* in, so that what is cut off its end is no more urgent than what stays.  *)
(***************************************************************************)
InOrder(queue) ==
  \A i, j \in 1..Len(queue) : i < j => Priority[queue[i]] <= Priority[queue[j]]

NotifyInv == NotifyTypeOK /\ InOrder(items)

\* A priority can be compared.
LEMMA PriorityType == \A k \in Keys : Priority[k] \in Nat
  BY NotifyAssumption

\* append() and sort(): everything is still there, and in order.
LEMMA InsertedKeeps ==
  ASSUME NEW q \in Seq(Keys), InOrder(q), NEW k \in Keys, NEW p \in Slots(q, k),
         NEW s, s = Inserted(q, k, p)
  PROVE  /\ s \in Seq(Keys) /\ Len(s) = Len(q) + 1 /\ InOrder(s)
         /\ \E i \in 1..Len(s) : s[i] = k
         /\ \A i \in 1..Len(q) : \E j \in 1..Len(s) : s[j] = q[i]
  <1> DEFINE n == Len(q)
  <1>1. n \in Nat /\ p \in 1..(n + 1) /\ DOMAIN q = 1..n
    BY LenProperties DEF Slots
  <1>2. \A i \in 1..n : q[i] \in Keys /\ (Priority[q[i]] <= Priority[k] <=> i < p)
    BY <1>1, ElementOfSeq DEF Slots
  <1>3. s = [i \in 1..(n + 1) |-> IF i < p THEN q[i] ELSE IF i = p THEN k ELSE q[i - 1]]
    BY DEF Inserted
  <1> HIDE DEF n
  <1>4. \A i \in 1..(n + 1) : /\ i < p => i \in 1..n
                              /\ i > p => i - 1 \in 1..n
    BY <1>1
  <1>5. \A i \in 1..(n + 1) :
          s[i] \in Keys /\ s[i] = IF i < p THEN q[i] ELSE IF i = p THEN k ELSE q[i - 1]
    BY <1>1, <1>2, <1>3, <1>4
  <1>6. s \in Seq(Keys) /\ Len(s) = n + 1
    BY <1>1, <1>3, <1>5
  <1>7. InOrder(s)
    <2> SUFFICES ASSUME NEW i \in 1..(n + 1), NEW j \in 1..(n + 1), i < j
                 PROVE  Priority[s[i]] <= Priority[s[j]]
      BY <1>6 DEF InOrder
    <2>1. CASE j < p
      <3>1. i \in 1..n /\ j \in 1..n /\ s[i] = q[i] /\ s[j] = q[j]
        BY <1>1, <1>4, <1>5, <2>1
      <3> QED
        BY <3>1 DEF InOrder, n
    <2>2. CASE i < p /\ j = p
      BY <1>2, <1>4, <1>5, <2>2
    <2>3. CASE i < p /\ j > p
      <3>1. i \in 1..n /\ j - 1 \in 1..n /\ ~(j - 1 < p) /\ s[i] = q[i] /\ s[j] = q[j - 1]
        BY <1>1, <1>4, <1>5, <2>3
      <3>2. Priority[q[i]] <= Priority[k] /\ ~(Priority[q[j - 1]] <= Priority[k])
        BY <1>2, <3>1, <2>3
      <3>3. /\ Priority[q[i]] \in Nat /\ Priority[k] \in Nat
            /\ Priority[q[j - 1]] \in Nat
        BY <1>2, <3>1, PriorityType
      <3>4. Priority[q[i]] <= Priority[q[j - 1]]
        BY <3>2, <3>3
      <3> QED
        BY <3>1, <3>4
    <2>4. CASE i = p
      <3>1. j - 1 \in 1..n /\ ~(j - 1 < p) /\ s[i] = k /\ s[j] = q[j - 1]
        BY <1>1, <1>4, <1>5, <2>4
      <3> QED
        BY <1>2, <3>1, PriorityType
    <2>5. CASE i > p
      <3>1. i - 1 \in 1..n /\ j - 1 \in 1..n /\ i - 1 < j - 1
            /\ s[i] = q[i - 1] /\ s[j] = q[j - 1]
        BY <1>1, <1>4, <1>5, <2>5
      <3> QED
        BY <3>1 DEF InOrder, n
    <2> QED
      BY <1>1, <2>1, <2>2, <2>3, <2>4, <2>5
  <1>8. \E i \in 1..Len(s) : s[i] = k
    BY <1>1, <1>5, <1>6
  <1>9. ASSUME NEW i \in 1..n
        PROVE  \E j \in 1..Len(s) : s[j] = q[i]
    <2>1. CASE i < p
      BY <1>1, <1>5, <1>6, <2>1
    <2>2. CASE ~(i < p)
      <3>1. i + 1 \in 1..(n + 1) /\ ~(i + 1 < p) /\ i + 1 # p /\ (i + 1) - 1 = i
        BY <1>1, <2>2
      <3>2. s[i + 1] = q[i]
        BY <1>5, <3>1
      <3> QED
        BY <1>6, <3>1, <3>2
    <2> QED
      BY <2>1, <2>2
  <1> QED
    BY <1>6, <1>7, <1>8, <1>9 DEF n

\* The cut of a queue that has grown too long: what goes is no more urgent than what stays.
LEMMA CutKeeps ==
  ASSUME NEW s \in Seq(Keys), Len(s) > 0, InOrder(s),
         NEW t, t = SubSeq(s, 1, UpToLimit(Len(s), MaxSize))
  PROVE  /\ t \in Seq(Keys) /\ Len(t) <= MaxSize /\ InOrder(t)
         /\ \A i \in 1..Len(s) :
              \/ \E j \in 1..Len(t) : t[j] = s[i]
              \/ Len(t) = MaxSize /\ \A j \in 1..Len(t) : Priority[t[j]] <= Priority[s[i]]
  <1> DEFINE m == UpToLimit(Len(s), MaxSize)
  <1>1. /\ Len(s) \in Nat /\ MaxSize \in Nat \ {0} /\ m \in 1..Len(s) /\ m <= MaxSize
        /\ m = Len(s) \/ m = MaxSize
    BY LenProperties, NotifyAssumption DEF UpToLimit
  <1>2. t = SubSeq(s, 1, m)
    OBVIOUS
  <1> HIDE DEF m
  <1>3. \A i \in 1..m : s[i] \in Keys
    BY <1>1, ElementOfSeq
  <1>4. t \in Seq(Keys) /\ Len(t) = m /\ \A i \in 1..m : t[i] = s[i]
    <2>1. /\ SubSeq(s, 1, m) \in Seq(Keys)
          /\ Len(SubSeq(s, 1, m)) = IF 1 <= m THEN m - 1 + 1 ELSE 0
          /\ \A i \in 1..(m - 1 + 1) : SubSeq(s, 1, m)[i] = s[1 + i - 1]
      BY <1>1, <1>3, SubSeqProperties
    <2>2. m - 1 + 1 = m /\ 1 <= m /\ \A i \in 1..m : 1 + i - 1 = i
      BY <1>1
    <2>3. SubSeq(s, 1, m) \in Seq(Keys) /\ Len(SubSeq(s, 1, m)) = m
      BY <2>1, <2>2
    <2>4. \A i \in 1..m : SubSeq(s, 1, m)[i] = s[i]
      BY <2>1, <2>2
    <2> QED
      BY <1>2, <2>3, <2>4
  <1>5. InOrder(t)
    <2>1. \A i \in 1..m : i \in 1..Len(s)
      BY <1>1
    <2> QED
      BY <1>4, <2>1 DEF InOrder
  <1>6. ASSUME NEW i \in 1..Len(s)
        PROVE  \/ \E j \in 1..Len(t) : t[j] = s[i]
               \/ Len(t) = MaxSize /\ \A j \in 1..Len(t) : Priority[t[j]] <= Priority[s[i]]
    <2>1. CASE i <= m
      BY <1>1, <1>4, <2>1
    <2>2. CASE ~(i <= m)
      <3>1. m = MaxSize /\ \A j \in 1..m : j \in 1..Len(s) /\ j < i
        BY <1>1, <2>2
      <3> QED
        BY <1>4, <3>1 DEF InOrder
    <2> QED
      BY <2>1, <2>2
  <1> QED
    BY <1>1, <1>4, <1>5, <1>6

\* The list comprehension keeps the order, and everything of another key.
LEMMA WithoutKeeps ==
  ASSUME NEW q \in Seq(Keys), InOrder(q), NEW k, NEW r \in Without(q, k)
  PROVE  /\ r \in Seq(Keys) /\ InOrder(r)
         /\ \A i \in 1..Len(q) : q[i] # k => \E j \in 1..Len(r) : r[j] = q[i]
  <1>0. PICK kept \in UNION {[1..n -> DOMAIN q] : n \in 0..Len(q)} :
          /\ \A i, j \in DOMAIN kept : i < j => kept[i] < kept[j]
          /\ \A i \in DOMAIN q : q[i] # k <=> \E j \in DOMAIN kept : kept[j] = i
          /\ r = [j \in DOMAIN kept |-> q[kept[j]]]
    BY DEF Without
  <1>1. PICK n \in 0..Len(q) : kept \in [1..n -> DOMAIN q]
    BY <1>0
  <1>2. Len(q) \in Nat /\ n \in Nat /\ DOMAIN q = 1..Len(q) /\ DOMAIN kept = 1..n
    BY <1>1, LenProperties
  <1>3. \A j \in 1..n : kept[j] \in 1..Len(q) /\ q[kept[j]] \in Keys
    BY <1>1, <1>2, ElementOfSeq
  <1>4. r = [j \in 1..n |-> q[kept[j]]]
    BY <1>0, <1>2
  <1>5. r \in Seq(Keys) /\ Len(r) = n /\ \A j \in 1..n : r[j] = q[kept[j]]
    BY <1>2, <1>3, <1>4
  <1>6. InOrder(r)
    BY <1>0, <1>2, <1>3, <1>5 DEF InOrder
  <1> QED
    BY <1>0, <1>2, <1>5, <1>6

\* What becomes of a key that is put into the queue, and of those that were in it.
LEMMA PublishesKeeps ==
  ASSUME NotifyInv, NEW k \in Keys, Publishes(k)
  PROVE  /\ items' \in Seq(Keys) /\ Len(items') <= MaxSize /\ InOrder(items')
         /\ known' \in [Keys -> 0..2]
         /\ \A j \in Keys :
              j = k \/ (\E i \in DOMAIN items : items[i] = j) =>
                \/ \E i \in DOMAIN items' : items'[i] = j
                \/ /\ Len(items') = MaxSize
                   /\ \A i \in DOMAIN items' : Priority[items'[i]] <= Priority[j]
  <1>1. PICK q \in {items} \union (IF known[k] = 2 THEN Without(items, k) ELSE {}) :
          \E p \in Slots(q, k) : items' = Kept(q, k, p)
    BY DEF Publishes
  <1>2. /\ q \in Seq(Keys) /\ InOrder(q)
        /\ \A i \in 1..Len(items) : items[i] # k => \E j \in 1..Len(q) : q[j] = items[i]
    <2>0. items \in Seq(Keys) /\ InOrder(items)
      BY DEF NotifyInv, NotifyTypeOK
    <2>1. CASE q = items
      BY <2>0, <2>1
    <2>2. CASE q \in Without(items, k)
      BY <2>0, <2>2, WithoutKeeps
    <2> QED
      BY <1>1, <2>1, <2>2
  <1>3. PICK p \in Slots(q, k) : items' = Kept(q, k, p)
    BY <1>1
  <1>4. PICK s : s = Inserted(q, k, p)
    OBVIOUS
  <1>5. /\ s \in Seq(Keys) /\ Len(s) = Len(q) + 1 /\ InOrder(s)
        /\ \E i \in 1..Len(s) : s[i] = k
        /\ \A i \in 1..Len(q) : \E j \in 1..Len(s) : s[j] = q[i]
    BY <1>2, <1>4, InsertedKeeps
  <1>6. PICK t : t = SubSeq(s, 1, UpToLimit(Len(s), MaxSize))
    OBVIOUS
  <1>7. items' = t
    BY <1>3, <1>4, <1>5, <1>6 DEF Kept
  <1>8. Len(s) > 0
    BY <1>2, <1>5, LenProperties
  <1>9. /\ t \in Seq(Keys) /\ Len(t) <= MaxSize /\ InOrder(t)
        /\ \A i \in 1..Len(s) :
             \/ \E j \in 1..Len(t) : t[j] = s[i]
             \/ Len(t) = MaxSize /\ \A j \in 1..Len(t) : Priority[t[j]] <= Priority[s[i]]
    BY <1>5, <1>6, <1>8, CutKeeps
  <1>10. known' \in [Keys -> 0..2]
    BY DEF Publishes, NotifyInv, NotifyTypeOK, UpToLimit
  <1>11. DOMAIN items = 1..Len(items) /\ DOMAIN t = 1..Len(t)
    BY <1>9, LenProperties DEF NotifyInv, NotifyTypeOK
  <1>12. ASSUME NEW j \in Keys, j = k \/ (\E i \in DOMAIN items : items[i] = j)
         PROVE  \/ \E i \in 1..Len(t) : t[i] = j
                \/ Len(t) = MaxSize /\ \A i \in 1..Len(t) : Priority[t[i]] <= Priority[j]
    <2>1. PICK i \in 1..Len(s) : s[i] = j
      BY <1>2, <1>5, <1>11, <1>12
    <2> QED
      BY <1>9, <2>1
  <1> QED
    BY <1>7, <1>9, <1>10, <1>11, <1>12

LEMMA NotifyStart == NotifyInit => NotifyInv
  <1> SUFFICES ASSUME NotifyInit
               PROVE  NotifyInv
    OBVIOUS
  <1>1. items = <<>> /\ items \in Seq(Keys) /\ Len(items) = 0
    BY EmptySeq DEF NotifyInit
  <1>2. InOrder(items)
    BY <1>1 DEF InOrder
  <1>3. /\ popped \in [0..Minute -> 0..Rate] /\ known \in [Keys -> 0..2]
        /\ retry \in 0..MaxRetry /\ published \in 0..MaxPublished
    BY NotifyAssumption DEF NotifyInit
  <1>4. Len(items) <= MaxSize
    BY <1>1, NotifyAssumption
  <1>5. flushing \in BOOLEAN /\ up \in BOOLEAN /\ hand \in Keys \union {NoKey}
        /\ owed \in SUBSET Keys
    BY DEF NotifyInit
  <1>6. NotifyTypeOK
    BY <1>1, <1>3, <1>4, <1>5 DEF NotifyTypeOK
  <1> QED
    BY <1>2, <1>6 DEF NotifyInv

\* Putting back what is in hand, or giving it up, keeps the types and the order.
LEMMA HandKeeps ==
  ASSUME NotifyInv, hand # NoKey,
         Publishes(hand) \/ UNCHANGED <<items, known>>
  PROVE  /\ items' \in Seq(Keys) /\ Len(items') <= MaxSize /\ InOrder(items')
         /\ known' \in [Keys -> 0..2]
  <1>1. hand \in Keys
    BY DEF NotifyInv, NotifyTypeOK
  <1>2. CASE Publishes(hand)
    BY <1>1, <1>2, PublishesKeeps
  <1>3. CASE UNCHANGED <<items, known>>
    BY <1>3 DEF NotifyInv, NotifyTypeOK
  <1> QED
    BY <1>2, <1>3

LEMMA NotifyStep ==
  ASSUME NotifyInv, [NotifyNext]_notifyVars
  PROVE  NotifyInv'
  <1> USE NotifyAssumption DEF NotifyInv, NotifyTypeOK
  <1>1. ASSUME NEW k \in Keys, Publish(k)
        PROVE  NotifyInv'
    <2>1. /\ items' \in Seq(Keys) /\ Len(items') <= MaxSize /\ InOrder(items')
          /\ known' \in [Keys -> 0..2]
      BY <1>1, PublishesKeeps DEF Publish
    <2>2. InOrder(items)'
      BY <2>1 DEF InOrder
    <2> QED
      BY <1>1, <2>1, <2>2 DEF Publish
  <1>2. CASE PopReady
    <2>1. items # <<>>
      BY <1>2 DEF PopReady, Ready
    <2>2. /\ Head(items) \in Keys /\ Tail(items) \in Seq(Keys)
          /\ Len(Tail(items)) = Len(items) - 1
          /\ \A i \in 1..Len(Tail(items)) : Tail(items)[i] = items[i + 1]
      BY <2>1, HeadTailProperties
    <2>3. InOrder(items)'
      <3>1. Len(items) \in Nat /\ Len(items') = Len(items) - 1
        BY <1>2, <2>2, LenProperties DEF PopReady
      <3>2. \A i \in 1..Len(items') : items'[i] = items[i + 1] /\ i + 1 \in 1..Len(items)
        BY <1>2, <2>2, <3>1 DEF PopReady
      <3>3. \A i, j \in 1..Len(items') : i < j => i + 1 < j + 1
        OBVIOUS
      <3> QED
        BY <3>2, <3>3 DEF InOrder
    <2>4. popped' \in [0..Minute -> 0..Rate]
      <3>1. popped[0] \in 0..Rate
        OBVIOUS
      <3>2. UpToLimit(popped[0] + 1, Rate) \in 0..Rate
        BY <3>1 DEF UpToLimit
      <3> QED
        BY <1>2, <3>2 DEF PopReady
    <2>5. Len(items') <= MaxSize
      BY <1>2, <2>2, LenProperties DEF PopReady
    <2> QED
      BY <1>2, <2>2, <2>3, <2>4, <2>5 DEF PopReady
  <1>3. CASE SendRaises \/ \E later \in 0..MaxRetry : Throttled(later)
    <2>1. hand # NoKey /\ (Publishes(hand) \/ UNCHANGED <<items, known>>)
      BY <1>3 DEF SendRaises, Throttled
    <2>2. /\ items' \in Seq(Keys) /\ Len(items') <= MaxSize /\ InOrder(items')
          /\ known' \in [Keys -> 0..2]
      BY <2>1, HandKeeps
    <2>3. InOrder(items)'
      BY <2>2 DEF InOrder
    <2> QED
      BY <1>3, <2>2, <2>3 DEF SendRaises, Throttled
  <1>4. CASE NotifyElapse
    <2>1. popped' \in [0..Minute -> 0..Rate]
      BY <1>4 DEF NotifyElapse
    <2>2. retry' \in 0..MaxRetry
      BY <1>4 DEF NotifyElapse
    <2> QED
      BY <1>4, <2>1, <2>2 DEF NotifyElapse, InOrder
  <1>5. CASE Flush \/ NothingReady \/ Sent \/ TransportChanges \/ UNCHANGED notifyVars
    BY <1>5 DEF Flush, NothingReady, Sent, TransportChanges, notifyVars, queueVars, InOrder
  <1> QED
    BY <1>1, <1>2, <1>3, <1>4, <1>5 DEF NotifyNext, FlushStep

\* UrgentKept of one key and one step: it stays, or the queue is full of what is as urgent.
LEMMA UrgentStep ==
  ASSUME NotifyInv, [NotifyNext]_notifyVars, NEW k \in owed', Priority[k] <= 1,
         k \in owed => Held(k)
  PROVE  \/ Held(k)'
         \/ /\ Len(items') = MaxSize
            /\ \A i \in DOMAIN items' : Priority[items'[i]] <= Priority[k]
  <1> USE NotifyAssumption DEF NotifyInv, NotifyTypeOK
  <1>0. k \in Keys /\ owed' \subseteq Keys
    BY NotifyStep
  <1>1. ASSUME NEW j \in Keys, Publish(j)
        PROVE  \/ Held(k)'
               \/ /\ Len(items') = MaxSize
                  /\ \A i \in DOMAIN items' : Priority[items'[i]] <= Priority[k]
    <2>1. k = j \/ Held(k)
      BY <1>1 DEF Publish
    <2>2. CASE hand = k
      BY <1>1, <2>2 DEF Publish, Held
    <2>3. CASE k = j \/ \E i \in DOMAIN items : items[i] = k
      BY <1>0, <1>1, <2>3, PublishesKeeps DEF Publish, Held
    <2> QED
      BY <2>1, <2>2, <2>3 DEF Held
  <1>2. CASE PopReady
    <2>1. k \in owed /\ Held(k) /\ items # <<>> /\ hand = NoKey
      BY <1>2 DEF PopReady, Ready
    <2>2. PICK i \in 1..Len(items) : items[i] = k
      BY <1>0, <2>1, LenProperties DEF Held
    <2>3. CASE i = 1
      BY <1>2, <2>2, <2>3 DEF PopReady, Held
    <2>4. CASE i # 1
      <3>1. /\ Len(items') = Len(items) - 1 /\ items' \in Seq(Keys)
            /\ \A n \in 1..Len(items') : items'[n] = items[n + 1]
        BY <1>2, <2>1, HeadTailProperties DEF PopReady
      <3>2. i - 1 \in 1..Len(items') /\ (i - 1) + 1 = i
        BY <2>2, <2>4, <3>1, LenProperties
      <3>3. items'[i - 1] = k /\ i - 1 \in DOMAIN items'
        BY <2>2, <3>1, <3>2, LenProperties
      <3> QED
        BY <3>3 DEF Held
    <2> QED
      BY <2>3, <2>4
  <1>3. CASE Sent
    BY <1>3 DEF Sent, Held, queueVars
  <1>4. CASE SendRaises \/ \E later \in 0..MaxRetry : Throttled(later)
    <2>1. hand \in Keys /\ k \in owed /\ Held(k)
      BY <1>4 DEF SendRaises, Throttled
    <2>2. CASE Publishes(hand)
      BY <1>0, <2>1, <2>2, PublishesKeeps DEF Held
    <2>3. CASE ~Publishes(hand)
      <3>1. ~(Priority[hand] <= 1) /\ items' = items
        BY <1>4, <2>3 DEF SendRaises, Throttled
      <3>2. hand # k
        BY <3>1
      <3> QED
        BY <2>1, <3>1, <3>2 DEF Held
    <2> QED
      BY <2>2, <2>3
  <1>5. CASE Flush \/ NothingReady \/ NotifyElapse \/ TransportChanges \/ UNCHANGED notifyVars
    BY <1>5 DEF Flush, NothingReady, NotifyElapse, TransportChanges, notifyVars, queueVars, Held
  <1> QED
    BY <1>1, <1>2, <1>3, <1>4, <1>5 DEF NotifyNext, FlushStep

(***************************************************************************)
(* publish() and flush_notifications(): a P0 or P1 leaves the queue only   *)
(* into the hand and the hand only when it was told or back into the queue;*)
(* only a queue full of what is as urgent pushes it out.                   *)
(***************************************************************************)
THEOREM UrgentIsKept == NotifySpec => [](NotifyTypeOK /\ InOrder(items)) /\ UrgentKept
  <1>1. NotifyInit => NotifyInv
    BY NotifyStart
  <1>2. NotifyInv /\ [NotifyNext]_notifyVars => NotifyInv'
    BY NotifyStep
  <1>3. NotifyInv /\ [NotifyNext]_notifyVars =>
          [\A k \in owed' :
             Priority[k] <= 1 /\ ~Held(k)' =>
               \/ k \in owed /\ ~Held(k)
               \/ Len(items') = MaxSize /\ \A i \in DOMAIN items' : Priority[items'[i]] <= Priority[k]
          ]_notifyVars
    BY UrgentStep
  <1>4. NotifyInv => NotifyTypeOK /\ InOrder(items)
    BY DEF NotifyInv
  <1> QED
    BY <1>1, <1>2, <1>3, <1>4, PTL DEF NotifySpec, UrgentKept

-------------------------------------------------------------------------------
(***************************************************************************)
(* All six side by side.                                                   *)
(***************************************************************************)
GuardsInv == CoolingInv /\ RedInv /\ FoundInv /\ OneThreadInv /\ NotifyInv /\ GateInv

LEMMA GuardsStep == GuardsInv /\ [Next]_vars => GuardsInv'
  <1> SUFFICES ASSUME GuardsInv, [Next]_vars
               PROVE  GuardsInv'
    OBVIOUS
  <1>1. /\ [GovernorNext]_governorVars /\ [RiskNext]_riskVars /\ [UnknownNext]_unknownVars
        /\ [RuntimeNext]_runtimeVars /\ [NotifyNext]_notifyVars
        /\ [GateNext]_gateVars
    BY DEF Next, vars, GovernorWorks, RiskWorks, UnknownWorks, RuntimeWorks, NotifyWorks,
           Notifies, GateWorks, Gates, Rest
  <1> QED
    BY <1>1, CoolingStep, RedStep, FoundStep, OneThreadStep, NotifyStep, GateStep DEF GuardsInv

(***************************************************************************)
(* The governor, the risk engine, the resolver, the desktop's supervisor,  *)
(* the notification queue and the live gate keep to their types next to    *)
(* each other.                                                             *)
(***************************************************************************)
THEOREM GuardsTypes == Spec => []TypeOK
  <1>1. Init => GuardsInv
    BY CoolingStart, RedStart, FoundStart, OneThreadStart, NotifyStart, GateStart DEF Init, GuardsInv
  <1>2. GuardsInv => TypeOK
    BY DEF GuardsInv, CoolingInv, RedInv, FoundInv, OneThreadInv, NotifyInv, GateInv,
           TypeOK
  <1> QED
    BY <1>1, <1>2, GuardsStep, PTL DEF Spec

===============================================================================
