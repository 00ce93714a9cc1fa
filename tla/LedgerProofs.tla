----------------------------- MODULE LedgerProofs -----------------------------
(***************************************************************************)
(* ExecutionEngine implements ExecutionLedger, its recovery settles what   *)
(* was in flight, and in LIVE mode the exchange decides: the second part   *)
(* of the proofs about the engine, on top of its inductive invariant.      *)
(***************************************************************************)
EXTENDS ExecutionProofs, FiniteSetTheorems

USE DEF Execs, AtVenue, Tightened, CancelState

(***************************************************************************)
(* Every change of a record's state is a move of the order state machine.  *)
(***************************************************************************)
LegalStep ==
  \A e \in Execs : store[e].state # "ABSENT" => Moves(store[e].state, store'[e].state)

\* The end of a call along an edge: the record has its new state, the others theirs.
LEMMA FinishMoved ==
  ASSUME TypeOK, NEW e \in Execs, NEW t, NEW x, NEW n, Finish(e, t, x, n),
         Moves(store[e].state, t)
  PROVE  /\ store'[e].state = t /\ \A f \in Execs : f # e => store'[f] = store[f]
         /\ todo' = todo \ {e} /\ call' = Idle
  <1>1. /\ store' = [store EXCEPT ![e] = [@ EXCEPT !.state = t, !.exid = x, !.filled = n]]
        /\ todo' = todo \ {e} /\ call' = Idle
    BY DEF Finish
  <1> QED
    BY <1>1 DEF TypeOK, Record

\* The end of a call moves the record along an edge, or raises and leaves it.
LEMMA FinishLegal ==
  ASSUME TypeOK, NEW e \in Execs, NEW t, NEW x, NEW n, Finish(e, t, x, n)
  PROVE  LegalStep
  <1>1. CASE Moves(store[e].state, t)
    <2>1. store'[e].state = t /\ \A f \in Execs : f # e => store'[f] = store[f]
      BY <1>1, FinishMoved
    <2> QED
      BY <1>1, <2>1 DEF LegalStep, Moves
  <1>2. CASE ~Moves(store[e].state, t)
    BY <1>2 DEF Finish, LegalStep, Moves
  <1> QED
    BY <1>1, <1>2

Ends == RejectLocal \/ SubmitPaper \/ HandleSubmit \/ CancelPaper \/ CancelWithoutId
          \/ HandleCancel \/ HandleFetch

\* The steps that end a call do so by _set_state and save.
LEMMA EndsByFinish ==
  ASSUME Ends
  PROVE  \E t, x, n : Finish(call.exec, t, x, n)
  <1>1. CASE RejectLocal \/ CancelPaper \/ CancelWithoutId \/ HandleCancel
    BY <1>1 DEF RejectLocal, CancelPaper, CancelWithoutId, HandleCancel, FinishState
  <1>2. CASE HandleSubmit \/ HandleFetch
    BY <1>2 DEF HandleSubmit, HandleFetch, ApplyResponse, FinishState
  <1>3. CASE SubmitPaper
    <2>1. PICK i, o : ApplyResponse(call.exec, View(i, o), call.allowed)
      BY <1>3 DEF SubmitPaper
    <2> QED
      BY <2>1 DEF ApplyResponse
  <1> QED
    BY <1>1, <1>2, <1>3 DEF Ends

\* A step that rewrites the state of one record along an edge is legal.
LEMMA MoveLegal ==
  ASSUME TypeOK, NEW e \in Execs, NEW t, Moves(store[e].state, t),
         store' = [store EXCEPT ![e].state = t]
  PROVE  LegalStep
  <1>1. store'[e].state = t /\ \A f \in Execs : f # e => store'[f] = store[f]
    BY DEF TypeOK, Record
  <1> QED
    BY <1>1 DEF LegalStep, Moves

\* No step moves a record but along an edge.
LEMMA StepLegal ==
  ASSUME TypeOK, CallMatchesRecord, [Next]_vars
  PROVE  LegalStep
  <1>0. call.pc \notin {"idle", "down"} => call.exec \in Execs
    BY ServedIsActive
  <1>1. CASE store' = store
    BY <1>1 DEF LegalStep, Moves
  <1>2. CASE Ends
    <2>1. call.exec \in Execs
      BY <1>0, <1>2 DEF Ends, RejectLocal, SubmitPaper, HandleSubmit, CancelPaper,
                        CancelWithoutId, HandleCancel, HandleFetch
    <2> QED
      BY <1>2, <2>1, EndsByFinish, FinishLegal
  <1>3. CASE StartSubmitting
    <2>1. /\ call.exec \in Execs /\ store[call.exec].state = "RISK_APPROVED"
          /\ store' = [store EXCEPT ![call.exec].state = "SUBMITTING"]
      BY <1>0, <1>3 DEF StartSubmitting, CallMatchesRecord
    <2>2. Moves("RISK_APPROVED", "SUBMITTING")
      BY DEF Moves, Successors
    <2> QED
      BY <2>1, <2>2, MoveLegal
  <1>4. ASSUME NEW e \in Execs, StartReconcile(e)
        PROVE  LegalStep
    <2> DEFINE t == IF Moves(store[e].state, "RECONCILING") THEN "RECONCILING"
                                                            ELSE store[e].state
    <2>1. store' = [store EXCEPT ![e].state = t]
      BY <1>4 DEF StartReconcile
    <2>2. Moves(store[e].state, t)
      BY DEF Moves
    <2> HIDE DEF t
    <2> QED
      BY <2>1, <2>2, MoveLegal
  <1>5. ASSUME NEW e \in Execs, Cancel(e)
        PROVE  LegalStep
    BY <1>5, MoveLegal DEF Cancel
  <1>6. ASSUME NEW c \in ClientIds, Submit(c)
        PROVE  LegalStep
    BY <1>6 DEF Submit, Fresh, LegalStep, Moves, TypeOK
  <1>7. CASE EngineStep
    <2>1. Ends \/ StartSubmitting \/ store' = store \/ \E e \in todo : StartReconcile(e)
      BY <1>7 DEF EngineStep, Ends, RecoverNext, VenueAccepts, VenueRefuses, CancelLive, Fetch
    <2>2. todo \subseteq Execs
      BY DEF TypeOK
    <2> QED
      BY <1>1, <1>2, <1>3, <1>4, <2>1, <2>2
  <1>8. CASE Caller
    BY <1>1, <1>4, <1>5, <1>6, <1>8 DEF Caller, Reconcile, StartRecovery, SetMode
  <1>9. CASE \/ Crash \/ Restart \/ UNCHANGED vars
             \/ \E v \in VenueIds : VenueFill(v) \/ VenueCancel(v)
    BY <1>1, <1>9 DEF Crash, Restart, vars, VenueFill, VenueCancel
  <1> QED
    BY <1>7, <1>8, <1>9 DEF Next

-------------------------------------------------------------------------------
(***************************************************************************)
(* The attempts of create_order bound the orders of an execution.          *)
(***************************************************************************)

\* The orders an execution has at the exchange can be counted.
LEMMA OrdersFinite ==
  ASSUME TypeOK, NEW e
  PROVE  IsFiniteSet(OrdersOf(e)) /\ Cardinality(OrdersOf(e)) \in Nat
  <1>1. IsFiniteSet({"live"})
    BY FS_Singleton
  <1>0. IsFiniteSet(1..MaxOrders)
    BY FS_Interval, BoundAssumption
  <1>2. IsFiniteSet(VenueIds)
    BY <1>0, <1>1, FS_Product DEF VenueIds
  <1>3. OrdersOf(e) \subseteq VenueIds
    BY DEF OrdersOf, Present, TypeOK
  <1> QED
    BY <1>2, <1>3, FS_Subset, FS_CardinalityType

\* A step that keeps the owners of the orders keeps each execution's orders.
LEMMA OrdersKept ==
  ASSUME TypeOK, TypeOK', VenueKeeps
  PROVE  \A e : OrdersOf(e)' = OrdersOf(e)
  <1>1. Present(venue) \subseteq VenueIds /\ Present(venue)' \subseteq VenueIds
    BY DEF Present, TypeOK
  <1>2. Present(venue)' = Present(venue)
    BY <1>1 DEF VenueKeeps
  <1>3. \A v \in Present(venue) : venue'[v].exec = venue[v].exec
    BY <1>1 DEF VenueKeeps
  <1> QED
    BY <1>2, <1>3 DEF OrdersOf

\* An accepted create_order is one more order of the execution being served, which is
\* SUBMITTING, and of no other.
LEMMA AcceptPlaces ==
  ASSUME TypeOK, CallMatchesRecord, VenueAccepts
  PROVE  \E v \in VenueIds :
           /\ v \notin Present(venue)
           /\ \A e : OrdersOf(e)' = IF e = call.exec THEN OrdersOf(e) \union {v}
                                                     ELSE OrdersOf(e)
  <1>1. PICK v, o :
          /\ v \in VenueIds \ Present(venue)
          /\ venue' = [venue EXCEPT ![v] = o] /\ o.exec = call.exec /\ o.status # "absent"
    <2>1. PICK v \in VenueIds \ Present(venue), f \in 0..call.allowed,
               s \in {"open", "closed", "canceled", "rejected"} :
            venue' = [venue EXCEPT ![v] =
                        [exec |-> call.exec, client |-> store[call.exec].client,
                         qty |-> call.allowed, filled |-> f, status |-> s]]
      BY DEF VenueAccepts
    <2> DEFINE o == [exec |-> call.exec, client |-> store[call.exec].client,
                     qty |-> call.allowed, filled |-> f, status |-> s]
    <2>2. o.exec = call.exec /\ o.status # "absent" /\ venue' = [venue EXCEPT ![v] = o]
      BY <2>1
    <2> HIDE DEF o
    <2> QED
      BY <2>2
  <1>2. DOMAIN venue = VenueIds /\ DOMAIN venue' = VenueIds
    BY <1>1 DEF TypeOK
  <1>3. venue'[v] = o /\ \A w \in VenueIds : w # v => venue'[w] = venue[w]
    BY <1>1, <1>2
  <1>4. \A w : w \in Present(venue)' <=> w = v \/ w \in Present(venue)
    BY <1>1, <1>2, <1>3 DEF Present
  <1>5. \A e, w : w \in OrdersOf(e)' <=>
                    w \in OrdersOf(e) \/ (w = v /\ e = call.exec)
    BY <1>1, <1>2, <1>3, <1>4 DEF OrdersOf, Present
  <1>6. ASSUME NEW e
        PROVE  OrdersOf(e)' = IF e = call.exec THEN OrdersOf(e) \union {v} ELSE OrdersOf(e)
    <2>1. CASE e = call.exec
      <3>1. \A w : w \in OrdersOf(e)' <=> w \in OrdersOf(e) \union {v}
        BY <1>5, <2>1
      <3>2. OrdersOf(e)' = OrdersOf(e) \union {v}
        BY <3>1 DEF OrdersOf
      <3> QED
        BY <2>1, <3>2
    <2>2. CASE e # call.exec
      <3>1. \A w : w \in OrdersOf(e)' <=> w \in OrdersOf(e)
        BY <1>5, <2>2
      <3>2. OrdersOf(e)' = OrdersOf(e)
        BY <3>1 DEF OrdersOf
      <3> QED
        BY <2>2, <3>2
    <2> QED
      BY <2>1, <2>2
  <1> QED
    BY <1>1, <1>6

\* Between calls nothing has been attempted.
LEMMA IdleCounted ==
  ASSUME call' \in {Idle, [Idle EXCEPT !.pc = "down"]}
  PROVE  AttemptsCounted'
  BY ConstantTypes DEF Idle, AttemptsCounted

\* Every step keeps the count: an order is accepted only by an attempt.
LEMMA AttemptsStep ==
  ASSUME TypeOK, TypeOK', CallMatchesRecord, PersistedBeforeSent, AttemptsCounted,
         [Next]_vars
  PROVE  AttemptsCounted'
  <1> USE DEF TypeOK
  <1>0. call.pc \notin {"idle", "down"} => call.exec \in Execs
    BY ServedIsActive
  <1>1. CASE Ends \/ Crash \/ Restart
    <2>1. call' \in {Idle, [Idle EXCEPT !.pc = "down"]}
      <3>1. CASE Ends
        BY <3>1, EndsByFinish DEF Finish
      <3> QED
        BY <1>1, <3>1 DEF Crash, Restart
    <2> QED
      BY <2>1, IdleCounted
  <1>2. CASE /\ call'.pc # "sending"
             /\ call'.tries = 0 \/ call'.tries = call.tries
    BY <1>2, ConstantTypes DEF AttemptsCounted
  <1>3. CASE StartSubmitting
    <2>1. /\ call'.pc = "sending" /\ call'.exec = call.exec /\ call'.tries = call.tries
          /\ call.exec \in Execs /\ venue' = venue
      BY <1>0, <1>3 DEF StartSubmitting, Calls
    <2>2. store[call.exec].state = "RISK_APPROVED"
      BY <1>3 DEF StartSubmitting, CallMatchesRecord
    <2>3. \A e : e = call.exec => OrdersOf(e) = {} /\ OrdersOf(e)' = {}
      BY <2>1, <2>2 DEF OrdersOf, PersistedBeforeSent, Present
    <2>4. call.tries \in Nat /\ Cardinality({}) = 0
      BY FS_EmptySet DEF Calls
    <2>5. ASSUME NEW e, e = call'.exec
          PROVE  Cardinality(OrdersOf(e)') <= call'.tries
      <3>1. OrdersOf(e)' = {}
        BY <2>1, <2>3, <2>5
      <3>2. Cardinality(OrdersOf(e)') = 0
        BY <2>4, <3>1, Zenon
      <3> QED
        BY <2>1, <2>4, <3>2
    <2> QED
      BY <2>1, <2>4, <2>5, ConstantTypes DEF AttemptsCounted
  <1>4. CASE VenueAccepts \/ VenueRefuses
    <2>1. call.pc = "sending" /\ call.exec \in Execs
      BY <1>0, <1>4 DEF VenueAccepts, VenueRefuses
    <2>2. \/ call'.pc = "sent" /\ call'.tries = call.tries
          \/ /\ call'.pc = "sending" /\ call'.exec = call.exec
             /\ call.tries < Retries /\ call'.tries = call.tries + 1
      <3>1. PICK r : Reply(r)
        BY <1>4 DEF VenueAccepts, VenueRefuses
      <3> QED
        BY <2>1, <3>1 DEF Reply, Calls
    <2>3. ASSUME NEW e, e = call.exec
          PROVE  /\ Cardinality(OrdersOf(e)') \in Nat /\ Cardinality(OrdersOf(e)) \in Nat
                 /\ Cardinality(OrdersOf(e)') <= Cardinality(OrdersOf(e)) + 1
      <3>1. IsFiniteSet(OrdersOf(e)) /\ Cardinality(OrdersOf(e)) \in Nat
        BY OrdersFinite
      <3>2. CASE VenueAccepts
        <4>1. PICK v : OrdersOf(e)' = OrdersOf(e) \union {v}
          BY <2>3, <3>2, AcceptPlaces
        <4> HIDE DEF TypeOK
        <4> QED
          BY <3>1, <4>1, FS_AddElement
      <3>3. CASE VenueRefuses
        <4>1. OrdersOf(e)' = OrdersOf(e)
          BY <3>3 DEF VenueRefuses, OrdersOf, Present
        <4> QED
          BY <3>1, <4>1
      <3> QED
        BY <1>4, <3>2, <3>3
    <2>4. CASE call'.pc = "sending"
      <3>1. call'.exec = call.exec /\ call.tries < Retries /\ call'.tries = call.tries + 1
        BY <2>2, <2>4
      <3>2. call.tries \in Nat
        BY DEF Calls
      <3>3. \A e : e = call.exec => Cardinality(OrdersOf(e)) <= call.tries
        BY <2>1 DEF AttemptsCounted
      <3>4. \A e : e = call'.exec => Cardinality(OrdersOf(e)') <= call'.tries
        BY <2>3, <3>1, <3>2, <3>3
      <3> QED
        BY <3>1, <3>2, <3>4, ConstantTypes DEF AttemptsCounted
    <2> QED
      BY <1>2, <2>2, <2>4
  <1>5. CASE CancelLive \/ Fetch
    <2>1. CASE CancelLive
      <3>1. PICK r : call' = [call EXCEPT !.pc = "canceled", !.raw = r]
        BY <2>1 DEF CancelLive
      <3> QED
        BY <1>2, <3>1 DEF Calls
    <2>2. CASE Fetch
      <3>1. PICK r : call' = [call EXCEPT !.pc = "fetched", !.raw = r]
        BY <2>2 DEF Fetch
      <3> QED
        BY <1>2, <3>1 DEF Calls
    <2> QED
      BY <1>5, <2>1, <2>2
  <1>6. ASSUME NEW e, StartReconcile(e)
        PROVE  AttemptsCounted'
    BY <1>2, <1>6 DEF StartReconcile, Idle
  <1>7. CASE \E e \in Execs : Cancel(e)
    BY <1>2, <1>7 DEF Cancel, Idle
  <1>8. CASE \E c \in ClientIds : Submit(c)
    BY <1>2, <1>8 DEF Submit, Idle
  <1>9. CASE call' = call /\ VenueKeeps
    <2>1. \A e : OrdersOf(e)' = OrdersOf(e)
      BY <1>9, OrdersKept
    <2> QED
      BY <1>9, <2>1 DEF AttemptsCounted
  <1>10. CASE StartRecovery \/ SetMode \/ UNCHANGED vars
    BY <1>9, <1>10 DEF StartRecovery, SetMode, vars, VenueKeeps, Present
  <1>11. ASSUME NEW v \in VenueIds, VenueFill(v) \/ VenueCancel(v)
         PROVE  AttemptsCounted'
    BY <1>9, <1>11, VenueMoves DEF VenueFill, VenueCancel
  <1> QED
    BY <1>1, <1>3, <1>4, <1>5, <1>6, <1>7, <1>8, <1>10, <1>11
    DEF Next, EngineStep, Caller, Ends, RecoverNext, Reconcile

-------------------------------------------------------------------------------
(***************************************************************************)
(* The engine implements the ledger.                                       *)
(***************************************************************************)

\* Along an edge of the state machine the phase of a record stays or moves as the
\* ledger launches and settles; RISK_APPROVED, where a record begins, is no target.
LEMMA PhaseMoves ==
  ASSUME NEW s \in OrderState, NEW t \in OrderState, Moves(s, t),
         s = t \/ t # "RISK_APPROVED"
  PROVE  \/ Phase(t) = Phase(s)
         \/ Phase(s) = "durable" /\ Phase(t) \in {"inflight", "closed"}
         \/ Phase(s) \in {"inflight", "tracked"} /\ Phase(t) \in {"tracked", "filled", "closed"}
  <1>1. CASE s \in {"PROPOSED", "RISK_PENDING", "RISK_APPROVED", "SUBMITTING"}
    BY <1>1 DEF OrderState, Moves, Successors, Phase
  <1>2. CASE s \in {"SUBMITTED", "OPEN", "PARTIALLY_FILLED"}
    BY <1>2 DEF OrderState, Moves, Successors, Phase
  <1>3. CASE s \in {"CANCEL_PENDING", "UNKNOWN", "RECONCILING"}
    BY <1>3 DEF OrderState, Moves, Successors, Phase
  <1>4. CASE s \in Terminal
    BY <1>4 DEF OrderState, Moves, Successors, Phase, Terminal
  <1> QED
    BY <1>1, <1>2, <1>3, <1>4 DEF OrderState, Terminal

\* An empty database and an empty book are a ledger nothing was opened in.
LEMMA LedgerStart == Init => Ledger!LedgerInit
  <1> SUFFICES ASSUME Init
               PROVE  Ledger!LedgerInit
    OBVIOUS
  <1>1. \A e \in Execs : Phase(store[e].state) = "absent" /\ store[e].client = None
    BY NewTypes DEF Init, Phase
  <1>2. \A e \in Execs : OrdersOf(e) = {}
    BY DEF Init, OrdersOf, Present, NoOrder
  <1> QED
    BY <1>1, <1>2 DEF Ledger!LedgerInit

\* The ledger counts as the engine's modules do.
LEMMA SameCardinality ==
  ASSUME NEW S
  PROVE  Ledger!Cardinality(S) = Cardinality(S)
  BY DEF Ledger!Cardinality, Cardinality

\* create_order accepted by the exchange places an order, within the attempts.
LEMMA AcceptIsPlace ==
  ASSUME TypeOK, CallMatchesRecord, AttemptsCounted, VenueAccepts
  PROVE  Ledger!LedgerNext
  <1>1. PICK v \in VenueIds :
          /\ v \notin Present(venue)
          /\ \A e : OrdersOf(e)' = IF e = call.exec THEN OrdersOf(e) \union {v}
                                                    ELSE OrdersOf(e)
    BY AcceptPlaces
  <1>2. /\ call.exec \in Execs /\ store[call.exec].state = "SUBMITTING" /\ store' = store
        /\ call.pc = "sending"
    BY ServedIsActive DEF VenueAccepts, CallMatchesRecord
  <1>3. PICK x \in Execs : x = call.exec
    BY <1>2
  <1>4. Cardinality(OrdersOf(x)) < Retries + 1
    <2>1. Cardinality(OrdersOf(x)) <= call.tries /\ call.tries <= Retries
      BY <1>2, <1>3 DEF AttemptsCounted
    <2>2. Cardinality(OrdersOf(x)) \in Nat /\ call.tries \in Nat
      BY OrdersFinite DEF TypeOK, Calls
    <2> QED
      BY <2>1, <2>2, ConstantTypes
  <1>5. \A e \in Execs : v \notin OrdersOf(e)
    BY <1>1 DEF OrdersOf
  <1>6. Phase(store[x].state) = "inflight"
    BY <1>2, <1>3 DEF Phase
  <1>7. [e \in Execs |-> OrdersOf(e)]'
          = [[e \in Execs |-> OrdersOf(e)] EXCEPT ![x] = @ \union {v}]
    BY <1>1, <1>3
  <1>8. Ledger!Cardinality([e \in Execs |-> OrdersOf(e)][x]) < Retries + 1
    BY <1>4, SameCardinality
  <1>9. Ledger!Place(x, v)
    BY <1>2, <1>5, <1>6, <1>7, <1>8 DEF Ledger!Place
  <1> QED
    BY <1>9 DEF Ledger!LedgerNext

\* A new record of submit opens an execution, all earlier ones of its client id closed.
LEMMA SubmitIsOpen ==
  ASSUME ClockAdvances, TypeOK, EarlierClosed, NEW c \in ClientIds, Submit(c)
  PROVE  Ledger!LedgerNext
  <1>1. PICK x \in Execs : Fresh(x) /\ store' = [store EXCEPT ![x] = Approved(c)]
    BY DEF Submit
  <1>2. /\ store'[x].state = "RISK_APPROVED" /\ store'[x].client = c
        /\ \A f \in Execs : f # x => store'[f] = store[f]
    BY <1>1, NewTypes DEF TypeOK
  <1>3. Phase(store[x].state) = "absent" /\ Phase(store'[x].state) = "durable"
    BY <1>1, <1>2 DEF Fresh, Phase
  <1>4. \A f \in Execs : store[f].client = c => Phase(store[f].state) = "closed"
    <2>1. \A f \in Execs : store[f].client = c => store[f].state \in Terminal \ {"FILLED"}
      BY AllClosed DEF Submit
    <2> QED
      BY <2>1 DEF Terminal, Phase
  <1>5. [e \in Execs |-> Phase(store[e].state)]'
          = [[e \in Execs |-> Phase(store[e].state)] EXCEPT ![x] = "durable"]
    BY <1>2, <1>3
  <1>6. [e \in Execs |-> store[e].client]' = [[e \in Execs |-> store[e].client] EXCEPT ![x] = c]
    BY <1>2
  <1>7. [e \in Execs |-> OrdersOf(e)]' = [e \in Execs |-> OrdersOf(e)]
    BY DEF Submit, OrdersOf, Present
  <1>8. Ledger!Open(x, c)
    BY <1>3, <1>4, <1>5, <1>6, <1>7 DEF Ledger!Open
  <1> QED
    BY <1>8 DEF Ledger!LedgerNext

\* A move of a record launches or settles its execution, or the ledger does not see it.
LEMMA MoveSettles ==
  ASSUME TypeOK, TypeOK', LegalStep, VenueKeeps,
         NEW x \in Execs, NEW r \in Record, RecordMoves(x, r)
  PROVE  Ledger!LedgerNext \/ UNCHANGED Ledger!ledgerVars
  <1>1. /\ store[x].state \in OrderState /\ r.state \in OrderState
        /\ store[x].state # "ABSENT" /\ r.client = store[x].client
        /\ store'[x] = r /\ \A f \in Execs : f # x => store'[f] = store[f]
        /\ store[x].state = r.state \/ r.state # "RISK_APPROVED"
    BY DEF RecordMoves, Active, TypeOK, Record
  <1>2. Moves(store[x].state, r.state)
    BY <1>1 DEF LegalStep
  <1> DEFINE p == Phase(store[x].state)
             q == Phase(r.state)
  <1>3. \/ q = p
        \/ p = "durable" /\ q \in {"inflight", "closed"}
        \/ p \in {"inflight", "tracked"} /\ q \in {"tracked", "filled", "closed"}
    BY <1>1, <1>2, PhaseMoves
  <1>4. [e \in Execs |-> Phase(store[e].state)]'
          = [[e \in Execs |-> Phase(store[e].state)] EXCEPT ![x] = q]
    BY <1>1
  <1>5. [e \in Execs |-> store[e].client]' = [e \in Execs |-> store[e].client]
    BY <1>1
  <1>6. [e \in Execs |-> OrdersOf(e)]' = [e \in Execs |-> OrdersOf(e)]
    BY OrdersKept
  <1>7. [e \in Execs |-> Phase(store[e].state)][x] = p
    OBVIOUS
  <1> HIDE DEF p, q
  <1>8. CASE q = p
    <2>1. [e \in Execs |-> Phase(store[e].state)]' = [e \in Execs |-> Phase(store[e].state)]
      BY <1>4, <1>7, <1>8
    <2> QED
      BY <1>5, <1>6, <2>1 DEF Ledger!ledgerVars
  <1>9. CASE p = "durable" /\ q = "inflight"
    <2>1. Ledger!Launch(x)
      BY <1>4, <1>5, <1>6, <1>7, <1>9 DEF Ledger!Launch
    <2> QED
      BY <2>1 DEF Ledger!LedgerNext
  <1>10. CASE \/ p = "durable" /\ q = "closed"
              \/ p \in {"inflight", "tracked"} /\ q \in {"tracked", "filled", "closed"}
    <2>1. Ledger!Settle(x, q) /\ q \in Ledger!Phases
      BY <1>4, <1>5, <1>6, <1>7, <1>10 DEF Ledger!Settle, Ledger!Phases
    <2> QED
      BY <2>1 DEF Ledger!LedgerNext
  <1> QED
    BY <1>3, <1>8, <1>9, <1>10

\* What the refinement needs of a state.
LedgerInv == IInv /\ EarlierClosed /\ AttemptsCounted

\* Every step of the engine is a step of the ledger, or one it does not see.
LEMMA LedgerStep ==
  ASSUME ClockAdvances, LedgerInv, TypeOK', [Next]_vars
  PROVE  [Ledger!LedgerNext]_(Ledger!ledgerVars)
  <1> USE DEF LedgerInv, IInv
  <1>1. CASE VenueAccepts
    BY <1>1, AcceptIsPlace
  <1>2. CASE VenueKeeps
    <2>1. StoreStep /\ LegalStep
      BY StepTypes, StepLegal
    <2>2. CASE store' = store
      <3>1. [e \in Execs |-> OrdersOf(e)]' = [e \in Execs |-> OrdersOf(e)]
        BY <1>2, OrdersKept
      <3> QED
        BY <2>2, <3>1 DEF Ledger!ledgerVars
    <2>3. ASSUME NEW c \in ClientIds, Submit(c)
          PROVE  Ledger!LedgerNext
      BY <2>3, SubmitIsOpen
    <2>4. ASSUME NEW e \in Execs, NEW r \in Record, RecordMoves(e, r)
          PROVE  Ledger!LedgerNext \/ UNCHANGED Ledger!ledgerVars
      BY <1>2, <2>1, <2>4, MoveSettles
    <2> QED
      BY <2>1, <2>2, <2>3, <2>4 DEF StoreStep
  <1> QED
    BY <1>1, <1>2, VenueStep

\* The invariant of the refinement holds while the clock advances.
LEMMA LedgerInvariance ==
  ASSUME ClockAdvances
  PROVE  Spec => []LedgerInv
  <1>1. Init => EarlierClosed /\ AttemptsCounted
    BY NewTypes, ConstantTypes DEF Init, EarlierClosed, AttemptsCounted, Idle
  <1>2. IInv /\ IInv' /\ EarlierClosed /\ AttemptsCounted /\ [Next]_vars
          => EarlierClosed' /\ AttemptsCounted'
    BY StepTypes, EarlierClosedKept, AttemptsStep DEF IInv
  <1> QED
    BY <1>1, <1>2, Invariance, PTL DEF Spec, LedgerInv

(***************************************************************************)
(* The engine, its store and the exchange together implement the ledger:   *)
(* executions are opened one at a time per client id, launched before an   *)
(* order is placed for them, have at most as many orders as create_order   *)
(* has attempts, and never leave FILLED, CANCELLED, REJECTED or FAILED;    *)
(* through crashes, recoveries and lost answers, while the clock advances. *)
(***************************************************************************)
THEOREM EngineImplementsLedger ==
  ASSUME ClockAdvances
  PROVE  Spec => ImplementsLedger
  <1>1. LedgerInv /\ LedgerInv' /\ [Next]_vars => [Ledger!LedgerNext]_(Ledger!ledgerVars)
    BY LedgerStep DEF LedgerInv, IInv
  <1> QED
    BY <1>1, LedgerStart, LedgerInvariance, PTL DEF Spec, ImplementsLedger, Ledger!LedgerSpec

(***************************************************************************)
(* The retry loop of create_order is the only way to more than one order:  *)
(* no execution ever has more of them than one call makes attempts.        *)
(***************************************************************************)
THEOREM OrdersBounded == Spec => []OrdersWithinAttempts
  <1> DEFINE I == AttemptsCounted /\ OrdersWithinAttempts
  <1>1. Init => I
    <2> SUFFICES ASSUME Init
                 PROVE  I
      OBVIOUS
    <2>1. AttemptsCounted
      BY ConstantTypes DEF Init, AttemptsCounted, Idle
    <2>2. ASSUME NEW e \in Execs
          PROVE  Cardinality(OrdersOf(e)) <= Retries + 1
      <3>1. OrdersOf(e) = {}
        BY DEF Init, OrdersOf, Present, NoOrder
      <3> QED
        BY <3>1, FS_EmptySet, ConstantTypes
    <2> QED
      BY <2>1, <2>2 DEF OrdersWithinAttempts
  <1>2. ASSUME IInv, IInv', I, [Next]_vars
        PROVE  I'
    <2> USE DEF IInv
    <2>1. AttemptsCounted'
      BY <1>2, AttemptsStep
    <2>2. ASSUME NEW e \in Execs
          PROVE  Cardinality(OrdersOf(e)') <= Retries + 1
      <3>1. CASE OrdersOf(e)' = OrdersOf(e)
        BY <1>2, <2>2, <3>1 DEF OrdersWithinAttempts
      <3>2. CASE VenueAccepts /\ e = call.exec
        <4>1. PICK v : OrdersOf(e)' = OrdersOf(e) \union {v}
          BY <1>2, <3>2, AcceptPlaces
        <4>2. IsFiniteSet(OrdersOf(e)) /\ Cardinality(OrdersOf(e)) \in Nat
          BY <1>2, OrdersFinite
        <4>3. Cardinality(OrdersOf(e)') <= Cardinality(OrdersOf(e)) + 1
          BY <4>1, <4>2, FS_AddElement
        <4>4. /\ Cardinality(OrdersOf(e)) <= call.tries /\ call.tries <= Retries
              /\ call.tries \in Nat
          BY <1>2, <3>2 DEF VenueAccepts, AttemptsCounted, TypeOK, Calls
        <4>5. Cardinality(OrdersOf(e)') \in Nat
          BY <4>1, <4>2, FS_AddElement
        <4> QED
          BY <4>2, <4>3, <4>4, <4>5, ConstantTypes
      <3> QED
        BY <1>2, <3>1, <3>2, VenueStep, OrdersKept, AcceptPlaces
    <2> QED
      BY <2>1, <2>2 DEF OrdersWithinAttempts
  <1>3. I => OrdersWithinAttempts
    OBVIOUS
  <1> QED
    BY <1>1, <1>2, <1>3, Invariance, PTL DEF Spec

-------------------------------------------------------------------------------
(***************************************************************************)
(* recover_on_startup().                                                   *)
(***************************************************************************)

\* A new record has no exchange id and no fills, and keeps none until it is answered.
LEMMA UnansweredStep ==
  ASSUME TypeOK, CallMatchesRecord, Unanswered, [Next]_vars
  PROVE  Unanswered'
  <1> USE DEF TypeOK
  <1>0. call.pc \notin {"idle", "down"} => call.exec \in Execs
    BY ServedIsActive
  <1>1. CASE store' = store
    BY <1>1 DEF Unanswered
  <1>2. ASSUME NEW e \in Execs, NEW r,
               store' = [store EXCEPT ![e] = r],
               r.state \in {"RISK_APPROVED", "SUBMITTING"} =>
                 r.exid = None /\ r.filled = 0
        PROVE  Unanswered'
    BY <1>2 DEF Unanswered
  <1>3. CASE Ends
    <2>1. call.exec \in Execs
      BY <1>0, <1>3 DEF Ends, RejectLocal, SubmitPaper, HandleSubmit, CancelPaper,
                        CancelWithoutId, HandleCancel, HandleFetch
    <2>2. PICK t, x, n : /\ t \in OrderState \ {"RISK_APPROVED", "SUBMITTING"}
                         /\ Finish(call.exec, t, x, n)
      <3>1. CASE RejectLocal \/ CancelPaper \/ CancelWithoutId \/ HandleCancel
        BY <3>1 DEF RejectLocal, CancelPaper, CancelWithoutId, HandleCancel, FinishState,
                    OrderState
      <3>2. CASE HandleSubmit \/ HandleFetch
        <4>1. CASE \E raw, a : ApplyResponse(call.exec, raw, a)
          BY <4>1, TargetStates DEF ApplyResponse, OrderState
        <4>2. CASE \E t \in {"UNKNOWN", "FAILED"} : FinishState(call.exec, t)
          BY <4>2 DEF FinishState, OrderState
        <4> QED
          BY <3>2, <4>1, <4>2, TargetStates DEF HandleSubmit, HandleFetch
      <3>3. CASE SubmitPaper
        <4>1. PICK i, o : ApplyResponse(call.exec, View(i, o), call.allowed)
          BY <3>3 DEF SubmitPaper
        <4> QED
          BY <4>1, TargetStates DEF ApplyResponse, OrderState
      <3> QED
        BY <1>3, <3>1, <3>2, <3>3 DEF Ends
    <2> DEFINE r == [store[call.exec] EXCEPT !.state = t, !.exid = x, !.filled = n]
    <2>3. r.state = t
      BY <2>1 DEF Record
    <2>4. store' = store \/ store' = [store EXCEPT ![call.exec] = r]
      BY <2>2 DEF Finish
    <2> HIDE DEF r
    <2> QED
      BY <1>1, <1>2, <2>1, <2>2, <2>3, <2>4
  <1>4. ASSUME NEW e \in Execs, NEW t, store' = [store EXCEPT ![e].state = t],
               t \in {"RISK_APPROVED", "SUBMITTING"} =>
                 store[e].state \in {"RISK_APPROVED", "SUBMITTING"}
        PROVE  Unanswered'
    <2> DEFINE r == [store[e] EXCEPT !.state = t]
    <2>1. r.state = t /\ r.exid = store[e].exid /\ r.filled = store[e].filled
      BY DEF Record
    <2>2. store' = [store EXCEPT ![e] = r]
      BY <1>4
    <2> HIDE DEF r
    <2> QED
      BY <1>2, <1>4, <2>1, <2>2 DEF Unanswered
  <1>5. CASE StartSubmitting
    BY <1>0, <1>4, <1>5 DEF StartSubmitting, CallMatchesRecord
  <1>6. ASSUME NEW e \in Execs, Cancel(e) \/ StartReconcile(e)
        PROVE  Unanswered'
    BY <1>4, <1>6 DEF Cancel, StartReconcile
  <1>7. ASSUME NEW c \in ClientIds, Submit(c)
        PROVE  Unanswered'
    <2>1. Approved(c).exid = None /\ Approved(c).filled = 0
      BY DEF Approved, NoRecord
    <2> QED
      BY <1>2, <1>7, <2>1 DEF Submit
  <1>8. CASE EngineStep
    <2>1. Ends \/ StartSubmitting \/ store' = store \/ \E e \in todo : StartReconcile(e)
      BY <1>8 DEF EngineStep, Ends, RecoverNext, VenueAccepts, VenueRefuses, CancelLive, Fetch
    <2> QED
      BY <1>1, <1>3, <1>5, <1>6, <2>1
  <1>9. CASE Caller
    BY <1>1, <1>6, <1>7, <1>9 DEF Caller, Reconcile, StartRecovery, SetMode
  <1>10. CASE \/ Crash \/ Restart \/ UNCHANGED vars
              \/ \E v \in VenueIds : VenueFill(v) \/ VenueCancel(v)
    BY <1>1, <1>10 DEF Crash, Restart, vars, VenueFill, VenueCancel
  <1> QED
    BY <1>8, <1>9, <1>10 DEF Next

\* Without an exchange id there is nothing to fetch, so nothing is found.
LEMMA FetchedStep ==
  ASSUME TypeOK, FetchedById, [Next]_vars
  PROVE  FetchedById'
  <1> USE DEF TypeOK
  <1>1. CASE call'.pc # "fetched"
    BY <1>1 DEF FetchedById
  <1>2. CASE Fetch
    <2>1. PICK r \in Fetched(store[call.exec].exid) :
            call' = [call EXCEPT !.pc = "fetched", !.raw = r]
      BY <1>2 DEF Fetch
    <2>2. call'.raw = r /\ call'.exec = call.exec /\ store' = store
      BY <1>2, <2>1 DEF Calls, Fetch
    <2>3. Fetched(None) = {Raise("missing")}
      <3>1. None \notin Present(paper)
        BY ConstantTypes DEF Present
      <3> QED
        BY <3>1 DEF Fetched
    <2> QED
      BY <2>1, <2>2, <2>3, FaultType DEF FetchedById
  <1>3. CASE Ends \/ Crash \/ Restart
    <2>1. call'.pc \in {"idle", "down"}
      <3>1. CASE Ends
        <4>1. call' = Idle
          BY <3>1, EndsByFinish DEF Finish
        <4> QED
          BY <4>1, IdleType
      <3> QED
        BY <1>3, <3>1 DEF Crash, Restart, Idle
    <2> QED
      BY <1>1, <2>1
  <1>4. CASE VenueAccepts \/ VenueRefuses
    <2>1. PICK r : Reply(r)
      BY <1>4 DEF VenueAccepts, VenueRefuses
    <2>2. call'.pc \in {"sending", "sent"}
      BY <1>4, <2>1 DEF VenueAccepts, VenueRefuses, Reply, Calls
    <2> QED
      BY <1>1, <2>2
  <1>5. CASE StartSubmitting \/ CancelLive
    BY <1>1, <1>5 DEF StartSubmitting, CancelLive, Calls
  <1>6. ASSUME NEW e, StartReconcile(e) \/ Cancel(e)
        PROVE  FetchedById'
    BY <1>1, <1>6 DEF StartReconcile, Cancel, Idle
  <1>7. CASE \E c \in ClientIds : Submit(c)
    BY <1>1, <1>7 DEF Submit, Idle
  <1>8. CASE UNCHANGED <<call, store>>
    BY <1>8 DEF FetchedById
  <1>9. CASE \/ StartRecovery \/ SetMode \/ UNCHANGED vars
             \/ \E v \in VenueIds : VenueFill(v) \/ VenueCancel(v)
    BY <1>8, <1>9 DEF StartRecovery, SetMode, vars, VenueFill, VenueCancel
  <1> QED
    BY <1>2, <1>3, <1>4, <1>5, <1>6, <1>7, <1>9
    DEF Next, EngineStep, Caller, Ends, RecoverNext, Reconcile

\* What recover_on_startup learns of a record always settles it: a record found
\* SUBMITTING has no exchange id, so nothing is found of it and it FAILED; any other is
\* RECONCILING, from where every outcome is an edge.
LEMMA RecoverySettles ==
  ASSUME TypeOK, Unanswered, FetchedById, RecoveryInv, todo # {}, HandleFetch
  PROVE  \E t, x, n : /\ t \in OrderState \ InFlight
                       /\ Finish(call.exec, t, x, n) /\ Moves(store[call.exec].state, t)
  <1>1. /\ call.exec \in todo /\ call.exec \in Execs
        /\ \/ store[call.exec].state = "RECONCILING"
           \/ store[call.exec].state = "SUBMITTING" /\ call.prev = "SUBMITTING"
    BY DEF HandleFetch, RecoveryInv, TypeOK
  <1>2. CASE call.raw.kind = "order"
    <2>1. PICK t, x, n :
            /\ t \in {"FILLED", "PARTIALLY_FILLED", "OPEN", "CANCELLED", "REJECTED", "SUBMITTED"}
            /\ Finish(call.exec, t, x, n)
      BY <1>2, TargetStates DEF HandleFetch, ApplyResponse
    <2>2. store[call.exec].state = "RECONCILING"
      BY <1>1, <1>2 DEF Unanswered, FetchedById, HandleFetch
    <2>3. Moves("RECONCILING", t) /\ t \in OrderState \ InFlight
      BY <2>1 DEF Moves, Successors, OrderState, InFlight
    <2> QED
      BY <2>1, <2>2, <2>3
  <1>3. CASE call.raw.kind # "order"
    <2>1. PICK t, x, n :
            /\ t \in {"FAILED", "UNKNOWN"}
            /\ Finish(call.exec, t, x, n)
            /\ call.raw.kind = "missing" /\ call.prev = "SUBMITTING" => t = "FAILED"
      BY <1>3 DEF HandleFetch, FinishState
    <2>2. CASE store[call.exec].state = "RECONCILING"
      <3>1. Moves("RECONCILING", t) /\ t \in OrderState \ InFlight
        BY <2>1 DEF Moves, Successors, OrderState, InFlight
      <3> QED
        BY <2>1, <2>2, <3>1
    <2>3. CASE store[call.exec].state = "SUBMITTING" /\ call.prev = "SUBMITTING"
      <3>1. call.raw.kind = "missing"
        BY <1>1, <2>3 DEF Unanswered, FetchedById, HandleFetch
      <3>2. Moves("SUBMITTING", "FAILED") /\ "FAILED" \in OrderState \ InFlight
        BY DEF Moves, Successors, OrderState, InFlight
      <3> QED
        BY <2>1, <2>3, <3>1, <3>2
    <2> QED
      BY <1>1, <2>2, <2>3
  <1> QED
    BY <1>2, <1>3

\* While recovery is on, only its own calls are served.
LEMMA RecoveryIsAlone ==
  ASSUME RecoveryInv, todo # {}, [Next]_vars
  PROVE  \/ HandleFetch \/ Fetch \/ RecoverNext \/ Crash
         \/ UNCHANGED <<store, call, todo>>
  <1>1. call.pc \in {"idle", "fetching", "fetched"}
    BY DEF RecoveryInv
  <1>2. CASE EngineStep
    BY <1>1, <1>2 DEF EngineStep, RejectLocal, StartSubmitting, SubmitPaper, VenueAccepts,
       VenueRefuses, HandleSubmit, CancelPaper, CancelWithoutId, CancelLive, HandleCancel
  <1>3. CASE Caller
    BY <1>3 DEF Caller, Submit, Cancel, Reconcile, StartRecovery, SetMode, Free
  <1>4. CASE Restart
    BY <1>1, <1>4 DEF Restart
  <1>5. CASE UNCHANGED vars \/ \E v \in VenueIds : VenueFill(v) \/ VenueCancel(v)
    BY <1>5 DEF vars, VenueFill, VenueCancel
  <1> QED
    BY <1>2, <1>3, <1>4, <1>5 DEF Next

\* Only StartRecovery makes work for the recovery loop.
LEMMA RecoveryBegins ==
  ASSUME todo = {}, todo' # {}, [Next]_vars
  PROVE  StartRecovery
  <1>1. CASE Ends
    <2>1. PICK t, x, n : Finish(call.exec, t, x, n)
      BY <1>1, EndsByFinish
    <2> QED
      BY <2>1 DEF Finish
  <1>2. CASE EngineStep /\ ~Ends
    BY <1>2 DEF EngineStep, Ends, StartSubmitting, VenueAccepts, VenueRefuses, CancelLive,
       Fetch, RecoverNext, StartReconcile
  <1>3. CASE Caller
    BY <1>3 DEF Caller, Submit, Cancel, Reconcile, StartReconcile, SetMode
  <1>4. CASE \/ Crash \/ Restart \/ UNCHANGED vars
             \/ \E v \in VenueIds : VenueFill(v) \/ VenueCancel(v)
    BY <1>4 DEF Crash, Restart, vars, VenueFill, VenueCancel
  <1> QED
    BY <1>1, <1>2, <1>3, <1>4 DEF Next

\* reconcile() saves RECONCILING for each record recovery looks at but a SUBMITTING one.
LEMMA RecoverableMoves ==
  ASSUME NEW s \in Recoverable
  PROVE  s = "SUBMITTING" \/ Moves(s, "RECONCILING")
  <1>1. CASE s \in {"UNKNOWN", "SUBMITTED", "RECONCILING"}
    BY <1>1 DEF Moves, Successors
  <1>2. CASE s \in {"OPEN", "PARTIALLY_FILLED", "CANCEL_PENDING"}
    BY <1>2 DEF Moves, Successors
  <1> QED
    BY <1>1, <1>2 DEF Recoverable

\* Every step of the loop leaves the records still in flight on its list.
LEMMA RecoveryStep ==
  ASSUME TypeOK, TypeOK', Unanswered, FetchedById, RecoveryInv, [Next]_vars
  PROVE  RecoveryInv'
  <1> SUFFICES ASSUME todo' # {}
               PROVE  RecoveryInv'
    BY DEF RecoveryInv
  <1>1. CASE todo = {}
    <2>1. StartRecovery
      BY <1>1, RecoveryBegins
    <2>2. /\ call'.pc = "idle" /\ store' = store
          /\ todo' = {e \in Active : store[e].state \in Recoverable}
      BY <2>1 DEF StartRecovery, Free
    <2>3. \A e \in Execs : store[e].state \in InFlight => e \in todo'
      BY <2>2 DEF InFlight, Active, Terminal, Recoverable
    <2> QED
      BY <2>2, <2>3 DEF RecoveryInv
  <1>2. CASE todo # {}
    <2>0. /\ call.pc \in {"idle", "fetching", "fetched"} /\ todo \subseteq Execs
          /\ \A e \in todo : store[e].state \in Recoverable
          /\ \A e \in Execs : store[e].state \in InFlight => e \in todo
      BY <1>2 DEF RecoveryInv, TypeOK
    <2>1. CASE HandleFetch
      <3>1. PICK t, x, n : /\ t \in OrderState \ InFlight
                           /\ Finish(call.exec, t, x, n) /\ Moves(store[call.exec].state, t)
        BY <1>2, <2>1, RecoverySettles
      <3>2. call.exec \in Execs
        BY <1>2, <2>1 DEF HandleFetch, RecoveryInv, TypeOK
      <3>3. /\ todo' = todo \ {call.exec} /\ call'.pc = "idle"
            /\ store'[call.exec].state \notin InFlight
            /\ \A f \in Execs : f # call.exec => store'[f] = store[f]
        BY <3>1, <3>2, FinishMoved, IdleType
      <3> QED
        BY <2>0, <3>2, <3>3 DEF RecoveryInv
    <2>2. CASE Fetch
      <3>1. PICK r : call' = [call EXCEPT !.pc = "fetched", !.raw = r]
        BY <2>2 DEF Fetch
      <3>2. call'.pc = "fetched" /\ call'.exec = call.exec /\ call'.prev = call.prev
        BY <3>1 DEF TypeOK, Calls
      <3>3. call.pc = "fetching" /\ store' = store /\ todo' = todo
        BY <2>2 DEF Fetch
      <3> QED
        BY <3>2, <3>3 DEF RecoveryInv
    <2>3. CASE RecoverNext
      <3>1. PICK e \in todo : StartReconcile(e)
        BY <2>3 DEF RecoverNext
      <3> DEFINE s == store[e].state
                 t == IF Moves(s, "RECONCILING") THEN "RECONCILING" ELSE s
      <3>2. /\ s \in Recoverable /\ store' = [store EXCEPT ![e].state = t] /\ todo' = todo
            /\ call' = [Idle EXCEPT !.pc = "fetching", !.exec = e, !.prev = s]
        BY <2>0, <3>1 DEF StartReconcile
      <3>3. call'.pc = "fetching" /\ call'.exec = e /\ call'.prev = s
        BY <3>2 DEF Idle
      <3>4. t = "RECONCILING" \/ (t = "SUBMITTING" /\ s = "SUBMITTING")
        <4>1. s = "SUBMITTING" \/ Moves(s, "RECONCILING")
          BY <3>2, RecoverableMoves
        <4>2. CASE Moves(s, "RECONCILING")
          BY <4>2
        <4>3. CASE ~Moves(s, "RECONCILING") /\ s = "SUBMITTING"
          BY <4>3
        <4> QED
          BY <4>1, <4>2, <4>3
      <3>5. t \in Recoverable
        BY <3>4 DEF Recoverable
      <3> HIDE DEF s, t
      <3>6. store'[e].state = t /\ \A f \in Execs : f # e => store'[f] = store[f]
        BY <2>0, <3>2 DEF TypeOK, Record
      <3> QED
        BY <2>0, <3>2, <3>3, <3>4, <3>5, <3>6 DEF RecoveryInv
    <2>4. CASE Crash
      BY <2>4 DEF Crash
    <2>5. CASE UNCHANGED <<store, call, todo>>
      BY <2>5 DEF RecoveryInv
    <2> QED
      BY <1>2, <2>1, <2>2, <2>3, <2>4, <2>5, RecoveryIsAlone
  <1> QED
    BY <1>1, <1>2

\* The three invariants above, in every state.
LEMMA RecoveryInvariance == Spec => [](Unanswered /\ FetchedById /\ RecoveryInv)
  <1>1. Init => Unanswered /\ FetchedById /\ RecoveryInv
    BY NewTypes DEF Init, Unanswered, FetchedById, RecoveryInv, Idle
  <1>2. /\ IInv /\ IInv' /\ [Next]_vars
        /\ Unanswered /\ FetchedById /\ RecoveryInv
        => Unanswered' /\ FetchedById' /\ RecoveryInv'
    BY UnansweredStep, FetchedStep, RecoveryStep DEF IInv
  <1> QED
    BY <1>1, <1>2, Invariance, PTL DEF Spec

(***************************************************************************)
(* When recover_on_startup ends, other than by a crash, no record is left  *)
(* SUBMITTING, CANCEL_PENDING or RECONCILING, and no TransitionError has   *)
(* cut the loop short.                                                     *)
(***************************************************************************)
THEOREM RecoverySettlesAll == Spec => RecoveryLeavesNoneInFlight
  <1>1. ASSUME IInv, Unanswered, FetchedById, RecoveryInv, [Next]_vars,
               todo # {}, todo' = {}, call'.pc # "down", NEW e \in Execs
        PROVE  store'[e].state \notin InFlight
    <2>1. HandleFetch
      <3>1. ~Crash /\ ~Fetch /\ ~RecoverNext /\ ~UNCHANGED <<store, call, todo>>
        BY <1>1 DEF Crash, Fetch, RecoverNext, StartReconcile, Idle
      <3> QED
        BY <1>1, <3>1, RecoveryIsAlone
    <2>2. PICK t, x, n : /\ t \in OrderState \ InFlight
                         /\ Finish(call.exec, t, x, n) /\ Moves(store[call.exec].state, t)
      BY <1>1, <2>1, RecoverySettles DEF IInv
    <2>3. call.exec \in Execs
      BY <1>1, <2>1 DEF HandleFetch, RecoveryInv, IInv, TypeOK
    <2>4. /\ store'[call.exec].state = t /\ todo' = todo \ {call.exec}
          /\ \A f \in Execs : f # call.exec => store'[f] = store[f]
      BY <2>2, <2>3, <1>1, FinishMoved DEF IInv
    <2> QED
      BY <1>1, <2>2, <2>4 DEF RecoveryInv
  <1>2. IInv /\ (Unanswered /\ FetchedById /\ RecoveryInv) /\ [Next]_vars =>
          [todo # {} /\ todo' = {} /\ call'.pc # "down" =>
             \A e \in Execs : store'[e].state \notin InFlight]_vars
    BY <1>1
  <1> QED
    BY <1>2, Invariance, RecoveryInvariance, PTL DEF Spec, RecoveryLeavesNoneInFlight

-------------------------------------------------------------------------------
(***************************************************************************)
(* VenueDecides: what a record says of its order, the exchange has said,   *)
(* and the exchange takes nothing of it back.                              *)
(***************************************************************************)
Decided(r, book) ==
  /\ r.exid \in VenueIds \union {None}
  /\ r.filled > 0 \/ r.state = "FILLED" => r.exid \in VenueIds /\ book[r.exid].filled > 0
  /\ r.state = "CANCELLED" => r.exid \in VenueIds /\ book[r.exid].status = "canceled"
  /\ r.state = "REJECTED" /\ r.exid # None => book[r.exid].status = "rejected"

LEMMA DecidedEach ==
  VenueDecides /\ NoPaperIds <=> \A e \in Execs : Decided(store[e], venue)
  BY DEF VenueDecides, NoPaperIds, Decided

\* What is final at the exchange: that an order exists, that some of it was filled,
\* that it was canceled or rejected.
BookKeeps ==
  \A v \in Present(venue) :
    /\ v \in Present(venue)'
    /\ venue[v].filled > 0 => venue'[v].filled > 0
    /\ venue[v].status \in {"canceled", "rejected"} => venue'[v].status = venue[v].status

\* A step places an order, or fills or cancels one that is open; a closed one has fills.
BookChanges(v, o) ==
  /\ v \in VenueIds
  /\ venue' = [venue EXCEPT ![v] = o]
  /\ o.status # "absent"
  /\ o.status = "closed" => o.filled > 0
  /\ v \in Present(venue) => /\ venue[v].status = "open"
                             /\ venue[v].filled > 0 => o.filled > 0

LEMMA AcceptChanges ==
  ASSUME TypeOK, call.pc = "sending" => call.allowed > 0, VenueAccepts
  PROVE  \E v, o : /\ BookChanges(v, o)
                   /\ \E r \in {View(v, o), Acknowledged(v)} \union Ambiguous : Reply(r)
  <1>1. PICK v \in VenueIds \ Present(venue), f \in 0..call.allowed,
             s \in {"open", "closed", "canceled", "rejected"} :
          /\ s = "closed" <=> f = call.allowed
          /\ LET o == [exec |-> call.exec, client |-> store[call.exec].client,
                       qty |-> call.allowed, filled |-> f, status |-> s]
             IN  /\ venue' = [venue EXCEPT ![v] = o]
                 /\ \E r \in {View(v, o), Acknowledged(v)} \union Ambiguous : Reply(r)
    BY DEF VenueAccepts
  <1> DEFINE o == [exec |-> call.exec, client |-> store[call.exec].client,
                   qty |-> call.allowed, filled |-> f, status |-> s]
  <1>2. /\ venue' = [venue EXCEPT ![v] = o]
        /\ \E r \in {View(v, o), Acknowledged(v)} \union Ambiguous : Reply(r)
    BY <1>1
  <1>3. o.status # "absent" /\ (o.status = "closed" => o.filled > 0)
    BY <1>1 DEF VenueAccepts
  <1> HIDE DEF o
  <1> QED
    BY <1>1, <1>2, <1>3 DEF BookChanges

LEMMA BookStep ==
  ASSUME TypeOK, call.pc = "sending" => call.allowed > 0, [Next]_vars
  PROVE  venue' = venue \/ \E v, o : BookChanges(v, o)
  <1>1. CASE VenueAccepts
    BY <1>1, AcceptChanges
  <1>2. ASSUME NEW v \in VenueIds, venue[v].status = "open",
               venue' = [venue EXCEPT ![v].status = "canceled"]
        PROVE  \E w, o : BookChanges(w, o)
    <2> DEFINE o == [venue[v] EXCEPT !.status = "canceled"]
    <2>1. o.status = "canceled" /\ o.filled = venue[v].filled
      BY DEF TypeOK, Order
    <2>2. venue' = [venue EXCEPT ![v] = o]
      BY <1>2
    <2> HIDE DEF o
    <2> QED
      BY <1>2, <2>1, <2>2 DEF BookChanges
  <1>3. ASSUME NEW v \in VenueIds, VenueFill(v)
        PROVE  \E w, o : BookChanges(w, o)
    <2> DEFINE o == [venue[v] EXCEPT !.filled = @ + 1,
                       !.status = IF venue[v].filled + 1 = venue[v].qty
                                    THEN "closed" ELSE "open"]
    <2>1. o.status # "absent" /\ o.filled > 0
      BY DEF TypeOK, Order
    <2>2. venue' = [venue EXCEPT ![v] = o] /\ venue[v].status = "open"
      BY <1>3 DEF VenueFill
    <2> HIDE DEF o
    <2> QED
      BY <2>1, <2>2 DEF BookChanges
  <1>4. CASE CancelLive
    BY <1>2, <1>4 DEF CancelLive, Present, TypeOK
  <1>5. CASE EngineStep
    BY <1>1, <1>4, <1>5
    DEF EngineStep, RejectLocal, StartSubmitting, SubmitPaper, VenueRefuses, HandleSubmit,
        CancelPaper, CancelWithoutId, HandleCancel, Fetch, HandleFetch, RecoverNext,
        StartReconcile
  <1>6. CASE Caller \/ Crash \/ Restart \/ UNCHANGED vars
    BY <1>6 DEF vars, Caller, Submit, Cancel, Reconcile, StartReconcile, StartRecovery,
                SetMode, Crash, Restart
  <1> QED
    BY <1>2, <1>3, <1>5, <1>6 DEF Next, VenueCancel

LEMMA BookKept ==
  ASSUME TypeOK, ClosedHasFills, venue' = venue \/ \E v, o : BookChanges(v, o)
  PROVE  BookKeeps /\ ClosedHasFills'
  <1>1. CASE venue' = venue
    BY <1>1 DEF BookKeeps, ClosedHasFills, Present
  <1>2. ASSUME NEW v, NEW o, BookChanges(v, o)
        PROVE  BookKeeps /\ ClosedHasFills'
    <2>1. /\ DOMAIN venue = VenueIds /\ DOMAIN venue' = VenueIds /\ v \in VenueIds
          /\ venue'[v] = o /\ \A w \in VenueIds : w # v => venue'[w] = venue[w]
      BY <1>2 DEF TypeOK, BookChanges
    <2> QED
      BY <1>2, <2>1 DEF BookKeeps, ClosedHasFills, Present, BookChanges
  <1> QED
    BY <1>1, <1>2

\* The exchange's own description of an order says what holds there, an answer that
\* only acknowledges, or only passes on a part of it, says less.
LEMMA ViewSays ==
  ASSUME NEW v \in VenueIds, NEW o,
         o.status # "absent", o.status = "closed" => o.filled > 0
  PROVE  \A r \in {View(v, o), [View(v, o) EXCEPT !.status = "unknown"], Acknowledged(v)} :
           /\ r.kind = "order" /\ r.id = v
           /\ r.filled > 0 \/ r.status = "closed" => o.filled > 0
           /\ r.status \in {"canceled", "rejected"} => o.status = r.status
  BY DEF View, Acknowledged

LEMMA AmbiguousSays ==
  \A r \in Ambiguous : r.kind = "order" => r.id = None /\ r.filled = 0 /\ r.status = "unknown"
  BY DEF Ambiguous, Transport, UnknownOutcome, Acknowledged, Raise

\* In an engine that runs LIVE, a reply in hand says nothing the exchange takes back.
LEMMA ReplyHoldsStep ==
  ASSUME TypeOK, TypeOK', mode = "LIVE", VenueInv, BookKeeps, ClosedHasFills', [Next]_vars
  PROVE  ReplyHolds'
  <1> USE DEF TypeOK
  <1>1. CASE call'.pc \notin {"sent", "canceled", "fetched"}
    BY <1>1 DEF ReplyHolds
  <1>2. CASE call' = call /\ store' = store
    BY <1>2 DEF ReplyHolds, BookKeeps, SaidOf, VenueInv
  <1>3. ASSUME NEW r, Reply(r),
               r.kind = "order" =>
                 /\ r.id \in VenueIds \union {None}
                 /\ r.id \in VenueIds => r.id \in Present(venue)' /\ SaidOf(r.id, r)'
                 /\ r.id = None => r.filled = 0 /\ r.status = "unknown",
               call.pc = "sending"
        PROVE  ReplyHolds'
    <2>1. CASE r.kind \in Transport /\ call.tries < Retries
      BY <1>1, <1>3, <2>1 DEF Reply, Calls
    <2>2. CASE ~(r.kind \in Transport /\ call.tries < Retries)
      <3>1. call'.pc = "sent" /\ call'.raw = r
        BY <2>2, <1>3 DEF Reply, Calls
      <3> QED
        BY <1>3, <3>1 DEF ReplyHolds, SaidOf
    <2> QED
      BY <2>1, <2>2
  <1>4. CASE VenueAccepts
    <2>1. PICK v, o, r : /\ BookChanges(v, o)
                         /\ r \in {View(v, o), Acknowledged(v)} \union Ambiguous /\ Reply(r)
      BY <1>4, AcceptChanges DEF VenueInv
    <2>2. v \in VenueIds /\ venue'[v] = o /\ v \in Present(venue)'
      BY <2>1 DEF BookChanges, Present
    <2>3. r \in {View(v, o), Acknowledged(v)} =>
            /\ r.kind = "order" /\ r.id = v
            /\ r.filled > 0 \/ r.status = "closed" => o.filled > 0
            /\ r.status \in {"canceled", "rejected"} => o.status = r.status
      BY <2>1, <2>2, ViewSays DEF BookChanges
    <2>4. r \notin {View(v, o), Acknowledged(v)} /\ r.kind = "order" =>
            r.id = None /\ r.filled = 0 /\ r.status = "unknown"
      BY <2>1, AmbiguousSays
    <2>5. call.pc = "sending"
      BY <1>4 DEF VenueAccepts
    <2> QED
      BY <1>3, <2>1, <2>2, <2>3, <2>4, <2>5, ConstantTypes DEF SaidOf
  <1>5. CASE VenueRefuses
    <2>1. PICK r \in {Raise("exception")} \union Ambiguous : Reply(r) /\ call.pc = "sending"
      BY <1>5 DEF VenueRefuses
    <2>2. r.kind = "order" => r.id = None /\ r.filled = 0 /\ r.status = "unknown"
      BY <2>1, AmbiguousSays DEF Raise
    <2> QED
      BY <1>3, <2>1, <2>2, ConstantTypes
  <1>6. ASSUME NEW p \in {"canceled", "fetched"}, NEW j \in Present(venue)', NEW r,
               j = store[call.exec].exid, store' = store,
               call' = [call EXCEPT !.pc = p, !.raw = r],
               \/ r.kind # "order"
               \/ r \in {View(j, venue'[j]), [View(j, venue'[j]) EXCEPT !.status = "unknown"],
                         Acknowledged(j)}
        PROVE  ReplyHolds'
    <2>1. j \in VenueIds /\ venue'[j].status # "absent"
          /\ (venue'[j].status = "closed" => venue'[j].filled > 0)
      BY <1>6 DEF Present, ClosedHasFills
    <2>2. call'.pc = p /\ call'.raw = r /\ call'.exec = call.exec
      BY <1>6 DEF Calls
    <2>3. r.kind = "order" => r.id = j /\ SaidOf(j, r)'
      BY <1>6, <2>1 DEF SaidOf, View, Acknowledged
    <2> QED
      BY <1>6, <2>1, <2>2, <2>3, ConstantTypes DEF ReplyHolds
  <1>7. ASSUME call'.raw.kind # "order"
        PROVE  ReplyHolds'
    BY <1>7 DEF ReplyHolds
  <1>8. CASE CancelLive
    <2> DEFINE i == store[call.exec].exid
    <2>1. PICK r \in {Raise("exception")} \union
                       UNION {{View(j, venue'[j]), Acknowledged(j)} :
                                j \in {i} \intersect Present(venue)} :
            call' = [call EXCEPT !.pc = "canceled", !.raw = r]
      BY <1>8 DEF CancelLive
    <2>2. store' = store
      BY <1>8 DEF CancelLive
    <2>3. CASE r = Raise("exception")
      BY <1>7, <2>1, <2>3 DEF Raise, Calls
    <2>4. CASE r \in {View(i, venue'[i]), Acknowledged(i)} /\ i \in Present(venue)
      BY <1>6, <2>1, <2>2, <2>4 DEF BookKeeps
    <2> QED
      BY <2>1, <2>3, <2>4
  <1>9. CASE Fetch
    <2> DEFINE i == store[call.exec].exid
    <2>1. PICK r \in Fetched(i) : call' = [call EXCEPT !.pc = "fetched", !.raw = r]
      BY <1>9 DEF Fetch
    <2>2. store' = store /\ venue' = venue
      BY <1>9 DEF Fetch
    <2>3. CASE r \in {Raise("exception"), Raise("missing")}
      BY <1>7, <2>1, <2>3 DEF Raise, Calls
    <2>4. CASE i \in Present(venue) /\ r = AsFetched(i)
      <3>1. r \in {View(i, venue'[i]), [View(i, venue'[i]) EXCEPT !.status = "unknown"]}
        BY <2>2, <2>4 DEF AsFetched
      <3> QED
        BY <1>6, <2>1, <2>2, <2>4, <3>1 DEF BookKeeps
    <2> QED
      BY <2>1, <2>3, <2>4 DEF Fetched
  <1>10. CASE EngineStep
    <2>1. CASE Ends
      <3>1. call' = Idle
        BY <2>1, EndsByFinish DEF Finish
      <3> QED
        BY <1>1, <3>1, IdleType
    <2>2. CASE StartSubmitting
      BY <1>1, <2>2 DEF StartSubmitting, Calls
    <2>3. CASE RecoverNext
      BY <1>1, <2>3 DEF RecoverNext, StartReconcile, Idle
    <2> QED
      BY <1>4, <1>5, <1>8, <1>9, <1>10, <2>1, <2>2, <2>3 DEF EngineStep, Ends
  <1>11. CASE \/ Caller \/ Crash \/ Restart \/ UNCHANGED vars
              \/ \E v \in VenueIds : VenueFill(v) \/ VenueCancel(v)
    <2>1. CASE \/ StartRecovery \/ SetMode \/ UNCHANGED vars
               \/ \E v \in VenueIds : VenueFill(v) \/ VenueCancel(v)
      <3>1. CASE call.pc \notin {"sent", "canceled", "fetched"}
        BY <1>1, <2>1, <3>1 DEF StartRecovery, SetMode, vars, VenueFill, VenueCancel
      <3>2. CASE call.pc \in {"sent", "canceled", "fetched"}
        <4>1. ~StartRecovery /\ ~SetMode
          BY <3>2 DEF StartRecovery, SetMode, Free
        <4> QED
          BY <1>2, <2>1, <4>1 DEF vars, VenueFill, VenueCancel
      <3> QED
        BY <3>1, <3>2
    <2>2. CASE \E c \in ClientIds : Submit(c)
      BY <1>1, <2>2 DEF Submit, Idle
    <2>3. ASSUME NEW e, Cancel(e) \/ StartReconcile(e)
          PROVE  ReplyHolds'
      BY <1>1, <2>3 DEF Cancel, StartReconcile, Idle
    <2>4. CASE Crash \/ Restart
      BY <1>1, <2>4 DEF Crash, Restart, Idle
    <2> QED
      BY <1>11, <2>1, <2>2, <2>3, <2>4 DEF Caller, Reconcile
  <1> QED
    BY <1>10, <1>11 DEF Next

\* A step that rewrites one record and leaves the exchange alone.
LEMMA OneDecided ==
  ASSUME TypeOK, \A e \in Execs : Decided(store[e], venue), venue' = venue,
         NEW e \in Execs, NEW r, store' = [store EXCEPT ![e] = r], Decided(r, venue)
  PROVE  \A f \in Execs : Decided(store'[f], venue')
  BY DEF TypeOK

\* The end of a call leaves what the exchange has decided in the record.
LEMMA FinishDecided ==
  ASSUME TypeOK, \A e \in Execs : Decided(store[e], venue), venue' = venue,
         NEW e \in Execs, NEW t, NEW x, NEW n, Finish(e, t, x, n),
         x \in VenueIds \union {None},
         n > 0 \/ t = "FILLED" => x \in VenueIds /\ venue[x].filled > 0,
         t = "CANCELLED" => x \in VenueIds /\ venue[x].status = "canceled",
         t = "REJECTED" /\ x # None => venue[x].status = "rejected"
  PROVE  \A f \in Execs : Decided(store'[f], venue')
  <1> DEFINE r == [store[e] EXCEPT !.state = t, !.exid = x, !.filled = n]
  <1>1. r.state = t /\ r.exid = x /\ r.filled = n
    BY DEF TypeOK, Record
  <1>2. store' = [store EXCEPT ![e] = r] \/ store' = store
    BY DEF Finish
  <1> HIDE DEF r
  <1>3. Decided(r, venue)
    BY <1>1 DEF Decided
  <1> QED
    BY <1>2, <1>3, OneDecided

\* ... and so does the end of one that only changes the state.
LEMMA FinishStateDecided ==
  ASSUME TypeOK, \A e \in Execs : Decided(store[e], venue), venue' = venue,
         NEW e \in Execs, NEW t \in {"FAILED", "UNKNOWN", "CANCELLED", "REJECTED"},
         FinishState(e, t),
         t = "CANCELLED" => store[e].exid \in VenueIds
                            /\ venue[store[e].exid].status = "canceled",
         t = "REJECTED" => store[e].exid = None
  PROVE  \A f \in Execs : Decided(store'[f], venue')
  <1>1. Decided(store[e], venue) /\ Finish(e, t, store[e].exid, store[e].filled)
    BY DEF FinishState
  <1> QED
    BY <1>1, FinishDecided DEF Decided

\* _apply_exchange_response, given an answer the exchange stands by.
LEMMA ResponseDecided ==
  ASSUME TypeOK, \A e \in Execs : Decided(store[e], venue), venue' = venue,
         NEW e \in Execs, NEW raw \in Snapshot, NEW allowed \in Nat \ {0},
         ApplyResponse(e, raw, allowed),
         \/ raw.id \in VenueIds /\ SaidOf(raw.id, raw)
         \/ raw.id = None /\ raw.filled = 0 /\ raw.status = "unknown",
         store[e].filled > 0 => store[e].exid = raw.id
  PROVE  \A f \in Execs : Decided(store'[f], venue')
  <1> DEFINE n == store[e].filled + raw.filled
             t == ResponseState(raw, n, allowed)
  <1>1. Finish(e, t, raw.id, n)
    BY DEF ApplyResponse
  <1>2. store[e].filled \in Nat /\ raw.filled \in Nat /\ n \in Nat
    BY QtyAssumption DEF TypeOK, Record, Snapshot
  <1>3. store[e].filled > 0 => raw.id \in VenueIds /\ venue[raw.id].filled > 0
    BY DEF Decided
  <1>4. n > 0 => raw.id \in VenueIds /\ venue[raw.id].filled > 0
    <2>1. n > 0 => store[e].filled > 0 \/ raw.filled > 0
      BY <1>2
    <2> QED
      BY <1>2, <1>3, <2>1 DEF SaidOf
  <1>5. t = "FILLED" => raw.id \in VenueIds /\ venue[raw.id].filled > 0
    <2>1. t = "FILLED" => raw.status = "closed" \/ n >= allowed
      BY DEF ResponseState
    <2>2. n >= allowed => n > 0
      BY <1>2
    <2> QED
      BY <1>4, <2>1, <2>2 DEF SaidOf
  <1>6. t = "CANCELLED" => raw.id \in VenueIds /\ venue[raw.id].status = "canceled"
    BY DEF ResponseState, SaidOf
  <1>7. t = "REJECTED" /\ raw.id # None => venue[raw.id].status = "rejected"
    BY DEF ResponseState, SaidOf
  <1> HIDE DEF t, n
  <1>8. raw.id \in VenueIds \union {None}
    OBVIOUS
  <1> QED
    BY <1>1, <1>4, <1>5, <1>6, <1>7, <1>8, FinishDecided

LEMMA DecidedStep ==
  ASSUME IInv, Unanswered, mode = "LIVE", VenueInv, BookKeeps, [Next]_vars
  PROVE  \A e \in Execs : Decided(store'[e], venue')
  <1> USE DEF IInv
  <1>0. \A e \in Execs : Decided(store[e], venue)
    BY DecidedEach DEF VenueInv
  <1>a. call.pc \notin {"idle", "down"} => call.exec \in Execs
    BY DEF TypeOK
  <1>1. CASE store' = store
    <2>1. ASSUME NEW e \in Execs
          PROVE  Decided(store[e], venue')
      <3>1. store[e].exid \in VenueIds => store[e].exid \in Present(venue)
        BY DEF OwnOrder
      <3> QED
        BY <1>0, <3>1 DEF Decided, BookKeeps
    <2> QED
      BY <1>1, <2>1
  <1>2. ASSUME NEW e \in Execs, NEW t, venue' = venue,
               store' = [store EXCEPT ![e].state = t],
               t \in {"SUBMITTING", "CANCEL_PENDING", "RECONCILING", store[e].state}
        PROVE  \A f \in Execs : Decided(store'[f], venue')
    <2> DEFINE r == [store[e] EXCEPT !.state = t]
    <2>1. r.state = t /\ r.exid = store[e].exid /\ r.filled = store[e].filled
      BY DEF TypeOK, Record
    <2>2. store' = [store EXCEPT ![e] = r]
      BY <1>2
    <2> HIDE DEF r
    <2>3. Decided(r, venue)
      BY <1>0, <1>2, <2>1 DEF Decided
    <2> QED
      BY <1>0, <1>2, <2>2, <2>3, OneDecided
  <1>3. ASSUME NEW e \in Execs, Cancel(e) \/ StartReconcile(e)
        PROVE  \A f \in Execs : Decided(store'[f], venue')
    BY <1>2, <1>3 DEF Cancel, StartReconcile
  <1>4. ASSUME NEW c \in ClientIds, Submit(c)
        PROVE  \A f \in Execs : Decided(store'[f], venue')
    <2>1. Decided(Approved(c), venue)
      BY DEF Approved, NoRecord, Decided
    <2> QED
      BY <1>0, <1>4, <2>1, OneDecided DEF Submit
  <1>5. CASE StartSubmitting
    BY <1>2, <1>5, <1>a DEF StartSubmitting
  <1>6. CASE RejectLocal
    <2>1. /\ call.exec \in Execs /\ FinishState(call.exec, "REJECTED") /\ venue' = venue
          /\ store[call.exec].exid = None
      BY <1>6, <1>a DEF RejectLocal, CallMatchesRecord, Unanswered
    <2> QED
      BY <1>0, <2>1, FinishStateDecided
  <1>7. CASE HandleSubmit
    <2>1. call.exec \in Execs /\ call.pc = "sent" /\ venue' = venue
      BY <1>7, <1>a DEF HandleSubmit
    <2>2. CASE call.raw.kind # "order"
      BY <1>0, <1>7, <2>1, <2>2, TargetStates, FinishStateDecided DEF HandleSubmit
    <2>3. CASE call.raw.kind = "order"
      <3>1. ApplyResponse(call.exec, call.raw, call.allowed)
        BY <1>7, <2>3 DEF HandleSubmit
      <3>2. call.raw \in Snapshot /\ call.allowed \in Nat \ {0}
        BY <2>1, <2>3, QtyAssumption DEF TypeOK, Calls, Replies, Fault, VenueInv
      <3>3. \/ call.raw.id \in VenueIds /\ SaidOf(call.raw.id, call.raw)
            \/ call.raw.id = None /\ call.raw.filled = 0 /\ call.raw.status = "unknown"
        BY <2>1, <2>3 DEF VenueInv, ReplyHolds
      <3>4. store[call.exec].filled = 0
        BY <2>1 DEF CallMatchesRecord, Unanswered
      <3> QED
        BY <1>0, <2>1, <3>1, <3>2, <3>3, <3>4, ResponseDecided
    <2> QED
      BY <2>2, <2>3
  <1>8. CASE HandleFetch
    <2>1. call.exec \in Execs /\ call.pc = "fetched" /\ venue' = venue
      BY <1>8, <1>a DEF HandleFetch
    <2>2. CASE call.raw.kind # "order"
      <3>1. FinishState(call.exec, "FAILED") \/ FinishState(call.exec, "UNKNOWN")
        BY <1>8, <2>2 DEF HandleFetch
      <3> QED
        BY <1>0, <2>1, <3>1, FinishStateDecided
    <2>3. CASE call.raw.kind = "order"
      <3>1. ApplyResponse(call.exec, call.raw, store[call.exec].client.qty)
        BY <1>8, <2>3 DEF HandleFetch
      <3>2. store[call.exec].state # "ABSENT"
        BY <2>1 DEF CallMatchesRecord, Active
      <3>3. store[call.exec].client \in ClientIds
        BY <2>1, <3>2 DEF CreatedInOrder, TypeOK, Record
      <3>4. call.raw \in Snapshot /\ store[call.exec].client.qty \in Nat \ {0}
        BY <2>1, <2>3, <3>3, ConstantTypes, QtyAssumption DEF TypeOK, Calls, Replies, Fault
      <3>5. /\ call.raw.id \in VenueIds /\ SaidOf(call.raw.id, call.raw)
            /\ store[call.exec].exid = call.raw.id
        BY <2>1, <2>3 DEF VenueInv, ReplyHolds
      <3> QED
        BY <1>0, <2>1, <3>1, <3>4, <3>5, ResponseDecided
    <2> QED
      BY <2>2, <2>3
  <1>9. CASE HandleCancel
    <2>1. /\ call.exec \in Execs /\ call.pc = "canceled" /\ venue' = venue
          /\ FinishState(call.exec, CancelState(call.raw))
      BY <1>9, <1>a DEF HandleCancel
    <2>2. CancelState(call.raw) = "CANCELLED" =>
            store[call.exec].exid \in VenueIds
            /\ venue[store[call.exec].exid].status = "canceled"
      BY <2>1 DEF VenueInv, ReplyHolds, SaidOf
    <2> QED
      BY <1>0, <2>1, <2>2, FinishStateDecided
  <1>10. CASE CancelWithoutId
    <2>1. call.exec \in Execs /\ venue' = venue /\ FinishState(call.exec, "UNKNOWN")
      BY <1>10, <1>a DEF CancelWithoutId
    <2> QED
      BY <1>0, <2>1, FinishStateDecided
  <1>11. CASE EngineStep
    <2>1. ~SubmitPaper /\ ~CancelPaper
      BY DEF SubmitPaper, CancelPaper
    <2>2. VenueAccepts \/ VenueRefuses \/ CancelLive \/ Fetch => store' = store
      BY DEF VenueAccepts, VenueRefuses, CancelLive, Fetch
    <2>3. RecoverNext => \E e \in Execs : StartReconcile(e)
      BY DEF RecoverNext, TypeOK
    <2> QED
      BY <1>1, <1>3, <1>5, <1>6, <1>7, <1>8, <1>9, <1>10, <1>11, <2>1, <2>2, <2>3
      DEF EngineStep
  <1>12. CASE Caller
    BY <1>1, <1>3, <1>4, <1>12 DEF Caller, Reconcile, StartRecovery, SetMode
  <1>13. CASE \/ Crash \/ Restart \/ UNCHANGED vars
              \/ \E v \in VenueIds : VenueFill(v) \/ VenueCancel(v)
    BY <1>1, <1>13 DEF Crash, Restart, vars, VenueFill, VenueCancel
  <1> QED
    BY <1>11, <1>12, <1>13 DEF Next

\* A quantity is asked for before anything is sent.
LEMMA AllowedStep ==
  ASSUME TypeOK, call.pc \in {"sending", "sent"} => call.allowed > 0, [Next]_vars
  PROVE  call'.pc \in {"sending", "sent"} => call'.allowed > 0
  <1> USE DEF TypeOK
  <1>1. CASE Ends
    <2>1. call' = Idle
      BY <1>1, EndsByFinish DEF Finish
    <2> QED
      BY <2>1, IdleType
  <1>2. CASE StartSubmitting
    <2>1. PICK q \in 1..call.allowed : call' = [call EXCEPT !.pc = "sending", !.allowed = q]
      BY <1>2 DEF StartSubmitting
    <2>2. q > 0
      BY QtyAssumption DEF Calls
    <2> QED
      BY <2>1, <2>2 DEF Calls
  <1>3. CASE VenueAccepts \/ VenueRefuses
    <2>1. PICK r : Reply(r)
      BY <1>3 DEF VenueAccepts, VenueRefuses
    <2>2. call.pc = "sending" /\ call'.allowed = call.allowed
      BY <1>3, <2>1 DEF VenueAccepts, VenueRefuses, Reply, Calls
    <2> QED
      BY <2>2
  <1>4. CASE CancelLive \/ Fetch
    BY <1>4 DEF CancelLive, Fetch, Calls
  <1>5. ASSUME NEW e, StartReconcile(e) \/ Cancel(e)
        PROVE  call'.pc \notin {"sending", "sent"}
    BY <1>5 DEF StartReconcile, Cancel, Idle
  <1>6. CASE \E c \in ClientIds : Submit(c)
    BY <1>6 DEF Submit, Idle
  <1>7. CASE Crash \/ Restart
    BY <1>7 DEF Crash, Restart, Idle
  <1>8. CASE \/ StartRecovery \/ SetMode \/ UNCHANGED vars
             \/ \E v \in VenueIds : VenueFill(v) \/ VenueCancel(v)
    BY <1>8 DEF StartRecovery, SetMode, vars, VenueFill, VenueCancel
  <1> QED
    BY <1>1, <1>2, <1>3, <1>4, <1>5, <1>6, <1>7, <1>8
    DEF Next, EngineStep, Caller, Ends, RecoverNext, Reconcile

LEMMA VenueInvStep ==
  ASSUME IInv, IInv', Unanswered, mode = "LIVE", VenueInv, [Next]_vars
  PROVE  VenueInv'
  <1>1. BookKeeps /\ ClosedHasFills'
    BY BookStep, BookKept DEF IInv, VenueInv
  <1>2. ReplyHolds'
    BY <1>1, ReplyHoldsStep DEF IInv
  <1>3. \A e \in Execs : Decided(store'[e], venue')
    BY <1>1, DecidedStep
  <1>4. VenueDecides' /\ NoPaperIds'
    BY <1>3 DEF VenueDecides, NoPaperIds, Decided
  <1>5. call'.pc \in {"sending", "sent"} => call'.allowed > 0
    BY AllowedStep DEF IInv, VenueInv
  <1> QED
    BY <1>1, <1>2, <1>4, <1>5 DEF VenueInv

(***************************************************************************)
(* In an engine that only ever runs LIVE, reconcile(), cancel() and submit *)
(* let the exchange decide: a record is CANCELLED, or REJECTED with an     *)
(* order id, only if its order is, and has fills or is FILLED only if its  *)
(* order has some fill, however stale the answer was it was moved by.      *)
(***************************************************************************)
THEOREM ExchangeDecides ==
  ASSUME Modes = {"LIVE"}
  PROVE  Spec => []VenueDecides
  <1>1. Init => VenueInv
    <2>1. /\ NoOrder.status # "closed" /\ NoRecord.exid = None /\ NoRecord.filled = 0
          /\ NoRecord.state = "ABSENT" /\ Idle.pc = "idle"
      BY DEF NoOrder, NoRecord, Idle
    <2> QED
      BY <2>1 DEF Init, VenueInv, VenueDecides, NoPaperIds, ReplyHolds, ClosedHasFills
  <1>2. IInv => mode = "LIVE"
    BY DEF IInv, TypeOK
  <1>3. IInv /\ IInv' /\ Unanswered /\ VenueInv /\ [Next]_vars => VenueInv'
    BY <1>2, VenueInvStep
  <1>4. VenueInv => VenueDecides
    BY DEF VenueInv
  <1> QED
    BY <1>1, <1>3, <1>4, Invariance, RecoveryInvariance, PTL DEF Spec

-------------------------------------------------------------------------------
(***************************************************************************)
(* Two statements of EXECUTION.md that hold of one adapter and not of the  *)
(* other.                                                                  *)
(***************************************************************************)

(***************************************************************************)
(* TokocryptoRestClient never repeats a POST: there, one execution places  *)
(* one order at most ("never resubmit"), whatever is lost and whatever     *)
(* crashes.                                                                *)
(***************************************************************************)
THEOREM OneOrderWithoutRetries ==
  ASSUME Adapter = "tokocrypto"
  PROVE  Spec => []OneOrderPerExecution
  <1>1. IInv /\ OrdersWithinAttempts => OneOrderPerExecution
    <2> SUFFICES ASSUME IInv, OrdersWithinAttempts,
                        NEW v \in Present(venue), NEW w \in Present(venue), v # w,
                        venue[v].exec = venue[w].exec
                 PROVE  FALSE
      BY DEF OneOrderPerExecution
    <2>1. PICK e \in Execs : v \in OrdersOf(e) /\ w \in OrdersOf(e)
      BY DEF IInv, PersistedBeforeSent, OrdersOf
    <2>2. IsFiniteSet(OrdersOf(e)) /\ Cardinality(OrdersOf(e)) \in Nat
      BY OrdersFinite DEF IInv
    <2>3. Cardinality(OrdersOf(e)) <= 1
      BY DEF OrdersWithinAttempts, Retries
    <2>4. Cardinality(OrdersOf(e)) = 0 \/ Cardinality(OrdersOf(e)) = 1
      BY <2>2, <2>3
    <2> HIDE DEF OrdersOf
    <2>5. CASE Cardinality(OrdersOf(e)) = 0
      BY <2>1, <2>2, <2>5, FS_EmptySet
    <2>6. CASE Cardinality(OrdersOf(e)) = 1
      BY <2>1, <2>2, <2>6, FS_Singleton
    <2> QED
      BY <2>4, <2>5, <2>6
  <1> QED
    BY <1>1, Invariance, OrdersBounded, PTL

\* Before it is fetched, nothing is known of an order.
NothingFetchedYet == call.pc = "fetching" => call.raw.kind = "missing"

LEMMA FetchingStep ==
  ASSUME TypeOK, NothingFetchedYet, [Next]_vars
  PROVE  /\ NothingFetchedYet'
         /\ call.pc = "fetching" => Fetch \/ call' = call \/ Crash
  <1> USE DEF TypeOK, NothingFetchedYet
  <1>1. CASE Ends
    <2>1. call' = Idle
      BY <1>1, EndsByFinish DEF Finish
    <2>2. call.pc # "fetching"
      BY <1>1 DEF Ends, RejectLocal, SubmitPaper, HandleSubmit, CancelPaper,
                  CancelWithoutId, HandleCancel, HandleFetch
    <2> QED
      BY <2>1, <2>2, IdleType
  <1>2. CASE StartSubmitting \/ CancelLive
    BY <1>2 DEF StartSubmitting, CancelLive, Calls
  <1>3. CASE Fetch
    BY <1>3 DEF Fetch, Calls
  <1>4. CASE VenueAccepts \/ VenueRefuses
    <2>1. PICK r : Reply(r)
      BY <1>4 DEF VenueAccepts, VenueRefuses
    <2>2. call.pc = "sending" /\ call'.pc \in {"sending", "sent"}
      BY <1>4, <2>1 DEF VenueAccepts, VenueRefuses, Reply, Calls
    <2> QED
      BY <2>2
  <1>5. ASSUME NEW e, (Free \/ call.pc = "idle") /\ (StartReconcile(e) \/ Cancel(e))
        PROVE  NothingFetchedYet' /\ call.pc # "fetching"
    <2>1. call.pc # "fetching"
      BY <1>5 DEF Free
    <2>2. CASE StartReconcile(e)
      <3>1. call' = [Idle EXCEPT !.pc = "fetching", !.exec = e, !.prev = store[e].state]
        BY <2>2 DEF StartReconcile
      <3>2. call'.raw = Raise("missing")
        BY <3>1 DEF Idle
      <3> QED
        BY <2>1, <3>2, FaultType
    <2>3. CASE Cancel(e)
      BY <2>1, <2>3 DEF Cancel, Idle
    <2> QED
      BY <1>5, <2>1, <2>2, <2>3
  <1>6. CASE \E c \in ClientIds : Submit(c)
    BY <1>6 DEF Submit, Idle, Free
  <1>7. CASE Crash \/ Restart
    BY <1>7 DEF Crash, Restart, Idle
  <1>8. CASE \/ StartRecovery \/ SetMode \/ UNCHANGED vars
             \/ \E v \in VenueIds : VenueFill(v) \/ VenueCancel(v)
    BY <1>8 DEF StartRecovery, SetMode, vars, VenueFill, VenueCancel
  <1>9. CASE RecoverNext \/ \E e \in Execs : Cancel(e) \/ Reconcile(e)
    BY <1>5, <1>9 DEF RecoverNext, Reconcile, Cancel
  <1> QED
    BY <1>1, <1>2, <1>3, <1>4, <1>6, <1>7, <1>8, <1>9 DEF Next, EngineStep, Caller, Ends

(***************************************************************************)
(* The ccxt adapter passes on what it fetched: there, reconcile() is told  *)
(* the status the order has at the exchange.                               *)
(***************************************************************************)
THEOREM StatusPassedOn ==
  ASSUME Adapter = "ccxt"
  PROVE  Spec => StatusAsAtVenue
  <1>1. Init => NothingFetchedYet
    BY DEF Init, NothingFetchedYet, Idle
  <1>2. IInv /\ NothingFetchedYet /\ [Next]_vars => NothingFetchedYet'
    BY FetchingStep DEF IInv
  <1>3. ASSUME TypeOK, NothingFetchedYet, [Next]_vars,
               call.pc = "fetching", call'.raw.kind = "order", mode = "LIVE"
        PROVE  call'.raw.status = venue[call'.raw.id].status
    <2>1. CASE Fetch
      <3>1. PICK r \in Fetched(store[call.exec].exid) :
              call' = [call EXCEPT !.pc = "fetched", !.raw = r]
        BY <2>1 DEF Fetch
      <3>2. call'.raw = r
        BY <3>1 DEF TypeOK, Calls
      <3>3. r.kind = "order" => \E j : r = View(j, venue[j])
        BY <1>3, <3>1 DEF Fetched, AsFetched, Raise
      <3> QED
        BY <1>3, <3>2, <3>3 DEF View
    <2>2. CASE Crash
      BY <1>3, <2>2 DEF Crash, Idle, Raise
    <2>3. CASE call' = call
      BY <1>3, <2>3 DEF NothingFetchedYet
    <2> QED
      BY <1>3, <2>1, <2>2, <2>3, FetchingStep
  <1>4. IInv /\ NothingFetchedYet /\ [Next]_vars =>
          [call.pc = "fetching" /\ call'.raw.kind = "order" /\ mode = "LIVE" =>
             call'.raw.status = venue[call'.raw.id].status]_vars
    BY <1>3 DEF IInv
  <1> QED
    BY <1>1, <1>2, <1>4, Invariance, PTL DEF Spec, StatusAsAtVenue

===============================================================================
