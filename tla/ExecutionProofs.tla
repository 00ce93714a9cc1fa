--------------------------- MODULE ExecutionProofs ---------------------------
(***************************************************************************)
(* Proofs about ExecutionEngine for every number of executions, exchange   *)
(* orders and quantities, both adapters and every choice of modes.         *)
(***************************************************************************)
EXTENDS ExecutionProperties, TLAPS

USE DEF Execs, AtVenue, Tightened, CancelState

\* The types the proofs need most, from the assumptions on the constants.
LEMMA ConstantTypes ==
  /\ None \notin ClientIds /\ None \notin VenueIds /\ None \notin PaperIds
  /\ None \notin Execs
  /\ VenueIds \intersect PaperIds = {}
  /\ \A c \in ClientIds : c.qty \in 1..MaxQty
  /\ Retries \in 0..2
  BY NoneAssumption DEF ClientIds, VenueIds, PaperIds, Retries, Qty

\* Every branch of the response and fault tables is a state of the state machine.
LEMMA TargetStates ==
  /\ \A raw, filled, allowed :
       ResponseState(raw, filled, allowed) \in
         {"FILLED", "PARTIALLY_FILLED", "OPEN", "CANCELLED", "REJECTED", "SUBMITTED"}
  /\ \A k : FaultState(k) \in {"UNKNOWN", "FAILED"}
  BY DEF ResponseState, FaultState

\* A request's reply keeps the call well typed and the trading switch boolean.
LEMMA ReplyType ==
  ASSUME call \in Calls, call.exec \in Execs, trading \in BOOLEAN,
         call.pc = "sending", NEW r \in Replies, Reply(r)
  PROVE  /\ call' \in Calls
         /\ call'.exec = call.exec
         /\ call'.allowed = call.allowed
         /\ \/ call'.pc = "sending" /\ call'.raw = call.raw /\ trading' = trading
            \/ call'.pc = "sent" /\ call'.raw = r /\ trading' = FALSE
  <1>1. CASE r.kind \in Transport /\ call.tries < Retries
    <2>1. call.tries + 1 \in 0..2
      BY <1>1, ConstantTypes DEF Calls
    <2>2. call' = [call EXCEPT !.tries = @ + 1] /\ trading' = trading
      BY <1>1 DEF Reply
    <2> QED
      BY <2>1, <2>2 DEF Calls
  <1>2. CASE ~(r.kind \in Transport /\ call.tries < Retries)
    <2>1. call' = [call EXCEPT !.pc = "sent", !.raw = r] /\ trading' = FALSE
      BY <1>2 DEF Reply
    <2> QED
      BY <2>1 DEF Calls, Control
  <1> QED
    BY <1>1, <1>2

\* The state of no call, of a dead process's as well, is one a call can have.
LEMMA IdleType == Idle \in Calls /\ Idle.pc = "idle"
                  /\ [Idle EXCEPT !.pc = "down"] \in Calls
  BY ConstantTypes, QtyAssumption DEF Idle, Calls, Control, Replies, Fault, Raise, OrderState

\* The venue's or the paper broker's view of an order is a reply naming that order.
LEMMA ViewType ==
  ASSUME NEW i \in VenueIds \union PaperIds, NEW o \in Order, o.status # "absent"
  PROVE  /\ View(i, o) \in Replies
         /\ View(i, o).kind = "order" /\ View(i, o).id = i
  BY DEF View, Order, OrderStatus, Replies, Snapshot

\* An answer that only acknowledges is a reply too, and names what it acknowledges.
LEMMA AcknowledgedType ==
  ASSUME NEW i \in VenueIds \union PaperIds \union {None}
  PROVE  /\ Acknowledged(i) \in Replies
         /\ Acknowledged(i).kind = "order" /\ Acknowledged(i).id = i
  BY QtyAssumption DEF Acknowledged, Replies, Snapshot

\* Either adapter passes a fetched order on as a reply that names it.
LEMMA AsFetchedType ==
  ASSUME TypeOK, NEW j \in Present(venue)
  PROVE  AsFetched(j) \in Replies /\ AsFetched(j).id = j
  <1>1. j \in VenueIds /\ venue[j] \in Order /\ venue[j].status # "absent"
    BY DEF TypeOK, Present
  <1>2. View(j, venue[j]) \in Replies /\ View(j, venue[j]).id = j
    BY <1>1, ViewType
  <1>3. [View(j, venue[j]) EXCEPT !.status = "unknown"] \in Replies
    BY <1>1 DEF View, Order, Replies, Snapshot
  <1>4. [View(j, venue[j]) EXCEPT !.status = "unknown"].id = j
    BY DEF View
  <1> QED
    BY <1>2, <1>3, <1>4 DEF AsFetched

\* A reply that does not tell what became of an order names no order.
LEMMA AmbiguousType ==
  /\ \A r \in Ambiguous : r \in Replies
  /\ \A r \in Ambiguous : r.kind = "order" => r.id = None
  BY QtyAssumption DEF Ambiguous, Transport, UnknownOutcome, Acknowledged, Raise, Replies, Fault, Snapshot

\* Every exception the engine tells apart is a reply.
LEMMA FaultType ==
  \A k \in {"network", "unavailable", "error", "exception", "missing"} :
    Raise(k) \in Replies /\ Raise(k).kind = k
  BY DEF Raise, Replies, Fault

\* Records and orders as the actions build them.
LEMMA NewTypes ==
  /\ NoRecord \in Record /\ NoOrder \in Order
  /\ NoRecord.state = "ABSENT" /\ NoRecord.client = None
  /\ \A c \in ClientIds : Approved(c) \in Record /\ Approved(c).client = c
                          /\ Approved(c).state = "RISK_APPROVED" /\ Approved(c).exid = None
  <1>1. NoRecord \in Record /\ NoRecord.state = "ABSENT" /\ NoRecord.client = None
    BY DEF NoRecord, Record
  <1>2. NoOrder \in Order
    BY QtyAssumption DEF NoOrder, Order, OrderStatus
  <1>3. ASSUME NEW c \in ClientIds
        PROVE  Approved(c) \in Record /\ Approved(c).client = c
               /\ Approved(c).state = "RISK_APPROVED" /\ Approved(c).exid = None
    BY DEF Approved, NoRecord, Record, OrderState
  <1> QED
    BY <1>1, <1>2, <1>3

\* ApplyResponse and FinishState are calls of Finish with well-typed arguments.
LEMMA ApplyType ==
  ASSUME store \in [Execs -> Record], todo \in SUBSET Execs,
         NEW e \in Execs, NEW raw \in Replies, raw.kind = "order", NEW allowed,
         ApplyResponse(e, raw, allowed)
  PROVE  \E t \in OrderState \ {"RISK_APPROVED"}, n \in Nat :
           Finish(e, t, raw.id, n) /\ raw.id \in VenueIds \union PaperIds \union {None}
  <1> DEFINE n == store[e].filled + raw.filled
             t == ResponseState(raw, n, allowed)
  <1>1. raw \in Snapshot
    BY DEF Replies, Fault
  <1>2. n \in Nat /\ raw.id \in VenueIds \union PaperIds \union {None}
    BY <1>1, QtyAssumption DEF Snapshot, Record
  <1>3. t \in OrderState \ {"RISK_APPROVED"}
    BY TargetStates DEF OrderState
  <1>4. Finish(e, t, raw.id, n)
    BY DEF ApplyResponse
  <1> QED
    BY <1>2, <1>3, <1>4

(***************************************************************************)
(* How a step treats the store.  Either it is left alone, or submit adds   *)
(* the next record, or one record that is not terminal moves: it keeps its *)
(* client id and never goes back to RISK_APPROVED.                         *)
(***************************************************************************)
RecordMoves(e, r) ==
  /\ e \in Active
  /\ r \in Record
  /\ r.client = store[e].client
  /\ r.state \in OrderState
  /\ r.state = store[e].state \/ r.state # "RISK_APPROVED"
  /\ store' = [store EXCEPT ![e] = r]

StoreStep ==
  \/ store' = store
  \/ \E c \in ClientIds : Submit(c)
  \/ \E e \in Execs, r \in Record : RecordMoves(e, r)

\* The end of a call moves at most the record it served, and only out of Active.
LEMMA FinishMoves ==
  ASSUME TypeOK, NEW e \in Active, NEW t \in OrderState \ {"RISK_APPROVED"},
         NEW exid \in VenueIds \union PaperIds \union {None}, NEW n \in Nat,
         Finish(e, t, exid, n)
  PROVE  /\ store' = store \/ \E r \in Record : RecordMoves(e, r) /\ r.exid = exid
         /\ store' \in [Execs -> Record]
         /\ todo' \in SUBSET Execs
         /\ call' = Idle
  <1>1. e \in Execs /\ store \in [Execs -> Record] /\ todo \in SUBSET Execs
    BY DEF Active, TypeOK
  <1> DEFINE r == [store[e] EXCEPT !.state = t, !.exid = exid, !.filled = n]
  <1>2. r \in Record /\ r.client = store[e].client /\ r.state = t /\ r.exid = exid
    BY <1>1 DEF Record
  <1>3. CASE Moves(store[e].state, t)
    <2>1. store' = [store EXCEPT ![e] = r] /\ todo' = todo \ {e} /\ call' = Idle
      BY <1>3 DEF Finish
    <2> HIDE DEF r
    <2>2. RecordMoves(e, r)
      BY <1>2, <2>1 DEF RecordMoves
    <2> QED
      BY <1>1, <1>2, <2>1, <2>2
  <1>4. CASE ~Moves(store[e].state, t)
    BY <1>1, <1>4 DEF Finish
  <1> QED
    BY <1>3, <1>4

-------------------------------------------------------------------------------
\* The execution being served is at work: the store agrees with the call.
LEMMA ServedIsActive ==
  ASSUME TypeOK, CallMatchesRecord, call.pc \notin {"idle", "down"}
  PROVE  call.exec \in Active /\ call.exec \in Execs
  <1>1. call.exec \in Execs /\ call.pc \in Control
    BY DEF TypeOK, Calls
  <1>2. store[call.exec].state \in {"RISK_APPROVED", "SUBMITTING", "CANCEL_PENDING"}
        \/ call.exec \in Active
    BY <1>1 DEF CallMatchesRecord, Control
  <1> QED
    BY <1>1, <1>2 DEF Active, Terminal

\* _set_state and save leave the exchange id of the record as it is.
LEMMA FinishStateMoves ==
  ASSUME TypeOK, NEW e \in Active, NEW t \in OrderState \ {"RISK_APPROVED"},
         FinishState(e, t)
  PROVE  /\ store' = store \/ \E r \in Record : RecordMoves(e, r) /\ r.exid = store[e].exid
         /\ store' \in [Execs -> Record]
         /\ todo' \in SUBSET Execs
         /\ call' = Idle
  <1>1. /\ store[e].exid \in VenueIds \union PaperIds \union {None}
        /\ store[e].filled \in Nat
    BY DEF Active, TypeOK, Record
  <1> QED
    BY <1>1, FinishMoves DEF FinishState

\* _apply_exchange_response moves the record it is given, to the id of the response.
LEMMA ApplyMoves ==
  ASSUME TypeOK, NEW e \in Active, NEW raw \in Replies, raw.kind = "order",
         NEW allowed, ApplyResponse(e, raw, allowed)
  PROVE  /\ store' = store \/ \E r \in Record : RecordMoves(e, r) /\ r.exid = raw.id
         /\ store' \in [Execs -> Record]
         /\ todo' \in SUBSET Execs
         /\ call' = Idle
  <1>1. e \in Execs /\ store \in [Execs -> Record] /\ todo \in SUBSET Execs
    BY DEF Active, TypeOK
  <1>2. PICK t \in OrderState \ {"RISK_APPROVED"}, n \in Nat :
           Finish(e, t, raw.id, n) /\ raw.id \in VenueIds \union PaperIds \union {None}
    BY <1>1, ApplyType
  <1> QED
    BY <1>2, FinishMoves

\* A step that only rewrites the state of one active record.
LEMMA StateMoves ==
  ASSUME TypeOK, NEW e \in Active, NEW t \in OrderState,
         t = store[e].state \/ t # "RISK_APPROVED",
         store' = [store EXCEPT ![e].state = t]
  PROVE  /\ \E r \in Record : RecordMoves(e, r) /\ r.exid = store[e].exid /\ r.state = t
         /\ store' \in [Execs -> Record]
  <1> DEFINE r == [store[e] EXCEPT !.state = t]
  <1>1. e \in Execs /\ store[e] \in Record
    BY DEF Active, TypeOK
  <1>2. r \in Record /\ r.client = store[e].client /\ r.state = t /\ r.exid = store[e].exid
    BY <1>1 DEF Record
  <1>3. store' = [store EXCEPT ![e] = r]
    OBVIOUS
  <1>4. store' \in [Execs -> Record]
    BY <1>1, <1>2, <1>3 DEF TypeOK
  <1> HIDE DEF r
  <1> QED
    BY <1>2, <1>3, <1>4 DEF RecordMoves

\* reconcile() keeps the record active, with its exchange id, and starts a fetch.
LEMMA ReconcileStarts ==
  ASSUME TypeOK, NEW e, StartReconcile(e)
  PROVE  /\ e \in Active
         /\ \E r \in Record : RecordMoves(e, r) /\ r.exid = store[e].exid
         /\ store' \in [Execs -> Record]
         /\ call' \in Calls
         /\ call'.pc = "fetching" /\ call'.exec = e /\ e \in Execs
         /\ call'.raw.kind = "missing"
         /\ store'[e].state \in OrderState \ Terminal
  <1>1. e \in Active /\ e \in Execs /\ store[e].state \in OrderState \ Terminal
    BY DEF StartReconcile, Active, TypeOK, Record
  <1> DEFINE t == IF Moves(store[e].state, "RECONCILING") THEN "RECONCILING"
                                                          ELSE store[e].state
  <1>2. store' = [store EXCEPT ![e].state = t]
    BY DEF StartReconcile
  <1>3. t \in OrderState \ Terminal /\ (t = store[e].state \/ t # "RISK_APPROVED")
    BY <1>1 DEF OrderState, Terminal
  <1> HIDE DEF t
  <1>4. /\ \E r \in Record : RecordMoves(e, r) /\ r.exid = store[e].exid /\ r.state = t
        /\ store' \in [Execs -> Record]
    BY <1>1, <1>2, <1>3, StateMoves
  <1>5. store'[e].state = t
    BY <1>1, <1>2 DEF TypeOK
  <1>6. call' = [Idle EXCEPT !.pc = "fetching", !.exec = e, !.prev = store[e].state]
    BY DEF StartReconcile
  <1>7. /\ call' \in Calls /\ call'.pc = "fetching" /\ call'.exec = e
        /\ call'.raw = Raise("missing")
    BY <1>1, <1>6, IdleType DEF Calls, Control, Idle
  <1> QED
    BY <1>1, <1>3, <1>4, <1>5, <1>7, FaultType

-------------------------------------------------------------------------------
\* An order as create_order makes one is well typed and present.
LEMMA OrderType ==
  ASSUME TypeOK, call.exec \in Execs, NEW f \in 0..call.allowed,
         NEW s \in {"open", "closed", "canceled", "rejected"},
         NEW o, o = [exec |-> call.exec, client |-> store[call.exec].client,
                     qty |-> call.allowed, filled |-> f, status |-> s]
  PROVE  o \in Order /\ o.status # "absent"
  <1>1. call.allowed \in 0..MaxQty /\ store[call.exec].client \in ClientIds \union {None}
    BY DEF TypeOK, Calls, Record
  <1>2. f \in 0..MaxQty
    BY <1>1, QtyAssumption
  <1> QED
    BY <1>1, <1>2 DEF Order, OrderStatus

(***************************************************************************)
(* Every step keeps the types and treats the store as StoreStep says.      *)
(***************************************************************************)
LEMMA StepTypes ==
  ASSUME TypeOK, CallMatchesRecord, [Next]_vars
  PROVE  TypeOK' /\ StoreStep
  <1> USE DEF TypeOK
  <1>0. call.pc \notin {"idle", "down"} => call.exec \in Active /\ call.exec \in Execs
    BY ServedIsActive
  <1>1. CASE RejectLocal
    <2>1. FinishState(call.exec, "REJECTED") /\ call.exec \in Active
      BY <1>0, <1>1 DEF RejectLocal
    <2>2. "REJECTED" \in OrderState \ {"RISK_APPROVED"}
      BY DEF OrderState
    <2> QED
      BY <1>1, <2>1, <2>2, FinishStateMoves, IdleType DEF RejectLocal, StoreStep
  <1>2. CASE StartSubmitting
    <2>1. call.exec \in Active /\ call.exec \in Execs
          /\ store' = [store EXCEPT ![call.exec].state = "SUBMITTING"]
      BY <1>0, <1>2 DEF StartSubmitting
    <2>2. "SUBMITTING" \in OrderState
      BY DEF OrderState
    <2>3. store' \in [Execs -> Record] /\ \E r \in Record : RecordMoves(call.exec, r)
      BY <2>1, <2>2, StateMoves
    <2>4. PICK q \in 1..call.allowed : call' = [call EXCEPT !.pc = "sending", !.allowed = q]
      BY <1>2 DEF StartSubmitting
    <2>5. q \in 0..MaxQty
      BY QtyAssumption DEF Calls
    <2>6. call' \in Calls /\ call'.exec \in Execs
      BY <2>1, <2>4, <2>5 DEF Calls, Control
    <2> QED
      BY <1>2, <2>1, <2>3, <2>6 DEF StartSubmitting, StoreStep
  <1>3. CASE SubmitPaper
    <2>1. call.exec \in Active /\ call.exec \in Execs
      BY <1>0, <1>3 DEF SubmitPaper
    <2>2. PICK i \in PaperIds, f \in 0..call.allowed :
            LET o == [exec |-> call.exec, client |-> store[call.exec].client,
                      qty |-> call.allowed, filled |-> f,
                      status |-> IF f = call.allowed THEN "closed" ELSE "open"]
            IN  /\ paper' = [paper EXCEPT ![i] = o]
                /\ ApplyResponse(call.exec, View(i, o), call.allowed)
      BY <1>3 DEF SubmitPaper
    <2> DEFINE s == IF f = call.allowed THEN "closed" ELSE "open"
               o == [exec |-> call.exec, client |-> store[call.exec].client,
                     qty |-> call.allowed, filled |-> f, status |-> s]
    <2>3. s \in {"open", "closed", "canceled", "rejected"}
      OBVIOUS
    <2>4. /\ paper' = [paper EXCEPT ![i] = o]
          /\ ApplyResponse(call.exec, View(i, o), call.allowed)
      BY <2>2
    <2> HIDE DEF s
    <2>5. o \in Order /\ o.status # "absent"
      BY <2>1, <2>3, OrderType
    <2> HIDE DEF o
    <2>6. View(i, o) \in Replies /\ View(i, o).kind = "order"
      BY <2>5, ViewType
    <2>7. /\ store' = store \/ \E r \in Record : RecordMoves(call.exec, r)
          /\ store' \in [Execs -> Record] /\ todo' \in SUBSET Execs /\ call' = Idle
      BY <2>1, <2>4, <2>6, ApplyMoves
    <2> QED
      BY <1>3, <2>1, <2>4, <2>5, <2>7, IdleType DEF SubmitPaper, StoreStep
  <1>4. CASE VenueAccepts
    <2>1. call.exec \in Execs /\ call.pc = "sending"
      BY <1>0, <1>4 DEF VenueAccepts
    <2>2. PICK v \in VenueIds, f \in 0..call.allowed,
               s \in {"open", "closed", "canceled", "rejected"} :
            LET o == [exec |-> call.exec, client |-> store[call.exec].client,
                      qty |-> call.allowed, filled |-> f, status |-> s]
            IN  /\ venue' = [venue EXCEPT ![v] = o]
                /\ \E r \in {View(v, o), Acknowledged(v)} \union Ambiguous : Reply(r)
      BY <1>4 DEF VenueAccepts
    <2> DEFINE o == [exec |-> call.exec, client |-> store[call.exec].client,
                     qty |-> call.allowed, filled |-> f, status |-> s]
    <2>3. o \in Order /\ o.status # "absent"
      BY <2>1, OrderType
    <2>4. /\ venue' = [venue EXCEPT ![v] = o]
          /\ \E r \in {View(v, o), Acknowledged(v)} \union Ambiguous : Reply(r)
      BY <2>2
    <2> HIDE DEF o
    <2>5. PICK r \in Replies : Reply(r)
      BY <2>3, <2>4, ViewType, AcknowledgedType, AmbiguousType
    <2>6. call' \in Calls /\ call'.exec = call.exec /\ trading' \in BOOLEAN
      BY <2>1, <2>5, ReplyType
    <2> QED
      BY <1>4, <2>1, <2>3, <2>4, <2>6 DEF VenueAccepts, StoreStep
  <1>5. CASE VenueRefuses
    <2>1. call.exec \in Execs /\ call.pc = "sending"
      BY <1>0, <1>5 DEF VenueRefuses
    <2>2. PICK r \in Replies : Reply(r)
      BY <1>5, AmbiguousType, FaultType DEF VenueRefuses
    <2>3. call' \in Calls /\ call'.exec = call.exec /\ trading' \in BOOLEAN
      BY <2>1, <2>2, ReplyType
    <2> QED
      BY <1>5, <2>1, <2>3 DEF VenueRefuses, StoreStep
  <1>6. CASE HandleSubmit
    <2>1. call.exec \in Active /\ call.raw \in Replies
      BY <1>0, <1>6 DEF HandleSubmit, Calls
    <2>2. FaultState(call.raw.kind) \in OrderState \ {"RISK_APPROVED"}
      BY TargetStates DEF OrderState
    <2>3. /\ store' = store \/ \E r \in Record : RecordMoves(call.exec, r)
          /\ store' \in [Execs -> Record] /\ todo' \in SUBSET Execs /\ call' = Idle
      <3>1. CASE call.raw.kind = "order"
        BY <1>6, <2>1, <3>1, ApplyMoves DEF HandleSubmit
      <3>2. CASE call.raw.kind # "order"
        BY <1>6, <2>1, <2>2, <3>2, FinishStateMoves DEF HandleSubmit
      <3> QED
        BY <3>1, <3>2
    <2> QED
      BY <1>6, <2>1, <2>3, IdleType DEF HandleSubmit, StoreStep, Active
  <1>7. CASE CancelPaper
    <2>1. call.exec \in Active /\ FinishState(call.exec, "CANCELLED")
      BY <1>0, <1>7 DEF CancelPaper
    <2>2. "CANCELLED" \in OrderState \ {"RISK_APPROVED"}
      BY DEF OrderState
    <2>3. paper' \in [PaperIds -> Order]
      <3> DEFINE i == store[call.exec].exid
                 o == [paper[i] EXCEPT !.status = "canceled"]
      <3>1. CASE i \in Present(paper)
        <4>1. i \in PaperIds /\ paper[i] \in Order
          BY <3>1 DEF Present
        <4>0. o \in Order
          BY <4>1 DEF Order, OrderStatus
        <4>2. paper' = [paper EXCEPT ![i] = o]
          BY <1>7, <3>1 DEF CancelPaper
        <4> HIDE DEF o
        <4> QED
          BY <4>0, <4>1, <4>2
      <3>2. CASE i \notin Present(paper)
        BY <1>7, <3>2 DEF CancelPaper
      <3> QED
        BY <3>1, <3>2
    <2> QED
      BY <1>7, <2>1, <2>2, <2>3, FinishStateMoves, IdleType DEF CancelPaper, StoreStep, Active
  <1>8. CASE CancelWithoutId
    <2>1. call.exec \in Active /\ FinishState(call.exec, "UNKNOWN")
      BY <1>0, <1>8 DEF CancelWithoutId
    <2>2. "UNKNOWN" \in OrderState \ {"RISK_APPROVED"}
      BY DEF OrderState
    <2> QED
      BY <1>8, <2>1, <2>2, FinishStateMoves, IdleType DEF CancelWithoutId, StoreStep, Active
  <1>9. CASE CancelLive
    <2> DEFINE i == store[call.exec].exid
    <2>1. call.exec \in Execs
      BY <1>0, <1>9 DEF CancelLive
    <2>2. venue' \in [VenueIds -> Order]
      <3> DEFINE o == [venue[i] EXCEPT !.status = "canceled"]
      <3>1. CASE UNCHANGED venue
        BY <3>1
      <3>2. CASE i \in Present(venue) /\ venue' = [venue EXCEPT ![i] = o]
        <4>1. i \in VenueIds /\ venue[i] \in Order
          BY <3>2 DEF Present
        <4>2. o \in Order
          BY <4>1 DEF Order, OrderStatus
        <4> HIDE DEF o
        <4> QED
          BY <3>2, <4>1, <4>2
      <3> QED
        BY <1>9, <3>1, <3>2 DEF CancelLive
    <2>3. \A j \in Present(venue) : venue'[j].status # "absent" /\ j \in VenueIds
      BY <1>9 DEF CancelLive, Present, Order
    <2>4. PICK r \in Replies : call' = [call EXCEPT !.pc = "canceled", !.raw = r]
      <3>1. \A j \in {i} \intersect Present(venue) :
              View(j, venue'[j]) \in Replies /\ Acknowledged(j) \in Replies
        BY <2>2, <2>3, ViewType, AcknowledgedType
      <3>2. PICK r \in {Raise("exception")} \union
                       UNION {{View(j, venue'[j]), Acknowledged(j)} :
                                j \in {i} \intersect Present(venue)} :
              call' = [call EXCEPT !.pc = "canceled", !.raw = r]
        BY <1>9 DEF CancelLive
      <3> QED
        BY <3>1, <3>2, FaultType
    <2>5. call' \in Calls /\ call'.exec \in Execs
      BY <2>1, <2>4 DEF Calls, Control
    <2> QED
      BY <1>9, <2>2, <2>5 DEF CancelLive, StoreStep
  <1>10. CASE HandleCancel
    <2>1. PICK t \in {"CANCELLED", "UNKNOWN"} : FinishState(call.exec, t)
      BY <1>10 DEF HandleCancel
    <2>2. call.exec \in Active /\ t \in OrderState \ {"RISK_APPROVED"}
      BY <1>0, <1>10 DEF HandleCancel, OrderState
    <2> QED
      BY <1>10, <2>1, <2>2, FinishStateMoves, IdleType DEF HandleCancel, StoreStep, Active
  <1>11. CASE Fetch
    <2>1. call.exec \in Execs
      BY <1>0, <1>11 DEF Fetch
    <2> DEFINE i == store[call.exec].exid
    <2>2. Fetched(i) \subseteq Replies
      <3>1. i \in Present(paper) => View(i, paper[i]) \in Replies
        BY ViewType DEF Present
      <3>2. \A j \in {i} \intersect Present(venue) : AsFetched(j) \in Replies
        BY AsFetchedType
      <3> QED
        BY <3>1, <3>2, FaultType DEF Fetched
    <2>3. PICK r \in Replies : call' = [call EXCEPT !.pc = "fetched", !.raw = r]
      BY <1>11, <2>2 DEF Fetch
    <2>4. call' \in Calls /\ call'.exec \in Execs
      BY <2>1, <2>3 DEF Calls, Control
    <2> QED
      BY <1>11, <2>4 DEF Fetch, StoreStep
  <1>12. CASE HandleFetch
    <2>1. call.exec \in Active /\ call.raw \in Replies
      BY <1>0, <1>12 DEF HandleFetch, Calls
    <2>2. {"FAILED", "UNKNOWN"} \subseteq OrderState \ {"RISK_APPROVED"}
      BY DEF OrderState
    <2>3. /\ store' = store \/ \E r \in Record : RecordMoves(call.exec, r)
          /\ store' \in [Execs -> Record] /\ todo' \in SUBSET Execs /\ call' = Idle
      <3>1. CASE call.raw.kind = "order"
        BY <1>12, <2>1, <3>1, ApplyMoves DEF HandleFetch
      <3>2. CASE call.raw.kind # "order"
        <4>1. PICK t \in {"FAILED", "UNKNOWN"} : FinishState(call.exec, t)
          BY <1>12, <3>2 DEF HandleFetch
        <4> QED
          BY <2>1, <2>2, <4>1, FinishStateMoves
      <3> QED
        BY <3>1, <3>2
    <2> QED
      BY <1>12, <2>1, <2>3, IdleType DEF HandleFetch, StoreStep, Active
  <1>13. CASE RecoverNext
    <2>1. PICK e \in todo : StartReconcile(e)
      BY <1>13 DEF RecoverNext
    <2> QED
      BY <2>1, ReconcileStarts DEF StartReconcile, StoreStep
  <1>14. ASSUME NEW c \in ClientIds, Submit(c)
         PROVE  TypeOK' /\ StoreStep
    <2>1. PICK e \in Execs :
            /\ store' = [store EXCEPT ![e] = Approved(c)]
            /\ call' = [Idle EXCEPT !.pc = "approved", !.exec = e, !.allowed = c.qty]
      BY <1>14 DEF Submit
    <2>2. store' \in [Execs -> Record]
      BY <2>1, NewTypes
    <2>3. c.qty \in 0..MaxQty
      BY ConstantTypes, QtyAssumption
    <2>4. call' \in Calls /\ call'.exec \in Execs
      BY <2>1, <2>3, IdleType DEF Calls, Control
    <2> QED
      BY <1>14, <2>2, <2>4 DEF Submit, StoreStep
  <1>15. ASSUME NEW e \in Execs, Cancel(e)
         PROVE  TypeOK' /\ StoreStep
    <2>1. e \in Active /\ store' = [store EXCEPT ![e].state = "CANCEL_PENDING"]
      BY <1>15 DEF Cancel
    <2>2. "CANCEL_PENDING" \in OrderState
      BY DEF OrderState
    <2>3. store' \in [Execs -> Record] /\ \E r \in Record : RecordMoves(e, r)
      BY <2>1, <2>2, StateMoves
    <2>4. call' = [Idle EXCEPT !.pc = "canceling", !.exec = e]
      BY <1>15 DEF Cancel
    <2>5. call' \in Calls /\ call'.exec \in Execs
      BY <2>4, IdleType DEF Calls, Control
    <2> QED
      BY <1>15, <2>3, <2>5 DEF Cancel, StoreStep
  <1>16. ASSUME NEW e \in Execs, Reconcile(e)
         PROVE  TypeOK' /\ StoreStep
    BY <1>16, ReconcileStarts DEF Reconcile, StartReconcile, StoreStep
  <1>17. CASE StartRecovery
    BY <1>17 DEF StartRecovery, StoreStep, Active
  <1>18. CASE SetMode
    BY <1>18 DEF SetMode, StoreStep
  <1>19. CASE Crash
    <2>1. /\ store' = store /\ venue' = venue /\ mode' = mode
          /\ call' = [Idle EXCEPT !.pc = "down"] /\ trading' = FALSE /\ todo' = {}
          /\ paper' = [p \in PaperIds |-> NoOrder]
      BY <1>19 DEF Crash
    <2>2. call' \in Calls /\ call'.pc = "down" /\ paper' \in [PaperIds -> Order]
      BY <2>1, IdleType, NewTypes DEF Calls
    <2> QED
      BY <2>1, <2>2 DEF StoreStep
  <1>20. CASE Restart
    BY <1>20, IdleType DEF Restart, StoreStep
  <1>21. ASSUME NEW v \in VenueIds, VenueFill(v) \/ VenueCancel(v)
         PROVE  TypeOK' /\ StoreStep
    <2>1. venue' \in [VenueIds -> Order]
      <3>1. CASE VenueCancel(v)
        <4>1. [venue[v] EXCEPT !.status = "canceled"] \in Order
          BY DEF Order, OrderStatus
        <4> QED
          BY <3>1, <4>1 DEF VenueCancel
      <3>2. CASE VenueFill(v)
        <4> DEFINE o == [venue[v] EXCEPT !.filled = @ + 1,
                           !.status = IF venue[v].filled + 1 = venue[v].qty
                                        THEN "closed" ELSE "open"]
        <4>1. o \in Order
          <5>1. venue[v] \in Order /\ venue[v].filled + 1 \in 0..MaxQty
            BY <3>2, QtyAssumption DEF VenueFill, Order
          <5> QED
            BY <5>1 DEF Order, OrderStatus
        <4>2. venue' = [venue EXCEPT ![v] = o]
          BY <3>2 DEF VenueFill
        <4> QED
          BY <4>1, <4>2
      <3> QED
        BY <1>21, <3>1, <3>2
    <2> QED
      BY <1>21, <2>1 DEF VenueFill, VenueCancel, StoreStep
  <1>22. CASE UNCHANGED vars
    BY <1>22 DEF vars, StoreStep
  <1> QED
    BY <1>1, <1>2, <1>3, <1>4, <1>5, <1>6, <1>7, <1>8, <1>9, <1>10, <1>11, <1>12,
       <1>13, <1>14, <1>15, <1>16, <1>17, <1>18, <1>19, <1>20, <1>21, <1>22
       DEF Next, EngineStep, Caller

-------------------------------------------------------------------------------
(***************************************************************************)
(* The order of creation, and one claim per client id: only the new record *)
(* of submit could break it, and submit makes one only when every earlier  *)
(* record of its client id is closed.                                      *)
(***************************************************************************)
LEMMA CreationKept ==
  ASSUME TypeOK, StoreStep, CreatedInOrder
  PROVE  CreatedInOrder'
  <1> USE DEF TypeOK
  <1>1. CASE store' = store
    BY <1>1 DEF CreatedInOrder
  <1>2. ASSUME NEW c \in ClientIds, Submit(c)
        PROVE  CreatedInOrder'
    <2>1. PICK e \in Execs : Fresh(e) /\ store' = [store EXCEPT ![e] = Approved(c)]
      BY <1>2 DEF Submit
    <2>2. /\ store'[e].state = "RISK_APPROVED" /\ store'[e].client = c /\ c # None
          /\ \A f \in Execs : f # e => store'[f] = store[f]
      BY <2>1, NewTypes, ConstantTypes
    <2>3. \A f \in Execs : store'[f].state = "ABSENT" <=> store'[f].client = None
      BY <2>2 DEF CreatedInOrder
    <2>4. ASSUME NEW f \in Execs, NEW g \in Execs, f < g, store'[f].state = "ABSENT"
          PROVE  store'[g].state = "ABSENT"
      BY <2>1, <2>2, <2>4 DEF CreatedInOrder, Fresh
    <2> QED
      BY <2>3, <2>4 DEF CreatedInOrder
  <1>3. ASSUME NEW e \in Execs, NEW r \in Record, RecordMoves(e, r)
        PROVE  CreatedInOrder'
    <2>1. /\ store[e].state # "ABSENT" /\ r.state # "ABSENT" /\ r.client = store[e].client
          /\ store' = [store EXCEPT ![e] = r]
      BY <1>3 DEF RecordMoves, Active, OrderState
    <2> QED
      BY <2>1 DEF CreatedInOrder
  <1> QED
    BY <1>1, <1>2, <1>3 DEF StoreStep

\* While the clock advances, the record a client id is judged by is its last one: when
\* submit makes a new record, all earlier ones of the client id are closed.
LEMMA AllClosed ==
  ASSUME ClockAdvances, EarlierClosed, NEW c \in ClientIds, Reusable(c)
  PROVE  \A g \in Execs : store[g].client = c => store[g].state \in Terminal \ {"FILLED"}
  <1>1. CASE \A g \in Execs : store[g].client # c
    BY <1>1
  <1>2. ASSUME NEW n \in Execs, store[n].client = c, Newest(n),
               store[n].state \in Terminal \ {"FILLED"},
               NEW g \in Execs, store[g].client = c
        PROVE  store[g].state \in Terminal \ {"FILLED"}
    <2>1. CreatedAt[g] <= CreatedAt[n] /\ CreatedAt \in [Execs -> Nat]
      BY <1>2, CreatedAssumption DEF Newest
    <2>2. ~(n < g)
      BY <2>1, BoundAssumption DEF ClockAdvances
    <2>3. g = n \/ g < n
      BY <2>2, BoundAssumption
    <2> QED
      BY <1>2, <2>3, ConstantTypes DEF EarlierClosed
  <1> QED
    BY <1>1, <1>2 DEF Reusable

\* While the clock advances, every step of the store leaves all executions of a
\* client id but the last one closed.
LEMMA EarlierClosedKept ==
  ASSUME ClockAdvances, TypeOK, StoreStep, CreatedInOrder, EarlierClosed
  PROVE  EarlierClosed'
  <1> USE DEF TypeOK
  <1>1. CASE store' = store
    BY <1>1 DEF EarlierClosed
  <1>2. ASSUME NEW c \in ClientIds, Submit(c)
        PROVE  EarlierClosed'
    <2>1. PICK e \in Execs : Fresh(e) /\ store' = [store EXCEPT ![e] = Approved(c)]
      BY <1>2 DEF Submit
    <2>2. /\ store'[e].client = c
          /\ \A f \in Execs : f # e => store'[f] = store[f]
      BY <2>1, NewTypes
    <2>3. \A g \in Execs : store[g].client = c => store[g].state \in Terminal \ {"FILLED"}
      BY <1>2, AllClosed DEF Submit
    <2>4. ASSUME NEW f \in Execs, NEW g \in Execs, f < g,
                 store'[f].client = store'[g].client, store'[f].client # None
          PROVE  store'[f].state \in Terminal \ {"FILLED"}
      <3>1. CASE f = e
        <4>1. store[g].client = None
          BY <2>1, <2>4, <3>1 DEF Fresh, CreatedInOrder
        <4> QED
          BY <2>2, <2>4, <3>1, <4>1
      <3>2. CASE g = e
        BY <2>2, <2>3, <2>4, <3>2
      <3>3. CASE f # e /\ g # e
        BY <2>2, <2>4, <3>3 DEF EarlierClosed
      <3> QED
        BY <3>1, <3>2, <3>3
    <2> QED
      BY <2>4 DEF EarlierClosed
  <1>3. ASSUME NEW e \in Execs, NEW r \in Record, RecordMoves(e, r)
        PROVE  EarlierClosed'
    <2>1. /\ store[e].state \notin Terminal /\ r.client = store[e].client
          /\ store' = [store EXCEPT ![e] = r]
      BY <1>3 DEF RecordMoves, Active
    <2>2. /\ store'[e].client = store[e].client
          /\ \A f \in Execs : f # e => store'[f] = store[f]
      BY <2>1
    <2>3. ASSUME NEW f \in Execs, NEW g \in Execs, f < g,
                 store'[f].client = store'[g].client, store'[f].client # None
          PROVE  store'[f].state \in Terminal \ {"FILLED"}
      <3>1. store[f].state \in Terminal \ {"FILLED"}
        BY <2>2, <2>3 DEF EarlierClosed
      <3>2. f # e
        BY <2>1, <3>1
      <3> QED
        BY <2>2, <3>1, <3>2
    <2> QED
      BY <2>3 DEF EarlierClosed
  <1> QED
    BY <1>1, <1>2, <1>3 DEF StoreStep

(***************************************************************************)
(* How a step treats the exchange's book: only an accepted create_order    *)
(* adds to it; whom an order was placed for, and for how much, never       *)
(* changes.                                                                *)
(***************************************************************************)
VenueKeeps ==
  \A v \in VenueIds :
    /\ v \in Present(venue)' <=> v \in Present(venue)
    /\ venue'[v].exec = venue[v].exec
    /\ venue'[v].client = venue[v].client
    /\ venue'[v].qty = venue[v].qty

\* What the exchange does of its own accord leaves every order its owner.
LEMMA VenueMoves ==
  ASSUME TypeOK, NEW v \in VenueIds, VenueFill(v) \/ VenueCancel(v)
  PROVE  VenueKeeps
  <1> USE DEF TypeOK, VenueKeeps, Present
  <1> DEFINE o == [venue[v] EXCEPT !.filled = @ + 1,
                     !.status = IF venue[v].filled + 1 = venue[v].qty
                                  THEN "closed" ELSE "open"]
             p == [venue[v] EXCEPT !.status = "canceled"]
  <1>1. /\ o.status # "absent" /\ o.exec = venue[v].exec
        /\ o.client = venue[v].client /\ o.qty = venue[v].qty
        /\ p.status # "absent" /\ p.exec = venue[v].exec
        /\ p.client = venue[v].client /\ p.qty = venue[v].qty
    BY DEF Order
  <1>2. /\ venue[v].status # "absent"
        /\ venue' = [venue EXCEPT ![v] = o] \/ venue' = [venue EXCEPT ![v] = p]
    BY DEF VenueFill, VenueCancel
  <1> HIDE DEF o, p
  <1> QED
    BY <1>1, <1>2

\* Apart from VenueAccepts, no step adds an order at the exchange or changes its owner.
LEMMA VenueStep ==
  ASSUME TypeOK, [Next]_vars
  PROVE  VenueKeeps \/ VenueAccepts
  <1> USE DEF TypeOK, VenueKeeps, Present
  <1>1. CASE venue' = venue
    BY <1>1
  <1>2. CASE CancelLive
    <2> DEFINE i == store[call.exec].exid
    <2>1. CASE UNCHANGED venue
      BY <2>1
    <2>2. CASE i \in VenueIds /\ venue[i].status = "open"
               /\ venue' = [venue EXCEPT ![i].status = "canceled"]
      BY <2>2 DEF Order
    <2> QED
      BY <1>2, <2>1, <2>2 DEF CancelLive
  <1>3. ASSUME NEW v \in VenueIds, VenueFill(v) \/ VenueCancel(v)
        PROVE  VenueKeeps
    BY <1>3, VenueMoves
  <1>4. CASE EngineStep
    <2>1. venue' = venue \/ CancelLive \/ VenueAccepts
      BY <1>4 DEF EngineStep, RejectLocal, StartSubmitting, SubmitPaper, VenueRefuses,
                  HandleSubmit, CancelPaper, CancelWithoutId, HandleCancel, Fetch,
                  HandleFetch, RecoverNext, StartReconcile
    <2> QED
      BY <1>1, <1>2, <2>1
  <1>5. CASE Caller \/ Crash \/ Restart \/ UNCHANGED vars
    <2>1. venue' = venue
      BY <1>5 DEF vars, Caller, Submit, Cancel, Reconcile, StartReconcile, StartRecovery,
                  SetMode, Crash, Restart
    <2> QED
      BY <1>1, <2>1
  <1> QED
    BY <1>3, <1>4, <1>5 DEF Next

\* Every step keeps a committed record behind every order at the exchange.
LEMMA PersistedKept ==
  ASSUME TypeOK, CallMatchesRecord, CreatedInOrder, PersistedBeforeSent, [Next]_vars
  PROVE  PersistedBeforeSent'
  <1> USE DEF TypeOK
  <1>1. CASE VenueAccepts
    <2>1. /\ call.exec \in Execs /\ call.pc = "sending"
          /\ store[call.exec].state = "SUBMITTING"
          /\ call.allowed <= store[call.exec].client.qty
          /\ store' = store
      BY <1>1 DEF VenueAccepts, CallMatchesRecord
    <2>2. PICK v, o :
            /\ v \in VenueIds
            /\ o.exec = call.exec /\ o.client = store[call.exec].client
            /\ o.qty = call.allowed
            /\ venue' = [venue EXCEPT ![v] = o]
      <3>1. PICK v \in VenueIds, f \in 0..call.allowed,
                 s \in {"open", "closed", "canceled", "rejected"} :
              venue' = [venue EXCEPT ![v] =
                          [exec |-> call.exec, client |-> store[call.exec].client,
                           qty |-> call.allowed, filled |-> f, status |-> s]]
        BY <1>1 DEF VenueAccepts
      <3> QED
        BY <3>1
    <2>3. \A w \in VenueIds : w # v => venue'[w] = venue[w]
      BY <2>2
    <2> QED
      BY <2>1, <2>2, <2>3 DEF PersistedBeforeSent, Present
  <1>2. CASE VenueKeeps
    <2>1. \A v \in Present(venue)' :
            /\ v \in Present(venue)
            /\ venue'[v].exec = venue[v].exec /\ venue'[v].client = venue[v].client
            /\ venue'[v].qty = venue[v].qty
      BY <1>2, StepTypes DEF VenueKeeps, Present
    <2>2. \A e \in Execs : store[e].state \notin {"ABSENT", "RISK_APPROVED"} =>
            store'[e].state \notin {"ABSENT", "RISK_APPROVED"}
            /\ store'[e].client = store[e].client
      <3>1. CASE store' = store
        BY <3>1
      <3>2. ASSUME NEW c \in ClientIds, Submit(c)
            PROVE  \A e \in Execs : store[e].state # "ABSENT" => store'[e] = store[e]
        BY <3>2 DEF Submit, Fresh
      <3>3. ASSUME NEW e \in Execs, NEW r \in Record, RecordMoves(e, r)
            PROVE  /\ store'[e] = r /\ r.client = store[e].client /\ r.state # "ABSENT"
                   /\ r.state = store[e].state \/ r.state # "RISK_APPROVED"
                   /\ \A f \in Execs : f # e => store'[f] = store[f]
        BY <3>3 DEF RecordMoves, OrderState
      <3>4. StoreStep
        BY StepTypes
      <3> QED
        BY <3>1, <3>2, <3>3, <3>4 DEF StoreStep
    <2> QED
      BY <2>1, <2>2 DEF PersistedBeforeSent
  <1> QED
    BY <1>1, <1>2, VenueStep

(***************************************************************************)
(* How a step treats the exchange ids of the records: an id is kept, or is *)
(* none of the exchange's, or names an order placed for the record.        *)
(***************************************************************************)
Owned(e, i) == i \in VenueIds => i \in Present(venue) /\ venue[i].exec = e

IdKeeps ==
  \A e \in Execs : store'[e].exid = store[e].exid \/ Owned(e, store'[e].exid)

\* A record that keeps its exchange id, or gets that of an order of its own, is safe.
LEMMA RecordIdKeeps ==
  ASSUME TypeOK, NEW e \in Execs, NEW r \in Record, RecordMoves(e, r),
         r.exid = store[e].exid \/ Owned(e, r.exid)
  PROVE  IdKeeps
  BY DEF RecordMoves, IdKeeps, TypeOK

\* No step gives a record the id of another execution's order.
LEMMA IdStep ==
  ASSUME TypeOK, CallMatchesRecord, ReplyIsOwn, [Next]_vars
  PROVE  IdKeeps
  <1> USE DEF TypeOK
  <1>0. call.pc \notin {"idle", "down"} => call.exec \in Active /\ call.exec \in Execs
    BY ServedIsActive
  <1>1. CASE store' = store
    BY <1>1 DEF IdKeeps
  <1>2. ASSUME NEW e \in Active, NEW t \in OrderState \ {"RISK_APPROVED"},
               FinishState(e, t)
        PROVE  IdKeeps
    BY <1>1, <1>2, FinishStateMoves, RecordIdKeeps DEF Active
  <1>3. CASE RejectLocal \/ CancelPaper \/ CancelWithoutId \/ HandleCancel
    <2>1. PICK t \in {"REJECTED", "CANCELLED", "UNKNOWN"} : FinishState(call.exec, t)
      BY <1>3 DEF RejectLocal, CancelPaper, CancelWithoutId, HandleCancel
    <2>2. t \in OrderState \ {"RISK_APPROVED"} /\ call.exec \in Active
      BY <1>0, <1>3
      DEF OrderState, RejectLocal, CancelPaper, CancelWithoutId, HandleCancel
    <2> QED
      BY <1>2, <2>1, <2>2
  <1>4. ASSUME NEW allowed, ApplyResponse(call.exec, call.raw, allowed),
               call.raw.kind = "order", call.pc \in {"sent", "fetched"}
        PROVE  IdKeeps
    <2>1. call.exec \in Active /\ call.exec \in Execs /\ call.raw \in Replies
      BY <1>0, <1>4 DEF Calls
    <2>2. call.raw.id = store[call.exec].exid \/ Owned(call.exec, call.raw.id)
      BY <1>4 DEF ReplyIsOwn, Owned
    <2> QED
      BY <1>1, <1>4, <2>1, <2>2, ApplyMoves, RecordIdKeeps
  <1>5. CASE HandleSubmit \/ HandleFetch
    <2>1. CASE call.raw.kind = "order"
      BY <1>4, <1>5, <2>1 DEF HandleSubmit, HandleFetch
    <2>2. CASE call.raw.kind # "order"
      <3>1. PICK t \in {"FAILED", "UNKNOWN"} : FinishState(call.exec, t)
        BY <1>5, <2>2, TargetStates DEF HandleSubmit, HandleFetch
      <3>2. t \in OrderState \ {"RISK_APPROVED"} /\ call.exec \in Active
        BY <1>0, <1>5 DEF OrderState, HandleSubmit, HandleFetch
      <3> QED
        BY <1>2, <3>1, <3>2
    <2> QED
      BY <2>1, <2>2
  <1>6. CASE SubmitPaper
    <2>1. call.exec \in Active /\ call.exec \in Execs
      BY <1>0, <1>6 DEF SubmitPaper
    <2>2. PICK i \in PaperIds, f \in 0..call.allowed, s \in {"open", "closed"} :
            ApplyResponse(call.exec,
                          View(i, [exec |-> call.exec, client |-> store[call.exec].client,
                                   qty |-> call.allowed, filled |-> f, status |-> s]),
                          call.allowed)
      BY <1>6 DEF SubmitPaper
    <2> DEFINE o == [exec |-> call.exec, client |-> store[call.exec].client,
                     qty |-> call.allowed, filled |-> f, status |-> s]
    <2>3. o \in Order /\ o.status # "absent"
      BY <2>1, OrderType
    <2>6. ApplyResponse(call.exec, View(i, o), call.allowed)
      BY <2>2
    <2> HIDE DEF o
    <2>4. View(i, o) \in Replies /\ View(i, o).kind = "order" /\ View(i, o).id = i
      BY <2>3, ViewType
    <2>5. Owned(call.exec, i)
      BY ConstantTypes DEF Owned
    <2> HIDE DEF Owned
    <2> QED
      BY <1>1, <2>1, <2>4, <2>5, <2>6, ApplyMoves, RecordIdKeeps
  <1>7. ASSUME NEW e \in Execs, StartReconcile(e)
        PROVE  IdKeeps
    BY <1>7, ReconcileStarts, RecordIdKeeps
  <1>8. ASSUME NEW e \in Active, NEW t \in {"SUBMITTING", "CANCEL_PENDING"},
               store' = [store EXCEPT ![e].state = t]
        PROVE  IdKeeps
    <2>1. t \in OrderState /\ t # "RISK_APPROVED" /\ e \in Execs
      BY DEF OrderState, Active
    <2> QED
      BY <1>8, <2>1, StateMoves, RecordIdKeeps
  <1>9. ASSUME NEW c \in ClientIds, Submit(c)
        PROVE  IdKeeps
    <2>1. PICK e \in Execs : store' = [store EXCEPT ![e] = Approved(c)]
      BY <1>9 DEF Submit
    <2> QED
      BY <2>1, NewTypes, ConstantTypes DEF IdKeeps, Owned
  <1>10. CASE EngineStep
    <2>1. CASE StartSubmitting
      BY <1>0, <1>8, <2>1 DEF StartSubmitting
    <2>2. CASE RecoverNext
      BY <1>7, <2>2 DEF RecoverNext
    <2>3. CASE VenueAccepts \/ VenueRefuses \/ CancelLive \/ Fetch
      BY <1>1, <2>3 DEF VenueAccepts, VenueRefuses, CancelLive, Fetch
    <2> QED
      BY <1>3, <1>5, <1>6, <1>10, <2>1, <2>2, <2>3 DEF EngineStep
  <1>11. CASE Caller
    <2>1. ASSUME NEW e \in Execs, Cancel(e)
          PROVE  IdKeeps
      BY <1>8, <2>1 DEF Cancel
    <2>2. ASSUME NEW e \in Execs, Reconcile(e)
          PROVE  IdKeeps
      BY <1>7, <2>2 DEF Reconcile
    <2>3. CASE StartRecovery \/ SetMode
      BY <1>1, <2>3 DEF StartRecovery, SetMode
    <2> QED
      BY <1>9, <1>11, <2>1, <2>2, <2>3 DEF Caller
  <1>12. ASSUME NEW v \in VenueIds, VenueFill(v) \/ VenueCancel(v)
         PROVE  IdKeeps
    BY <1>1, <1>12 DEF VenueFill, VenueCancel
  <1>13. CASE Crash \/ Restart \/ UNCHANGED vars
    BY <1>1, <1>13 DEF Crash, Restart, vars
  <1> QED
    BY <1>10, <1>11, <1>12, <1>13 DEF Next

\* Every step keeps each record naming only an order placed for it.
LEMMA OwnOrderKept ==
  ASSUME TypeOK, CallMatchesRecord, ReplyIsOwn, OwnOrder, [Next]_vars
  PROVE  OwnOrder'
  <1> USE DEF TypeOK
  <1>1. \A e \in Execs : Owned(e, store'[e].exid)
    BY IdStep DEF IdKeeps, OwnOrder, Owned
  <1>2. \A v \in Present(venue) : v \in Present(venue)' /\ venue'[v].exec = venue[v].exec
    <2>1. CASE VenueKeeps
      BY <2>1 DEF VenueKeeps, Present
    <2>2. CASE VenueAccepts
      <3>1. PICK v, o : /\ v \in VenueIds \ Present(venue)
                         /\ venue' = [venue EXCEPT ![v] = o]
        BY <2>2 DEF VenueAccepts
      <3> QED
        BY <3>1 DEF Present
    <2> QED
      BY <2>1, <2>2, VenueStep
  <1> QED
    BY <1>1, <1>2 DEF OwnOrder, Owned

-------------------------------------------------------------------------------
(***************************************************************************)
(* The call: what it knows of its record, the reply it holds, and the      *)
(* trading switch it opens.                                                *)
(***************************************************************************)
CallInv == CallMatchesRecord /\ ReplyIsOwn /\ GateOnlyDuringLiveCall

\* Between calls, and in a dead process, nothing is claimed of a call.
LEMMA IdleCall ==
  ASSUME call' \in {Idle, [Idle EXCEPT !.pc = "down"]}, trading' = FALSE
  PROVE  CallInv'
  <1>1. call'.pc \in {"idle", "down"} /\ call'.raw.kind = "missing"
    BY DEF Idle, Raise
  <1> QED
    BY <1>1 DEF CallInv, CallMatchesRecord, ReplyIsOwn, GateOnlyDuringLiveCall

\* Every step keeps the call in agreement with the record it serves, and the
\* adapter's switch closed outside a LIVE call.
LEMMA CallStep ==
  ASSUME TypeOK, CallInv, [Next]_vars
  PROVE  CallInv'
  <1> USE DEF TypeOK
  <1>0. call.pc \notin {"idle", "down"} => call.exec \in Active /\ call.exec \in Execs
    BY ServedIsActive DEF CallInv
  <1>1. CASE RejectLocal \/ SubmitPaper \/ HandleSubmit \/ CancelPaper
             \/ CancelWithoutId \/ HandleCancel \/ HandleFetch
    <2>1. trading = FALSE
      BY <1>1 DEF RejectLocal, SubmitPaper, HandleSubmit, CancelPaper, CancelWithoutId,
                  HandleCancel, HandleFetch, CallInv, CallMatchesRecord,
                  GateOnlyDuringLiveCall
    <2>2. trading' = trading /\ call' = Idle
      BY <1>1 DEF RejectLocal, SubmitPaper, HandleSubmit, CancelPaper, CancelWithoutId,
                  HandleCancel, HandleFetch, ApplyResponse, FinishState, Finish
    <2> QED
      BY <2>1, <2>2, IdleCall
  <1>2. CASE StartSubmitting
    <2>1. /\ call.exec \in Execs
          /\ store' = [store EXCEPT ![call.exec].state = "SUBMITTING"]
          /\ trading' = (mode = "LIVE") /\ mode' = mode
          /\ store[call.exec].client \in ClientIds
          /\ call.allowed <= store[call.exec].client.qty
      BY <1>0, <1>2 DEF StartSubmitting, CallInv, CallMatchesRecord
    <2>2. PICK q \in 1..call.allowed :
            call' = [call EXCEPT !.pc = "sending", !.allowed = q]
      BY <1>2 DEF StartSubmitting
    <2>3. call'.pc = "sending" /\ call'.exec = call.exec /\ call'.allowed = q
      BY <2>2 DEF Calls
    <2>4. /\ store'[call.exec].state = "SUBMITTING"
          /\ store'[call.exec].client = store[call.exec].client
      BY <2>1 DEF Record
    <2>5. q <= store[call.exec].client.qty
      BY <2>1, ConstantTypes, QtyAssumption DEF Calls
    <2> QED
      BY <2>1, <2>3, <2>4, <2>5
      DEF CallInv, CallMatchesRecord, ReplyIsOwn, GateOnlyDuringLiveCall
  <1>3. CASE VenueAccepts \/ VenueRefuses
    <2>1. /\ call.pc = "sending" /\ call.exec \in Execs /\ mode' = mode /\ mode = "LIVE"
          /\ store' = store
      BY <1>0, <1>3 DEF VenueAccepts, VenueRefuses
    <2>2. PICK r \in Replies :
            /\ Reply(r)
            /\ r.kind = "order" /\ r.id \in VenueIds =>
                 r.id \in Present(venue)' /\ venue'[r.id].exec = call.exec
      <3>1. CASE VenueRefuses
        BY <3>1, AmbiguousType, FaultType, ConstantTypes DEF VenueRefuses
      <3>2. CASE VenueAccepts
        <4>1. PICK v \in VenueIds, f \in 0..call.allowed,
                   s \in {"open", "closed", "canceled", "rejected"} :
                LET o == [exec |-> call.exec, client |-> store[call.exec].client,
                          qty |-> call.allowed, filled |-> f, status |-> s]
                IN  /\ venue' = [venue EXCEPT ![v] = o]
                    /\ \E r \in {View(v, o), Acknowledged(v)} \union Ambiguous : Reply(r)
          BY <3>2 DEF VenueAccepts
        <4> DEFINE o == [exec |-> call.exec, client |-> store[call.exec].client,
                         qty |-> call.allowed, filled |-> f, status |-> s]
        <4>5. /\ venue' = [venue EXCEPT ![v] = o]
              /\ \E r \in {View(v, o), Acknowledged(v)} \union Ambiguous : Reply(r)
          BY <4>1
        <4>2. o \in Order /\ o.status # "absent" /\ o.exec = call.exec
          BY <2>1, OrderType
        <4> HIDE DEF o
        <4>3. v \in Present(venue)' /\ venue'[v].exec = call.exec
          BY <4>2, <4>5 DEF Present
        <4>4. /\ View(v, o) \in Replies /\ View(v, o).id = v
              /\ Acknowledged(v) \in Replies /\ Acknowledged(v).id = v
          BY <4>2, ViewType, AcknowledgedType
        <4> QED
          BY <4>3, <4>4, <4>5, AmbiguousType, ConstantTypes
      <3> QED
        BY <1>3, <3>1, <3>2
    <2>3. /\ call'.exec = call.exec /\ call'.allowed = call.allowed
          /\ \/ call'.pc = "sending" /\ call'.raw = call.raw /\ trading' = trading
             \/ call'.pc = "sent" /\ call'.raw = r /\ trading' = FALSE
      BY <2>1, <2>2, ReplyType
    <2> HIDE DEF TypeOK
    <2> QED
      BY <2>1, <2>2, <2>3
      DEF CallInv, CallMatchesRecord, ReplyIsOwn, GateOnlyDuringLiveCall
  <1>4. CASE CancelLive
    <2>1. PICK r : call' = [call EXCEPT !.pc = "canceled", !.raw = r]
      BY <1>4 DEF CancelLive
    <2>2. call'.pc = "canceled" /\ call'.exec = call.exec
      BY <2>1 DEF Calls
    <2>3. call.pc = "canceling" /\ store' = store /\ trading' = FALSE
      BY <1>4 DEF CancelLive
    <2> QED
      BY <2>2, <2>3 DEF CallInv, CallMatchesRecord, ReplyIsOwn, GateOnlyDuringLiveCall
  <1>5. CASE Fetch
    <2> DEFINE i == store[call.exec].exid
    <2>1. PICK r \in Fetched(i) : call' = [call EXCEPT !.pc = "fetched", !.raw = r]
      BY <1>5 DEF Fetch
    <2>2. r.kind = "order" => r.id = i
      <3>1. \A j, o : View(j, o).id = j
        BY DEF View
      <3>2. \A j \in Present(venue) : AsFetched(j).id = j
        BY AsFetchedType
      <3> QED
        BY <2>1, <3>1, <3>2, FaultType DEF Fetched
    <2>3. call'.pc = "fetched" /\ call'.exec = call.exec /\ call'.raw = r
      BY <2>1 DEF Calls
    <2>4. /\ call.pc = "fetching" /\ store' = store /\ trading' = trading
          /\ call.exec \in Active /\ trading = FALSE
      BY <1>0, <1>5 DEF Fetch, CallInv, GateOnlyDuringLiveCall
    <2>5. call.exec \in Active'
      BY <2>4 DEF Active
    <2> QED
      BY <2>2, <2>3, <2>4, <2>5
      DEF CallInv, CallMatchesRecord, ReplyIsOwn, GateOnlyDuringLiveCall
  <1>6. ASSUME NEW e, StartReconcile(e), call.pc = "idle"
        PROVE  CallInv'
    <2>1. /\ call'.pc = "fetching" /\ call'.exec = e /\ e \in Execs
          /\ call'.raw.kind = "missing"
          /\ store'[e].state \in OrderState \ Terminal
      BY <1>6, ReconcileStarts
    <2>2. trading' = trading /\ trading = FALSE
      BY <1>6 DEF StartReconcile, CallInv, GateOnlyDuringLiveCall
    <2>3. e \in Active'
      BY <2>1 DEF Active, OrderState
    <2> QED
      BY <2>1, <2>2, <2>3
      DEF CallInv, CallMatchesRecord, ReplyIsOwn, GateOnlyDuringLiveCall
  <1>7. ASSUME NEW c \in ClientIds, Submit(c)
        PROVE  CallInv'
    <2>1. PICK e \in Execs :
            /\ store' = [store EXCEPT ![e] = Approved(c)]
            /\ call' = [Idle EXCEPT !.pc = "approved", !.exec = e, !.allowed = c.qty]
      BY <1>7 DEF Submit
    <2>2. /\ call'.pc = "approved" /\ call'.exec = e /\ call'.allowed = c.qty
          /\ call'.raw.kind = "missing"
      BY <2>1 DEF Idle, Raise
    <2>3. store'[e].state = "RISK_APPROVED" /\ store'[e].client = c
      BY <2>1, NewTypes
    <2>4. trading' = trading /\ trading = FALSE
      BY <1>7 DEF Submit, Free, CallInv, GateOnlyDuringLiveCall
    <2>5. c.qty <= c.qty
      BY ConstantTypes, QtyAssumption
    <2> QED
      BY <2>2, <2>3, <2>4, <2>5
      DEF CallInv, CallMatchesRecord, ReplyIsOwn, GateOnlyDuringLiveCall
  <1>8. ASSUME NEW e \in Execs, Cancel(e)
        PROVE  CallInv'
    <2>1. /\ store' = [store EXCEPT ![e].state = "CANCEL_PENDING"]
          /\ call' = [Idle EXCEPT !.pc = "canceling", !.exec = e]
          /\ trading' = (mode = "LIVE" /\ store[e].exid # None) /\ mode' = mode
      BY <1>8 DEF Cancel
    <2>2. call'.pc = "canceling" /\ call'.exec = e /\ call'.raw.kind = "missing"
      BY <2>1 DEF Idle, Raise
    <2>3. store'[e].state = "CANCEL_PENDING" /\ store'[e].exid = store[e].exid
      BY <2>1 DEF Record
    <2> QED
      BY <2>1, <2>2, <2>3
      DEF CallInv, CallMatchesRecord, ReplyIsOwn, GateOnlyDuringLiveCall
  <1>9. CASE /\ store' = store /\ call' = call /\ trading' = trading /\ mode' = mode
             /\ VenueKeeps
    BY <1>9 DEF CallInv, CallMatchesRecord, ReplyIsOwn, GateOnlyDuringLiveCall,
                VenueKeeps, Active
  <1>10. CASE Restart
    BY <1>10, IdleCall DEF Restart, CallInv, GateOnlyDuringLiveCall
  <1>11. CASE Crash
    BY <1>11, IdleCall DEF Crash
  <1>12. CASE SetMode
    <2>1. call.pc = "idle" /\ call' = call /\ store' = store /\ venue' = venue
          /\ trading' = FALSE
      BY <1>12 DEF SetMode, Free
    <2> QED
      BY <2>1 DEF CallInv, CallMatchesRecord, ReplyIsOwn, GateOnlyDuringLiveCall
  <1>13. CASE StartRecovery \/ UNCHANGED vars
    BY <1>9, <1>13 DEF StartRecovery, vars, VenueKeeps, Present
  <1>14. ASSUME NEW v \in VenueIds, VenueFill(v) \/ VenueCancel(v)
         PROVE  CallInv'
    BY <1>9, <1>14, VenueMoves DEF VenueFill, VenueCancel
  <1>15. CASE EngineStep
    BY <1>1, <1>2, <1>3, <1>4, <1>5, <1>6, <1>15 DEF EngineStep, RecoverNext
  <1>16. CASE Caller
    BY <1>6, <1>7, <1>8, <1>12, <1>13, <1>16 DEF Caller, Reconcile, Free
  <1> QED
    BY <1>10, <1>11, <1>13, <1>14, <1>15, <1>16 DEF Next

-------------------------------------------------------------------------------
(***************************************************************************)
(* The inductive invariant of the engine.                                  *)
(***************************************************************************)

\* A fresh process on an empty database satisfies it.
LEMMA InvInit == Init => IInv
  <1> SUFFICES ASSUME Init
               PROVE  IInv
    OBVIOUS
  <1>1. TypeOK
    BY NewTypes, IdleType DEF Init, TypeOK
  <1>2. CallMatchesRecord /\ ReplyIsOwn
    BY DEF Init, Idle, CallMatchesRecord, ReplyIsOwn
  <1>3. CreatedInOrder
    BY NewTypes DEF Init, CreatedInOrder
  <1>4. PersistedBeforeSent
    BY DEF Init, NoOrder, PersistedBeforeSent, Present
  <1>5. OwnOrder
    BY ConstantTypes DEF Init, NoRecord, OwnOrder
  <1> QED
    BY <1>1, <1>2, <1>3, <1>4, <1>5 DEF IInv, Init, GateOnlyDuringLiveCall

\* Every step of the engine, its callers and the exchange preserves it.
LEMMA InvNext == IInv /\ [Next]_vars => IInv'
  <1> SUFFICES ASSUME IInv, [Next]_vars
               PROVE  IInv'
    OBVIOUS
  <1> USE DEF IInv
  <1>1. TypeOK' /\ StoreStep
    BY StepTypes
  <1>2. CallMatchesRecord' /\ ReplyIsOwn' /\ GateOnlyDuringLiveCall'
    BY CallStep DEF CallInv
  <1>3. CreatedInOrder'
    BY <1>1, CreationKept
  <1>4. PersistedBeforeSent'
    BY PersistedKept
  <1>5. OwnOrder'
    BY OwnOrderKept
  <1> QED
    BY <1>1, <1>2, <1>3, <1>4, <1>5

(***************************************************************************)
(* The engine's records, exchange book and call always have their types    *)
(* and satisfy the inductive invariant, through every submit, cancel,      *)
(* reconcile, recovery, crash and change of mode.                          *)
(***************************************************************************)
THEOREM Invariance == Spec => []IInv
  BY InvInit, InvNext, PTL DEF Spec

\* Type correctness of the engine's state.
THEOREM TypeCorrect == Spec => []TypeOK
  <1>1. IInv => TypeOK
    BY DEF IInv
  <1> QED
    BY <1>1, Invariance, PTL

(***************************************************************************)
(* submit()'s idempotency, while the wall clock advances: of the executions*)
(* of one client order id, at most one is at work or filled.               *)
(***************************************************************************)
THEOREM SingleClaim ==
  ASSUME ClockAdvances
  PROVE  Spec => []OneClaimPerClientId
  <1>1. Init => EarlierClosed
    BY NewTypes DEF Init, EarlierClosed
  <1>2. IInv /\ EarlierClosed /\ [Next]_vars => EarlierClosed'
    BY StepTypes, EarlierClosedKept DEF IInv
  <1>3. EarlierClosed => OneClaimPerClientId
    <2> SUFFICES ASSUME EarlierClosed, NEW e \in Execs, NEW f \in Execs, e # f,
                        store[e].client = store[f].client, store[e].client # None
                 PROVE  ~(Claims(e) /\ Claims(f))
      BY DEF OneClaimPerClientId
    <2>1. CASE e < f
      BY <2>1 DEF EarlierClosed, Claims
    <2>2. CASE f < e
      BY <2>2 DEF EarlierClosed, Claims
    <2> QED
      BY <2>1, <2>2, BoundAssumption
  <1> QED
    BY <1>1, <1>2, <1>3, Invariance, PTL DEF Spec

(***************************************************************************)
(* _submit_to_venue() saves SUBMITTING before it asks the exchange: every  *)
(* order there has a committed record, of its client id, that recovery     *)
(* will look at.                                                           *)
(***************************************************************************)
THEOREM SentOnlyIfPersisted == Spec => []PersistedBeforeSent
  <1>1. IInv => PersistedBeforeSent
    BY DEF IInv
  <1> QED
    BY <1>1, Invariance, PTL

(***************************************************************************)
(* No response is ever applied to another execution's record.              *)
(***************************************************************************)
THEOREM RecordsNameTheirOrders == Spec => []OwnOrder
  <1>1. IInv => OwnOrder
    BY DEF IInv
  <1> QED
    BY <1>1, Invariance, PTL

(***************************************************************************)
(* _live_trading_gate() and the adapter's own reset close the trading      *)
(* switch again on every path out of a LIVE call, crashes included.        *)
(***************************************************************************)
THEOREM GateClosed == Spec => []GateOnlyDuringLiveCall
  <1>1. IInv => GateOnlyDuringLiveCall
    BY DEF IInv
  <1> QED
    BY <1>1, Invariance, PTL

(***************************************************************************)
(* In PAPER mode no step of the engine changes the exchange's book.        *)
(***************************************************************************)
THEOREM PaperIsSafe == Spec => PaperLeavesVenueAlone
  <1>1. ASSUME [Next]_vars, mode = "PAPER", call' # call
        PROVE  venue' = venue
    <2>1. CASE EngineStep
      BY <1>1, <2>1
      DEF EngineStep, RejectLocal, StartSubmitting, SubmitPaper, VenueAccepts,
          VenueRefuses, HandleSubmit, CancelPaper, CancelWithoutId, CancelLive,
          HandleCancel, Fetch, HandleFetch, RecoverNext, StartReconcile
    <2>2. CASE Caller \/ Crash \/ Restart \/ UNCHANGED vars
      BY <2>2 DEF vars, Caller, Submit, Cancel, Reconcile, StartReconcile, StartRecovery,
                  SetMode, Crash, Restart
    <2>3. ASSUME NEW v \in VenueIds, VenueFill(v) \/ VenueCancel(v)
          PROVE  FALSE
      BY <1>1, <2>3 DEF VenueFill, VenueCancel
    <2> QED
      BY <1>1, <2>1, <2>2, <2>3 DEF Next
  <1>2. [Next]_vars => [mode = "PAPER" /\ call' # call => venue' = venue]_vars
    BY <1>1
  <1> QED
    BY <1>2, PTL DEF Spec, PaperLeavesVenueAlone

===============================================================================
