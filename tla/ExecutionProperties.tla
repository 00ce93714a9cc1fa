------------------------- MODULE ExecutionProperties -------------------------
(***************************************************************************)
(* What the runs check, and the proofs establish, of ExecutionEngine.      *)
(***************************************************************************)
EXTENDS ExecutionEngine

\* The wall clock never repeats a millisecond nor steps back between two submits.
ClockAdvances == \A e, f \in Execs : e < f => CreatedAt[e] < CreatedAt[f]

\* An execution whose client id is spent for good or still at work.
Claims(e) == store[e].state \in (OrderState \ Terminal) \union {"FILLED"}

(***************************************************************************)
(* submit(): "same intent must not create a second order".  Whatever calls,*)
(* crashes and recoveries came before, at most one execution of a client   *)
(* id is at work or filled.  It takes a clock that advances: the record a  *)
(* client id is judged by is the one with the latest created_at_ms.        *)
(***************************************************************************)
OneClaimPerClientId ==
  \A e, f \in Execs :
    e # f /\ store[e].client = store[f].client /\ store[e].client # None
      => ~(Claims(e) /\ Claims(f))

(***************************************************************************)
(* _submit_to_venue(): an order is at the exchange only if its execution,  *)
(* for the same client id and at least the same approved quantity, was     *)
(* committed as SUBMITTING before: a crash at any point leaves a trace     *)
(* recover_on_startup can see.                                             *)
(***************************************************************************)
PersistedBeforeSent ==
  \A v \in Present(venue) :
    LET o == venue[v]
        r == store[o.exec]
    IN  /\ o.exec \in Execs
        /\ r.state \notin {"ABSENT", "RISK_APPROVED"}
        /\ r.client = o.client
        /\ o.qty <= r.client.qty

(***************************************************************************)
(* _apply_exchange_response() and the id kept across crashes: a record that*)
(* names an exchange order names one that exists and was placed for it.    *)
(***************************************************************************)
OwnOrder ==
  \A e \in Execs : store[e].exid \in VenueIds =>
    /\ store[e].exid \in Present(venue)
    /\ venue[store[e].exid].exec = e

(***************************************************************************)
(* _live_trading_gate(): the adapter accepts orders only while a LIVE call *)
(* is at the exchange, not between calls, not after a crash or a change of *)
(* mode, and not once an exception ended the call.                         *)
(***************************************************************************)
GateOnlyDuringLiveCall ==
  trading => mode = "LIVE" /\ call.pc \in {"sending", "canceling"}

(***************************************************************************)
(* reconcile() in an engine that only ever runs LIVE: the exchange decides.*)
(* A record is CANCELLED or REJECTED with an order id only when that order *)
(* is, carries fills only when the order has some, and is never FILLED     *)
(* without a fill at the exchange, however stale the answers were.         *)
(***************************************************************************)
VenueDecides ==
  \A e \in Execs :
    LET r == store[e]
    IN  /\ r.filled > 0 \/ r.state = "FILLED" =>
             r.exid \in VenueIds /\ venue[r.exid].filled > 0
        /\ r.state = "CANCELLED" =>
             r.exid \in VenueIds /\ venue[r.exid].status = "canceled"
        /\ r.state = "REJECTED" /\ r.exid # None => venue[r.exid].status = "rejected"

(***************************************************************************)
(* ExecutionMode.PAPER: while the engine is in PAPER mode nothing it does  *)
(* places an order at the exchange or cancels one there (fills and         *)
(* cancellations of the exchange's own accord leave the call as it is).    *)
(***************************************************************************)
PaperLeavesVenueAlone ==
  [][mode = "PAPER" /\ call' # call => venue' = venue]_vars

\* The states of a record some call should be serving.
InFlight == {"SUBMITTING", "CANCEL_PENDING", "RECONCILING"}

(***************************************************************************)
(* recover_on_startup(): when the loop ends (and not by a crash), no record*)
(* is left in a state of a call nobody is serving: every record found      *)
(* SUBMITTING, CANCEL_PENDING or RECONCILING was settled, and no           *)
(* TransitionError cut the loop short.                                     *)
(***************************************************************************)
RecoveryLeavesNoneInFlight ==
  [][todo # {} /\ todo' = {} /\ call'.pc # "down" =>
       \A e \in Execs : store'[e].state \notin InFlight]_vars

(***************************************************************************)
(* Liveness of the synchronous engine: every call and every recovery ends, *)
(* by returning, by raising or by a crash.                                 *)
(***************************************************************************)
CallsEnd == ~Free ~> (Free \/ call.pc = "down")

(***************************************************************************)
(* The engine implements the ledger: states and orders grouped by phase.   *)
(***************************************************************************)
Phase(s) ==
  CASE s = "ABSENT"        -> "absent"
    [] s = "RISK_APPROVED" -> "durable"
    [] s = "SUBMITTING"    -> "inflight"
    [] s = "FILLED"        -> "filled"
    [] s \in {"CANCELLED", "REJECTED", "FAILED"} -> "closed"
    [] OTHER               -> "tracked"

OrdersOf(e) == {v \in Present(venue) : venue[v].exec = e}

Ledger == INSTANCE ExecutionLedger WITH
  Attempts <- Retries + 1,
  phase  <- [e \in Execs |-> Phase(store[e].state)],
  client <- [e \in Execs |-> store[e].client],
  orders <- [e \in Execs |-> OrdersOf(e)]

\* Opening, launching, placing and settling happen only as the ledger allows:
\* in particular an execution never has more orders than create_order attempts.
ImplementsLedger == Ledger!LedgerSpec

-------------------------------------------------------------------------------
(***************************************************************************)
(* The inductive invariant behind the safety properties.                   *)
(***************************************************************************)

\* What the store holds of the execution being served, at each point of control.
CallMatchesRecord ==
  LET r == store[call.exec]
  IN  /\ call.pc = "approved" => r.state = "RISK_APPROVED"
      /\ call.pc \in {"sending", "sent"} => r.state = "SUBMITTING"
      /\ call.pc \in {"approved", "sending", "sent"} =>
           r.client \in ClientIds /\ call.allowed <= r.client.qty
      /\ call.pc \in {"canceling", "canceled"} => r.state = "CANCEL_PENDING"
      /\ call.pc = "canceling" /\ trading => r.exid # None
      /\ call.pc \in {"fetching", "fetched"} => call.exec \in Active

\* A reply in hand names an order placed for the execution it will be applied to.
ReplyIsOwn ==
  call.raw.kind = "order" =>
    /\ call.pc = "sent" /\ call.raw.id \in VenueIds =>
         call.raw.id \in Present(venue) /\ venue[call.raw.id].exec = call.exec
    /\ call.pc = "fetched" => call.raw.id = store[call.exec].exid

\* Executions are created in the order of their ids and have a client id from then on.
CreatedInOrder ==
  /\ \A e \in Execs : store[e].state = "ABSENT" <=> store[e].client = None
  /\ \A e, f \in Execs : e < f /\ store[e].state = "ABSENT" => store[f].state = "ABSENT"

IInv ==
  /\ TypeOK
  /\ CallMatchesRecord
  /\ ReplyIsOwn
  /\ CreatedInOrder
  /\ PersistedBeforeSent
  /\ OwnOrder
  /\ GateOnlyDuringLiveCall

\* OneClaimPerClientId with the order of creation, which makes it inductive (with
\* IInv, and while ClockAdvances).
EarlierClosed ==
  \A e, f \in Execs :
    e < f /\ store[e].client = store[f].client /\ store[e].client # None
      => store[e].state \in Terminal \ {"FILLED"}

(***************************************************************************)
(* What the ledger, the recovery loop and the exchange's say need besides. *)
(***************************************************************************)

\* create_order places at most one order per attempt, and counts its attempts.
AttemptsCounted ==
  /\ call.tries <= Retries
  /\ call.pc = "sending" => Cardinality(OrdersOf(call.exec)) <= call.tries

(***************************************************************************)
(* The retry loop of create_order: an execution never has more orders at   *)
(* the exchange than the adapter makes attempts in one call, since no      *)
(* execution is submitted twice.                                           *)
(***************************************************************************)
OrdersWithinAttempts == \A e \in Execs : Cardinality(OrdersOf(e)) <= Retries + 1

\* Before any answer is applied a record has no exchange id and no fills.
Unanswered ==
  \A e \in Execs : store[e].state \in {"RISK_APPROVED", "SUBMITTING"} =>
                     store[e].exid = None /\ store[e].filled = 0

\* During recover_on_startup every record in flight is still to be reconciled, and the
\* one that is being reconciled will accept whatever it is told.
RecoveryInv ==
  todo # {} =>
    /\ call.pc \in {"idle", "fetching", "fetched"}
    /\ \A e \in todo : store[e].state \in Recoverable
    /\ \A e \in Execs : store[e].state \in InFlight => e \in todo
    /\ call.pc # "idle" =>
         /\ call.exec \in todo
         /\ \/ store[call.exec].state = "RECONCILING"
            \/ store[call.exec].state = "SUBMITTING" /\ call.prev = "SUBMITTING"

\* An order can only be fetched by an exchange id.
FetchedById ==
  call.pc = "fetched" /\ call.raw.kind # "missing" => store[call.exec].exid # None

\* What the exchange has said and cannot take back.
SaidOf(v, raw) ==
  /\ raw.filled > 0 \/ raw.status = "closed" => venue[v].filled > 0
  /\ raw.status \in {"canceled", "rejected"} => venue[v].status = raw.status

ReplyHolds ==
  call.raw.kind = "order" /\ call.pc \in {"sent", "canceled", "fetched"} =>
    /\ call.raw.id \in VenueIds \union {None}
    /\ call.raw.id \in VenueIds =>
         call.raw.id \in Present(venue) /\ SaidOf(call.raw.id, call.raw)
    /\ call.raw.id = None => call.raw.filled = 0 /\ call.raw.status = "unknown"
    /\ call.pc # "sent" => call.raw.id \in VenueIds /\ call.raw.id = store[call.exec].exid

ClosedHasFills == \A v \in VenueIds : venue[v].status = "closed" => venue[v].filled > 0

NoPaperIds == \A e \in Execs : store[e].exid \in VenueIds \union {None}

\* VenueDecides, made inductive (with IInv and Unanswered, in an engine that only ever
\* runs LIVE).
VenueInv ==
  /\ VenueDecides
  /\ NoPaperIds
  /\ ReplyHolds
  /\ ClosedHasFills
  /\ call.pc \in {"sending", "sent"} => call.allowed > 0

-------------------------------------------------------------------------------
\* Statements of the documentation that the code does not keep.

(***************************************************************************)
(* EXECUTION.md: "Same intent -> same client order id -> store returns     *)
(* existing active/filled record. No duplicate submit."  Read at the       *)
(* exchange: of the orders one client id has placed there, at most one is  *)
(* working or has ever filled.                                             *)
(***************************************************************************)
Effective == {v \in VenueIds : venue[v].status \in {"open", "closed"} \/ venue[v].filled > 0}

NoDuplicateSubmit ==
  \A v, w \in Effective : v # w => venue[v].client # venue[w].client

(***************************************************************************)
(* EXECUTION.md: "Exchange is authoritative for actual fills and status".  *)
(***************************************************************************)
FillsAsAtVenue ==
  \A e \in Execs : store[e].exid \in VenueIds =>
    store[e].filled <= venue[store[e].exid].filled

(***************************************************************************)
(* EXECUTION.md: "Transport failure before known accept: UNKNOWN ->        *)
(* reconcile" and "Reconcile only - never resubmit".  Read at the exchange:*)
(* one execution places one order.  The retry loop of the ccxt adapter is  *)
(* under the engine, which sees none of it.                                *)
(***************************************************************************)
OneOrderPerExecution ==
  \A v, w \in Present(venue) : v # w => venue[v].exec # venue[w].exec

(***************************************************************************)
(* EXECUTION.md: "Exchange is authoritative for actual fills and status".  *)
(* A status the exchange answers reconcile() with reaches the engine.      *)
(***************************************************************************)
StatusAsAtVenue ==
  [][call.pc = "fetching" /\ call'.raw.kind = "order" /\ mode = "LIVE" =>
       call'.raw.status = venue[call'.raw.id].status]_vars

===============================================================================
