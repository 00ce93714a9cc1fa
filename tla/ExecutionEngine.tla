--------------------------- MODULE ExecutionEngine ---------------------------
(***************************************************************************)
(* The order management core: ExecutionEngine (execution/engine.py) with   *)
(* its SQLite ExecutionStore, its in-memory PaperBroker, the create-order  *)
(* retry loop of the exchange adapter, and the exchange itself (external). *)
(*                                                                         *)
(* The engine is one synchronous thread: it serves one call at a time and  *)
(* "call" is that call's local state.  A call is cut into steps wherever   *)
(* the store is committed or the exchange is asked, so that a crash, or a  *)
(* fill at the exchange, can fall between any two of them.  The store and  *)
(* the exchange survive a crash; the call, the paper book and the adapter's*)
(* trading switch do not.                                                  *)
(***************************************************************************)
EXTENDS OrderStates, Integers, FiniteSets

CONSTANTS
  Intents,    \* intent keys of the callers (with side, symbol and price fixed)
  MaxQty,     \* largest quantity a risk decision allows
  Modes,      \* the execution modes the process is started or switched in
  Adapter,    \* "ccxt" or "tokocrypto": which adapter serves LIVE
  MaxExecs,   \* bound: executions ever created
  MaxOrders,  \* bound: orders the exchange ever accepts
  CreatedAt,  \* what the wall clock read, in ms, when the n-th execution was created
  None        \* Python's None

ASSUME QtyAssumption     == MaxQty \in Nat \ {0}
ASSUME ModesAssumption   == Modes \subseteq {"PAPER", "LIVE"} /\ Modes # {}
ASSUME AdapterAssumption == Adapter \in {"ccxt", "tokocrypto"}
ASSUME BoundAssumption   == MaxExecs \in Nat \ {0} /\ MaxOrders \in Nat
ASSUME CreatedAssumption == CreatedAt \in [1..MaxExecs -> Nat]

Execs     == 1..MaxExecs             \* execution ids, in order of creation
VenueIds  == {"live"} \X (1..MaxOrders)
PaperIds  == {"paper"} \X (1..MaxExecs)
Qty       == 1..MaxQty

(***************************************************************************)
(* make_client_order_id hashes the order's parameters, the quantity the    *)
(* risk engine allowed among them, with the caller's intent key.           *)
(***************************************************************************)
ClientIds == [intent : Intents, qty : Qty]

ASSUME NoneAssumption ==
  None \notin ClientIds \union VenueIds \union PaperIds \union Execs

\* ExchangeAdapter._safe_call repeats a create_order this often after a
\* transport error; TokocryptoRestClient never repeats a POST.
Retries == IF Adapter = "ccxt" THEN 2 ELSE 0

Record == [client : ClientIds \union {None}, state : OrderState \union {"ABSENT"},
           exid : VenueIds \union PaperIds \union {None}, filled : Nat]
NoRecord == [client |-> None, state |-> "ABSENT", exid |-> None, filled |-> 0]

OrderStatus == {"absent", "open", "closed", "canceled", "rejected"}
Order == [exec : Execs \union {None}, client : ClientIds \union {None},
          qty : 0..MaxQty, filled : 0..MaxQty, status : OrderStatus]
NoOrder == [exec |-> None, client |-> None, qty |-> 0, filled |-> 0, status |-> "absent"]

\* What a request comes back with: the venue's view of an order, nothing, or
\* one of the exceptions the engine tells apart.
Snapshot == [kind : {"order"}, id : VenueIds \union PaperIds \union {None},
             status : {"open", "closed", "canceled", "rejected", "unknown"},
             filled : 0..MaxQty]
Fault    == [kind : {"network", "unavailable", "error", "exception", "missing"}]
Raise(k) == [kind |-> k]
Replies  == Snapshot \union Fault

\* Where a call can stand: before and after each request to the exchange.
Control == {"idle", "down", "approved", "sending", "sent",
            "canceling", "canceled", "fetching", "fetched"}
Calls == [pc : Control, exec : Execs \union {None}, allowed : 0..MaxQty,
          prev : OrderState, tries : 0..2, raw : Replies]

VARIABLES
  store,      \* SQLite "executions": execution id -> record
  venue,      \* the exchange's order book: exchange id -> order
  paper,      \* PaperBroker._orders, in memory
  mode,       \* ExecutionEngine._mode
  trading,    \* ExchangeAdapter._trading_enabled
  call,       \* local state of the call being served
  todo        \* executions recover_on_startup has still to reconcile

vars == <<store, venue, paper, mode, trading, call, todo>>

Idle == [pc |-> "idle", exec |-> None, allowed |-> 0, prev |-> "PROPOSED",
         tries |-> 0, raw |-> Raise("missing")]

TypeOK ==
  /\ store \in [Execs -> Record]
  /\ venue \in [VenueIds -> Order]
  /\ paper \in [PaperIds -> Order]
  /\ mode \in Modes
  /\ trading \in BOOLEAN
  /\ call \in Calls
  /\ call.pc \notin {"idle", "down"} => call.exec \in Execs
  /\ todo \in SUBSET Execs

Init ==
  /\ store = [e \in Execs |-> NoRecord]
  /\ venue = [v \in VenueIds |-> NoOrder]
  /\ paper = [p \in PaperIds |-> NoOrder]
  /\ mode \in Modes
  /\ trading = FALSE
  /\ call = Idle
  /\ todo = {}

-------------------------------------------------------------------------------
\* Vocabulary of the actions.

Present(book) == {i \in DOMAIN book : book[i].status # "absent"}
Active        == {e \in Execs : store[e].state \notin Terminal \union {"ABSENT"}}
Free          == call.pc = "idle" /\ todo = {}

Fresh(e)  == /\ store[e].state = "ABSENT"
             /\ \A f \in Execs : f < e => store[f].state # "ABSENT"

\* get_by_client_order_id: ORDER BY created_at_ms DESC LIMIT 1.  Of several rows
\* created in the same millisecond any may be the one returned.
Newest(e) ==
  \A f \in Execs : store[f].client = store[e].client => CreatedAt[f] <= CreatedAt[e]

View(i, order) == [kind |-> "order", id |-> i, status |-> order.status,
                   filled |-> order.filled]

\* An answer that says the request was served but does not describe the order.
Acknowledged(i) == [kind |-> "order", id |-> i, status |-> "unknown", filled |-> 0]

\* A TradingDisabledError or any ExchangeError but a NetworkError (or one whose
\* message names a timeout: "network" here) means FAILED; a NetworkError and every
\* exception from elsewhere mean UNKNOWN.
FaultState(kind) == IF kind \in {"network", "exception"} THEN "UNKNOWN" ELSE "FAILED"

\* _set_state followed by store.save, and the end of the call.  A move the state
\* machine does not have raises TransitionError: nothing is saved, and a recovery
\* loop the call runs under is abandoned with it.
FinishAndAskAgain(e, target, exid, filled) ==   \* MUTANT: recovery repeats itself
  /\ IF Moves(store[e].state, target)
       THEN store' = [store EXCEPT ![e] = [@ EXCEPT !.state = target, !.exid = exid,
                                                    !.filled = filled]]
       ELSE store' = store
  /\ todo' = todo
  /\ call' = Idle

Finish(e, target, exid, filled) ==
  /\ IF Moves(store[e].state, target)
       THEN /\ store' = [store EXCEPT ![e] = [@ EXCEPT !.state = target, !.exid = exid,
                                                       !.filled = filled]]
            /\ todo' = todo \ {e}
       ELSE /\ store' = store
            /\ todo' = {}
  /\ call' = Idle

FinishState(e, target) == Finish(e, target, store[e].exid, store[e].filled)

\* _apply_exchange_response: the cumulative quantity the venue reports is appended
\* as one more fill, and the state follows from the sum of the fills.
ResponseState(raw, filled, allowed) ==
  IF raw.status = "closed" \/ filled >= allowed THEN "FILLED"
  ELSE IF raw.filled > 0 THEN "PARTIALLY_FILLED"
  ELSE CASE raw.status = "open"     -> "OPEN"
         [] raw.status = "canceled" -> "CANCELLED"
         [] raw.status = "rejected" -> "REJECTED"
         [] OTHER                   -> "SUBMITTED"

ApplyResponse(e, raw, allowed) ==
  LET filled == store[e].filled + raw.filled
  IN  Finish(e, ResponseState(raw, filled, allowed), raw.id, filled)

-------------------------------------------------------------------------------
(***************************************************************************)
(* submit().  A client id whose newest record is active or FILLED is       *)
(* answered from the store, which changes nothing.  Otherwise a new record *)
(* is saved as RISK_APPROVED, the final risk check may reject it or        *)
(* tighten the quantity (in memory only: the upsert does not touch         *)
(* allowed_quantity), and SUBMITTING is saved before the venue is asked.   *)
(***************************************************************************)
\* MUTANT: only a FILLED record is returned, an active one is not.
ReusableWhileActive(c) ==
  \/ \A e \in Execs : store[e].client # c
  \/ \E e \in Execs : store[e].client = c /\ Newest(e) /\ store[e].state # "FILLED"

\* MUTANT: a FILLED record is not returned, only an active one is.
ReusableAfterFill(c) ==
  \/ \A e \in Execs : store[e].client # c
  \/ \E e \in Execs : store[e].client = c /\ Newest(e) /\ store[e].state \in Terminal

Reusable(c) ==
  \/ \A e \in Execs : store[e].client # c
  \/ \E e \in Execs : /\ store[e].client = c /\ Newest(e)
                      /\ store[e].state \in Terminal \ {"FILLED"}

\* MUTANT: the new record is saved before it is set to RISK_APPROVED.
ApprovedTooLate(c) == [NoRecord EXCEPT !.client = c, !.state = "PROPOSED"]

\* record_from_decision
Approved(c) == [NoRecord EXCEPT !.client = c, !.state = "RISK_APPROVED"]

Submit(c) ==
  /\ Free
  /\ Reusable(c)
  /\ \E e \in Execs :
       /\ Fresh(e)
       /\ store' = [store EXCEPT ![e] = Approved(c)]
       /\ call' = [Idle EXCEPT !.pc = "approved", !.exec = e, !.allowed = c.qty]
  /\ UNCHANGED <<venue, paper, mode, trading, todo>>

\* EMERGENCY_STOP, a failed final check or a quantity floored to zero.
RejectLocal ==
  /\ call.pc = "approved"
  /\ FinishState(call.exec, "REJECTED")
  /\ UNCHANGED <<venue, paper, mode, trading>>

\* What the final check and the floor to the market's precision leave of it.
Tightened == 1..call.allowed

\* MUTANT: the order is sent before SUBMITTING is saved.
StartSubmittingUnsaved ==
  /\ call.pc = "approved"
  /\ \E q \in Tightened :
       call' = [call EXCEPT !.pc = "sending", !.allowed = q]
  /\ trading' = (mode = "LIVE")
  /\ UNCHANGED <<store, venue, paper, mode, todo>>

\* Final check passed; _live_trading_gate opens the adapter's switch in LIVE mode.
StartSubmitting ==
  /\ call.pc = "approved"
  /\ store' = [store EXCEPT ![call.exec].state = "SUBMITTING"]
  /\ \E q \in Tightened :
       call' = [call EXCEPT !.pc = "sending", !.allowed = q]
  /\ trading' = (mode = "LIVE")
  /\ UNCHANGED <<venue, paper, mode, todo>>

\* PaperBroker.create_order: the next "paper-N" id, filled by the broker's fill ratio.
SubmitPaper ==
  /\ call.pc = "sending" /\ mode = "PAPER"
  /\ \E i \in PaperIds, f \in 0..call.allowed :
       /\ i \notin Present(paper)
       /\ \A j \in PaperIds : j[2] < i[2] => j \in Present(paper)
       /\ LET o == [exec |-> call.exec, client |-> store[call.exec].client,
                    qty |-> call.allowed, filled |-> f,
                    status |-> IF f = call.allowed THEN "closed" ELSE "open"]
          IN  /\ paper' = [paper EXCEPT ![i] = o]
              /\ ApplyResponse(call.exec, View(i, o), call.allowed)
  /\ UNCHANGED <<venue, mode, trading>>

(***************************************************************************)
(* One create_order request to the exchange.  The exchange accepts it, with*)
(* whatever it filled at once, or it does not; independently, the answer   *)
(* comes back or is replaced by a fault.  A transport fault is retried by  *)
(* the ccxt adapter, every other outcome ends the call to the adapter and  *)
(* closes the trading switch.                                              *)
(***************************************************************************)
\* MUTANT: the check of the mode is forgotten.
AtVenueInAnyMode(pc) == call.pc = pc

\* The call is one that the exchange, not the paper broker, has to answer.
AtVenue(pc) == call.pc = pc /\ mode = "LIVE"

Transport == IF Adapter = "ccxt" THEN {"network", "unavailable"} ELSE {"network"}

UnknownOutcome == Acknowledged(None)   \* what the Tokocrypto adapter makes of a 5xx

Ambiguous ==        \* replies that do not tell whether the order was accepted
  {Raise(k) : k \in Transport \union {"error"}}
    \union (IF Adapter = "tokocrypto" THEN {UnknownOutcome} ELSE {})

\* MUTANT: a POST is repeated like a GET, whatever the adapter.
ReplyRepeatsPost(r) ==
  IF r.kind \in Transport /\ call.tries < 2
    THEN /\ call' = [call EXCEPT !.tries = @ + 1]
         /\ UNCHANGED trading
    ELSE /\ call' = [call EXCEPT !.pc = "sent", !.raw = r]
         /\ trading' = FALSE

\* MUTANT: an exception leaves the trading switch open.
ReplyWithoutFinally(r) ==
  IF r.kind \in Transport /\ call.tries < Retries
    THEN /\ call' = [call EXCEPT !.tries = @ + 1]
         /\ UNCHANGED trading
    ELSE /\ call' = [call EXCEPT !.pc = "sent", !.raw = r]
         /\ trading' = (trading /\ r.kind # "order")

Reply(r) ==
  IF r.kind \in Transport /\ call.tries < Retries
    THEN /\ call' = [call EXCEPT !.tries = @ + 1]
         /\ UNCHANGED trading
    ELSE /\ call' = [call EXCEPT !.pc = "sent", !.raw = r]
         /\ trading' = FALSE

VenueAccepts ==
  /\ AtVenue("sending")
  /\ \E v \in VenueIds \ Present(venue), f \in 0..call.allowed,
        s \in {"open", "closed", "canceled", "rejected"} :
       /\ s = "closed" <=> f = call.allowed
       /\ s = "rejected" => f = 0
       /\ LET o == [exec |-> call.exec, client |-> store[call.exec].client,
                    qty |-> call.allowed, filled |-> f, status |-> s]
          IN  /\ venue' = [venue EXCEPT ![v] = o]
              /\ \E r \in {View(v, o), Acknowledged(v)} \union Ambiguous : Reply(r)
  /\ UNCHANGED <<store, paper, mode, todo>>

VenueRefuses ==
  /\ AtVenue("sending")
  /\ \E r \in {Raise("exception")} \union Ambiguous : Reply(r)
  /\ UNCHANGED <<store, venue, paper, mode, todo>>

\* The except clauses of _submit_to_venue, or _apply_exchange_response.
HandleSubmit ==
  /\ call.pc = "sent"
  /\ IF call.raw.kind = "order"
       THEN ApplyResponse(call.exec, call.raw, call.allowed)
       ELSE FinishState(call.exec, FaultState(call.raw.kind))
  /\ UNCHANGED <<venue, paper, mode, trading>>

-------------------------------------------------------------------------------
(***************************************************************************)
(* cancel().  A terminal record is returned as it is, and a state without  *)
(* an edge to CANCEL_PENDING raises before anything is saved.              *)
(***************************************************************************)
Cancel(e) ==
  /\ Free
  /\ e \in Active
  /\ Moves(store[e].state, "CANCEL_PENDING")
  /\ store' = [store EXCEPT ![e].state = "CANCEL_PENDING"]
  /\ call' = [Idle EXCEPT !.pc = "canceling", !.exec = e]
  /\ trading' = (mode = "LIVE" /\ store[e].exid # None)
  /\ UNCHANGED <<venue, paper, mode, todo>>

\* An order the paper broker does not know is reported as canceled.
CancelPaper ==
  /\ call.pc = "canceling" /\ mode = "PAPER"
  /\ LET i == store[call.exec].exid
     IN  paper' = IF i \in Present(paper)
                    THEN [paper EXCEPT ![i].status = "canceled"] ELSE paper
  /\ FinishState(call.exec, "CANCELLED")
  /\ UNCHANGED <<venue, mode, trading>>

CancelWithoutId ==
  /\ AtVenue("canceling")
  /\ store[call.exec].exid = None
  /\ FinishState(call.exec, "UNKNOWN")
  /\ UNCHANGED <<venue, paper, mode, trading>>

\* The request reaches the exchange, which cancels an order still open, or it does
\* not; the answer, if any, describes the order as it is then.
CancelLive ==
  /\ AtVenue("canceling")
  /\ LET i == store[call.exec].exid
     IN  /\ i # None
         /\ \/ UNCHANGED venue
            \/ /\ i \in Present(venue) /\ venue[i].status = "open"
               /\ venue' = [venue EXCEPT ![i].status = "canceled"]
         /\ \E r \in {Raise("exception")} \union
                     UNION {{View(j, venue'[j]), Acknowledged(j)} :
                              j \in {i} \intersect Present(venue)} :
              call' = [call EXCEPT !.pc = "canceled", !.raw = r]
  /\ trading' = FALSE
  /\ UNCHANGED <<store, paper, mode, todo>>

\* MUTANT: any answer to a cancel is taken for its success.
CancelStateIfAnswered(raw) == IF raw.kind = "order" THEN "CANCELLED" ELSE "UNKNOWN"

CancelState(raw) ==
  IF raw.kind = "order" /\ raw.status = "canceled" THEN "CANCELLED" ELSE "UNKNOWN"

HandleCancel ==
  /\ call.pc = "canceled"
  /\ FinishState(call.exec, CancelState(call.raw))
  /\ UNCHANGED <<venue, paper, mode, trading>>

-------------------------------------------------------------------------------
(***************************************************************************)
(* reconcile() and recover_on_startup().  The state RECONCILING is saved   *)
(* where the state machine allows it and silently skipped where it does    *)
(* not; then the order is fetched by its exchange id, if there is one.     *)
(***************************************************************************)
StartReconcile(e) ==
  /\ e \in Active
  /\ store' = [store EXCEPT ![e].state = IF Moves(@, "RECONCILING") THEN "RECONCILING" ELSE @]
  /\ call' = [Idle EXCEPT !.pc = "fetching", !.exec = e, !.prev = store[e].state]
  /\ UNCHANGED <<venue, paper, mode, trading, todo>>

Reconcile(e) == Free /\ StartReconcile(e)

\* The states recover_on_startup reconciles; the others it passes over.
Recoverable ==
  {"SUBMITTING", "UNKNOWN", "SUBMITTED", "OPEN", "PARTIALLY_FILLED", "CANCEL_PENDING",
   "RECONCILING"}

StartRecovery ==
  /\ Free
  /\ todo' = {e \in Active : store[e].state \in Recoverable}
  /\ todo' # {}
  /\ UNCHANGED <<store, venue, paper, mode, trading, call>>

RecoverNext ==
  /\ call.pc = "idle"
  /\ \E e \in todo : /\ \A f \in todo : CreatedAt[e] <= CreatedAt[f]
                   /\ StartReconcile(e)

\* An order as the adapter passes it on when it was fetched: the status Tokocrypto
\* numbers is not translated there, and the engine knows no number.
AsFetched(j) ==
  IF Adapter = "tokocrypto" THEN [View(j, venue[j]) EXCEPT !.status = "unknown"]
                            ELSE View(j, venue[j])

\* MUTANT: the order is looked up by its client order id.
FetchedByClientId(i) ==
  CASE i = None        -> {Raise("missing")}
    [] mode = "PAPER"  -> {Raise("missing")}
    [] OTHER           -> {Raise("exception")} \union
                          {AsFetched(j) : j \in {v \in Present(venue) :
                             venue[v].client = store[call.exec].client}}

Fetched(i) ==
  CASE i = None        -> {Raise("missing")}
    [] mode = "PAPER"  -> IF i \in Present(paper) THEN {View(i, paper[i])}
                                                  ELSE {Raise("missing")}
    [] OTHER           -> {Raise("exception")} \union
                          {AsFetched(j) : j \in {i} \intersect Present(venue)}

Fetch ==
  /\ call.pc = "fetching"
  /\ \E r \in Fetched(store[call.exec].exid) :
       call' = [call EXCEPT !.pc = "fetched", !.raw = r]
  /\ UNCHANGED <<store, venue, paper, mode, trading, todo>>

\* Nothing found: FAILED if the record was SUBMITTING or UNKNOWN, else UNKNOWN.
HandleFetch ==
  /\ call.pc = "fetched"
  /\ CASE call.raw.kind = "order" ->
            ApplyResponse(call.exec, call.raw, store[call.exec].client.qty)
       [] call.raw.kind = "missing" ->
            FinishState(call.exec, IF call.prev \in {"SUBMITTING", "UNKNOWN"}
                                     THEN "FAILED" ELSE "UNKNOWN")
       [] OTHER -> FinishState(call.exec, "UNKNOWN")
  /\ UNCHANGED <<venue, paper, mode, trading>>

-------------------------------------------------------------------------------
SetMode ==
  /\ Free
  /\ mode' \in Modes \ {mode}
  /\ trading' = FALSE
  /\ UNCHANGED <<store, venue, paper, call, todo>>

\* The process dies; what is in memory is gone and the adapter is rebuilt closed.
Crash ==
  /\ call.pc # "down"
  /\ call' = [Idle EXCEPT !.pc = "down"]
  /\ paper' = [p \in PaperIds |-> NoOrder]
  /\ trading' = FALSE
  /\ todo' = {}
  /\ UNCHANGED <<store, venue, mode>>

Restart ==
  /\ call.pc = "down"
  /\ mode' \in Modes
  /\ call' = Idle
  /\ UNCHANGED <<store, venue, paper, trading, todo>>

\* The exchange matches or cancels an order of its own accord.
VenueFill(v) ==
  /\ venue[v].status = "open" /\ venue[v].filled < venue[v].qty
  /\ venue' = [venue EXCEPT ![v].filled = @ + 1,
                            ![v].status = IF venue[v].filled + 1 = venue[v].qty
                                            THEN "closed" ELSE "open"]
  /\ UNCHANGED <<store, paper, mode, trading, call, todo>>

VenueCancel(v) ==
  /\ venue[v].status = "open"
  /\ venue' = [venue EXCEPT ![v].status = "canceled"]
  /\ UNCHANGED <<store, paper, mode, trading, call, todo>>

-------------------------------------------------------------------------------
\* The steps of a call once it is being served; they need no one but the engine,
\* and a request to the exchange ends in an answer or in a timeout.
EngineStep ==
  \/ RejectLocal \/ StartSubmitting \/ SubmitPaper
  \/ VenueAccepts \/ VenueRefuses \/ HandleSubmit
  \/ CancelPaper \/ CancelWithoutId \/ CancelLive \/ HandleCancel
  \/ Fetch \/ HandleFetch \/ RecoverNext

Caller ==
  \/ \E c \in ClientIds : Submit(c)
  \/ \E e \in Execs : Cancel(e) \/ Reconcile(e)
  \/ StartRecovery
  \/ SetMode

Next ==
  \/ EngineStep
  \/ Caller
  \/ Crash \/ Restart
  \/ \E v \in VenueIds : VenueFill(v) \/ VenueCancel(v)

Spec     == Init /\ [][Next]_vars
FairSpec == Spec /\ WF_vars(EngineStep)

===============================================================================
