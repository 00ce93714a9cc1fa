--------------------------- MODULE ExecutionLedger ---------------------------
(***************************************************************************)
(* What the order management core promises, without its mechanism.         *)
(*                                                                         *)
(* Each execution serves one client order id and moves through             *)
(*     absent -> durable -> inflight -> tracked -> filled or closed        *)
(* An execution is opened only while every earlier one of its client id is *)
(* closed, so at most one is at work and a filled one is the last.  Orders *)
(* reach the exchange only on behalf of an inflight execution, at most     *)
(* Attempts times, and filled and closed executions never move again.      *)
(***************************************************************************)
EXTENDS Integers, FiniteSets

CONSTANTS Execs, ClientIds, VenueIds, Attempts, None

VARIABLES
  phase,    \* execution -> phase
  client,   \* execution -> the client order id it serves
  orders    \* execution -> exchange orders placed for it

ledgerVars == <<phase, client, orders>>

Phases == {"absent", "durable", "inflight", "tracked", "filled", "closed"}

LedgerTypeOK ==
  /\ phase \in [Execs -> Phases]
  /\ client \in [Execs -> ClientIds \union {None}]
  /\ orders \in [Execs -> SUBSET VenueIds]

LedgerInit ==
  /\ phase = [e \in Execs |-> "absent"]
  /\ client = [e \in Execs |-> None]
  /\ orders = [e \in Execs |-> {}]

Open(e, c) ==
  /\ phase[e] = "absent"
  /\ \A f \in Execs : client[f] = c => phase[f] = "closed"
  /\ phase' = [phase EXCEPT ![e] = "durable"]
  /\ client' = [client EXCEPT ![e] = c]
  /\ UNCHANGED orders

Launch(e) ==
  /\ phase[e] = "durable"
  /\ phase' = [phase EXCEPT ![e] = "inflight"]
  /\ UNCHANGED <<client, orders>>

\* An order of e appears at the exchange.
Place(e, v) ==
  /\ phase[e] = "inflight"
  /\ \A f \in Execs : v \notin orders[f]
  /\ Cardinality(orders[e]) < Attempts
  /\ orders' = [orders EXCEPT ![e] = @ \union {v}]
  /\ UNCHANGED <<phase, client>>

\* What became of e is learned, once or again.
Settle(e, p) ==
  /\ \/ phase[e] = "durable" /\ p = "closed"
     \/ phase[e] \in {"inflight", "tracked"} /\ p \in {"tracked", "filled", "closed"}
  /\ phase' = [phase EXCEPT ![e] = p]
  /\ UNCHANGED <<client, orders>>

LedgerNext ==
  \E e \in Execs :
    \/ \E c \in ClientIds : Open(e, c)
    \/ Launch(e)
    \/ \E v \in VenueIds : Place(e, v)
    \/ \E p \in Phases : Settle(e, p)

LedgerSpec == LedgerInit /\ [][LedgerNext]_ledgerVars

===============================================================================
