------------------------------ MODULE UnknownOrders ------------------------------
(***************************************************************************)
(* The resolver of UNKNOWN orders (crypto/recovery/unknown.py): an order   *)
(* whose submission was not answered is looked up on a schedule, while its *)
(* client order id blocks another submission.  The exchange goes on with   *)
(* the order meanwhile, or has never received it.                          *)
(***************************************************************************)
EXTENDS Integers, Sequences

CONSTANTS
  Executions,
  ClientIds,
  ClientOf,   \* execution -> its client order id
  Schedule    \* unknown_verify_schedule: when the lookups are due

ASSUME UnknownAssumption ==
  /\ ClientOf \in [Executions -> ClientIds]
  /\ Schedule \in Seq(Nat)
  /\ \A n \in DOMAIN Schedule : Schedule[n] <= Schedule[Len(Schedule)]

Ended == {"FOUND_FILLED", "FOUND_CANCELLED", "FOUND_REJECTED", "FOUND_FAILED"}

Resolution == Ended \union {"UNTRACKED", "PENDING", "FOUND_OPEN", "UNRESOLVED"}

\* How a status word is understood, by what it says of the order.
Understood ==
  [open |-> {"FOUND_OPEN", "PENDING"},   \* "partially_filled" is no word it knows
   filled |-> {"FOUND_FILLED"}, canceled |-> {"FOUND_CANCELLED"},
   rejected |-> {"FOUND_REJECTED"}, failed |-> {"FOUND_FAILED"},
   absent |-> {"PENDING"}]

Over == {"filled", "canceled", "rejected", "failed"}

VARIABLES
  tracker,  \* execution -> its tracker: resolution, attempts, age
  venue     \* execution -> its order at the exchange

unknownVars == <<tracker, venue>>

\* No comparison tells ages beyond the schedule apart: a bound.
OldAge == IF Schedule = <<>> THEN 0 ELSE Schedule[Len(Schedule)]

Tracker == [resolution : Resolution, attempts : 0..Len(Schedule), age : Nat]

UnknownTypeOK ==
  /\ tracker \in [Executions -> Tracker]
  /\ venue \in [Executions -> Over \union {"absent", "open"}]

Untracked == [resolution |-> "UNTRACKED", attempts |-> 0, age |-> 0]

UnknownInit ==
  /\ tracker = [e \in Executions |-> Untracked]
  /\ venue = [e \in Executions |-> "absent"]

-------------------------------------------------------------------------------
\* A new tracker replaces the one there was.
Track(e) ==
  /\ tracker' = [tracker EXCEPT ![e] = [Untracked EXCEPT !.resolution = "PENDING"]]
  /\ UNCHANGED venue

ShouldQueryForever(e) ==   \* MUTANT: the schedule's last lookup is repeated
  /\ tracker[e].resolution \in {"PENDING", "UNRESOLVED"}
  /\ tracker[e].age >= Schedule[IF tracker[e].attempts < Len(Schedule)
                                 THEN tracker[e].attempts + 1 ELSE Len(Schedule)]

ShouldQuery(e) ==
  /\ tracker[e].resolution = "PENDING"
  /\ tracker[e].attempts < Len(Schedule)
  /\ tracker[e].age >= Schedule[tracker[e].attempts + 1]

MaybeUnresolvedFailed(e) ==   \* MUTANT: what is not found in time has failed
  IF tracker[e].attempts + 1 >= Len(Schedule) THEN "FOUND_FAILED" ELSE "PENDING"

\* The last attempt leaves it UNRESOLVED.
MaybeUnresolved(e) ==
  IF tracker[e].attempts + 1 >= Len(Schedule) THEN "UNRESOLVED" ELSE "PENDING"

\* The lookup may raise, which tells as much as an order not found.
QueryOnce(e, understood) ==
  /\ ShouldQuery(e)
  /\ understood \in Understood[venue[e]] \union {"PENDING"}
  /\ tracker' = [tracker EXCEPT ![e] =
                   [resolution |-> IF understood = "PENDING" THEN MaybeUnresolved(e)
                                   ELSE understood,
                    attempts   |-> tracker[e].attempts + 1,
                    age        |-> tracker[e].age]]
  /\ UNCHANGED venue

Blocking == {"PENDING", "UNRESOLVED", "FOUND_OPEN"}

BlocksDuplicate(c) ==
  \E e \in Executions : ClientOf[e] = c /\ tracker[e].resolution \in Blocking

\* The exchange: what is over stays over.
VenueMoves(e, status) ==
  /\ \/ venue[e] = "absent" /\ status \in {"open", "filled", "rejected", "failed"}
     \/ venue[e] = "open" /\ status \in {"filled", "canceled"}
  /\ venue' = [venue EXCEPT ![e] = status]
  /\ UNCHANGED tracker

UnknownElapse ==
  /\ tracker' = [e \in Executions |->
                   [tracker[e] EXCEPT !.age = IF @ < OldAge THEN @ + 1 ELSE @]]
  /\ UNCHANGED venue

UnknownNext ==
  \/ UnknownElapse
  \/ \E e \in Executions :
       \/ Track(e)
       \/ \E understood \in Resolution : QueryOnce(e, understood)
       \/ \E status \in Over \union {"open"} : VenueMoves(e, status)

UnknownSpec == UnknownInit /\ [][UnknownNext]_unknownVars

-------------------------------------------------------------------------------
(***************************************************************************)
(* A client order id with an order looked up is free for another           *)
(* submission only when every such order of it is over at the exchange: a  *)
(* lookup that raises, finds nothing or runs out of its schedule does not  *)
(* free it.                                                                *)
(***************************************************************************)
BlocksUntilOver ==
  \A e \in Executions :
    tracker[e].resolution # "UNTRACKED" /\ ~BlocksDuplicate(ClientOf[e]) => venue[e] \in Over

===============================================================================
