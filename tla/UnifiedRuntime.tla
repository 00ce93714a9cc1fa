----------------------------- MODULE UnifiedRuntime -----------------------------
(***************************************************************************)
(* The desktop's supervisor thread (nvra_unified/runtime.py): start,       *)
(* request_grace_stop and force_stop, called by several threads, and the   *)
(* loop.  All but force_stop work under the lock, which the loop keeps     *)
(* while it refreshes the services; force_stop waits five seconds for the  *)
(* thread and then writes the status, whatever has become of it.           *)
(***************************************************************************)
EXTENDS Integers, FiniteSets

CONSTANTS
  Stoppers,   \* threads that call force_stop
  Loops,      \* bound: the supervisor threads ever started
  NoThread

ASSUME RuntimeAssumption == NoThread \notin Loops /\ "no" \notin Loops \union {NoThread}

VARIABLES
  stop,      \* _stop
  running,   \* status.running
  stopping,  \* status.stopping
  overdue,   \* stop_deadline has passed
  services,  \* crypto and idx of the status
  thread,    \* _thread
  loop,      \* thread -> where it is
  joining,   \* stopper -> it is in force_stop
  torn       \* history: the status was written after the thread it is about was replaced

status      == <<running, stopping, overdue, services>>
runtimeVars == <<stop, running, stopping, overdue, services, thread, loop, joining, torn>>

Places == {"unborn", "waiting", "woken", "refreshing", "ending", "ended", "dead"}

Alive(t) == loop[t] \notin {"unborn", "dead"}

ThreadAlive == \E t \in Loops : t = thread /\ Alive(t)

RuntimeTypeOK ==
  /\ stop \in BOOLEAN /\ running \in BOOLEAN /\ stopping \in BOOLEAN /\ overdue \in BOOLEAN
  /\ torn \in BOOLEAN
  /\ services \in {"STOPPED", "READY", "DRAINING"}
  /\ thread \in Loops \union {NoThread}
  /\ loop \in [Loops -> Places]
  /\ joining \in [Stoppers -> Loops \union {NoThread, "no"}]

RuntimeInit ==
  /\ stop = FALSE /\ running = FALSE /\ stopping = FALSE /\ overdue = FALSE /\ torn = FALSE
  /\ services = "STOPPED"
  /\ thread = NoThread
  /\ loop = [t \in Loops |-> "unborn"]
  /\ joining = [s \in Stoppers |-> "no"]

LockFree == \A t \in Loops : loop[t] # "refreshing"

-------------------------------------------------------------------------------
\* A new thread, and a status that says so.
Launch(t) ==
  /\ loop[t] = "unborn"
  /\ stop' = FALSE
  /\ running' = TRUE /\ stopping' = FALSE /\ overdue' = FALSE
  /\ services' = "READY"
  /\ thread' = t
  /\ loop' = [loop EXCEPT ![t] = "waiting"]
  /\ UNCHANGED <<joining, torn>>

StartWhenNotRunning(t) ==   \* MUTANT: the status is asked, not the thread
  LockFree /\ ~running /\ Launch(t)

\* With a thread that is still alive it does nothing, be it about to end.
Start(t) ==
  /\ LockFree
  /\ ~ThreadAlive
  /\ Launch(t)

RequestGraceStop ==
  /\ LockFree
  /\ running /\ ~stopping
  /\ stopping' = TRUE /\ overdue' = FALSE
  /\ services' = "DRAINING"
  /\ UNCHANGED <<stop, running, thread, loop, joining, torn>>

DeadlinePasses ==
  /\ stopping /\ ~overdue
  /\ overdue' = TRUE
  /\ UNCHANGED <<stop, running, stopping, services, thread, loop, joining, torn>>

ForceStop(s) ==
  /\ joining[s] = "no"
  /\ stop' = TRUE
  /\ joining' = [joining EXCEPT ![s] = thread]
  /\ UNCHANGED <<status, thread, loop, torn>>

\* Its join has ended, for the thread is dead or the five seconds are over.
ForceStopEnds(s) ==
  /\ joining[s] # "no"
  /\ running' = FALSE /\ stopping' = FALSE
  /\ services' = "STOPPED"
  /\ joining' = [joining EXCEPT ![s] = "no"]
  /\ torn' = (torn \/ joining[s] # thread)
  /\ UNCHANGED <<stop, overdue, thread, loop>>

-------------------------------------------------------------------------------
\* The loop: the wait, and what it does under the lock.
Goes(t, from, to) == loop[t] = from /\ loop' = [loop EXCEPT ![t] = to]

Wakes(t) ==
  /\ Goes(t, "waiting", IF stop THEN "ending" ELSE "woken")
  /\ UNCHANGED <<stop, status, thread, joining, torn>>

Cycles(t) ==
  /\ LockFree
  /\ Goes(t, "woken", IF stopping /\ overdue THEN "ending"
                      ELSE IF stopping THEN "waiting" ELSE "refreshing")
  /\ stop' = (stop \/ (stopping /\ overdue))
  /\ UNCHANGED <<status, thread, joining, torn>>

Refreshes(t) ==
  /\ Goes(t, "refreshing", "waiting")
  /\ UNCHANGED <<stop, status, thread, joining, torn>>

Ends(t) ==
  /\ LockFree
  /\ Goes(t, "ending", "ended")
  /\ running' = FALSE /\ stopping' = FALSE
  /\ services' = "STOPPED"
  /\ UNCHANGED <<stop, overdue, thread, joining, torn>>

Dies(t) ==
  /\ Goes(t, "ended", "dead")
  /\ UNCHANGED <<stop, status, thread, joining, torn>>

LoopStep(t) == Wakes(t) \/ Cycles(t) \/ Refreshes(t) \/ Ends(t) \/ Dies(t)

RuntimeNext ==
  \/ RequestGraceStop \/ DeadlinePasses
  \/ \E t \in Loops : Start(t) \/ LoopStep(t)
  \/ \E s \in Stoppers : ForceStop(s) \/ ForceStopEnds(s)

RuntimeSpec == RuntimeInit /\ [][RuntimeNext]_runtimeVars

-------------------------------------------------------------------------------
(***************************************************************************)
(* However starts, stops and the five seconds fall: at most one supervisor *)
(* thread is alive, it is the one start() looks at, and the status says    *)
(* that it runs unless it has been told to stop or a force_stop of before  *)
(* it wrote the status late.                                               *)
(***************************************************************************)
OneSupervisor ==
  /\ \A t \in Loops : Alive(t) => t = thread
  /\ \A t \in Loops : Alive(t) /\ ~stop => running \/ torn

===============================================================================
