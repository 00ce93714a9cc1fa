----------------------------- MODULE Orchestration -----------------------------
(***************************************************************************)
(* Cognitive orchestration (god/orchestration): the bounded EventBus       *)
(* (bus.py), the Worker (worker.py) with the handlers' event graph         *)
(* (handlers/), the context and checkpoint stores (context_store.py,       *)
(* checkpoint_store.py) and RecoveryService.resume (recovery.py).          *)
(*                                                                         *)
(* process_one is cut into steps where it writes a store or the bus:       *)
(* publishers and owners who pause or cancel a context run between them,   *)
(* and a crash can fall there.  The memory store survives a crash; the     *)
(* bus, what it has seen, and the objects in memory do not.                *)
(***************************************************************************)
EXTENDS Integers, Sequences

CONSTANTS
  Contexts,       \* context ids
  Roots,          \* context -> the event types its owner publishes
  Handlers,       \* the worker's handlers, in their order
  Capacity,       \* EventBus maxsize
  PoisonThreshold,
  MaxRaises,      \* bound: how often a handler raises
  MaxLapses,      \* bound: how often the memory store silently fails to write
  MaxCrashes      \* bound

HandlerNames == {"curiosity", "research", "strategy", "reality_rca", "drift_regime",
                 "policy_capital", "shadow"}

\* Event types, which are also the names of the nodes a context completes.
Nodes == {"OBSERVATION", "CURIOSITY", "RESEARCH", "HYPOTHESIS", "EXPERIMENT", "VALIDATION",
          "STRATEGY", "REALITY_GAP", "RCA", "DRIFT", "REGIME", "POLICY", "CAPITAL_SAFETY",
          "ANOMALY", "FAILURE"}

ASSUME OrchestrationAssumption ==
  /\ Contexts # {}
  /\ Roots \in [Contexts -> SUBSET Nodes]
  /\ Handlers \in Seq(HandlerNames)
  /\ Capacity \in Nat /\ PoisonThreshold \in Nat \ {0}
  /\ MaxRaises \in Nat /\ MaxLapses \in Nat /\ MaxCrashes \in Nat

(***************************************************************************)
(* The event graph: what each handler makes of an event, in order.         *)
(***************************************************************************)
Makes(from, nodes, n) == IF n \in from THEN nodes ELSE <<>>

CuriosityHandler(n) == Makes({"OBSERVATION", "ANOMALY"}, <<"CURIOSITY", "RESEARCH">>, n)

ResearchHandler(n) == Makes({"RESEARCH"}, <<"HYPOTHESIS", "EXPERIMENT", "VALIDATION">>, n)

StrategyHandler(n) == Makes({"VALIDATION", "STRATEGY"}, <<"STRATEGY">>, n)

RealityRCAHandler(n) == Makes({"STRATEGY", "REALITY_GAP", "FAILURE"}, <<"REALITY_GAP", "RCA">>, n)

DriftRegimeHandler(n) == Makes({"RCA", "DRIFT", "REGIME"}, <<"DRIFT", "REGIME">>, n)

PolicyCapitalHandler(n) ==
  Makes({"REGIME", "DRIFT", "POLICY", "CAPITAL_SAFETY"}, <<"POLICY", "CAPITAL_SAFETY">>, n)

ShadowHandler(n) == Makes(Nodes, <<"REALITY_GAP">>, n)

Produces(handler, n) ==
  CASE handler = "curiosity"      -> CuriosityHandler(n)
    [] handler = "research"       -> ResearchHandler(n)
    [] handler = "strategy"       -> StrategyHandler(n)
    [] handler = "reality_rca"    -> RealityRCAHandler(n)
    [] handler = "drift_regime"   -> DriftRegimeHandler(n)
    [] handler = "policy_capital" -> PolicyCapitalHandler(n)
    [] handler = "shadow"         -> ShadowHandler(n)

\* An event's id is a hash of its type, its parent and its payload: of what
\* produced it.  An owner's event was produced by nothing.
Event == [context : Contexts, node : Nodes, by : Nodes \union {"owner"},
          handler : HandlerNames \union {"owner"}]

RootEvent(c, n) == [context |-> c, node |-> n, by |-> "owner", handler |-> "owner"]

FollowOnsOfFirst(e) ==   \* MUTANT: the first handler that makes something ends the round
  LET makers == {i \in DOMAIN Handlers : Produces(Handlers[i], e.node) # <<>>}
  IN  UNION {{i} \X DOMAIN Produces(Handlers[i], e.node) :
               i \in {j \in makers : \A k \in makers : j <= k}}

\* Each as its place, <<handler, one of what it makes>>, and the event at a place.
FollowOns(e) == UNION {{i} \X DOMAIN Produces(Handlers[i], e.node) : i \in DOMAIN Handlers}

Produced(e, place) ==
  [context |-> e.context, node |-> Produces(Handlers[place[1]], e.node)[place[2]],
   by |-> e.node, handler |-> Handlers[place[1]]]

Before(p, q) == p[1] < q[1] \/ (p[1] = q[1] /\ p[2] < q[2])

\* Of the stages only COMPLETE is ever looked at, and whichever handler sets one
\* last decides.  Every handler that does something but "shadow" sets one.
SetsStage(n, upTo) == {i \in 1..upTo : Handlers[i] # "shadow" /\ Produces(Handlers[i], n) # <<>>}

StageAfter(stage, n, upTo) ==
  IF SetsStage(n, upTo) = {} THEN stage
  ELSE LET last == CHOOSE i \in SetsStage(n, upTo) : \A j \in SetsStage(n, upTo) : j <= i
       IN  IF Handlers[last] = "policy_capital" THEN "COMPLETE" ELSE "ONGOING"

-------------------------------------------------------------------------------
Status == {"START", "RUNNING", "PAUSED", "RESUME", "FAILED", "CORRUPTED", "CANCELLED", "COMPLETE"}

\* What process_one does not touch.
Terminal == {"CORRUPTED", "CANCELLED", "COMPLETE"}

AllowedTransitions ==
  [START     |-> {"RUNNING", "CANCELLED"},
   RUNNING   |-> {"PAUSED", "FAILED", "CORRUPTED", "COMPLETE", "CANCELLED"},
   PAUSED    |-> {"RESUME", "CANCELLED"},
   RESUME    |-> {"RUNNING", "CANCELLED"},
   FAILED    |-> {"CANCELLED"},
   CORRUPTED |-> {"CANCELLED"},
   CANCELLED |-> {},
   COMPLETE  |-> {}]

Context == [status : Status \union {"ABSENT"}, stage : {"ONGOING", "COMPLETE"},
            done : SUBSET Nodes, attempts : 0..PoisonThreshold]

NoContext == [status |-> "ABSENT", stage |-> "ONGOING", done |-> {}, attempts |-> 0]

VARIABLES
  ctx,          \* ContextStore._local: the shared objects
  disk,         \* the contexts in the memory store
  checkpoints,  \* the checkpoints in the memory store, as <<context, node>>
  queue,        \* EventBus._queue
  seen,         \* EventBus._seen
  job,          \* the event process_one is at, and how far it is
  raises, lapses, crashes,   \* counted against their bounds
  handled,      \* history: how often the handlers got through a node
  lost,         \* history: events whose handler raised, or that had no context
  late,         \* history: contexts an owner ended during process_one
  disturbed     \* history: contexts something happened to

stores    == <<ctx, disk, checkpoints>>
bus       == <<queue, seen>>
faults    == <<raises, lapses, crashes>>
histories == <<handled, lost, late, disturbed>>
vars      == <<ctx, disk, checkpoints, queue, seen, job, raises, lapses, crashes,
               handled, lost, late, disturbed>>

AnEvent == CHOOSE e \in Event : TRUE

Idle == [pc |-> "idle", event |-> AnEvent, follow |-> {}]

TypeOK ==
  /\ ctx \in [Contexts -> Context] /\ disk \in [Contexts -> Context]
  /\ checkpoints \in SUBSET (Contexts \X Nodes)
  /\ queue \in Seq(Event) /\ Len(queue) <= Capacity
  /\ seen \in SUBSET Event /\ lost \in SUBSET Event
  /\ job \in [pc : {"idle", "handling", "handled", "saving", "publishing"},
             event : Event, follow : SUBSET (Nat \X Nat)]
  /\ job.follow \subseteq FollowOns(job.event)
  /\ raises \in 0..MaxRaises /\ lapses \in 0..MaxLapses /\ crashes \in 0..MaxCrashes
  /\ handled \in [Contexts \X Nodes -> Nat]
  /\ late \in SUBSET Contexts /\ disturbed \in SUBSET Contexts

Init ==
  /\ ctx = [c \in Contexts |-> NoContext] /\ disk = ctx
  /\ checkpoints = {}
  /\ queue = <<>> /\ seen = {}
  /\ job = Idle
  /\ raises = 0 /\ lapses = 0 /\ crashes = 0
  /\ handled = [cn \in Contexts \X Nodes |-> 0]
  /\ lost = {} /\ late = {} /\ disturbed = {}

-------------------------------------------------------------------------------
(***************************************************************************)
(* EventBus.publish: an event seen before is not queued again, a full      *)
(* queue refuses.  A follow-on that is refused is nobody's any more.       *)
(***************************************************************************)
PublishedForgetting(e) ==   \* MUTANT: a full bus still remembers the event as seen
  /\ seen' = seen \union {e}
  /\ queue' = IF e \in seen \/ Len(queue) >= Capacity THEN queue ELSE Append(queue, e)

PublishedBeyond(e) ==   \* MUTANT: a full bus takes the event all the same
  IF e \in seen THEN UNCHANGED bus ELSE queue' = Append(queue, e) /\ seen' = seen \union {e}

Published(e) ==
  IF e \in seen \/ Len(queue) >= Capacity THEN UNCHANGED bus
  ELSE queue' = Append(queue, e) /\ seen' = seen \union {e}

PublishRoot(c, n) ==
  /\ Published(RootEvent(c, n))
  /\ UNCHANGED <<stores, job, faults, histories>>

(***************************************************************************)
(* ContextStore.save and the like: a write to the memory store that fails  *)
(* is swallowed.                                                           *)
(***************************************************************************)
Durably(write, skip) ==
  \/ write /\ lapses' = lapses
  \/ lapses < MaxLapses /\ skip /\ lapses' = lapses + 1

Saved(c, record) ==
  /\ ctx' = [ctx EXCEPT ![c] = record]
  /\ Durably(disk' = [disk EXCEPT ![c] = record], UNCHANGED disk)

CreateContext(c) ==
  /\ ctx[c].status = "ABSENT"
  /\ Saved(c, [NoContext EXCEPT !.status = "START"])
  /\ UNCHANGED <<checkpoints, bus, job, raises, crashes, histories>>

\* transition_status by an owner, who minds no worker.
Busy(c) == job.pc # "idle" /\ job.event.context = c

TransitionStatus(c, to) ==
  /\ ctx[c].status # "ABSENT"
  /\ to \in AllowedTransitions[ctx[c].status]
  /\ Saved(c, [ctx[c] EXCEPT !.status = to])
  /\ late' = IF Busy(c) /\ to \in Terminal THEN late \union {c} ELSE late
  /\ disturbed' = disturbed \union {c}
  /\ UNCHANGED <<checkpoints, bus, job, raises, crashes, handled, lost>>

\* RecoveryService.resume of a paused context, by way of RESUME.  For any other
\* it changes nothing; the events of its unfinished nodes it does not bring back.
Resume(c) ==
  /\ ctx[c].status = "PAUSED"
  /\ Saved(c, [ctx[c] EXCEPT !.status = "RUNNING"])
  /\ UNCHANGED <<checkpoints, bus, job, raises, crashes, histories>>

-------------------------------------------------------------------------------
(***************************************************************************)
(* Worker.process_one.                                                     *)
(***************************************************************************)
SkipsComplete(c, n) ==   \* MUTANT: a cancelled context is still worked on
  ctx[c].status \in {"CORRUPTED", "COMPLETE"} \/ n \in ctx[c].done

SkipsEnded(c, n) ==   \* MUTANT: a completed node is handled again
  ctx[c].status \in Terminal

\* Events for a context that has ended, or for a node it has completed, are dropped.
Skipped(c, n) == ctx[c].status \in Terminal \/ n \in ctx[c].done

Consume ==
  /\ job.pc = "idle" /\ queue # <<>>
  /\ queue' = Tail(queue)
  /\ LET e == Head(queue)
         c == e.context
     IN  IF ctx[c].status = "ABSENT"
           THEN /\ lost' = lost \union {e}
                /\ disturbed' = disturbed \union {c}
                /\ UNCHANGED <<ctx, job>>
         ELSE IF Skipped(c, e.node) THEN UNCHANGED <<ctx, job, lost, disturbed>>
         ELSE /\ ctx' = [ctx EXCEPT ![c].status = IF @ = "START" THEN "RUNNING" ELSE @]
              /\ job' = [pc |-> "handling", event |-> e, follow |-> {}]
              /\ UNCHANGED <<lost, disturbed>>
  /\ UNCHANGED <<disk, checkpoints, seen, faults, handled, late>>

\* The handlers run; the last to set a stage leaves it.
Handle ==
  /\ job.pc = "handling"
  /\ LET c == job.event.context
         n == job.event.node
     IN  /\ ctx' = [ctx EXCEPT ![c].stage = StageAfter(@, n, Len(Handlers))]
         /\ handled' = [handled EXCEPT ![<<c, n>>] = @ + 1]
  /\ job' = [job EXCEPT !.pc = "handled", !.follow = FollowOns(job.event)]
  /\ UNCHANGED <<disk, checkpoints, bus, faults, lost, late, disturbed>>

\* A handler raises when those before it have run.  The event is not put back.
HandlerRaises(before) ==
  /\ job.pc = "handling" /\ raises < MaxRaises
  /\ LET c == job.event.context
         attempts == ctx[c].attempts + 1
         poisoned == attempts >= PoisonThreshold
     IN  /\ Saved(c, [ctx[c] EXCEPT !.stage = StageAfter(@, job.event.node, before),
                                    !.attempts = IF poisoned THEN PoisonThreshold ELSE attempts,
                                    !.status = IF poisoned THEN "CORRUPTED" ELSE @])
         /\ disturbed' = disturbed \union {c}
  /\ raises' = raises + 1
  /\ lost' = lost \union {job.event}
  /\ job' = Idle
  /\ UNCHANGED <<checkpoints, bus, crashes, handled, late>>

\* The checkpoint is written; then the context is brought up to date in memory.
Checkpointed ==
  LET c == job.event.context
      n == job.event.node
  IN  [ctx EXCEPT ![c] = [ctx[c] EXCEPT !.done = @ \union {n}, !.attempts = 0,
                                        !.status = IF ctx[c].stage = "COMPLETE" THEN "COMPLETE"
                                                   ELSE @]]

WriteCheckpointAtEnd ==   \* MUTANT: only the last node of the loop is checkpointed
  IF ctx[job.event.context].stage = "COMPLETE"
    THEN Durably(checkpoints' = checkpoints \union {<<job.event.context, job.event.node>>},
                 UNCHANGED checkpoints)
  ELSE UNCHANGED <<checkpoints, lapses>>

WriteCheckpoint ==
  Durably(checkpoints' = checkpoints \union {<<job.event.context, job.event.node>>},
          UNCHANGED checkpoints)

SaveCheckpoint ==
  /\ job.pc = "handled"
  /\ WriteCheckpoint
  /\ ctx' = Checkpointed
  /\ job' = [job EXCEPT !.pc = "saving"]
  /\ UNCHANGED <<disk, bus, raises, crashes, histories>>

Publishing(follow) ==
  IF follow = {} THEN Idle ELSE [job EXCEPT !.pc = "publishing", !.follow = follow]

SaveContext ==
  /\ job.pc = "saving"
  /\ Saved(job.event.context, ctx[job.event.context])
  /\ job' = Publishing(job.follow)
  /\ UNCHANGED <<checkpoints, bus, raises, crashes, histories>>

\* They are published in the order of the handlers.
PublishFollowOn ==
  /\ job.pc = "publishing"
  /\ \E p \in job.follow :
       /\ \A q \in job.follow \ {p} : Before(p, q)
       /\ Published(Produced(job.event, p))
       /\ job' = Publishing(job.follow \ {p})
       /\ disturbed' = IF Produced(job.event, p) \in seen' THEN disturbed
                       ELSE disturbed \union {job.event.context}
  /\ UNCHANGED <<stores, faults, handled, lost, late>>

\* The process dies and starts again: contexts are read back from the memory store.
Crash ==
  /\ crashes < MaxCrashes
  /\ crashes' = crashes + 1
  /\ ctx' = disk
  /\ queue' = <<>> /\ seen' = {} /\ lost' = {} /\ late' = {}
  /\ job' = Idle
  /\ disturbed' = Contexts
  /\ UNCHANGED <<disk, checkpoints, raises, lapses, handled>>

WorkerStep ==
  Consume \/ Handle \/ SaveCheckpoint \/ SaveContext \/ PublishFollowOn

Next ==
  \/ WorkerStep
  \/ \E before \in 0..Len(Handlers) - 1 : HandlerRaises(before)
  \/ \E c \in Contexts :
       \/ CreateContext(c) \/ Resume(c)
       \/ \E n \in Roots[c] : PublishRoot(c, n)
       \/ \E to \in Status : TransitionStatus(c, to)
  \/ Crash

Spec     == Init /\ [][Next]_vars
FairSpec == Spec /\ WF_vars(WorkerStep)

-------------------------------------------------------------------------------
(***************************************************************************)
(* The checkpoint comes first: as long as the memory store has taken every *)
(* write, each node a stored context counts as completed has its           *)
(* checkpoint stored, whatever crash fell in between.                      *)
(***************************************************************************)
CheckpointFirst ==
  lapses = 0 => \A c \in Contexts : {c} \X disk[c].done \subseteq checkpoints

(***************************************************************************)
(* In one life of the process a node of a context is handled to its end at *)
(* most once, by whichever of its events comes first; each crash allows    *)
(* one more.                                                               *)
(***************************************************************************)
HandledOnce == \A cn \in Contexts \X Nodes : handled[cn] <= 1 + crashes

(***************************************************************************)
(* No accepted event gets lost but by a raise of its handler or for want   *)
(* of a context: while the context goes on, an event the bus has accepted  *)
(* is queued or worked on unless its node is completed.                    *)
(***************************************************************************)
Ongoing(c) == ctx[c].status \notin Terminal \union {"ABSENT"}

LostOnlyByRaising ==
  \A e \in seen :
    Ongoing(e.context) /\ e.node \notin ctx[e.context].done =>
      \/ e \in lost
      \/ \E i \in DOMAIN queue : queue[i] = e
      \/ job.pc # "idle" /\ job.event = e

(***************************************************************************)
(* A context that has ended stays ended: once that is stored, what is      *)
(* cancelled or complete is no more touched, by no event, crash or failed  *)
(* write, unless an owner ended it while the worker was at one of its      *)
(* events.                                                                 *)
(***************************************************************************)
Ended(c) == ctx[c].status \in Terminal /\ disk[c].status = ctx[c].status

EndedStaysEnded ==
  [][\A c \in Contexts \ late :
       Ended(c) => \/ ctx'[c].status = ctx[c].status
                   \/ ctx[c].status = "CORRUPTED" /\ ctx'[c].status = "CANCELLED"]_vars

(***************************************************************************)
(* The loop closes: once an event its owner published is in the queue of a *)
(* context that goes on, the chain of handlers brings the context to       *)
(* COMPLETE, unless a raise, a refused follow-on, an owner or a crash got  *)
(* in between.                                                             *)
(***************************************************************************)
Started(c) == Ongoing(c) /\ \E i \in DOMAIN queue : queue[i].context = c

LoopCloses ==
  \A c \in Contexts : Started(c) ~> ctx[c].status = "COMPLETE" \/ c \in disturbed

===============================================================================
