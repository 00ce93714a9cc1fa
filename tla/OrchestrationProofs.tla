--------------------------- MODULE OrchestrationProofs ---------------------------
(***************************************************************************)
(* Proofs about Orchestration for any contexts, any handlers in any order, *)
(* any capacity and any number of raises, failed writes and crashes.       *)
(***************************************************************************)
EXTENDS Orchestration, SequenceTheorems, TLAPS

\* What a handler makes are nodes.
LEMMA ProducesNodes ==
  ASSUME NEW handler \in HandlerNames, NEW n \in Nodes, NEW k \in DOMAIN Produces(handler, n)
  PROVE  Produces(handler, n)[k] \in Nodes
  <1> USE DEF Makes
  <1>1. CASE handler = "curiosity"
    BY <1>1 DEF Produces, CuriosityHandler, Nodes
  <1>2. CASE handler = "research"
    BY <1>2 DEF Produces, ResearchHandler, Nodes
  <1>3. CASE handler = "strategy"
    BY <1>3 DEF Produces, StrategyHandler, Nodes
  <1>4. CASE handler = "reality_rca"
    BY <1>4 DEF Produces, RealityRCAHandler, Nodes
  <1>5. CASE handler = "drift_regime"
    BY <1>5 DEF Produces, DriftRegimeHandler, Nodes
  <1>6. CASE handler = "policy_capital"
    BY <1>6 DEF Produces, PolicyCapitalHandler, Nodes
  <1>7. CASE handler = "shadow"
    BY <1>7 DEF Produces, ShadowHandler, Nodes
  <1> QED
    BY <1>1, <1>2, <1>3, <1>4, <1>5, <1>6, <1>7 DEF HandlerNames

LEMMA FollowOnPlaces ==
  ASSUME NEW e \in Event
  PROVE  FollowOns(e) \subseteq Nat \X Nat
  <1> SUFFICES ASSUME NEW i \in DOMAIN Handlers
               PROVE  {i} \X DOMAIN Produces(Handlers[i], e.node) \subseteq Nat \X Nat
    BY DEF FollowOns
  <1>1. i \in Nat /\ Handlers[i] \in HandlerNames
    BY OrchestrationAssumption
  <1>2. DOMAIN Produces(Handlers[i], e.node) \subseteq Nat
    BY <1>1 DEF HandlerNames, Produces, Makes, CuriosityHandler, ResearchHandler, StrategyHandler,
                RealityRCAHandler, DriftRegimeHandler, PolicyCapitalHandler, ShadowHandler
  <1> QED
    BY <1>1, <1>2

\* A follow-on is an event of the same context.
LEMMA FollowOnType ==
  ASSUME NEW e \in Event, NEW p \in FollowOns(e)
  PROVE  Produced(e, p) \in Event /\ Produced(e, p).context = e.context
  <1>1. PICK i \in DOMAIN Handlers : p \in {i} \X DOMAIN Produces(Handlers[i], e.node)
    BY DEF FollowOns
  <1>2. p[1] = i /\ p[2] \in DOMAIN Produces(Handlers[i], e.node)
    BY <1>1
  <1>3. Handlers[i] \in HandlerNames /\ e.node \in Nodes /\ e.context \in Contexts
    BY OrchestrationAssumption DEF Event
  <1>4. Produces(Handlers[p[1]], e.node)[p[2]] \in Nodes
    BY <1>2, <1>3, ProducesNodes
  <1> QED
    BY <1>2, <1>3, <1>4 DEF Produced, Event

LEMMA StageAfterType ==
  ASSUME NEW stage \in {"ONGOING", "COMPLETE"}, NEW n, NEW upTo
  PROVE  StageAfter(stage, n, upTo) \in {"ONGOING", "COMPLETE"}
  BY DEF StageAfter

-------------------------------------------------------------------------------
(***************************************************************************)
(* The invariant.  What a context counts as completed, in memory or        *)
(* stored, has its checkpoint; a node is handled beyond the crashes only   *)
(* when it is completed or about to be; process_one works on a node not    *)
(* completed and a context not ended, unless an owner ended it meanwhile;  *)
(* and an event accepted for a context that has not ended, a missing one   *)
(* included, is queued, worked on, completed or lost.                      *)
(***************************************************************************)
Stored ==
  lapses = 0 => \A c \in Contexts : \A n \in Nodes :
                  n \in ctx[c].done \/ n \in disk[c].done => <<c, n>> \in checkpoints

AtNode(c, n) == job.pc = "handled" /\ job.event.context = c /\ job.event.node = n

Once ==
  \A c \in Contexts, n \in Nodes :
    /\ handled[<<c, n>>] <= 1 + crashes
    /\ n \notin ctx[c].done /\ ~AtNode(c, n) => handled[<<c, n>>] <= crashes

Working ==
  /\ job.pc # "idle" => ctx[job.event.context].status # "ABSENT"
  /\ job.pc \in {"handling", "handled"} =>
       /\ job.event.node \notin ctx[job.event.context].done
       /\ job.event.context \in late \/ ctx[job.event.context].status \notin Terminal
  /\ job.pc \in {"saving", "publishing"} => job.event.node \in ctx[job.event.context].done

InQueue(e) == \E i \in DOMAIN queue : queue[i] = e

Accounted ==
  \A e \in seen :
    ctx[e.context].status \notin Terminal /\ e.node \notin ctx[e.context].done =>
      e \in lost \/ InQueue(e) \/ (job.pc # "idle" /\ job.event = e)

Missing ==
  \A c \in Contexts : /\ ctx[c].status = "ABSENT" => ctx[c].done = {}
                      /\ disk[c].status = "ABSENT" => disk[c].done = {}

LoopInv == TypeOK /\ Stored /\ Once /\ Working /\ Accounted /\ Missing

\* A write that is skipped shows in the lapses.
LEMMA SavedStores ==
  ASSUME TypeOK, NEW c \in Contexts, NEW record \in Context, Saved(c, record)
  PROVE  /\ ctx' = [ctx EXCEPT ![c] = record]
         /\ disk' = [disk EXCEPT ![c] = record] \/ disk' = disk
         /\ ctx' \in [Contexts -> Context] /\ disk' \in [Contexts -> Context]
         /\ lapses' \in 0..MaxLapses
         /\ lapses' = 0 => lapses = 0
  BY OrchestrationAssumption DEF Saved, Durably, TypeOK

\* Writing a context that keeps its completed nodes keeps what is about stores and nodes.
LEMMA SavedKeeps ==
  ASSUME LoopInv, NEW c \in Contexts, NEW record \in Context, Saved(c, record),
         record.done = ctx[c].done, record.status # "ABSENT",
         UNCHANGED <<checkpoints, handled, crashes>>
  PROVE  Stored' /\ Missing' /\ (UNCHANGED job => Once')
  <1>1. /\ ctx' = [ctx EXCEPT ![c] = record]
        /\ disk' = [disk EXCEPT ![c] = record] \/ disk' = disk
        /\ lapses' = 0 => lapses = 0
    BY SavedStores DEF LoopInv
  <1>2. \A d \in Contexts : ctx'[d].done = ctx[d].done
    BY <1>1 DEF LoopInv, TypeOK
  <1>3. \A d \in Contexts : disk'[d].done = disk[d].done \/ disk'[d].done = ctx[d].done
    BY <1>1 DEF LoopInv, TypeOK
  <1>4. Stored'
    BY <1>1, <1>2, <1>3 DEF LoopInv, Stored
  <1>5. UNCHANGED job => Once'
    BY <1>2 DEF LoopInv, Once, AtNode
  <1>6. Missing'
    BY <1>1 DEF LoopInv, TypeOK, Missing
  <1> QED
    BY <1>4, <1>5, <1>6

(***************************************************************************)
(* The owner's operations on a context, which leave the worker alone.      *)
(***************************************************************************)
LEMMA OwnerKeeps ==
  ASSUME LoopInv, NEW c \in Contexts, NEW record \in Context, Saved(c, record),
         record.done = ctx[c].done, record.status # "ABSENT",
         record.status \notin Terminal => ctx[c].status \notin Terminal,
         Busy(c) /\ c \notin late' => record.status \notin Terminal \/ ctx[c].status \in Terminal,
         late \subseteq late', late' \subseteq Contexts, disturbed' \subseteq Contexts,
         UNCHANGED <<checkpoints, bus, job, raises, crashes, handled, lost>>
  PROVE  LoopInv'
  <1>1. /\ ctx' = [ctx EXCEPT ![c] = record]
        /\ ctx' \in [Contexts -> Context] /\ disk' \in [Contexts -> Context]
        /\ lapses' \in 0..MaxLapses
    BY SavedStores DEF LoopInv
  <1>2. /\ queue' = queue /\ seen' = seen /\ job' = job /\ lost' = lost
        /\ checkpoints' = checkpoints /\ raises' = raises /\ crashes' = crashes
        /\ handled' = handled
    BY DEF bus
  <1>3. TypeOK'
    BY <1>1, <1>2 DEF LoopInv, TypeOK
  <1>4. Stored' /\ Missing' /\ Once'
    BY <1>2, SavedKeeps
  <1>5. \A d \in Contexts : /\ ctx'[d] = IF d = c THEN record ELSE ctx[d]
                            /\ ctx'[d].done = ctx[d].done
    BY <1>1 DEF LoopInv, TypeOK
  <1>6. job.event.context \in Contexts /\ \A e \in seen : e.context \in Contexts
    BY DEF LoopInv, TypeOK, Event
  <1>7. Working'
    BY <1>2, <1>5, <1>6 DEF LoopInv, Working, Busy
  <1>8. Accounted'
    <2> SUFFICES ASSUME NEW e \in seen, ctx'[e.context].status \notin Terminal,
                        e.node \notin ctx'[e.context].done
                 PROVE  e \in lost \/ InQueue(e) \/ (job.pc # "idle" /\ job.event = e)
      BY <1>2 DEF Accounted, InQueue
    <2>1. ctx[e.context].status \notin Terminal /\ e.node \notin ctx[e.context].done
      BY <1>5, <1>6
    <2> QED
      BY <2>1 DEF LoopInv, Accounted
  <1> QED
    BY <1>3, <1>4, <1>7, <1>8 DEF LoopInv

LEMMA CreateKeeps ==
  ASSUME LoopInv, NEW c \in Contexts, CreateContext(c)
  PROVE  LoopInv'
  <1> DEFINE record == [NoContext EXCEPT !.status = "START"]
  <1>1. /\ record \in Context /\ record.done = {} /\ record.status = "START"
    BY OrchestrationAssumption DEF NoContext, Context, Status
  <1>2. /\ ctx[c].status = "ABSENT" /\ Saved(c, record)
        /\ UNCHANGED <<checkpoints, bus, job, raises, crashes, histories>>
    BY DEF CreateContext
  <1>3. UNCHANGED <<handled, lost, late, disturbed>>
    BY <1>2 DEF histories
  <1>4. ctx[c].done = {} /\ ctx[c].status \notin Terminal
    BY <1>2 DEF LoopInv, Missing, Terminal
  <1>5. late \subseteq Contexts /\ disturbed \subseteq Contexts
    BY DEF LoopInv, TypeOK
  <1>6. "START" \notin Terminal
    BY DEF Terminal
  <1> HIDE DEF record
  <1> QED
    BY <1>1, <1>2, <1>3, <1>4, <1>5, <1>6, OwnerKeeps

\* An ended context can only be cancelled still.
LEMMA TransitionType ==
  ASSUME NEW from \in Status, NEW to \in AllowedTransitions[from]
  PROVE  to \in Status /\ (to \notin Terminal => from \notin Terminal)
  BY DEF AllowedTransitions, Status, Terminal

LEMMA TransitionKeeps ==
  ASSUME LoopInv, NEW c \in Contexts, NEW to \in Status, TransitionStatus(c, to)
  PROVE  LoopInv'
  <1> DEFINE record == [ctx[c] EXCEPT !.status = to]
  <1>1. ctx[c] \in Context /\ ctx[c].status # "ABSENT" /\ to \in AllowedTransitions[ctx[c].status]
    BY DEF LoopInv, TypeOK, TransitionStatus
  <1>2. to # "ABSENT" /\ (to \notin Terminal => ctx[c].status \notin Terminal)
    <2>1. ctx[c].status \in Status
      BY <1>1 DEF Context
    <2>2. "ABSENT" \notin Status
      BY DEF Status
    <2> QED
      BY <1>1, <2>1, <2>2, TransitionType
  <1>3. record \in Context /\ record.done = ctx[c].done /\ record.status = to
    BY <1>1 DEF Context
  <1>4. /\ Saved(c, record)
        /\ late' = IF Busy(c) /\ to \in Terminal THEN late \union {c} ELSE late
        /\ disturbed' = disturbed \union {c}
        /\ UNCHANGED <<checkpoints, bus, job, raises, crashes, handled, lost>>
    BY DEF TransitionStatus
  <1>5. late \subseteq late' /\ late' \subseteq Contexts /\ disturbed' \subseteq Contexts
    BY <1>4 DEF LoopInv, TypeOK
  <1>6. Busy(c) /\ c \notin late' => to \notin Terminal
    BY <1>4
  <1> HIDE DEF record
  <1> QED
    BY <1>2, <1>3, <1>4, <1>5, <1>6, OwnerKeeps

LEMMA ResumeKeeps ==
  ASSUME LoopInv, NEW c \in Contexts, Resume(c)
  PROVE  LoopInv'
  <1> DEFINE record == [ctx[c] EXCEPT !.status = "RUNNING"]
  <1>1. ctx[c] \in Context /\ ctx[c].status = "PAUSED" /\ Saved(c, record)
        /\ UNCHANGED <<checkpoints, bus, job, raises, crashes, histories>>
    BY DEF LoopInv, TypeOK, Resume
  <1>2. record \in Context /\ record.done = ctx[c].done /\ record.status = "RUNNING"
    BY <1>1 DEF Context, Status
  <1>3. "RUNNING" \notin Terminal /\ "PAUSED" \notin Terminal
    BY DEF Terminal
  <1>4. UNCHANGED <<handled, lost, late, disturbed>>
    BY <1>1 DEF histories
  <1>5. late \subseteq Contexts /\ disturbed \subseteq Contexts
    BY DEF LoopInv, TypeOK
  <1> HIDE DEF record
  <1> QED
    BY <1>1, <1>2, <1>3, <1>4, <1>5, OwnerKeeps

-------------------------------------------------------------------------------
(***************************************************************************)
(* The bus: publishing loses nothing, and what is taken is seen.           *)
(***************************************************************************)
LEMMA PublishedKeeps ==
  ASSUME TypeOK, NEW e \in Event, Published(e)
  PROVE  /\ queue' \in Seq(Event) /\ Len(queue') <= Capacity /\ seen' \in SUBSET Event
         /\ \A x : InQueue(x) => InQueue(x)'
         /\ \A x \in seen' : x \in seen \/ InQueue(x)'
  <1>1. CASE e \in seen \/ Len(queue) >= Capacity
    BY <1>1 DEF Published, bus, TypeOK, InQueue
  <1>2. CASE ~(e \in seen \/ Len(queue) >= Capacity)
    <2>1. queue' = Append(queue, e) /\ seen' = seen \union {e}
      BY <1>2 DEF Published
    <2>2. queue \in Seq(Event) /\ Len(queue) \in Nat /\ Len(queue) < Capacity /\ seen \subseteq Event
      BY <1>2, OrchestrationAssumption DEF TypeOK
    <2>3. queue' \in Seq(Event) /\ Len(queue') = Len(queue) + 1
      BY <2>1, <2>2
    <2>4. \A i \in DOMAIN queue : i \in DOMAIN queue' /\ queue'[i] = queue[i]
      BY <2>1, <2>2
    <2>5. queue'[Len(queue) + 1] = e /\ Len(queue) + 1 \in DOMAIN queue'
      BY <2>1, <2>2
    <2>6. \A x : InQueue(x) => InQueue(x)'
      BY <2>4 DEF InQueue
    <2>7. InQueue(e)'
      BY <2>5 DEF InQueue
    <2>8. Len(queue') <= Capacity
      BY <2>2, <2>3, OrchestrationAssumption
    <2> QED
      BY <2>1, <2>2, <2>3, <2>6, <2>7, <2>8
  <1> QED
    BY <1>1, <1>2

LEMMA RootKeeps ==
  ASSUME LoopInv, NEW c \in Contexts, NEW n \in Nodes, PublishRoot(c, n)
  PROVE  LoopInv'
  <1>1. RootEvent(c, n) \in Event
    BY DEF RootEvent, Event
  <1>2. /\ Published(RootEvent(c, n))
        /\ UNCHANGED <<ctx, disk, checkpoints, job, raises, lapses, crashes,
                       handled, lost, late, disturbed>>
    BY DEF PublishRoot, stores, faults, histories
  <1>3. /\ queue' \in Seq(Event) /\ Len(queue') <= Capacity /\ seen' \in SUBSET Event
        /\ \A x : InQueue(x) => InQueue(x)'
        /\ \A x \in seen' : x \in seen \/ InQueue(x)'
    BY <1>1, <1>2, PublishedKeeps DEF LoopInv
  <1>4. TypeOK'
    BY <1>2, <1>3 DEF LoopInv, TypeOK
  <1>5. Accounted'
    BY <1>2, <1>3 DEF LoopInv, Accounted
  <1>6. Stored' /\ Once' /\ Working' /\ Missing'
    BY <1>2 DEF LoopInv, Stored, Once, AtNode, Working, Missing
  <1> QED
    BY <1>4, <1>5, <1>6 DEF LoopInv

-------------------------------------------------------------------------------
(***************************************************************************)
(* The worker.                                                             *)
(***************************************************************************)

\* What leaves the head of the queue was an event, and nothing else leaves.
LEMMA Dequeued ==
  ASSUME TypeOK, queue # <<>>, queue' = Tail(queue)
  PROVE  /\ Head(queue) \in Event
         /\ queue' \in Seq(Event) /\ Len(queue') <= Capacity
         /\ \A x : InQueue(x) => x = Head(queue) \/ InQueue(x)'
  <1>1. queue \in Seq(Event) /\ Len(queue) \in Nat \ {0} /\ Len(queue) <= Capacity
    BY DEF TypeOK
  <1>2. queue' \in Seq(Event) /\ Len(queue') = Len(queue) - 1 /\ Head(queue) = queue[1]
    BY <1>1
  <1>3. Head(queue) \in Event
    BY <1>1
  <1>4. \A i \in 1..Len(queue) - 1 : queue'[i] = queue[i + 1]
    BY <1>1
  <1>5. ASSUME NEW x, InQueue(x), x # Head(queue)
        PROVE  InQueue(x)'
    <2>1. PICK i \in DOMAIN queue : queue[i] = x
      BY <1>5 DEF InQueue
    <2>2. i \in 2..Len(queue)
      BY <1>1, <1>2, <1>5, <2>1
    <2>3. i - 1 \in DOMAIN queue' /\ queue'[i - 1] = x
      BY <1>1, <1>2, <1>4, <2>1, <2>2
    <2> QED
      BY <2>3 DEF InQueue
  <1>6. Len(queue') <= Capacity
    BY <1>1, <1>2, OrchestrationAssumption
  <1> QED
    BY <1>2, <1>3, <1>5, <1>6

LEMMA ConsumeKeeps ==
  ASSUME LoopInv, Consume
  PROVE  LoopInv'
  <1> DEFINE e == Head(queue)
             c == e.context
  <1>1. /\ job.pc = "idle" /\ queue # <<>> /\ queue' = Tail(queue)
        /\ UNCHANGED <<disk, checkpoints, seen, raises, lapses, crashes, handled, late>>
    BY DEF Consume, faults
  <1>2. /\ e \in Event
        /\ queue' \in Seq(Event) /\ Len(queue') <= Capacity
        /\ \A x : InQueue(x) => x = e \/ InQueue(x)'
    BY <1>1, Dequeued DEF LoopInv
  <1>3. c \in Contexts /\ e.node \in Nodes /\ ctx[c] \in Context
    BY <1>2 DEF Event, LoopInv, TypeOK
  <1>4. CASE ctx[c].status = "ABSENT"
    <2>1. lost' = lost \union {e} /\ disturbed' = disturbed \union {c} /\ UNCHANGED <<ctx, job>>
      BY <1>4 DEF Consume
    <2>2. TypeOK'
      BY <1>1, <1>2, <1>3, <2>1 DEF LoopInv, TypeOK
    <2>3. Accounted'
      BY <1>1, <1>2, <2>1 DEF LoopInv, Accounted
    <2>4. Stored' /\ Once' /\ Working' /\ Missing'
      BY <1>1, <2>1 DEF LoopInv, Stored, Once, AtNode, Working, Missing
    <2> QED
      BY <2>2, <2>3, <2>4 DEF LoopInv
  <1>5. CASE ctx[c].status # "ABSENT" /\ Skipped(c, e.node)
    <2>1. UNCHANGED <<ctx, job, lost, disturbed>>
      BY <1>5 DEF Consume
    <2>2. TypeOK'
      BY <1>1, <1>2, <2>1 DEF LoopInv, TypeOK
    <2>3. Accounted'
      BY <1>1, <1>2, <1>5, <2>1 DEF LoopInv, Accounted, Skipped
    <2>4. Stored' /\ Once' /\ Working' /\ Missing'
      BY <1>1, <2>1 DEF LoopInv, Stored, Once, AtNode, Working, Missing
    <2> QED
      BY <2>2, <2>3, <2>4 DEF LoopInv
  <1>6. CASE ctx[c].status # "ABSENT" /\ ~Skipped(c, e.node)
    <2> DEFINE status == IF ctx[c].status = "START" THEN "RUNNING" ELSE ctx[c].status
               record == [ctx[c] EXCEPT !.status = status]
    <2>1. /\ ctx' = [ctx EXCEPT ![c] = record]
          /\ job' = [pc |-> "handling", event |-> e, follow |-> {}]
          /\ UNCHANGED <<lost, disturbed>>
      BY <1>6 DEF Consume
    <2>2. status \in Status \union {"ABSENT"} /\ status # "ABSENT"
          /\ (status \notin Terminal <=> ctx[c].status \notin Terminal)
      BY <1>3, <1>6 DEF Context, Status, Terminal
    <2> HIDE DEF status
    <2>3. record \in Context /\ record.done = ctx[c].done /\ record.status = status
      BY <1>3, <2>2 DEF Context
    <2> HIDE DEF record
    <2>4. \A d \in Contexts : /\ ctx'[d] = IF d = c THEN record ELSE ctx[d]
                              /\ ctx'[d].done = ctx[d].done
                              /\ ctx'[d].status \notin Terminal => ctx[d].status \notin Terminal
      BY <2>1, <2>2, <2>3 DEF LoopInv, TypeOK
    <2>5. job'.pc = "handling" /\ job'.event = e /\ job'.follow = {}
      BY <2>1
    <2>6. TypeOK'
      BY <1>1, <1>2, <2>1, <2>3, <2>5 DEF LoopInv, TypeOK
    <2>7. Accounted'
      <3>1. \A x \in seen : x.context \in Contexts
        BY DEF LoopInv, TypeOK, Event
      <3> SUFFICES ASSUME NEW x \in seen, ctx'[x.context].status \notin Terminal,
                          x.node \notin ctx'[x.context].done
                   PROVE  x \in lost \/ InQueue(x)' \/ x = e
        BY <1>1, <2>1, <2>5 DEF Accounted
      <3>2. ctx[x.context].status \notin Terminal /\ x.node \notin ctx[x.context].done
        BY <2>4, <3>1
      <3>3. x \in lost \/ InQueue(x)
        BY <1>1, <3>2 DEF LoopInv, Accounted
      <3> QED
        BY <1>2, <3>3
    <2>8. Working'
      BY <1>3, <1>6, <2>2, <2>3, <2>4, <2>5 DEF Working, Skipped
    <2>9. Once'
      BY <1>1, <2>4, <2>5 DEF LoopInv, Once, AtNode
    <2>10. Stored' /\ Missing'
      BY <1>1, <2>2, <2>3, <2>4 DEF LoopInv, Stored, Missing
    <2> QED
      BY <2>6, <2>7, <2>8, <2>9, <2>10 DEF LoopInv
  <1> QED
    BY <1>4, <1>5, <1>6

LEMMA HandleKeeps ==
  ASSUME LoopInv, Handle
  PROVE  LoopInv'
  <1> DEFINE c == job.event.context
             n == job.event.node
             record == [ctx[c] EXCEPT !.stage = StageAfter(@, n, Len(Handlers))]
  <1>1. /\ job.pc = "handling"
        /\ ctx' = [ctx EXCEPT ![c] = record]
        /\ handled' = [handled EXCEPT ![<<c, n>>] = @ + 1]
        /\ job' = [job EXCEPT !.pc = "handled", !.follow = FollowOns(job.event)]
        /\ UNCHANGED <<disk, checkpoints, queue, seen, raises, lapses, crashes,
                       lost, late, disturbed>>
    BY DEF Handle, bus, faults
  <1>2. c \in Contexts /\ n \in Nodes /\ ctx[c] \in Context /\ job.event \in Event
    BY DEF LoopInv, TypeOK, Event
  <1>3. record \in Context /\ record.done = ctx[c].done /\ record.status = ctx[c].status
    BY <1>2, StageAfterType DEF Context
  <1> HIDE DEF record
  <1>4. \A d \in Contexts : /\ ctx'[d].done = ctx[d].done
                            /\ ctx'[d].status = ctx[d].status
    BY <1>1, <1>3 DEF LoopInv, TypeOK
  <1>5. job'.pc = "handled" /\ job'.event = job.event /\ job'.follow = FollowOns(job.event)
    BY <1>1 DEF LoopInv, TypeOK
  <1>6. TypeOK'
    <2>1. FollowOns(job.event) \subseteq Nat \X Nat
      BY <1>2, FollowOnPlaces
    <2>2. job' \in [pc : {"idle", "handling", "handled", "saving", "publishing"},
                    event : Event, follow : SUBSET (Nat \X Nat)]
      BY <1>1, <2>1 DEF LoopInv, TypeOK
    <2> QED
      BY <1>1, <1>2, <1>3, <1>5, <2>2 DEF LoopInv, TypeOK
  <1>7. Accounted'
    <2>1. \A x \in seen : x.context \in Contexts
      BY DEF LoopInv, TypeOK, Event
    <2> QED
      BY <1>1, <1>4, <1>5, <2>1 DEF LoopInv, Accounted, InQueue
  <1>8. Working'
    BY <1>1, <1>2, <1>4, <1>5 DEF LoopInv, Working
  <1>9. Once'
    <2> SUFFICES ASSUME NEW d \in Contexts, NEW m \in Nodes
                 PROVE  /\ handled'[<<d, m>>] <= 1 + crashes
                        /\ m \notin ctx[d].done /\ ~AtNode(d, m)' => handled'[<<d, m>>] <= crashes
      BY <1>1, <1>4 DEF Once
    <2>1. handled[<<d, m>>] \in Nat /\ crashes \in Nat
      BY DEF LoopInv, TypeOK
    <2>2. /\ handled[<<d, m>>] <= 1 + crashes
          /\ m \notin ctx[d].done => handled[<<d, m>>] <= crashes
      BY <1>1 DEF LoopInv, Once, AtNode
    <2>3. CASE d = c /\ m = n
      <3>1. handled'[<<d, m>>] = handled[<<d, m>>] + 1 /\ AtNode(d, m)'
        BY <1>1, <1>5, <2>3 DEF LoopInv, TypeOK, AtNode
      <3>2. m \notin ctx[d].done
        BY <1>1, <2>3 DEF LoopInv, Working
      <3> QED
        BY <2>1, <2>2, <3>1, <3>2
    <2>4. CASE ~(d = c /\ m = n)
      <3>1. handled'[<<d, m>>] = handled[<<d, m>>]
        BY <1>1, <2>4 DEF LoopInv, TypeOK
      <3> QED
        BY <2>2, <3>1
    <2> QED
      BY <2>3, <2>4
  <1>10. Stored' /\ Missing'
    BY <1>1, <1>4 DEF LoopInv, Stored, Missing
  <1> QED
    BY <1>6, <1>7, <1>8, <1>9, <1>10 DEF LoopInv

\* The worker at rest between two events.
LEMMA IdleType ==
  /\ Idle.pc = "idle" /\ Idle.follow = {}
  /\ Event # {} =>
       /\ Idle.event \in Event
       /\ Idle \in [pc : {"idle", "handling", "handled", "saving", "publishing"},
                    event : Event, follow : SUBSET (Nat \X Nat)]
  <1>1. Event # {} => AnEvent \in Event
    BY DEF AnEvent
  <1> QED
    BY <1>1 DEF Idle

LEMMA RaiseKeeps ==
  ASSUME LoopInv, NEW before \in 0..Len(Handlers) - 1, HandlerRaises(before)
  PROVE  LoopInv'
  <1> DEFINE c == job.event.context
             attempts == ctx[c].attempts + 1
             poisoned == attempts >= PoisonThreshold
             record == [ctx[c] EXCEPT !.stage = StageAfter(@, job.event.node, before),
                                      !.attempts = IF poisoned THEN PoisonThreshold ELSE attempts,
                                      !.status = IF poisoned THEN "CORRUPTED" ELSE @]
  <1>1. /\ job.pc = "handling" /\ raises < MaxRaises
        /\ Saved(c, record)
        /\ disturbed' = disturbed \union {c}
        /\ raises' = raises + 1
        /\ lost' = lost \union {job.event}
        /\ job' = Idle
        /\ UNCHANGED <<checkpoints, queue, seen, crashes, handled, late>>
    BY DEF HandlerRaises, bus
  <1>2. c \in Contexts /\ ctx[c] \in Context /\ job.event \in Event /\ ctx[c].status # "ABSENT"
    BY <1>1 DEF LoopInv, TypeOK, Event, Working
  <1>3. /\ record \in Context /\ record.done = ctx[c].done
        /\ record.status = IF poisoned THEN "CORRUPTED" ELSE ctx[c].status
    <2>1. StageAfter(ctx[c].stage, job.event.node, before) \in {"ONGOING", "COMPLETE"}
      BY <1>2, StageAfterType DEF Context
    <2>2. (IF poisoned THEN PoisonThreshold ELSE attempts) \in 0..PoisonThreshold
      BY <1>2, OrchestrationAssumption DEF Context
    <2>3. "CORRUPTED" \in Status
      BY DEF Status
    <2> HIDE DEF poisoned, attempts
    <2> QED
      BY <1>2, <2>1, <2>2, <2>3 DEF Context
  <1>4. record.status # "ABSENT" /\ (record.status \notin Terminal => ctx[c].status \notin Terminal)
    BY <1>2, <1>3 DEF Terminal
  <1> HIDE DEF record
  <1>5. /\ ctx' = [ctx EXCEPT ![c] = record]
        /\ ctx' \in [Contexts -> Context] /\ disk' \in [Contexts -> Context]
        /\ lapses' \in 0..MaxLapses
    BY <1>1, <1>2, <1>3, SavedStores DEF LoopInv
  <1>6. \A d \in Contexts : /\ ctx'[d].done = ctx[d].done
                            /\ ctx'[d].status \notin Terminal => ctx[d].status \notin Terminal
    BY <1>3, <1>4, <1>5 DEF LoopInv, TypeOK
  <1>7. Stored' /\ Missing'
    BY <1>1, <1>2, <1>3, <1>4, SavedKeeps
  <1>8. TypeOK'
    <2>1. raises' \in 0..MaxRaises
      BY <1>1, OrchestrationAssumption DEF LoopInv, TypeOK
    <2> QED
      BY <1>1, <1>2, <1>5, <2>1, IdleType DEF LoopInv, TypeOK
  <1>9. Once'
    BY <1>1, <1>6 DEF LoopInv, Once, AtNode
  <1>10. Working'
    BY <1>1, IdleType DEF Working
  <1>11. Accounted'
    <2>1. \A x \in seen : x.context \in Contexts
      BY DEF LoopInv, TypeOK, Event
    <2> QED
      BY <1>1, <1>6, <2>1 DEF LoopInv, Accounted, InQueue
  <1> QED
    BY <1>7, <1>8, <1>9, <1>10, <1>11 DEF LoopInv

LEMMA CheckpointKeeps ==
  ASSUME LoopInv, SaveCheckpoint
  PROVE  LoopInv'
  <1> DEFINE c == job.event.context
             n == job.event.node
             status == IF ctx[c].stage = "COMPLETE" THEN "COMPLETE" ELSE ctx[c].status
             record == [ctx[c] EXCEPT !.done = @ \union {n}, !.attempts = 0, !.status = status]
  <1>1. /\ job.pc = "handled" /\ WriteCheckpoint
        /\ ctx' = [ctx EXCEPT ![c] = record]
        /\ job' = [job EXCEPT !.pc = "saving"]
        /\ UNCHANGED <<disk, queue, seen, raises, crashes, handled, lost, late, disturbed>>
    <2>1. Checkpointed = [ctx EXCEPT ![c] = record]
      BY DEF Checkpointed
    <2> HIDE DEF record
    <2> QED
      BY <2>1 DEF SaveCheckpoint, bus, histories
  <1>2. /\ c \in Contexts /\ n \in Nodes /\ ctx[c] \in Context /\ ctx[c].status # "ABSENT"
        /\ job.event \in Event
    BY <1>1 DEF LoopInv, TypeOK, Event, Working
  <1>3. /\ checkpoints' = checkpoints \/ checkpoints' = checkpoints \union {<<c, n>>}
        /\ lapses' \in 0..MaxLapses
        /\ lapses' = 0 => lapses = 0 /\ checkpoints' = checkpoints \union {<<c, n>>}
    BY <1>1, OrchestrationAssumption DEF WriteCheckpoint, Durably, LoopInv, TypeOK
  <1>4. status \in Status /\ (status \notin Terminal => ctx[c].status \notin Terminal)
    BY <1>2 DEF Context, Status, Terminal
  <1> HIDE DEF status
  <1>5. record \in Context /\ record.done = ctx[c].done \union {n} /\ record.status = status
    <2>1. 0 \in 0..PoisonThreshold /\ ctx[c].done \union {n} \in SUBSET Nodes
      BY <1>2, OrchestrationAssumption DEF Context
    <2> QED
      BY <1>2, <1>4, <2>1 DEF Context
  <1> HIDE DEF record
  <1>6. \A d \in Contexts :
          /\ ctx'[d].done = IF d = c THEN ctx[d].done \union {n} ELSE ctx[d].done
          /\ ctx'[d].status \notin Terminal => ctx[d].status \notin Terminal
          /\ ctx'[d].status = IF d = c THEN status ELSE ctx[d].status
    BY <1>1, <1>4, <1>5 DEF LoopInv, TypeOK
  <1>7. job'.pc = "saving" /\ job'.event = job.event /\ job'.follow = job.follow
        /\ job' \in [pc : {"idle", "handling", "handled", "saving", "publishing"},
                     event : Event, follow : SUBSET (Nat \X Nat)]
    BY <1>1 DEF LoopInv, TypeOK
  <1>8. TypeOK'
    <2>1. ctx' \in [Contexts -> Context]
      BY <1>1, <1>5 DEF LoopInv, TypeOK
    <2>2. checkpoints' \in SUBSET (Contexts \X Nodes)
      BY <1>2, <1>3 DEF LoopInv, TypeOK
    <2>3. job'.follow \subseteq FollowOns(job'.event)
      BY <1>7 DEF LoopInv, TypeOK
    <2>4. /\ disk' \in [Contexts -> Context]
          /\ queue' \in Seq(Event) /\ Len(queue') <= Capacity
          /\ seen' \in SUBSET Event /\ lost' \in SUBSET Event
          /\ raises' \in 0..MaxRaises /\ crashes' \in 0..MaxCrashes
          /\ handled' \in [Contexts \X Nodes -> Nat]
          /\ late' \in SUBSET Contexts /\ disturbed' \in SUBSET Contexts
      BY <1>1 DEF LoopInv, TypeOK
    <2> QED
      BY <1>3, <1>7, <2>1, <2>2, <2>3, <2>4 DEF TypeOK
  <1>9. "ABSENT" \notin Status
    BY DEF Status
  <1>0. /\ job.pc = "handled"
        /\ UNCHANGED <<disk, queue, seen, raises, crashes, handled, lost, late, disturbed>>
    BY <1>1
  <1>10. Missing'
    BY <1>0, <1>4, <1>6, <1>9 DEF LoopInv, Missing
  <1>11. Stored'
    BY <1>0, <1>3, <1>6 DEF LoopInv, Stored
  <1>12. Once'
    BY <1>0, <1>6, <1>7 DEF LoopInv, Once, AtNode
  <1>13. Working'
    BY <1>2, <1>4, <1>6, <1>7, <1>9 DEF Working
  <1>14. Accounted'
    <2>1. \A x \in seen : x.context \in Contexts
      BY DEF LoopInv, TypeOK, Event
    <2> QED
      BY <1>0, <1>6, <1>7, <2>1 DEF LoopInv, Accounted, InQueue
  <1> QED
    BY <1>8, <1>10, <1>11, <1>12, <1>13, <1>14 DEF LoopInv

\* The job goes on with what is left to publish, or is over.
LEMMA PublishingType ==
  ASSUME TypeOK, NEW follow \in SUBSET job.follow
  PROVE  /\ Publishing(follow) \in [pc : {"idle", "handling", "handled", "saving", "publishing"},
                                    event : Event, follow : SUBSET (Nat \X Nat)]
         /\ Publishing(follow).follow \subseteq FollowOns(Publishing(follow).event)
         /\ \/ Publishing(follow).pc = "idle"
            \/ Publishing(follow).pc = "publishing" /\ Publishing(follow).event = job.event
  <1>1. CASE follow = {}
    BY <1>1, IdleType DEF Publishing, TypeOK
  <1>2. CASE follow # {}
    BY <1>2 DEF Publishing, TypeOK
  <1> QED
    BY <1>1, <1>2

LEMMA SaveContextKeeps ==
  ASSUME LoopInv, SaveContext
  PROVE  LoopInv'
  <1> DEFINE c == job.event.context
  <1>1. /\ job.pc = "saving" /\ Saved(c, ctx[c]) /\ job' = Publishing(job.follow)
        /\ UNCHANGED <<checkpoints, queue, seen, raises, crashes, handled, lost, late, disturbed>>
    BY DEF SaveContext, bus, histories
  <1>2. /\ c \in Contexts /\ ctx[c] \in Context /\ ctx[c].status # "ABSENT"
        /\ job.event.node \in ctx[c].done
    BY <1>1 DEF LoopInv, TypeOK, Event, Working
  <1>3. /\ job' \in [pc : {"idle", "handling", "handled", "saving", "publishing"},
                     event : Event, follow : SUBSET (Nat \X Nat)]
        /\ job'.follow \subseteq FollowOns(job'.event)
        /\ job'.pc = "idle" \/ (job'.pc = "publishing" /\ job'.event = job.event)
    BY <1>1, PublishingType DEF LoopInv
  <1>4. /\ ctx' = ctx /\ disk' \in [Contexts -> Context] /\ lapses' \in 0..MaxLapses
    BY <1>1, <1>2, SavedStores DEF LoopInv, TypeOK
  <1>5. Stored' /\ Missing'
    BY <1>1, <1>2, SavedKeeps
  <1>6. TypeOK'
    BY <1>1, <1>3, <1>4 DEF LoopInv, TypeOK
  <1>7. Once'
    BY <1>1, <1>3, <1>4 DEF LoopInv, Once, AtNode
  <1>8. Working'
    BY <1>2, <1>3, <1>4 DEF Working
  <1>9. Accounted'
    BY <1>1, <1>2, <1>3, <1>4 DEF LoopInv, Accounted, InQueue
  <1> QED
    BY <1>5, <1>6, <1>7, <1>8, <1>9 DEF LoopInv

LEMMA FollowOnKeeps ==
  ASSUME LoopInv, PublishFollowOn
  PROVE  LoopInv'
  <1>1. PICK p \in job.follow :
          /\ Published(Produced(job.event, p))
          /\ job' = Publishing(job.follow \ {p})
          /\ disturbed' = IF Produced(job.event, p) \in seen' THEN disturbed
                          ELSE disturbed \union {job.event.context}
    BY DEF PublishFollowOn
  <1>2. /\ job.pc = "publishing"
        /\ UNCHANGED <<ctx, disk, checkpoints, raises, lapses, crashes, handled, lost, late>>
    BY DEF PublishFollowOn, stores, faults
  <1>3. /\ job.event \in Event /\ Produced(job.event, p) \in Event
        /\ job.event.context \in Contexts
    BY <1>1, FollowOnType DEF LoopInv, TypeOK, Event
  <1>4. /\ queue' \in Seq(Event) /\ Len(queue') <= Capacity /\ seen' \in SUBSET Event
        /\ \A x : InQueue(x) => InQueue(x)'
        /\ \A x \in seen' : x \in seen \/ InQueue(x)'
    BY <1>1, <1>3, PublishedKeeps DEF LoopInv
  <1>5. /\ job' \in [pc : {"idle", "handling", "handled", "saving", "publishing"},
                     event : Event, follow : SUBSET (Nat \X Nat)]
        /\ job'.follow \subseteq FollowOns(job'.event)
        /\ job'.pc = "idle" \/ (job'.pc = "publishing" /\ job'.event = job.event)
    BY <1>1, PublishingType DEF LoopInv
  <1>6. disturbed' \subseteq Contexts
    BY <1>1, <1>3 DEF LoopInv, TypeOK
  <1>7. TypeOK'
    BY <1>2, <1>4, <1>5, <1>6 DEF LoopInv, TypeOK
  <1>8. Stored' /\ Missing'
    BY <1>2 DEF LoopInv, Stored, Missing
  <1>9. Once'
    BY <1>2, <1>5 DEF LoopInv, Once, AtNode
  <1>10. Working'
    BY <1>2, <1>5 DEF LoopInv, Working
  <1>11. Accounted'
    <2>1. job.event.node \in ctx[job.event.context].done
      BY <1>2 DEF LoopInv, Working
    <2> QED
      BY <1>2, <1>4, <1>5, <2>1 DEF LoopInv, Accounted
  <1> QED
    BY <1>7, <1>8, <1>9, <1>10, <1>11 DEF LoopInv

\* A crash forgets the bus and what is in memory.
LEMMA CrashKeeps ==
  ASSUME LoopInv, Crash
  PROVE  LoopInv'
  <1>1. /\ crashes < MaxCrashes /\ crashes' = crashes + 1 /\ ctx' = disk
        /\ queue' = <<>> /\ seen' = {} /\ lost' = {} /\ late' = {}
        /\ job' = Idle /\ disturbed' = Contexts
        /\ UNCHANGED <<disk, checkpoints, raises, lapses, handled>>
    BY DEF Crash
  <1>2. job.event \in Event
    BY DEF LoopInv, TypeOK
  <1>3. crashes' \in 0..MaxCrashes
    BY <1>1, OrchestrationAssumption DEF LoopInv, TypeOK
  <1>4. queue' \in Seq(Event) /\ Len(queue') <= Capacity
    BY <1>1, OrchestrationAssumption
  <1>5. TypeOK'
    BY <1>1, <1>2, <1>3, <1>4, IdleType DEF LoopInv, TypeOK
  <1>6. Stored' /\ Missing' /\ Accounted'
    BY <1>1 DEF LoopInv, Stored, Missing, Accounted
  <1>7. Working'
    BY <1>1, IdleType DEF Working
  <1>8. Once'
    <2> SUFFICES ASSUME NEW d \in Contexts, NEW m \in Nodes
                 PROVE  handled[<<d, m>>] <= 1 + crashes' /\ handled[<<d, m>>] <= crashes'
      BY <1>1 DEF Once
    <2>1. handled[<<d, m>>] <= 1 + crashes /\ handled[<<d, m>>] \in Nat /\ crashes \in Nat
      BY DEF LoopInv, TypeOK, Once
    <2> QED
      BY <1>1, <2>1
  <1> QED
    BY <1>5, <1>6, <1>7, <1>8 DEF LoopInv

-------------------------------------------------------------------------------
LEMMA LoopStep ==
  ASSUME LoopInv, [Next]_vars
  PROVE  LoopInv'
  <1>1. CASE WorkerStep
    BY <1>1, ConsumeKeeps, HandleKeeps, CheckpointKeeps, SaveContextKeeps, FollowOnKeeps
       DEF WorkerStep
  <1>2. ASSUME NEW c \in Contexts, NEW n \in Roots[c], PublishRoot(c, n)
        PROVE  LoopInv'
    <2>1. n \in Nodes
      BY OrchestrationAssumption
    <2> QED
      BY <1>2, <2>1, RootKeeps
  <1>3. CASE UNCHANGED vars
    BY <1>3 DEF vars, LoopInv, TypeOK, Stored, Once, AtNode, Working, Accounted, InQueue, Missing
  <1> QED
    BY <1>1, <1>2, <1>3, RaiseKeeps, CreateKeeps, ResumeKeeps, TransitionKeeps, CrashKeeps DEF Next

(***************************************************************************)
(* The invariant holds of every behavior.                                  *)
(***************************************************************************)
LEMMA LoopInvariance == Spec => []LoopInv
  <1>1. Event # {}
    <2>1. PICK c \in Contexts : TRUE
      BY OrchestrationAssumption
    <2>2. RootEvent(c, "RCA") \in Event
      BY DEF RootEvent, Event, Nodes
    <2> QED
      BY <2>2
  <1>2. Init => LoopInv
    <2> SUFFICES ASSUME Init
                 PROVE  LoopInv
      OBVIOUS
    <2>1. NoContext \in Context /\ NoContext.status = "ABSENT" /\ NoContext.done = {}
      BY OrchestrationAssumption DEF NoContext, Context
    <2>2. /\ ctx = [c \in Contexts |-> NoContext] /\ disk = ctx /\ checkpoints = {}
          /\ queue = <<>> /\ seen = {} /\ job = Idle /\ lost = {} /\ late = {} /\ disturbed = {}
          /\ raises = 0 /\ lapses = 0 /\ crashes = 0
          /\ handled = [cn \in Contexts \X Nodes |-> 0]
      BY DEF Init
    <2>3. /\ 0 \in 0..MaxRaises /\ 0 \in 0..MaxLapses /\ 0 \in 0..MaxCrashes
          /\ Len(<<>>) <= Capacity /\ <<>> \in Seq(Event)
      BY OrchestrationAssumption
    <2>4. TypeOK
      BY <1>1, <2>1, <2>2, <2>3, IdleType DEF TypeOK
    <2>5. Stored /\ Missing /\ Accounted
      BY <2>1, <2>2 DEF Stored, Missing, Accounted
    <2>6. Working
      BY <2>2, IdleType DEF Working
    <2>7. Once
      BY <2>2 DEF Once
    <2> QED
      BY <2>4, <2>5, <2>6, <2>7 DEF LoopInv
  <1>3. LoopInv /\ [Next]_vars => LoopInv'
    BY LoopStep
  <1> QED
    BY <1>2, <1>3, PTL DEF Spec

\* Every variable of the loop has its type.
THEOREM LoopTypes == Spec => []TypeOK
  <1>1. LoopInv => TypeOK
    BY DEF LoopInv
  <1> QED
    BY <1>1, LoopInvariance, PTL

(***************************************************************************)
(* A node stored as completed has its checkpoint stored, for any number of *)
(* crashes, as long as every write was taken.                              *)
(***************************************************************************)
THEOREM CheckpointsComeFirst == Spec => []CheckpointFirst
  <1>1. LoopInv => CheckpointFirst
    <2> SUFFICES ASSUME LoopInv, lapses = 0, NEW c \in Contexts,
                        NEW cn \in {c} \X disk[c].done
                 PROVE  cn \in checkpoints
      BY DEF CheckpointFirst
    <2>1. PICK n \in disk[c].done : cn = <<c, n>>
      OBVIOUS
    <2>2. n \in Nodes
      BY DEF LoopInv, TypeOK, Context
    <2> QED
      BY <2>1, <2>2 DEF LoopInv, Stored
  <1> QED
    BY <1>1, LoopInvariance, PTL

(***************************************************************************)
(* A node is handled to its end at most once in each life of the process,  *)
(* by whatever events, raises and owners.                                  *)
(***************************************************************************)
THEOREM NodesAreHandledOnce == Spec => []HandledOnce
  <1>1. LoopInv => HandledOnce
    <2> SUFFICES ASSUME LoopInv, NEW c \in Contexts, NEW n \in Nodes
                 PROVE  handled[<<c, n>>] <= 1 + crashes
      BY DEF HandledOnce
    <2> QED
      BY DEF LoopInv, Once
  <1> QED
    BY <1>1, LoopInvariance, PTL

(***************************************************************************)
(* What the bus accepted for a context that goes on is queued, worked on,  *)
(* completed, or lost by a raise or for want of a context.                 *)
(***************************************************************************)
THEOREM EventsAreAccountedFor == Spec => []LostOnlyByRaising
  <1>1. LoopInv => LostOnlyByRaising
    BY DEF LoopInv, Accounted, InQueue, Ongoing, LostOnlyByRaising
  <1> QED
    BY <1>1, LoopInvariance, PTL

-------------------------------------------------------------------------------
LEMMA EndedStep ==
  ASSUME LoopInv, Next, NEW c \in Contexts, c \notin late, Ended(c)
  PROVE  \/ ctx'[c].status = ctx[c].status
         \/ ctx[c].status = "CORRUPTED" /\ ctx'[c].status = "CANCELLED"
  <1>1. ctx[c].status \in Terminal /\ disk[c].status = ctx[c].status
    BY DEF Ended
  <1>2. /\ ctx \in [Contexts -> Context] /\ job.event.context \in Contexts
        /\ queue # <<>> => Head(queue).context \in Contexts
    <2>1. \A e \in Event : e.context \in Contexts
      BY DEF Event
    <2>2. queue # <<>> => Head(queue) \in Event
      BY DEF LoopInv, TypeOK
    <2> QED
      BY <2>1, <2>2 DEF LoopInv, TypeOK
  <1>3. CASE Consume
    BY <1>1, <1>2, <1>3 DEF Consume, Skipped
  <1>4. CASE Handle
    <2>1. PICK stage : ctx' = [ctx EXCEPT ![job.event.context].stage = stage]
      BY <1>4 DEF Handle
    <2> QED
      BY <1>2, <2>1 DEF Context
  <1>5. CASE SaveCheckpoint \/ \E before \in 0..Len(Handlers) - 1 : HandlerRaises(before)
    <2>1. PICK record : ctx' = [ctx EXCEPT ![job.event.context] = record]
      BY <1>5 DEF SaveCheckpoint, Checkpointed, HandlerRaises, Saved
    <2>2. job.event.context # c
      BY <1>1, <1>5 DEF SaveCheckpoint, HandlerRaises, LoopInv, Working
    <2> QED
      BY <1>2, <2>1, <2>2
  <1>6. CASE SaveContext
    BY <1>2, <1>6 DEF SaveContext, Saved
  <1>7. CASE PublishFollowOn \/ \E d \in Contexts : \E n \in Roots[d] : PublishRoot(d, n)
    BY <1>7 DEF PublishFollowOn, PublishRoot, stores
  <1>8. ASSUME NEW d \in Contexts, CreateContext(d) \/ Resume(d)
        PROVE  ctx'[c].status = ctx[c].status
    <2>1. PICK record : ctx' = [ctx EXCEPT ![d] = record]
      BY <1>8 DEF CreateContext, Resume, Saved
    <2>2. d # c
      BY <1>1, <1>8 DEF CreateContext, Resume, Terminal
    <2> QED
      BY <1>2, <2>1, <2>2
  <1>9. ASSUME NEW d \in Contexts, NEW to \in Status, TransitionStatus(d, to)
        PROVE  \/ ctx'[c].status = ctx[c].status
               \/ ctx[c].status = "CORRUPTED" /\ ctx'[c].status = "CANCELLED"
    <2>1. ctx' = [ctx EXCEPT ![d] = [ctx[d] EXCEPT !.status = to]]
          /\ to \in AllowedTransitions[ctx[d].status]
      BY <1>9 DEF TransitionStatus, Saved
    <2>2. CASE d # c
      BY <1>2, <2>1, <2>2
    <2>3. CASE d = c
      <3>1. ctx[c].status = "CORRUPTED" /\ to = "CANCELLED"
        BY <1>1, <2>1, <2>3 DEF AllowedTransitions, Terminal
      <3>2. [ctx[c] EXCEPT !.status = to].status = to
        BY <1>2 DEF Context
      <3> QED
        BY <1>2, <2>1, <2>3, <3>1, <3>2
    <2> QED
      BY <2>2, <2>3
  <1>10. CASE Crash
    BY <1>1, <1>10 DEF Crash
  <1> QED
    BY <1>3, <1>4, <1>5, <1>6, <1>7, <1>8, <1>9, <1>10 DEF Next, WorkerStep

(***************************************************************************)
(* An ended context is touched by nothing but an owner, unless the owner   *)
(* ended it while the worker was at one of its events.                     *)
(***************************************************************************)
THEOREM EndedContextsStayEnded == Spec => EndedStaysEnded
  <1> DEFINE Stays ==
        \A c \in Contexts \ late :
          Ended(c) => \/ ctx'[c].status = ctx[c].status
                      \/ ctx[c].status = "CORRUPTED" /\ ctx'[c].status = "CANCELLED"
  <1>1. LoopInv /\ [Next]_vars => [Stays]_vars
    BY EndedStep
  <1> QED
    BY <1>1, LoopInvariance, PTL DEF Spec, EndedStaysEnded

===============================================================================
