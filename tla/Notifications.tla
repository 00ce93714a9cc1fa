------------------------------ MODULE Notifications ------------------------------
(***************************************************************************)
(* Notifications of the crypto desk: the bounded priority queue            *)
(* (crypto/notify/queue.py) and its delivery by the Telegram adapter       *)
(* (crypto/telegram/adapter.py, flush_notifications), which waits for the  *)
(* transport in the middle: whoever publishes does so between its steps.   *)
(* A notification is known by its key; what it says is left out.           *)
(***************************************************************************)
EXTENDS Integers, Sequences

CONSTANTS
  Keys,          \* dedupe keys
  Priority,      \* key -> NotifyPriority, fixed by the event that has the key
  MaxSize,       \* max_size
  Rate,          \* rate_per_minute
  Minute,        \* the window of the rate, in ticks of the clock
  MaxRetry,      \* the longest Retry-After, in ticks
  MaxPublished,  \* bound: notifications published, those put back not counted
  NoKey

ASSUME NotifyAssumption ==
  /\ Priority \in [Keys -> 0..3]
  /\ MaxSize \in Nat \ {0} /\ Rate \in Nat \ {0}
  /\ Minute \in Nat /\ MaxRetry \in Nat /\ MaxPublished \in Nat
  /\ NoKey \notin Keys

VARIABLES
  items,      \* _items
  popped,     \* _sent_times: how many were popped a while ago, up to Rate
  known,      \* how often _recent_keys has met a key, up to 2
  flushing,   \* flush_notifications is running
  hand,       \* the notification it has given to the transport
  retry,      \* time until _last_retry_after
  up,         \* the transport answers well
  published,  \* counted against its bound
  owed        \* history: keys published since they were last told

queueVars  == <<items, popped, known>>
notifyVars == <<items, popped, known, flushing, hand, retry, up, published, owed>>

NotifyTypeOK ==
  /\ items \in Seq(Keys) /\ Len(items) <= MaxSize
  /\ popped \in [0..Minute -> 0..Rate]
  /\ known \in [Keys -> 0..2]
  /\ flushing \in BOOLEAN /\ up \in BOOLEAN
  /\ hand \in Keys \union {NoKey}
  /\ retry \in 0..MaxRetry
  /\ published \in 0..MaxPublished
  /\ owed \in SUBSET Keys

NotifyInit ==
  /\ items = <<>>
  /\ popped = [age \in 0..Minute |-> 0]
  /\ known = [k \in Keys |-> 0]
  /\ flushing = FALSE /\ hand = NoKey /\ retry = 0
  /\ up \in BOOLEAN
  /\ published = 0 /\ owed = {}

UpToLimit(n, limit) == IF n < limit THEN n ELSE limit

-------------------------------------------------------------------------------
(***************************************************************************)
(* publish: sorted by priority, the latest last; of too many the last one  *)
(* goes.  The third of a key within the aggregation window replaces those  *)
(* of the key that are pending; whether it falls into it is a choice.      *)
(***************************************************************************)
\* Where sort() moves a k that is appended to a queue in order.
Slots(queue, k) ==
  {p \in 1..(Len(queue) + 1) :
     \A i \in DOMAIN queue : Priority[queue[i]] <= Priority[k] <=> i < p}

Inserted(queue, k, p) ==
  [i \in 1..(Len(queue) + 1) |->
     IF i < p THEN queue[i] ELSE IF i = p THEN k ELSE queue[i - 1]]

KeptOldest(queue, k, p) ==   \* MUTANT: what is published when the queue is full is refused
  IF Len(queue) < MaxSize THEN Inserted(queue, k, p) ELSE queue

Kept(queue, k, p) == SubSeq(Inserted(queue, k, p), 1, UpToLimit(Len(queue) + 1, MaxSize))

\* The list comprehension over the queue: what is not of key k, in its order.
Without(queue, k) ==
  {[j \in DOMAIN at |-> queue[at[j]]] :
     at \in {f \in UNION {[1..n -> DOMAIN queue] : n \in 0..Len(queue)} :
               /\ \A i, j \in DOMAIN f : i < j => f[i] < f[j]
               /\ \A i \in DOMAIN queue : queue[i] # k <=> \E j \in DOMAIN f : f[j] = i}}

Publishes(k) ==
  /\ \E pending \in {items} \union (IF known[k] = 2 THEN Without(items, k) ELSE {}) :
       \E p \in Slots(pending, k) : items' = Kept(pending, k, p)
  /\ known' = [known EXCEPT ![k] = UpToLimit(@ + 1, 2)]

Publish(k) ==
  /\ published < MaxPublished
  /\ published' = published + 1
  /\ Publishes(k)
  /\ owed' = owed \union {k}
  /\ UNCHANGED <<popped, flushing, hand, retry, up>>

-------------------------------------------------------------------------------
(***************************************************************************)
(* flush_notifications: it pops and sends until nothing is ready or the    *)
(* transport fails.  A dry run, without a transport, is one that answers.  *)
(***************************************************************************)
FlushWhileTold ==   \* MUTANT: Retry-After is compared the wrong way round
  /\ ~flushing /\ retry > 0
  /\ flushing' = TRUE
  /\ UNCHANGED <<queueVars, hand, retry, up, published, owed>>

Flush ==
  /\ ~flushing /\ retry = 0
  /\ flushing' = TRUE
  /\ UNCHANGED <<queueVars, hand, retry, up, published, owed>>

\* The rate is reached with Rate of them, at whatever ages.
RateReached ==
  LET upTo[age \in 0..Minute] == popped[age] + IF age = 0 THEN 0 ELSE upTo[age - 1]
  IN  upTo[Minute] >= Rate

\* P0 goes out at any rate, and counts for it.
Ready == items # <<>> /\ (Priority[Head(items)] = 0 \/ ~RateReached)

PopReady ==
  /\ flushing /\ hand = NoKey
  /\ Ready
  /\ hand' = Head(items)
  /\ items' = Tail(items)
  /\ popped' = [popped EXCEPT ![0] = UpToLimit(@ + 1, Rate)]
  /\ UNCHANGED <<known, flushing, retry, up, published, owed>>

NothingReady ==
  /\ flushing /\ hand = NoKey
  /\ ~Ready
  /\ flushing' = FALSE
  /\ UNCHANGED <<queueVars, hand, retry, up, published, owed>>

Sent ==
  /\ hand # NoKey /\ up
  /\ hand' = NoKey
  /\ owed' = IF \E i \in DOMAIN items : items[i] = hand THEN owed ELSE owed \ {hand}
  /\ UNCHANGED <<queueVars, flushing, retry, up, published>>

\* 429: put back, and no flush before the time it names.
Throttled(wait) ==
  /\ hand # NoKey /\ ~up
  /\ retry' = wait
  /\ Publishes(hand)
  /\ hand' = NoKey /\ flushing' = FALSE
  /\ UNCHANGED <<popped, up, published, owed>>

SendRaises ==
  /\ hand # NoKey /\ ~up
  /\ IF Priority[hand] <= 1 THEN Publishes(hand) ELSE UNCHANGED <<items, known>>
  /\ hand' = NoKey /\ flushing' = FALSE
  /\ UNCHANGED <<popped, retry, up, published, owed>>

-------------------------------------------------------------------------------
\* The world: the clock, and the transport.
NotifyElapse ==
  /\ retry' = IF retry > 0 THEN retry - 1 ELSE 0
  /\ popped' = [age \in 0..Minute |-> IF age = 0 THEN 0 ELSE popped[age - 1]]
  /\ UNCHANGED <<items, known, flushing, hand, up, published, owed>>

TransportChanges ==
  /\ up' = ~up
  /\ UNCHANGED <<queueVars, flushing, hand, retry, published, owed>>

FlushStep == PopReady \/ NothingReady \/ Sent \/ SendRaises \/ \E wait \in 0..MaxRetry : Throttled(wait)

NotifyNext ==
  \/ Flush \/ FlushStep
  \/ \E k \in Keys : Publish(k)
  \/ NotifyElapse \/ TransportChanges

\* The flushes go on and end, and time passes; nothing obliges anyone to publish.
NotifySpec == /\ NotifyInit /\ [][NotifyNext]_notifyVars
              /\ WF_notifyVars(Flush) /\ WF_notifyVars(FlushStep) /\ WF_notifyVars(NotifyElapse)

-------------------------------------------------------------------------------
Held(k) == hand = k \/ \E i \in DOMAIN items : items[i] = k

(***************************************************************************)
(* A P0 or P1 that is published stays in the queue or in hand until it is  *)
(* told, whatever the transport answers and however often it is put back;  *)
(* only a queue full of what is at least as urgent pushes it out.          *)
(***************************************************************************)
UrgentKept ==
  [][\A k \in owed' :
       Priority[k] <= 1 /\ ~Held(k)' =>
         \/ k \in owed /\ ~Held(k)
         \/ Len(items') = MaxSize /\ \A i \in DOMAIN items' : Priority[items'[i]] <= Priority[k]
    ]_notifyVars

(***************************************************************************)
(* No emergency is starved: when the transport works for good, each P0 is  *)
(* told, or pushed out by another P0, at whatever rate the queue has sent  *)
(* and whatever Retry-After was given before.                              *)
(***************************************************************************)
UrgentTold == <>[]up => \A k \in Keys : Priority[k] = 0 => []<>~Held(k)

=================================================================================
