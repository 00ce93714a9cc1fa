# NVRA in TLA+

A TLA+ development of the parts of NVRA whose correctness depends on the order in
which things happen: orders that are sent once, whatever crashes and whatever answers
get lost; components that are recovered within limits; the gates that let live
orders through, and stop them; a loop of events that survives crashes; and the
guards around trading. TLC checks small instances, TLAPS proves the
safety properties for every value of the constants.

Paths below are relative to the repository; `crypto/` stands for `src/crypto/`.

## 1. The system

NVRA is a trading program made of two stacks and a desktop shell.

* **The crypto stack** (`crypto/`): market data, scanner, ensemble and portfolio
  produce trade proposals; the risk engine approves or rejects them; the
  execution engine turns an approved decision into one order at an exchange and
  follows it; a supervisor watches the components; a live gate decides whether
  real orders are allowed at all.
* **The forex stack** (`god/`): decision, paper trading and learning engines, an
  event-driven orchestration, an MT5 bridge, a live execution controller.
* **The shell** (`nvra_unified/`): a runtime thread, GUI, setup and licensing.

### Inventory

| Component | State it keeps | Operations | What makes it hard, and correct |
|---|---|---|---|
| **Execution engine, store** (`crypto/execution/engine.py`, `store.py`, `models.py`, `states.py`) | SQLite table of executions; mode | `submit`, `cancel`, `reconcile`, `recover_on_startup`, `set_mode` | Crash between a commit and a request; lost and stale answers. One execution per client order id at work; persisted before sent; the exchange decides |
| **Paper broker** (`paper.py`, `_order_utils.py`) | in-memory orders | create, cancel, fetch | Lost with the process |
| **Exchange adapters** (`crypto/exchanges`) | trading switch, session | `create_order`, `cancel_order`, `fetch_order`, `enable_trading` | Retries under the engine; translation of faults and statuses. Switch closed outside a call |
| **Supervisor** (`crypto/recovery/supervisor.py`, `health.py`, `circuit.py`, `safe_mode.py`) | per component: health, ages, level, attempts; storm window; SAFE MODE | `tick`, `heartbeat`, `progress`, `recover_component`, `enter_safe_mode`, `try_exit_safe_mode` | Timeouts racing heartbeats, several components in one tick, ticks while `recover_fn` runs. Limits, SAFE MODE while parked, silence noticed |
| Unknown-order resolver (`crypto/recovery/unknown.py`) | trackers per execution | `track`, `query_once`, `blocks_duplicate` | Retry schedule. Unresolved stays blocking |
| Startup recovery (`crypto/recovery/startup.py`) | report, SAFE MODE | `run` | A failed stage must block trading |
| Live gate (`crypto/control/live_gate.py`) | gate state, attempt, retry time, mode | `evaluate`, `tick`, `force_hard_stop`, `reset_hard_stop` | Callbacks that fail; two owners of the trading switch; a loop and an operator without a lock. Documented, and not so: a hard failure requires a human |
| Control plane, PIN auth (`crypto/control`) | failures, lock-out, audit | commands | Lock-out counter |
| Risk engine (`crypto/risk`) | safety mode, equity tracker, reconciliation flag | `evaluate`, `evaluate_circuit_breakers` | A mismatch or a drawdown keeps entries out. That an emergency stop outlasts softer causes is neither guaranteed nor claimed |
| Resource governor (`crypto/governor`) | state, timers | `_maybe_transition` | Hysteresis with shared timers |
| Notification queue (`crypto/notify`, `telegram/adapter.py`) | bounded list, rate window, Retry-After | `publish`, `pop_ready`, `flush_notifications` | Put back into a full queue, throttled. P0 neither dropped nor starved |
| Market, scanner, ensemble, portfolio, ML, registry | caches, artefacts | numeric pipelines | no shared control state |
| Startup root, GUI, Telegram, hardware, production checks | files, flags | I/O | |
| **Live execution controller** (`god/live`) | state, seen client ids, counters, authorization | `arm`, `disarm`, `kill_switch`, `submit_live_order`, `reset_after_halt` | No lock: a kill during a submission, two submissions at once, a raise after the order was taken |
| **Orchestration** (`god/orchestration`) | queue, seen ids, dead letters, contexts, checkpoints, tasks | `publish`, `process_one`, `resume`, `next_runnable` | Events consumed and lost, full queue, crash between checkpoint and publication |
| Paper pipeline (`god/paper`) | life-cycle records, portfolio | `run` | A rerun after a partial failure |
| Production execution (`god/production_execution`) | bounded result cache | `submit` | Eviction forgets |
| Institutional kernel (`god/institutional`) | order life cycle, message bus | `apply` | Duplicate and late events |
| Reliability, resilience, loops, runtime, decision, capital, selection | cycle state, journals | sequential cycles | |
| Bridge, MT5, IPC | processes, sockets | I/O | reconnects |
| Forex ML, memory, persistence, control plane, licensing, auth, admin, agent, research, release | files, SQLite | numeric or I/O | |
| Unified runtime (`nvra_unified/runtime.py`) | thread, stop flag, status | `start`, `request_grace_stop`, `force_stop` | Start racing a stop that timed out |

How they interact in the modelled part: the engine calls the store (commit), then
the adapter or the paper broker, then the store again, all synchronously on one
thread; it opens the adapter's trading switch for the time of one request. The
adapter retries under it. The exchange fills and cancels orders whenever it
likes. The supervisor is driven by its owner: `tick` from a timer, `heartbeat`
and `progress` from the components, `recover_component` with a callback that does
the work. In this commit the engine is used by the research harness and tests,
and the supervisor is built at start but not driven; both are modelled as their
interfaces allow them to be used. The live gate acts on the adapter's switch
itself and on the engine's mode through a callback its host may wire or not. The
live controller of the forex stack owns its authorization gate and its position
book and calls the broker through a callback. The orchestration's worker takes an
event from the bus, runs every handler on it, writes a checkpoint and the context
to the memory store, and publishes what the handlers made.

`PROJECT.json` lists every component with its sources and status, and under
`hazards` what is hard to test, each at its line.

## 2. Modules

| Module | Models |
|---|---|
| `OrderStates` | the order life cycle of `states.py` as a relation |
| `ExecutionEngine` | engine, store, paper broker, adapter's order path, exchange |
| `ExecutionLedger` | abstract specification: what the engine promises per execution |
| `ExecutionProperties` | properties, the refinement mapping, the inductive invariants |
| `ExecutionProofs` | theorems about `ExecutionEngine`: its inductive invariant and what follows |
| `LedgerProofs` | theorems: the engine implements the ledger, recovery settles, the exchange decides |
| `MCExecution` | constants for TLC |
| `Supervisor` | supervisor, breaker, SAFE MODE, with its properties |
| `SupervisorProofs` | theorems about `Supervisor` |
| `MCSupervisor` | constants for TLC |
| `LiveControl` | forex live controller with its authorization and capital gates |
| `LiveControlProofs` | theorems about `LiveControl` |
| `MCLiveControl` | symmetry for TLC |
| `LiveGate` | crypto live gate, composed with the adapter's switch and the engine's mode |
| `LiveGateProofs` | theorems about `LiveGate` |
| `Orchestration` | event bus, worker, handlers' event graph, context and checkpoint stores, resume |
| `OrchestrationProofs` | theorems about `Orchestration` |
| `MCOrchestration` | constants for TLC |
| `Governor` | resource governor's hysteresis |
| `RiskGuards` | risk engine: safety mode, breakers, reconciliation, losses of the day |
| `UnknownOrders` | resolver of UNKNOWN orders |
| `UnifiedRuntime` | supervisor thread of the desktop shell |
| `Notifications` | notification queue and its delivery by the Telegram adapter |
| `GuardsProofs` | theorems about the five above one by one, and about these and `LiveGate` side by side |
| `MCGuards` | these six components in one run, one of them at work |

Definitions marked `MUTANT` in a comment belong to no specification. Each is a
plausible slip in the definition that follows it (a dropped guard, an off-by-one,
a missing reset); substituting it must break the property `PROJECT.json` pairs it
with, which shows that the property depends on the code.

### Execution engine

State: `store` is the executions table (state, exchange id, filled quantity per
execution; the client order id is the intent with the quantity the risk engine
allowed, as `make_client_order_id` hashes it). `venue` is the order book of the
exchange, `paper` that of the paper broker. `mode` and `trading` are the engine's
mode and the adapter's switch. `call` is the local state of the call being
served: since the engine is one synchronous thread there is at most one. `todo`
is what `recover_on_startup` has still to do.

A call is cut exactly where something else can happen: after each commit and at
each request. `submit` is `Submit` (idempotency lookup, `RISK_APPROVED` saved),
then `RejectLocal` or `StartSubmitting` (final check, floor, `SUBMITTING` saved,
switch opened), then `SubmitPaper`, or `VenueAccepts`/`VenueRefuses`, then
`HandleSubmit`. `cancel` is `Cancel`, then `CancelPaper`, `CancelWithoutId` or
`CancelLive`, then `HandleCancel`. `reconcile` is `Reconcile`, `Fetch`,
`HandleFetch`; recovery is `StartRecovery` followed by `RecoverNext` per
execution. `Crash` can fall between any two of these; it keeps the store and the
exchange and loses everything else.

A request to create an order has two independent outcomes: whether the exchange
took the order, and what comes back (a description of the order, an answer that
does not describe it, a fault). The engine tells faults apart only as `FaultState`
does. `Finish` is `_set_state` followed by `store.save`: a move the state machine
does not have raises, saves nothing and abandons a recovery loop around it.

The two adapters differ in three places, chosen by the constant `Adapter`: ccxt
repeats a create after a transport fault (`Retries`, `Reply`); Tokocrypto answers
a 5xx with "unknown" and no id (`Ambiguous`), and passes the number of a fetched
order's status on untranslated (`AsFetched`).

Abstracted: prices, fees, sides and symbols (fixed per intent), the audit table,
the risk engine's reasons, floats (quantities are small integers; 1e-12 is
equality). A refused `enable_trading` (missing environment authorization) is a
request that raises. Assumed of the exchange: it never reuses an id, answers a
fetch by id with that order, and an answer that claims a cancellation tells the
truth; this covers the two places where an adapter itself fills in "canceled"
for an acknowledged cancel with no order in it.

### Supervisor

State: per component its health, the ages of its last beat and last progress, whether it
is in a named operation, level and attempts; the ages of the events in the breaker's
window; whether the breaker is open; whether SAFE MODE is active. The code only ever
subtracts times, so ages replace them, and an age stops growing when no comparison can
tell it from a larger one. `Tick` is the whole loop of `tick()`, including the
components that begin recovery before and after the breaker opens within one pass.
`RecoverComponent` is `recover_component`, by case: refused, exhausted, opening the
breaker, or attempted, and that in two steps: `RecoverAttempt` counts and records the
attempt and calls `recover_fn`, `RecoverEnds` writes what it says. In between, while the
owner's code restarts something, anything else may happen, other recoveries of the same
component included: `running` counts the calls under way, up to `MaxRunning`. Apart from
this callback the code is not left in the middle of an operation: it has no lock, and
its owner calls it from one thread or takes a lock of its own. The reset of the breaker
has no caller and no action. The `components_healthy` argument of `try_exit_safe_mode`
is taken to be true of the state, the other gates are free.

### Live controller

State: the controller's mode and `state`, whether its last preflight passed, the
authorization gate (`gate`: its state, safe mode, the arm, and of the nine
prerequisites the one it writes itself and all others), the ids it has seen, the
positions, and per thread its place (`at`) in the operation it is in, with the id it
submits. The code holds no lock. Every operation is therefore cut wherever it reads or
writes what threads share, and any thread may be in any operation: `submit_live_order`
is `SubmitLiveOrder` (the test of `state`), `CheckGate`, `CheckId`, `CheckLimits`,
`CheckCapital`, `Execute` (EXECUTING is written and the request goes out),
`BrokerAnswers` or `BrokerRaises`, `HoldPosition`, `Settle`; `arm` and
`arm_from_admin_policy` are `Arm`, `ArmPreflight`, `ArmCapital`, `AskGate`,
`WriteArmed` or `WriteBlocked`; preflight, disarm and reset are cut likewise, and the
kill switch is one write. What is read between two calls is read in one step, since
CPython changes threads at calls only; the authorization gate is assumed to be used by
one thread at a time. The capital gate and the losses are not state: what they allow
is chosen where it is read, which covers losses that two threads update at once.

So two callers pass the checks together, and a kill switch pulled between the checks
and EXECUTING, or while the broker is waited for, is overwritten; a raise turns even
HALTED into DEGRADED, and arming writes ARMED over a kill switch pulled during it. This
is what the code does, no document of the repository denies it, and the properties do
not hide it. Those about positions and ids hold for any overlap, with a bound that
counts the threads. Only `ArmedIsEarned` is claimed until somebody meddles: `overtaken`
are the threads in an operation under which another one has changed `state` or the
preflight, and `meddled` records that such a thread wrote one of the two nevertheless.
`redo` is what a kill switch demands before the controller may trade again. Also
faithful to the code: a DEMO gate that enters and leaves safe mode is LIVE_DISABLED
afterwards and can be armed; `resume_from_admin_policy` vouches for the operator and
arms a DEMO gate; an id whose `broker_submit` raised is not recorded.

### Live gate

State: the gate's state, the attempt and the time to the next retry, the mode it
believes in, the adapter's switch, the mode of the engine behind `mode_fn`, whether
that engine is sending an order of its own, and what the environment authorizes and the
preflight would find (`outside`). `setup` is how the host wired it. The controller has
no lock: each thread has a place in the operation it is in. The tick loop only ticks;
operators evaluate, force hard stops and reset them. A thread first asks (`Tick` or
`EvaluateGate`, `TestsState`, `AsksPreflight`) and then acts, in the order of the code,
a step for each call between what it reads and writes: the switch (`TestsSwitch`,
`EnablesTrading`, or `ShutsSwitch`), the believed mode (`SetsMode`), `mode_fn`
(`TellsEngine`, absent, working or raising), the switch once more, which the engine's
`set_mode` shuts for LIVE too (`EngineShuts`), and the state (`EndsLive`,
`EndsStopped`, or `Counts`, `Decides`, `SetsRetry`). A promotion thus shuts what the
gate has just opened, and the engine opens it again for each order (`EngineSubmits`).

Acts of two threads can overlap, and then the writes of one fall between those of the
other: HARD_STOP with mode LIVE, or with an open switch where no engine is wired. The
histories say when: `crowded` are the threads whose act under way has met another's,
`mixed` that the act which ended last had. What the gate promises is about acts that
met none; that such an act repairs whatever was torn before it is part of it.

### Orchestration

State: contexts in memory (`ctx`) and in the memory store (`disk`), stored
checkpoints, the bus's queue and what it has seen, and the `job` of `process_one`,
cut where it writes: `Consume`, `Handle` or `HandlerRaises`, `SaveCheckpoint`,
`SaveContext`, `PublishFollowOn` for each event the handlers made. The event graph
(`CuriosityHandler` to `ShadowHandler`) is translated from the handlers; an event is
known by what its id is a hash of. Owners publish, pause, resume and cancel in
between; a write that fails is swallowed (`Durably`); `Crash` keeps the memory store
only. As in the code, events of a PAUSED context are worked on; an event for a
context that does not exist is consumed and stays in `seen`; a follow-on that a full
bus refuses, or that a crash catches after the context was saved, is never made
again, and `resume` does not bring it back.

### Guards

`Governor` keeps the times `_maybe_transition` computes. Read from the code: only
CRITICAL passes through RECOVERY, `_recovery_since` is not reset on the way out, and
RECOVERY is left only for a sample without pressure, since a lesser one has its own
severity. `RiskGuards` has the breakers in their order, the flag, the tracker and its
losses; a proposal's other checks are a choice. A new day forgets losses in a row and
the peak. An outage replaces EMERGENCY_STOP by BLOCK_NEW_ENTRIES, and the next clear
evaluation returns to NORMAL, although the comment at `risk/engine.py:322` speaks of
soft states; what is still checked then is the tracker, and `NoEntryInTheRed` says how
much that guarantees, less than an EMERGENCY_STOP that lasts. `UnknownOrders` has the
schedule; `track` replaces a tracker, `Retry-After` changes nothing. `UnifiedRuntime`
has the loop with its lock; `force_stop` waits outside of it and writes the status late,
so a thread can run while the status says stopped (history `torn`), and a `start` while
the old thread winds up is lost. `Notifications` joins the queue with
`flush_notifications`: pop, transport, and what is put back; a key's priority is fixed,
as for every publisher in this commit, and whether three of a key fall into the
aggregation window is a choice.

## 3. Properties

Execution engine:

* `OneClaimPerClientId`: at most one execution of a client order id is at work or
  filled, over any history of failures, recoveries and resubmissions.
* `PersistedBeforeSent`: an order at the exchange has a committed execution of
  the same client id, and is no larger than approved.
* `OwnOrder`: a recorded exchange id names an order placed for that execution.
* `VenueDecides` (LIVE only): a record is CANCELLED, or REJECTED with an order id,
  only if its order is, and has fills or is FILLED only if its order has some fill.
* `GateOnlyDuringLiveCall`: the trading switch is open only during a request.
* `PaperLeavesVenueAlone`: in PAPER mode no engine step changes the exchange.
* `RecoveryLeavesNoneInFlight`: a recovery that ends leaves nothing SUBMITTING,
  CANCEL_PENDING or RECONCILING, and is never cut short by a TransitionError.
* `CallsEnd`: every call ends.
* `ImplementsLedger`: the engine implements `ExecutionLedger`. The mapping groups
  the fourteen order states into five phases. The ledger adds what the invariants
  do not say: a client id is reopened only when all its executions are closed, an
  execution places at most `Retries + 1` orders and only while in flight, filled
  and closed executions never move.

Supervisor: `AttemptsWithinLimit`, `ClosedMeansRoom` (fewer than the limit of
recoveries per window while the breaker is closed), `ParkedMeansSafeMode`,
`NoHealingInStorm` (no `recover_fn` is called after the breaker opened, and what is
down stays down but for the answer of a call that was under way for it),
`SilenceIsNoticed`.

Live controller: `GateCoherent` (armed, state, safe mode and prerequisites agree
after any mix of operations), `PositionsWithinLimit` (positions and orders past the
check exceed the limit by at most the other threads), `SentAgainOnlyAfterRaise` (an id
goes out once per thread and once more per raise), and until a thread writes over what
another changed under its operation `ArmedIsEarned` (after a kill switch: reset, new
preflight, new arm, in this order).

Live gate: `PaperUnlessLive` (when nobody acts and the last act met no other: gate,
believed mode, engine mode and switch agree unless `mode_fn` raised), `Recovers`, and
what the documents say and the code does not keep, `HardStopRequiresHuman`.

Orchestration: `CheckpointFirst` (whatever crash, as long as no write was swallowed),
`HandledOnce`, `LostOnlyByRaising`, `EndedStaysEnded`, `LoopCloses` (an event in the
queue brings its context to COMPLETE unless something disturbed it).

Guards: `CriticalCoolsDown` (from CRITICAL to NORMAL it takes the stability time and a
dwell time, whatever the pressures alternate), `NoEntryInTheRed`, `BlocksUntilOver`,
`OneSupervisor`, `UrgentKept` (a P0 or P1 leaves only by being told, or by a queue full
of what is as urgent), `UrgentTold` (no P0 is starved).

## 4. Runs

| Run | Bounds | Question and result |
|---|---|---|
| `engine_live` | 1 intent, quantity up to 2, 2 executions, 2 exchange orders, LIVE, ccxt | Does a LIVE engine keep its promises under crashes, lost and stale answers and retries? Holds (0.6 million states) |
| `engine_modes` | as above, PAPER and LIVE, Tokocrypto | Do they survive mode switches, and is the invariant of the proofs true? Holds (1.4 million states) |
| `supervisor` | 2 components, one in the background; limit of 2 events in a window of 1; limits 2,1,1,1,1; one `recover_fn` at a time per component | Limits, SAFE MODE, storms, silence. Holds (0.8 million states) |
| `live_desk` | 2 ids, 2 threads in any operation, DEMO and LIVE, 1 position, 3 orders sent | What do the live controller's checks guarantee without a lock? Holds (2.8 million states, up to symmetry) |
| `orchestration` | 1 context, 2 published events, bus of 4, 6 handlers, 2 raises, 1 failed write, 1 crash | What survives a crash, a raise and a full bus, and does the loop close? Holds (0.5 million states) |
| `guards` | see below | Six components, each alone, the live gate with loop and operator cut at every call. Holds (0.7 million states) |
| `duplicate_submit` | quantity 1, 2 executions, 2 orders | "No duplicate submit" at the exchange: **violated** |
| `fills_recounted` | quantity 2, 2 executions | "Exchange is authoritative for fills": **violated** |
| `clock_tie` | 3 executions in one millisecond | `OneClaimPerClientId` with a clock that stands still: **violated** |
| `resent_order` | ccxt | One order per execution: **violated** |
| `status_lost` | Tokocrypto | A fetched status reaches the engine: **violated** |
| `hard_stop_left` | loop and operator | "Require human": HARD_STOP is left by a reset only: **violated** |

Why the bounds are enough. Two executions of one client id are the fewest that can
conflict, and the third of `clock_tie` is the one a tie lets through; client ids with
different quantities never meet, and two quantities give both a different client id and
a partial fill. Two exchange orders allow a resent or duplicated order; a third attempt
behaves like the second. The recovery loop runs over up to two executions, so a raise in
the first would be seen to strand the second. For the supervisor two components are the
fewest for a tick in which one opens the breaker and a later one is parked; a timeout of
0 ticks with a grace of 1 gives the three classes fresh, late and lost; with 2 events in
a window one recovery fits and the next overflows, in one tick or around a `recover_fn`
under way. `MaxExecs` and `MaxOrders` bound counters that grow without limit in the
code; when they are reached, the exchange refuses and no execution is opened.
`CreatedAt` is the clock: advancing in the passing runs, standing still in `clock_tie`.

`live_desk`: two threads are the fewest whose orders overlap, two ids the fewest of
which one is used up; with one position allowed a second order past the check already
exceeds it, and with three orders an id is sent by each thread and once more. Threads
and ids differ in nothing, hence the symmetry. `orchestration`: the handlers are those
of `research/harness/stage2_final_replay.py` in their order without "shadow", which only
adds one event of a kind there is already; from STRATEGY to CAPITAL_SAFETY the chain
just fits a bus of 4, and with REGIME published as well it does not; two raises reach
the poison threshold. `guards`: the governor with a dwell of 2, a brief wait of 1, a
stability time of 4 and samples of all four severities; equities 0, 8, 9, 10 with limits
of 10 % and 20 %, met exactly, and two losses in a row; two executions of one client id
with lookups at 0, 1 and 2; two stoppers and three supervisor threads; three keys of
priorities 0, 1 and 3, a queue of 2, one notification a minute; the live gate with a
backoff of 1 minute at most, so that the second attempt is the one beyond which it gives
up, in two setups that differ in all three choices, and the proofs for all of them. The
six share no state, so checking them side by side or one at a time is the same, and
`subject` picks one. `MaxSends`, `MaxRunning`, `MaxRaises`, `MaxLapses`, `MaxCrashes`,
`Loops` and `MaxPublished` bound what may happen for ever.

Fairness. `WF(EngineStep)`: a synchronous call runs on by itself, and every
request to the exchange ends in an answer or a timeout of the HTTP client.
Nothing obliges a caller to call, a crashed process to restart, or the exchange
to fill. `WF(Elapse)` and `WF(Tick)`: time passes, and the owner of the
supervisor keeps calling `tick`. The latter is what `tick` is for; no thread in
this commit does it, so `SilenceIsNoticed` is a promise to an owner that does.
For `Recovers` the tick loop ticks, time passes, and a thread goes on with what it is
doing, as the exchange's answer or a timeout lets it; the operator need not begin
anything. `LoopCloses`
assumes that the worker goes on (`drain`, called by its owner in a loop), nothing of
handlers or owners. `UrgentTold` assumes that flushes are started and go on and that
time passes, as `Recovers` does; `flush_notifications` has no caller in this commit
but its tests, so this too is a promise to an owner.

### Where the code and its documentation part

1. `duplicate_submit`: `docs/crypto/EXECUTION.md:44` promises no duplicate submit.
   An error that is neither a network error nor a timeout, an unreadable answer for
   one (`tokocrypto_rest.py:247`), marks the execution FAILED although the exchange may
   have taken the order (`engine.py:236`), and FAILED lets the intent be sent again.
   The trace: order taken, such an error, second submit, second working order.
   Reconciling an execution without an exchange id ends in FAILED as well
   (`engine.py:376-380`).
2. `fills_recounted`: every answer's cumulative fill is appended as a new fill
   (`engine.py:264-273`). The trace: 1 of 2 filled at the submit, one reconcile, and
   the record is FILLED with 2.
3. `clock_tie`: idempotency looks at the record with the latest millisecond
   (`store.py:152`) and misses an active one under a tie. The trace: an execution
   REJECTED by the final check, a second one approved, a crash, a restart; the third
   submit sees the rejected one.
4. `resent_order`: `_safe_call` repeats `create_order` after a transport error
   (`ccxt_base.py:395`), against "never resubmit" in `EXECUTION.md:77-78`.
5. `status_lost`: `_normalize_open_order` (`tokocrypto.py:517`) keeps the number
   that `_status_label` translates everywhere else.
6. `hard_stop_left`: `live_gate.py:10` and `:329` and `docs/BROKER_MODES.md:27` require
   a human after a hard failure. The state is tested once, before the preflight
   (`live_gate.py:208`); an evaluation past that test writes LIVE_ENABLED over a hard
   stop the operator forced meanwhile (`live_gate.py:284`).

Read, and no run of its own: `live_gate.py:7-8` says that success enables adapter
trading and promotes the mode, but with an engine behind `mode_fn` the promotion shuts
the switch again (third part of `PaperUnlessLive`). `docs/CORE_INVARIANTS.md:14` has
duplicate client order ids rejected (INV-008, its enforcement "Partial"); the live
controller forgets an id whose `broker_submit` raised and lets threads that submit one
id at the same time pass, as far as `SentAgainOnlyAfterRaise` says.

## 5. Proofs

`ExecutionProofs` proves, for any set of intents, any quantities, executions,
exchange orders, clock and either adapter: `Invariance`, and from it
`TypeCorrect`, `SentOnlyIfPersisted`, `RecordsNameTheirOrders`, `GateClosed` and
the action property `PaperIsSafe`; and `SingleClaim`, which also assumes
`ClockAdvances` (creation times of successive executions increase). `clock_tie`
shows that the assumption is needed.

The inductive invariant `IInv` adds to the properties what makes them inductive:
`CallMatchesRecord` (what the store holds of the execution being served at each
point of control: without it nothing says that an order is sent for a record that
is SUBMITTING), `ReplyIsOwn` (an answer in hand names an order of that very
execution: without it an id could be recorded for the wrong one) and
`CreatedInOrder` (executions come into being in order and keep their client id).
`SingleClaim` adds `EarlierClosed`: of two executions of a client id the earlier
is closed for good; the newest record, which `submit` looks at, is then the only
one that can be active. There is one lemma per action and invariant part it can
disturb; frame lemmas dispose of the actions that leave a part alone.

`LedgerProofs` proves, with the same freedom of the constants:

* `EngineImplementsLedger` (with `ClockAdvances`). Every step that moves a record is
  a move of the state machine of `states.py`, and each of those is, phase by phase, a
  step of the ledger or none (`LedgerStep`). Two facts the engine's invariant lacks:
  how many orders an execution has while its call still makes attempts
  (`AttemptsCounted`, which gives `OrdersBounded` as well), and that of the executions
  of a client id the earlier are closed (`EarlierClosed`, from `SingleClaim`).
* `RecoverySettlesAll`. `RecoveryInv`: while recovery runs, every record in flight is
  in `todo`, and the one being reconciled is RECONCILING or still SUBMITTING, from
  where it accepts what it can be told. This needs that a record which has had no
  answer has no id and no fills (`Unanswered`) and that only a record with an id is
  told about an order (`FetchedById`).
* `ExchangeDecides` (with `Modes = {"LIVE"}`: the paper broker ends orders too).
  `VenueInv` adds to the property that an answer in hand claims nothing the
  exchange could take back (`ReplyHolds`: fills, cancellations and rejections stay, so
  an answer may be stale but not wrong on them), that an order closed there has fills
  (`ClosedHasFills`) and that no record names a paper order (`NoPaperIds`).
* `OneOrderWithoutRetries` and `StatusPassedOn`: what the runs `resent_order` and
  `status_lost` refute of one adapter holds of the other, for every instance.

`SupervisorProofs` proves, for any number of components, any timeouts and limits:
`LadderInvariance` (type of the ladder, attempts within limits, SAFE MODE while
parked), hence `AttemptsLimited` and `SafeModeWhileParked`, and `StormIsFinal`,
with `running` counting the calls of `recover_fn` under way (`RunningInvariance`).
It needs that an open breaker leaves no room, so that the set of components
a tick recovers is empty (`NoRoomInStorm`, a fact about finite cardinalities).
`SupervisorTypes` and `BreakerLimits` rest on `StormInv`: the breaker's events are
within the window, fewer than the limit while it is closed, and the oldest are in
front (`OldestInFront`), so that the prefix `_prune` pops (`Expired`) is everything
that is too old. A tick records as many events as there are lost components the
breaker still has room for: those up to the last one that fits, which exists because
a non-empty finite set of components has a last (`LastComponent`, from the
well-foundedness of the naturals).

`LiveControlProofs` (any ids, threads, limits and modes). `Typed`, types with the
coherence of the gate, is inductive by itself. The budget rests on `Committed`, the
threads past the check of the limit: they are at most all threads, and the last of them
found room. `Counted` does the same for an id: what was sent and the threads past its
check are no more than what raised and all threads, and until it is answered each time
it was sent it has raised or is waited for. `Earned` says what a thread relies on at its
place while nobody has overtaken it (`Claim`: past the first check the state can trade,
past the check of an arming it is not HALTED and the preflight passes), and what `redo`
still demands (`Owed`).

`LiveGateProofs` (any threads, backoff and setup). `GateInv` has three parts besides
types and property: `Meeting` (of two acts at a time both have met another), `Reasons`
(what a thread acts for, by its place) and `Standing`: what an act that has met no
other has written so far still stands, whatever it found when it began.

`OrchestrationProofs` (any contexts, handlers, capacity, threshold and numbers of
faults). Besides the types `LoopInv` has five parts: what memory or store counts as
completed is checkpointed (`Stored`), a node was handled at most once per life, and
once less while it is neither completed nor just handled (`Once`), the job's event is
one its context still needs until its checkpoint (`Working`), every accepted event is
somewhere (`Accounted`), and contexts that do not exist have completed nothing
(`Missing`).

`GuardsProofs` proves one safety property of each of five components for any values
of their constants, with an invariant each: `CoolingInv` (how long ago CRITICAL was,
by state and timers), `RedInv` (the peak is no less than any equity counted, and a
mismatch keeps the flag down), `FoundInv` (what was found over is over),
`OneThreadInv` (only the thread of `_thread` is alive, and what it has still to do
agrees with the stop flag) and `NotifyInv` (types, and the queue in order of
priority). `UrgentIsKept` needs the order: cut at its size, a queue in order loses
nothing but what is least urgent; that inserting, cutting and removing the entries of
a key keep it in order are the lemmas `InsertedKeeps`, `CutKeeps` and `WithoutKeeps`.
`GuardsTypes` puts the five and the live gate next to each other as the run `guards`
does: a step of one leaves the invariants of the others alone.

The named assumptions about the constants (positive bounds, a subset of the two
modes, an adapter that is one of the two, `None` outside the id sets, limits that
are positive, a schedule whose last lookup is the latest) are all the proofs use,
besides what a theorem says itself: `ClockAdvances` in `SingleClaim` and
`EngineImplementsLedger`, `Modes = {"LIVE"}` in `ExchangeDecides`, one adapter in each
of the last two theorems of `LedgerProofs`.

Every invariant and every action property a passing run checks has a theorem. Only
model-checked are the liveness properties `CallsEnd`, `SilenceIsNoticed`, `Recovers`,
`LoopCloses` and `UrgentTold`: liveness under fairness is out of the prover's reach.
`Supervisor` and `Notifications` describe what the code does to its lists by the
positions that stay or are shifted (`Expired`, `Slots`, `Without`), not by filtering
or sorting recursively, because about a recursive definition nothing can be proved by
induction here.

## 6. Not modelled, and the plan

Not modelled for good: numeric pipelines and learning (out of TLC's reach), user
interfaces, installers, sockets and files (I/O without a protocol of their own),
float arithmetic of risk sizing.

Left out of modelled components: the `Scheduler` of the orchestration (nothing drives
it; a task it defers, blocks or drops is popped and gone), `CognitiveLoopHandler` (it
passes `create_event` an argument that does not exist and raises on the observation it
is for), `CheckpointStore.latest_for_context` (it reads an attribute checkpoints do
not have), the autonomous start of the live desk (it builds a controller and drops
it), the probes of the desktop's services, sizing and data checks of the risk engine,
connection, market data and balances of the adapters.

Not modelled, because nothing in them depends on an order of events that their unit
tests could not reach: startup recovery (one pass over a list), control plane and
paper pipeline (request and response on one thread), institutional kernel (its bus is
the modelled one without retries), reliability and resilience supervisors (retry loops
on one thread), production execution (used by nothing).

Next:

1. `ProductionExecution`: the bounded caches of results and revocations, and what
   their eviction forgets.
2. `Scheduler`, once something drives it.
3. Proofs: whatever safety property the two modules above bring; the liveness
   properties stay with TLC.
