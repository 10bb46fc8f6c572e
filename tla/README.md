# A TLA+ verification project for dbkit-sql

`dbkit-sql` wraps SQLAlchemy with what a service needs around a database: named and
sharded targets, one engine per target, bounded pools, timeouts, retries, a circuit
breaker, explicit transactions, bulk writes, an inbox and an outbox. This directory holds
TLA+ models of that logic, the TLC runs that check them on small instances, and TLAPS
proofs of the properties that matter most. Line numbers refer to `src/dbkit/`.

## 1. Inventory

The package has one implementation, `_async/`, and a generated threaded mirror, `_sync/`
(`tools/run_unasync.py`); `_core/` is pure and shared by both.

| Part | Files | State it keeps | Operations |
|---|---|---|---|
| Circuit breaker | `_core/circuit.py` | state, failure window, `_opened_at`, trial count | `state`, `allow`, `on_success`, `on_failure` |
| Retry loop and policies | `_async/resilience.py`, `_core/policies.py` | locals of one call: attempt, start | `run_with_retries`, `should_retry`, `backoff_delay_ms` |
| Concurrency limiter | `_async/resilience.py`, `_async/executor.py` | one semaphore per tier | `acquire` with a timeout, nested per attempt |
| Executor | `_async/executor.py` | breakers per key, limiters per database | `entry`, `execute_with_resilience`, `scope`, `acquire`, `forget_database` |
| Engine registry | `_async/engine.py` | engines by key in LRU order, a lock | `get`, eviction, `dispose_one`, `dispose_database`, `dispose_all` |
| Database facade | `_async/database.py` | config (copy on write), dynamic LRU, a lock, replica selectors, started flag | `start`, `close`, `register_database`, `ensure_database`, `unregister_database`, fetches, `execute`, bulk writes, `health`, `drain_engine` |
| Transactions | `_async/transaction.py`, `_async/_compat.py` | connection, transaction, scope of one block | enter, settings, savepoints, advisory locks, commit, rollback, release |
| Connection scope | `_async/connection.py` | one checked-out connection | statements with timeouts, error classification |
| Streaming | `_async/streaming.py` | connection, server-side cursor, buffer | enter, next, exit |
| Bulk writes | `_async/database.py`, `_core/bulk.py` | counters of one call | insert/upsert many in three modes |
| Routing | `_core/routing.py`, `_async/database.py` | shard cache, rotation counters, the consistency mode of the task or thread | shard and replica resolution, consistency scopes |
| Errors | `_core/errors/`, `integrations/fastapi.py` | none | SQLSTATE classification, connection-error test, the HTTP answer |
| Configuration | `_core/config.py` | immutable | validation, connection budget |
| Inbox | `integrations/inbox.py` | a table in the database | `process_once`, `ack_after_commit`, DDL |
| Outbox | `integrations/outbox.py` | a table in the database | `enqueue`, `drain`, DDL |
| Batch collector | `integrations/batch.py` | buffer, timer, lock, closed flag | `add`, `flush`, `close`, timer |
| Pool instrumentation | `_pool.py` | checkout times, counters | event handlers, `snapshot` |
| Threaded mirror | `_sync/` | as its asynchronous twins | the same operations, in threads |
| Others | `postgres/`, `observability/`, `cli/`, `testing/` | little or none | COPY, pipeline, metrics, command line, fakes |

### How the parts interact

A query goes `Database.fetch_* / execute` → `ResilientExecutor.execute_with_resilience` →
`EngineRegistry.get` (an engine, made on first use) → `run_with_retries` → per attempt: the
limiter's tiers, then the pool, then the statement, then COMMIT for writes. The breaker is
asked before each attempt and told the result after it. Registration changes the
configuration, the registry, the limiters, the breakers and the selectors under one lock
while queries use all five without it. A transaction block takes a connection from the same
registry but has no retries. The inbox and the outbox are used inside such a block; the
broker that delivers and receives their messages is outside the process.

### What is hard here

* Coroutines interleave at every `await`: what was read before it (an engine, a limiter, a
  configuration, the breaker's state) may be replaced when it returns.
* A task may be cancelled at every `await`, COMMIT and the clean-up after it included.
* The outcome of COMMIT may be unknown; a retry or a redelivery then risks a second effect.
* Several caps must hold at once (limiter tiers, pool, engine LRU, dynamic LRU, budget), and
  each is released on every path out.
* Timers race explicit calls (the batch collector, the breaker's cooldown, deadlines).
* A registered database may be replaced, evicted or dropped while it is being used.
* The threaded mirror is the same text without its awaits: threads interleave between any two
  steps, and what a coroutine does in one piece is torn into single dictionary operations.
* Savepoints take back what happened since, on the server: timeouts set with `SET LOCAL` and
  advisory locks included; the client is not told.
* Pure decisions (a classification, a retry, a timeout, a batch size, a budget) have many
  inputs, each harmless alone.

What makes each part correct:

| Part | Correct when |
|---|---|
| Circuit breaker | it opens only on enough recent infrastructure failures, stays open for a whole cooldown, closes only through a probe, and always comes to probe again |
| Retry loop | a write whose outcome is open is never repeated; backoffs respect the budget and the deadline; every call ends |
| Limiter, executor | slots are given back on every path; a query uses a limiter and an engine of the settings in force |
| Engine registry | the cap holds, one live engine per key, no engine handed out while it is disposed of, no pool forgotten |
| Registration | budget and dynamic cap hold through overlapping calls; a replaced or dropped database leaves nothing of itself behind |
| Transactions, scopes, streams | the caller is told what happened to its write; every connection goes back, in a known state; clean-ups are not disturbed |
| Bulk writes | the counters say what is in the table; nothing of unknown outcome is written again |
| Routing | a key goes to the shard its resolver says, whatever is cached; rotations go on; reads in a consistency scope see their own writes |
| Blocks of statements | what is committed is what the body was told; timeouts hold through savepoints; locks are kept |
| Errors, policies | a COMMIT of open outcome is final; a write is repeated as declared; a statement ends by its deadline |
| Configuration | the pools of an accepted configuration fit the budget it enforces |
| Threaded calls | slots and connections are accounted for across replacements; nobody waits for ever |
| Outbox and inbox | an event exists iff its transaction committed, is relayed at least once, applied at most once, and never lost |
| Batch collector | every item reaches the callback once, in order, in time, within `max_size`; `close` leaves nothing behind |
| Pool instrumentation | checkouts recorded are the connections that are out |

## 2. Plan

Modules come in the order of how much a mistake in them would cost: a write applied twice
first, then resources lost or stale, then delivery, then the helpers around them.

| Step | Module | What it is for | State |
|---|---|---|---|
| 1 | `DbErrors`, `CircuitBreaker`, `ResilientCalls` | retries against a shared breaker | done, proved |
| 2 | `ConnectionUse` | a connection through its use, with cancellations | done, proved |
| 3 | `EngineRegistry` | engines under a cap | done, proved |
| 4 | `DynamicRegistration` | configuration, limiters and engines replaced under queries | done, proved |
| 5 | `EffectivelyOnce`, `EventDelivery` | outbox, broker, inbox against their promise | done, proved |
| 6 | `BatchCollector` | buffer, timer and lock | done, proved |
| 7 | `BulkWrite` | insert/upsert many in three failure modes: what is written, dropped, counted, written twice | done, proved |
| 8 | `TransactionBlock` | what a body does with its connection: timeouts, savepoints, advisory locks, caught errors | done, proved |
| 9 | `Optional`, `ErrorClassification`, `Policies`, `Configuration`, `Decisions` | the pure decisions, against what they promise | done, proved |
| 10 | `Routing` | shard resolvers and their cache, rotation, replaced replicas, consistency scopes | done, proved |
| 11 | `ThreadedCalls` | engines, limiters, tiers, pool and retries under one call, in threads, next to registrations | done, proved |
| 12 | `ThreadedBreaker` | the breaker's methods torn between their reads and writes by threads | later |
| 13 | streams | row delivery with the duration limit | later |
| 14 | `PoolBook` | checkout bookkeeping against pool events | later |

Composition. `ResilientCalls` EXTENDS `CircuitBreaker` and `DbErrors`; `EventDelivery`
instantiates `EffectivelyOnce` under a refinement mapping; `Decisions` puts `Policies` (on top of
`ErrorClassification`, `DbErrors` and `Optional`) and `Configuration` together; `ThreadedCalls`
composes the registry's engines, the limiters, the tiers, the pool and the registrations that
the other modules look at one by one.

Abstract specifications: `EffectivelyOnce` is done. Planned are a bounded set of open pools that
the registry implements, and an append-only log of batches that the collector implements.

Theorems: every invariant and action property that a passing run checks is a theorem (section 5),
and so is the refinement of `EventDelivery`; only `WaitsEnd`, which is about ENABLED, and liveness
are left to TLC. Modules that are proved about select from sequences with recursive functions
(`Of` in `EngineRegistry`), take elements out with `RemoveFirst` and `RemoveFirstMatch`
(`BatchCollector`, `DynamicRegistration`), and sort by counting what comes before (`SortedRanges` in
`Routing`), because `SelectSeq` and `SortSeq` of the standard modules are beyond the prover; sums are
`SumFunction` of the community modules (`Configuration`) or recursive functions (`Upto` in `Routing`).

## 3. The models and the code

A module states its state, one action per stretch of code that runs undisturbed, and its
properties, in that order. Operators named `X_...` after an operator `X` and commented
"Mutant" are deliberately wrong variants of it, each of a kind a careless edit of the code
could introduce; nothing uses them. They record that the properties notice.

**What runs undisturbed.** Most modules are about `_async`. A coroutine is suspended only at an
`await` that suspends, so an action is the code between two of them. Awaits on locks,
semaphores, drivers and callbacks split actions; awaits that cannot suspend do not. `Routing`
and `ThreadedCalls` are about `_sync`: there an action touches shared state once, by what a lock
or one dictionary operation makes atomic.

`DynamicRegistration`, `Routing` and `Decisions` share a module of proofs with another component,
so their specifications and type invariants have names of their own (`RoutingInit`,
`RoutingNext`, `RoutingSpec`, `RoutingTypeOK`).

Some properties are conjunctions of named parts, each with its own comment
(`ReturnsSound == CutConnectionDropped /\ LeaksOnlyBeforeClose`); the runs check the whole.

### `CircuitBreaker`, `ResilientCalls`

`CircuitBreaker` has one operator per method, on a record of the fields. Time stamps become
ages. An age stops growing at the first value from which all comparisons of the code agree
(`WindowSeconds + 1`, `OpenSeconds`), which makes the states finite without bounding time.

`ResilientCalls` gives each caller the locals of `run_with_retries`. `Admit` and `Reject` are
the top of the loop (`allow`, then the gauge, which looks at the state again); `Succeed`,
`Fail` and `Cancel` end the attempt, with the feedback to the breaker, the retry decision and
the backoff; `Tick` is the clock. The gauge's view of the breaker matters because `state()`
moves it to half-open. The history fields `applied` and `slept` and the variable `sinceOpen`
exist for the properties. `AppliedAfter` says when a failed attempt may have written: if
COMMIT got no answer, or was cut by something that is not a connection error.

### `ConnectionUse`

One record per task follows a connection through entering, body, COMMIT and clean-up in the
four ways the package uses connections: a transaction block, a committing and a reading scope
of the executor, and a stream. `pc` names the await the task is suspended at. A shielded
clean-up (`shield_from_cancellation`) is a task of its own (`rolling`, `closing`), so that a
second cancellation, which abandons it, leaves it running. `tx` is what the server made of the
transaction, `verdict` what the caller is told.

### `TransactionBlock`

The body that `ConnectionUse` leaves opaque, in both frontends. One record holds what the server
keeps (`limit`, the `statement_timeout` in force; `failed`, whether the transaction is aborted;
`done`, `locks`, and in `saved` what each savepoint goes back to) and what the client believes
(`expected`, `outer`, `disputed`). `Execute` is a whole `fetch_*` or `execute` with its settings and
its `SET LOCAL`; `ExecuteFails`, `SettingsRefused` and `Refused` are its ways to raise, a refused
number of rows after the statement took effect included. `LimitFor` keeps the code's order:
custom settings first, then the timeout, which only the threaded frontend sets per statement;
the asynchronous one has `timeout_scope` (`ClientLimit`). Timeouts are in half milliseconds and
limits in milliseconds, because `_ms` rounds and a limit of 0 means none. The one-shot calls of
the facade are blocks of one statement that end by themselves. `OthersLock` is every other
session. A setting is a positive `statement_timeout`: a query that switches it off by its own
setting gets what it asked for.

### `ErrorClassification`, `Policies`, `Configuration`, `Decisions`

Pure code, as operators. `ErrorClassification` has the whole exact table and prefix table of
`sqlstate.py`, the exceptions SQLAlchemy, psycopg and the operating system raise, and for each the
walk of `classifier.py`; `Policies` the retry decision, the precedence of timeouts and deadlines,
the waits for slots, the idempotency lint and the batch sizes; `Configuration` the way from a
nested mapping, where a key left out is not one set to null, through defaults and validation to
the connection budget and the warnings. `Optional` is Python's `None`.

`Decisions` is a state machine that asks one question after another (`asked`): a failure with
its statement, a timing, the rows of a bulk write, a configuration. What the properties compare
with is written independently of the code's tables: `MayBeCommitted` lists the ways a COMMIT ends
without an answer, and `DatabaseOpens` sums what SQLAlchemy really opens (`Opens`, per pool).

### `Routing`

`Database._resolve` and `EngineRegistry._target_for` for one database with any number of
versions. The hash resolver's `get`, `move_to_end`, store, length test and `popitem` are actions of
their own (`shard`, `touch`, `store`, `trim`, `evict`), since the dictionary is shared without a lock; so
are the reading of a rotation's list and counter and the writing back (`turn`, `count`,
`advance`). `Register` and `Unregister` change the configuration and the selector in the code's
order. `SortedRanges` is Python's stable sort: each range stands at the place that the number of those
before it gives. `Upto` lays the weights of the replicas end to end. Keys have a text, which is
hashed, and a value, by which dictionaries compare them.
`mode` and `scopes` are the context variable and the tokens of the consistency scopes.
`disturbed`, `alone` and `last` are histories: the properties say what may go wrong only then.

### `ThreadedCalls`

The way of a call through `_sync/executor.py` against one database with one target: engine from
the registry (`getting`), limiter (`limiting`, `looking`, `storing`: check, configuration, store), the
tiers outermost first (`taking`), pool (`connecting`), statement (`running`), and out again tier by
tier (`unwinding`), perhaps to a retry with the engine and limiter it began with. A bulk write
looks both up once and enters a scope per batch (`scoping`). Admins register, unregister and drain under the
registration lock, in the code's order: dispose, forget, swap, connect. Engines and limiters
are identities with the settings they were made from. `overlapped` is the history of whether a
lookup ran into a registration or another lookup.

### `EngineRegistry`

`entries` is `_entries` in order of `last_used`. The lock is not held across an await, so each
critical section is one action, and `victims` are the engines a task has taken out and not yet
disposed of. Disposals overlap everything; building and disposing may fail.

### `DynamicRegistration`

The registration lock is held across awaits. `config`, `engines`, `limiter` and `dynamic` are
read and written by registrars under it and by queries without it. A registrar is suspended
where it waits for the lock (`waiting`), where the engine of the replaced name is disposed of
(`purging`), where those of an evicted database are (`evicting`), and where its eager
connection evicts another engine (`connecting`); a query where its new engine evicts one.
Since each await comes before the change of `config`, what happens during it can be stale.
A database has one target here, so an engine is named by its database and the settings it was
made from. `Call` takes a free lock at once or queues; which waiter gets it next is left open,
more behaviours than FIFO.

### `EventDelivery`, `EffectivelyOnce`

A relay's locked rows and a consumer's claimed inbox row are what a database transaction holds
before its COMMIT, so a crash (`DrainFails`, `Requeue`) drops them. `Claim` waits while another
transaction holds the same inbox key, as PostgreSQL's unique index makes it; it needs the table
of `inbox_ddl`. The broker is a number of copies per event and may deliver them in any order to
any consumer. `Requeue` is every end without a commit after which the message is delivered
again: the `retry` callback, a raised error, the death of the consumer, and death between
COMMIT and ack. `EffectivelyOnce` knows only which events exist, how often each was applied,
and which are dead letters.

### `BatchCollector`

`queue` is the `asyncio.Lock`: its head holds it, and a task that is cancelled while it waits
leaves it (`Without`). `FlushLocked` is `_flush_locked` up to the callback and `CallbackEnds` the
rest. `TimerFires`, `TimerFlush`, `TimerEnds` and `TimerCutOff` are the task `_timer_flush`, which
`_flush_locked` cancels even when it is running in it: `doomed` is that task between the
cancellation it gave itself and its first await.

### `BulkWrite`

One call at a time, over and over, against `OthersWrite`: calls share only the rows they commit,
so any number of other calls look to this one like other writers. `bulk` holds the locals of
`_bulk_write` and `_bulk_best_effort`: the batch (`next`), the row of a batch that is being split
(`row`), `written`. `Fails` is what an exception does in each mode; every scope, statement and
COMMIT can raise one. The histories `times`, `dropped` and `failedCommits` say what became of each
row. The two loops build their target anew, without the caller's shard key (`database.py:937`), so
a resolver that insists on one refuses each of their scopes (`Opens`).

## 4. What the runs check

| Run | Instance | Question | Result |
|---|---|---|---|
| `resilient_calls` | 2 callers, 3 kinds of statement, 7 ends of an attempt, 3 attempts, budget 2, deadline 1 or none, threshold 2, window 1, cooldown 2 | can retries apply a write twice, backoffs outlast their limits, or the breaker break its timing? does every call end, and does the breaker probe again as long as no trial slots are lost? | as it should |
| `decisions` | all exceptions × statements × retry settings × 2 attempts; timings around a deadline; batches of up to 4 rows of up to 3 columns; configurations of one or two databases | is a COMMIT of open outcome ever repeated, a write repeated undeclared, a statement run past the deadline, a batch over a limit, a budget overrun? | no |
| `engine_registry` | 2 tasks, 3 keys of 2 databases, cap 2, hard or evicting | does the cap hold, is every pool accounted for, is the victim the right one? | yes |
| `registration` | 3 databases (1 static), 2 settings, budget 4, 1 dynamic, 2 engines, 2 registrars, 1 query | do budget, dynamic cap and limiters stay right? | yes |
| `routing` | 2 threads, 3 keys of which 2 are equal to Python, cache of 1, 4 pairs of resolver and selector, versions with 2, 1 and 0 replicas | does each key reach its shard, does rotation survive replacement, do scopes keep reads off the replicas, are refusals explained? | yes |
| `connection_use` | 2 tasks, 1 connection, all 4 modes, 3 cancellations per use | is the caller told right, does every connection go back? | yes, but for two named leaks |
| `transaction_block` | 2 statements of 3 queries, 2 savepoints, 2 lock keys, timeouts none, 0 and tiny, both frontends, PostgreSQL or not | is what is committed what the body was told? do timeouts and locks hold through savepoints? | yes, with the exceptions the properties name |
| `event_delivery` | 2 events, 2 relays, 2 consumers, batches of 2, 2 copies | is the promise of `EffectivelyOnce` kept, is nothing lost, is all handled in the end? | yes |
| `batch_collector` | 3 producers, a flush, a close, `max_size` 2 | is every item handed over once, in order, in time? | yes |
| `batch_timer` | the same | do the timer's batches run to their end? | **no** |
| `bulk_writes` | 4 keys, 4 inputs of up to 3 rows, batches of 2, 3 modes, 3 kinds of table, other writers | is an atomic call atomic, is every row written or reported, written twice only in doubt, and counted right? | yes |
| `threaded_calls` | 2 callers of expensive and bulk calls, 2 attempts, 1 admin, 2 settings, caps of 1 and 2, pools of 2 and 1 | are slots and connections accounted for across replacements, are stale objects explained by an overlap, can everybody always go on? | yes |

### Bounds, and why they are enough

* *Two callers and three attempts* let a straggler of one caller report to a breaker that the
  other has opened, and let a call be repeated twice; a threshold of two and a window of one
  tick make failures leave the window between two others. The proofs cover every other value.
* *`Attempts`, `MaximumTotal`, ages* saturate by themselves; there is no bound on time or on the
  number of calls.
* *`PoolSize` = 1* makes every connection that is lost felt by the other task. *`MaxCancels` = 3*
  is one more than what abandons a shielded task, so that every clean-up is hit.
* *Six engine identities* are the two entries and two victims of each of two tasks, so a new
  engine always finds a free one unless failed disposals have orphaned pools; those runs simply
  stop creating. *Three keys under a cap of two* make every creation an eviction.
* *`Budget` = 4 with settings of 1 and 2 connections* admits some maps of three and refuses
  others; *one dynamic database* makes each registration evict. `registration` leaves the
  cancellation of an eviction's own disposal out (`CancelledAt`), since that is known to break
  the dynamic cap (section 6).
* *Two statements, two savepoints* let a savepoint take back what ran in the one inside it, and
  a statement run under what a rollback left. The three queries have no timeout; a timeout of
  2 ms and a setting looser than it; and a timeout that rounds to less than 1 ms.
* *A cache of one entry* is full after one key, so that each other key evicts. *Two keys of one
  value* stand for 1 and True. *`MaxTurns` = 3* is more than a turn of the longest rotation;
  the code's counter has no bound. *`MaxScopes` = 2* is a nested scope, or one in each thread.
* *The timings of `decisions`* put the deadline before, between and after three waits for slots;
  its exceptions are every code of the tables and one code outside each; a configuration has
  one or two databases with up to one replica, each section left out, null, or with the values
  on both sides of its limits.
* *Settings `s1` and `s2`* have every tier at 1 under a pool of 2, and two calls in the
  database, unbounded reads and a pool of 1: the limiter is the narrow place of one and the
  pool of the other. *`MaxChanges` = 1* is one registration, removal or drain under running
  calls; *four identities* are more than can be in use at once.
* *`MaxCopies` = 2* bounds the copies of one event that are in the broker or in hand, which
  `Publish` waits for. Two copies are what two consumers need to race for one message.
* *Three producers and `max_size` 2* fill a buffer and start the next one.
* *Three rows in batches of two* are a full batch and a short one. The inputs hold a row the
  database refuses, the same row twice in different batches and in one batch, and no rows.

Symmetry (`engine_registry`, `registration`, `routing`, `threaded_calls`) is used only where no
liveness is checked. `CHECK_DEADLOCK FALSE` appears in `event_delivery` and in the two runs of
`BatchCollector`, where callers act once each and the system stops when nothing is left to do;
everywhere else callers come back and TLC checks that something can always happen.

### Fairness, and why the code justifies it

* `ResilientCalls!FairSpec`: asyncio runs every ready coroutine (`Gate`), every attempt ends
  since statements, pool and limiter all have timeouts (`AttemptEnds`), and time passes.
  `DemandSpec` adds that callers keep coming, which is what "probes again" is about:
  `ProbesUnlessSlotsLost` says that under it either attempts are started again and again, or
  trial slots have been lost for good (section 6). Cancellation is never fair.
* `ConnectionUse!FairSpec`: driver calls end or time out, bodies end, shielded tasks run.
* `EventDelivery!FairSpec`: each relay calls `drain` in a loop, and each consumer goes on with
  what it has. `EventuallyHandled` supposes that at some point failures stop
  (`<>[][~Fault]_vars`): crash for ever and nothing can be promised.
* `BatchCollector!FairSpec`: the lock's holder runs, the callback ends, the sleep elapses.

`ThreadedCalls!WaitsEnd` needs no fairness: it says that every caller, or somebody whose slots it
waits for, has a step to take.

## 5. What is proved

Eight modules of proofs, for every value of the constants that satisfies the named assumptions:
`BreakerAssumption`, `RetryAssumption`, `DeliveryAssumption`, `BlockAssumption`, `UseAssumption`,
`CollectorAssumption`, `RegistryAssumption`, `BulkAssumption`, `ThreadsAssumption`,
`RegistrationAssumption`, `RoutingAssumption`, `DecisionsAssumption`. The numbers of callers,
events, relays, consumers, queries and lock keys may be anything, infinite included. Finite must be
what the code counts: the tasks of `ConnectionUse`, the threads of `ThreadedCalls` and of `Routing`,
the names of `DynamicRegistration`, and the databases and targets of a configuration. There must
be more identities of objects than threads in `ThreadedCalls`, so that a new one can always be told
from those in use, and `None` must not be a setting, a thread or an object. `DecisionsAssumption`
also says that a mapping which is complete enough to be built from has numbers where the code
calculates (`HasNumbers`); a text there is a `TypeError` in Python.

One theorem has a hypothesis besides these: `BothCapsHold` supposes that no registrar is cancelled
while it disposes of an evicted database. That is no weakness of the proof: the cap on dynamic
databases really fails then (section 6, *Registration*), and `registration` leaves that
cancellation out for the same reason.

`EngineRegistry_proofs` has a second part on `DynamicRegistration`, `EventDelivery_proofs` one on
`Routing`, and `ResilientCalls_proofs` one on `Decisions`. The parts share only general lemmas.

**`ResilientCalls`.** `IInv` has two parts. `BreakerInv`: an open breaker is at most as old as
its last opening (`openedAge <= sinceOpen`), and one that is not open has served its cooldown.
`CooldownHolds` alone is not inductive: it says nothing of an open breaker, whose next look at
the clock could then end the cooldown at once. `CallInv`, per call: a call about to start an
attempt has one left (or `attempt` would leave its type); inside the loop it has applied
nothing yet, which is what makes each further attempt harmless and is kept because an attempt
that may have applied its write leaves the loop; and it has slept no longer than its time inside
plus the delay it is in, which turns the test on `elapsed` into a bound on all sleeps together.
For the moves of the breaker the deque must be in order, oldest failure first (`FailuresInOrder`):
only then does dropping a prefix of too-old entries leave none behind, so that the length the code
compares with the threshold counts recent failures.

| Theorem | States |
|---|---|
| `TypeCorrect` | `Spec => []TypeOK` |
| `AppliedAtMostOnce` | `Spec => []AtMostOnceApplied` |
| `CooldownServed` | `Spec => []CooldownHolds` |
| `BackoffStaysWithinLimits` | `Spec => []BackoffWithinLimits` |
| `BreakerMovesJustified` | `Spec => BreakerMoves`, both action properties |

**`EventDelivery`.** `IInv` has, besides types and `NoEventLost`: `RelayInv`, locked rows are
unsent and in one batch only, so that marking them sent concerns nobody else; `CauseInv`,
whatever is in the broker, with a consumer or dead belongs to a committed event, which the
refinement needs before an effect; `OnceInv`, an applied event is in the inbox, and an
uncommitted claim is the only one for its key and not in the inbox, so that its COMMIT is the
first; `AppliedInv`, what is in the inbox, or about to be acked, has been applied, so that an
ack or a duplicate's COMMIT forgets nothing; `PublishedInv`, what a relay has published of its
batch is under way or done, which makes stamping the batch safe for `NoEventLost`.
The proof has one lemma per action, and in it one step per part.

| Theorem | States |
|---|---|
| `TypeCorrect` | `Spec => []TypeOK` |
| `Delivery` | `Spec => []NoEventLost` |
| `Relaying` | `Spec => []RelaysDisjoint` |
| `Deduplication` | `Spec => []WorkedOnOnce` |
| `Exclusion` | `Spec => []Exclusive`, the two together |
| `Refinement` | `Spec => Implements`, the promise of `EffectivelyOnce` |

**`TransactionBlock`.** `IInv` adds three parts to the properties. `LimitInv`: in a PostgreSQL
transaction with a timeout neither the limit nor the limit any savepoint would bring back is 0.
`LockWaitsBounded` is about the present limit only, which a rollback to a savepoint replaces.
`LockInv`: a lock taken outside savepoints is older than every one that is open, so none of them
frees it. `ToldInv`: what the body was told is what the server has, now and at each open
savepoint, up to statements whose result was refused; and nobody goes on in an aborted
transaction without having caught the error. `CommittedAsTold` speaks only of the end.

| Theorem | States |
|---|---|
| `TypeCorrect` | `Spec => []TypeOK` |
| `Truthful` | `Spec => []CommittedAsTold` |
| `Bounded`, `LockWaitsEnd` | `Spec => []RunsWithinTimeout`, `Spec => []LockWaitsBounded` |
| `Ends` | `Spec => []TimeoutsHold`, the two together |
| `LocksHeld` | `Spec => []LocksKept` |

**`ConnectionUse`.** `IInv` is the types, with the law that connections free, leaked and held
make up the pool, and `Sound` of every use: what its caller is told is true at every await; a
shielded task is awaited by its owner unless that was cancelled twice; a transaction cut in its
body is on its way to the invalidation; and a use has a connection exactly from where it gets
one to where it is closed. A step changes one use (`Stepped`); `Fine` is what the step may do to
it, from which the two action properties follow. The law needs the one place where finiteness
matters: changing one use changes the number of holders by what that use gained or lost.

| Theorem | States |
|---|---|
| `TypeCorrect` | `Spec => []TypeOK`, the law of the pool included |
| `ToldTruth` | `Spec => []ToldRight` |
| `ShieldHolds` | `Spec => []CleanupUndisturbed` |
| `CutDropped`, `LeaksKnown` | `Spec => CutConnectionDropped`, `Spec => LeaksOnlyBeforeClose` |
| `Returns` | `Spec => ReturnsSound`, the two together |

**`BatchCollector`.** Four lemmas say what joining the queue, handing the lock over and leaving
the queue from any place do to it, from the definitions of the community modules. `IInv` has
`QueueInv`: a caller is in the queue, once, exactly while it waits or flushes, and only the head
of the queue is inside the callback (`TurnInv`), the timer that has cancelled itself included.
That last part is what `TimerArmed` needs: nobody can fill the buffer while the timer can no
longer flush it. `ItemsInv` are the properties.

| Theorem | States |
|---|---|
| `InOrder` | `Spec => []HandedInOrder` |
| `Sound` | `Spec => []BufferSound`, `TypeOK` included |

**`EngineRegistry`.** `IInv` adds to `RegistrySound` that what is registered is in no task's hands
(`Owned`), and that the entries are in the order of their last uses: whatever stands before an
entry has been used longer ago (`Aged`). The latter is what makes the head of the
list the right victim. `Of` filters the entries, and what it keeps, and in which order, is an
induction over them. The library's induction takes a predicate as a parameter; the module has its
own, for the set of the numbers for which the claim holds, from the well-foundedness of the natural
numbers.

| Theorem | States |
|---|---|
| `Invariance` | `Spec => []IInv` |
| `Sound` | `Spec => []RegistrySound` |
| `NoneOrphaned` | `Spec => OrphansOnlyByFault` |
| `OldestEvicted` | `Spec => EvictsLeastRecentlyUsed` |

**`BulkWrite`.** `IInv` splits the rows at the place a call has come to. Rows past it are
`Settled`, written or dropped as the history of failed COMMITs explains; rows to come are
`Untouched`, but for those of a batch that is being written row by row after a COMMIT in doubt,
which may already be there (`Again`). That exception is the whole of `WrittenTwiceOnlyInDoubt`.
`open` is exactly what the statements of the open transaction wrote. `CountInv` compares `written`
with the rows in the table and in the open transaction, since the code counts before COMMIT.

| Theorem | States |
|---|---|
| `Invariance` | `Spec => []IInv` |
| `AllOrNothing` | `Spec => []AtomicAllOrNothing` |
| `Accounted` | `Spec => []RowsAccounted` |
| `Counts` | `Spec => []CountedRight` |

**`ThreadedCalls`.** `IInv` has three parts. `Shape`: what a call holds at each point of its way,
and which admin has the lock. `Distinct` and `Slots`: limiters that are cached or used by a call
have different identities, and at each of them and each tier, free slots and holders make up the
limit. They need each other, because slots are kept by identity: a limiter made with the identity of
one in use would give its slots anew, and there are always enough identities for `NewLimiter` to
avoid those. Release gives back to the limiter of the call, which a registration may have replaced.
`ConnectionsCovered` follows, as a connection is only held with all the slots of its call. `Quiet`
holds as long as no lookup has overlapped anything: what is cached is what is configured; during a
registration nobody is looking up, the engine is gone, and so is the limiter before the swap; and a
call that is about to store a limiter finds none.

| Theorem | States |
|---|---|
| `Invariance` | `Spec => []IInv` |
| `LimitsAlwaysHold` | `Spec => []LimitsHold`, `TypeOK` included |
| `RightWithoutOverlap` | `Spec => []RightUnlessOverlapped` |

**`DynamicRegistration`.** The steps of a query and of a registrar are compositions of a few
changes of the four shared variables (`World`): an engine is got, a name is purged, a limiter is
made, the LRU order is touched. There is a lemma for each, that it keeps a world `Fine`, which is
that limiters have the settings of the map and that the map fits the budget. `RegistrationInv` adds
what the registrars know. One suspended in its purge has compared the budget with the map as it was
before, and the map that it will write still fits when it goes on (`Admitted`): nobody else writes
the map while it has the lock, and queries do not. This is what an await between a check and the
write it guards could break. For the cap, every dynamic database is in the LRU order but the one
that is being evicted (`AllArranged`). The budget needs that a sum grows with its summands and that a
purged database takes its share with it, by an induction over the databases.

| Theorem | States |
|---|---|
| `LimitersFollowSettings` | `RegistrationSpec => []LimiterCurrent` |
| `BudgetIsKept` | the types and the budget, whoever is cancelled |
| `BothCapsHold` | `RegistrationSpec => []CapsHold`, under the hypothesis above |

**`Routing`.** `RoutingInv` has, besides the types: `CacheRight`, the cache holds no key
twice and is no longer than its size and the threads that have still to trim it; `Swapping`, at each
point of a registration the selector has the replicas of the version that the registration has
come to; `Nested`, the tokens of the open scopes restore the mode one by one. Of every call
(`RightCall`): a shard it has found is that of its key (`Keyed`); under a consistency scope it is on
no way to a replica (`Reading`); if nobody disturbed it, the configuration, the selector and the
cache still have what it was resolved for (`Explained`); and one that selects alone has the counter for
itself (`InTurn`), from which a rotation follows (`Rotating`). `CacheAnswersForItsKeys` is stronger
than a bound on each run: any number of threads may stand between the store and the trim.
Of the resolvers, sorting puts each range at a place of its own and leaves none below the first
one above a key; of the weighted selector, the points between the sums before and after a replica
are as many as its weight.

| Theorem | States |
|---|---|
| `ShardsAreRight` | `RoutingSpec => []ShardsRight`, the types included |
| `RefusalsAreExplained` | `RoutingSpec => []RefusalsExplained` |
| `ReplicasAreRight` | `RoutingSpec => []ReplicasRight` |
| `RotationAdvances` | `RoutingSpec => TurnsAdvance` |
| `CacheAnswersForItsKeys` | the cache answers with the bucket of an equal key, and its size |

**`Decisions`.** A state is one question, and a theorem says that every answer is right; the work
is in lemmas about the operators. A failure: the first of the
classifier's tests that knows an exception decides (`FirstKnownIs`), and a COMMIT in doubt is
either a broken connection or an exception that the tests before do not claim
(`CompletionUnknown`, `InDoubtReported`). A timing: what an attempt that begins in time may still
take (`LimitIs`). A batch: `SizeIs` bounds the size by each limit, and that cutting loses no row
and moves none is shown by a least counterexample (`Ends`, `Pieces`, `Flattened`), as the batches
are a fold over the rows. A budget: what is counted is at least what is opened, pool by pool
(`OpensNoMore`), hence summed (`SumGrows`, an induction on the size of the set summed over).
The statements, the exceptions and the tables are the code's own; timings, rows,
limits and configurations are any.

| Theorem | States |
|---|---|
| `CommitInDoubtIsFinal` | `DecisionsSpec => []OutcomeUnknownIsFinal` |
| `WritesRepeatOnlyAsDeclared` | `DecisionsSpec => []WritesRepeatedAsDeclared` |
| `LimitsEndInTime` | `DecisionsSpec => []RunsWithinDeadline` |
| `BatchesAreRight` | `DecisionsSpec => []BatchesFit` |
| `BudgetsHold` | `DecisionsSpec => []BudgetHolds` |

Only model-checked: everything about time to come (`EveryCallEnds`, `ProbesUnlessSlotsLost`,
`ConnectionGivenBack`, `EventuallyHandled`, `EveryItemHanded`), since liveness under fairness is
beyond the prover, and so is `WaitsEnd`, which is about ENABLED. What a recursive function computes
is proved where an induction of the module's own reaches it (`Of`, `Upto`, `SumFunction`, the batches).

Records are updated in the proved modules through an operator of the record
(`[f EXCEPT ![c] = Op(@)]`), never by several updates of the same element in one `EXCEPT`,
which tlapm 1.4.5 does not read as TLC does.

## 6. Where code and documents disagree

Shown by a run:

* **The timer cancels its own flush** (`batch.py:75`, run `batch_timer`). A timed flush whose
  callback awaits anything loses its batch without an error.

The other properties name such places as exceptions, or suppose that they do not happen. These
disagree with something the repository says:

* **Half-open slots leak** (`circuit.py:90`). A half-open trial that ends in an error the breaker
  does not count, or in a cancellation, reports nothing, and its slot is never given back. After
  `half_open_max_calls` of them every call is refused for ever; `docs/troubleshooting.md:157-159`
  says the breaker probes again on its own. `ProbesUnlessSlotsLost` allows for it.
* **Stale engines and limiters** (`database.py:224`). The old engine's disposal is awaited before
  the map changes; a query in between builds a new engine from the old settings, which stays. In
  the threaded build the same happens to limiters. `RightUnlessOverlapped` says that nothing but
  such an overlap leads there. Registering a name that is not configured purges nothing, so
  that an engine left behind by such a race is used again.
* **Two limiters for one database** (`_sync/executor.py:126-137`): two threads that both find none
  each make one, and their caps add up, though the docstring says "One concurrency limiter per
  named database". `RightUnlessOverlapped`.
* **Cancelled COMMIT** (`transaction.py:271`, `executor.py:284`). The cancellation surfaces as a plain
  `DatabaseError`, with the write perhaps committed; `transaction.py:5-7` says that it is re-raised.
* **Unknown outcomes are retried in bulk** (`database.py:973`). `split_on_failure` writes the rows of
  a batch again after a `DatabaseCommitUnknownError`, which `docs/troubleshooting.md:21-30` and
  `README.md:270` of the repository rule out; a row can then be in the table, and in
  `row_count`, twice. `WrittenTwiceOnlyInDoubt` says that only such rows can.
* **Expensive calls can starve reads** (`_sync/executor.py:184`): they hold slots of `database` and
  `reads` while they wait for `expensive`, though `README.md:286` of the repository says that they cannot.
* **Advisory locks in savepoints** (`transaction.py:73`): the docstring says that a lock is held for
  the remainder of the transaction; one taken inside a savepoint is freed with it. `LocksKept` is
  about the others.
* **The retry budget** counts the time of attempts (`resilience.py:100`), though
  `resilience.py:60-61` and `config.py:113` say it counts backoff only.

Seen while modelling, by part:

*Calls and breaker.* Raw SQL counts as a read of the name `adhoc` (`executor.py:99`): a bare INSERT is
retried under `retry_reads` and takes the `reads` tier. The time a call may wait for a slot is
computed once and granted to each of up to three tiers. With a timeout that is not positive the
asynchronous limiter refuses even when a slot is free, and the threaded one takes it. An expired
deadline leaves a statement without a limit, since only positive timeouts are set; and the
timeout of a `Query` is used in the scope as it is, past the deadline (`connection.py:238`).

*Errors.* A server that answers COMMIT with `08007`, not knowing its outcome, is taken for a retryable
connection error unless the connection is lost as well. Codes of class `54` and `57P04` become
retryable connection errors by their SQLAlchemy type; `0A000` and `P0001` become the plain
`DatabaseError`, which trips the breaker and is answered with 503.

*Engines.* An engine whose disposal fails, and a victim whose successor cannot be built, stay open
without an owner (`engine.py:165`, `213`). `snapshots` and `forget_database` iterate over dictionaries
that other threads change. `health()` makes engines, and so evicts some under `evict_lru`.

*Registration.* `ensure_database` refreshes the LRU order without the registration lock
(`database.py:267`) and so puts back a name whose eviction or removal is under way: a database that no
longer exists takes one of the `max_databases` places, and a live one is purged for it. An eviction
cancelled in its disposal leaves the database in the map but out of the LRU order
(`database.py:341`): the cap is exceeded and the database can never be evicted. A query suspended
between engine and limiter whose database is dropped meanwhile gets a `KeyError`
(`executor.py:124`) rather than a `DatabaseRoutingError`. Overlapping `database_scope` blocks of one
name unregister each other's database. A replaced limiter's callers finish on the old
semaphores, so that for a while two caps add up.

*Budget.* It counts a sharded target once, while each `shard_id` gets its own engine; a pool of size 0,
which SQLAlchemy does not bound, as its overflow only; one with `disable_pooling` as nothing. A
target's own pool is never validated. An explicit `maximum_per_process: null` hides
`maximum_application_share` (`config.py:548`), and `"false"` is true to `bool()`.

*Routing.* The hash cache answers with the bucket of any key equal to the one asked for, though the
bucket is that of the text: 1 and True (`routing.py:115`). A thread that is overtaken between the
cache's `get` and `move_to_end` gets a `KeyError` (`routing.py:117`). A selection that overlaps an
unregistration puts the counter back.

*Blocks.* COMMIT of a transaction whose error the body caught reports success and rolls back. In the
threaded frontend a statement's `SET LOCAL statement_timeout` stays for what follows, lock waits
included; on databases other than PostgreSQL it has no timeouts at all, nor has its health
check. A one-shot fetch of a `RETURNING` write is rolled back without a word. A result of the wrong
cardinality is an error of a statement that stays in effect. Errors of SAVEPOINT and RELEASE are
not classified (`transaction.py:58`, `65`).

*Connections.* A second cancellation starts the release while the rollback is still running on the
same connection, and skips the invalidation (`_compat.py:107`, `transaction.py:291`). A cancellation
of the rollback after a failed `__aenter__` (`transaction.py:311`), or of the `aclose()` of a stream
(`streaming.py:131`), leaks the connection; `LeaksOnlyBeforeClose` shows that these are the only
two. `dbkit_context` is set after the checkout that reads it (`executor.py:339`, `_pool.py:113`).

*Bulk writes.* `best_effort` and `split_on_failure` drop every batch of a target whose resolver needs a
shard key (`database.py:937`), and return normally. Their rows count as written before their COMMIT
(`database.py:952`), so `row_count` includes rows whose COMMIT failed, which are reported as dropped
too; a cancellation in a COMMIT is taken for a failure and the call goes on. A driver's
`rowcount` of 0 counts as the length of the batch (`database.py:901`): an upsert that leaves all of
its rows out reports them all.

*Events.* `inbox_partitioned_ddl` (`inbox.py:53-60`) has the key `(consumer_name, message_id,
processed_at)`, while `_claim` says `ON CONFLICT (consumer_name, message_id)`, for which that table has
no unique index: PostgreSQL refuses every claim. `EventDelivery` models `inbox_ddl`. A flush callback
that fails, or whose caller is cancelled, takes the items of other callers with it
(`batch.py:77-81`): `HandedInOrder` is about handing over, not about success.

## 7. Assumptions about what is outside

PostgreSQL: a transaction's claims are invisible and held until it ends; an `INSERT ... ON
CONFLICT` waits for an uncommitted row of the same key; `FOR UPDATE SKIP LOCKED` skips locked
rows; a rollback to a savepoint restores the settings made with `SET LOCAL`, and frees the advisory
locks taken, since; COMMIT of an aborted transaction succeeds as a ROLLBACK. SQLAlchemy:
`conn.close()` rolls back what is open; one that is interrupted drops the connection, and the pool
replaces it; an interrupted `engine.connect()` takes nothing; an engine that was disposed of makes
new connections when asked. asyncio: `Lock` is FIFO; a task that is cancelled while it waits is
removed from the queue. CPython: one operation on a dictionary, list or semaphore is atomic;
threads may switch between any two. The broker: at least once, in any order. The clock is
monotonic and advances in ticks.

## 8. Not modelled

* *Pool instrumentation* (`_pool.py`): its counters depend on the order in which SQLAlchemy fires
  pool events, and nothing in the package acts on them.
* *The breaker in threads* (`circuit.py:110`): `_sync` shares a breaker without a lock; its methods are
  single steps here. `ThreadedCalls` leaves it out.
* *Streams*: their connection is in `ConnectionUse`; the delivery of rows and the duration limit are
  not modelled.
* *Facade*: `start`, warming and `health` only call what is modelled elsewhere, and keep a flag.
* *Configuration*: files, the expansion of environment variables, and fields that only a driver reads.
* *PostgreSQL helpers, observability, command line, test doubles, result mapping*: they keep no state
  that others depend on, or only format and forward.

## 9. Running it

    tlc -config EventDelivery.cfg MCEventDelivery.tla
    tlapm EventDelivery_proofs.tla

Each `.cfg` belongs to the `MC` module of the same prefix. On two cores a run takes seconds to
about two minutes (`routing`), a module of proofs up to a few minutes. `PROJECT.json` lists components,
runs, mutants, findings, hazards and theorems, and maps every definition to its lines.
