# A TLA+ verification of scrapy-extension

scrapy-extension lets several Scrapy processes share one request queue, one
duplicate filter and one item store through a message broker or a database. Its
own logic is in `src/scrapy_extension` (about 60 000 lines of Python): a
scheduler, a queue with pluggable strategies, a duplicate filter, an item
pipeline, and a dozen backends behind connection managers and circuit breakers.

This directory models the parts that decide whether a crawl loses, duplicates or
blocks work. TLC checks small instances of every model; TLAPS proves the main
safety properties for every value of the constants.

## The system

| Component | State it keeps | Operations | Talks to |
|---|---|---|---|
| Generation gate (`backends/_generation.py`) | current generation; per generation: accepting, lease counts per thread, finalizers | publish, lease, retire, drain | every broker backend's SDK calls and disconnect |
| Circuit breaker (`backends/circuit_breaker.py`) | state, failure count and time, epoch, probe slot, transitions to report | call, reset | backend operations, observers |
| Scheduler (`schedule/scheduler.py`) | queue, filter, settlement claims, pending settlements | enqueue_request, next_request, signals, errback wrapper, open, close | everything below |
| Queue (`queue/queue.py`) | strategy, operation gate, pop buffer, pending replacement settlements | push, pop, ack, nack, clear, close | strategy, backend, snapshot repository |
| Bound ack token (`queue/strategies/base.py`) | pending / acked / nacked, one call in progress | ack, nack | broker |
| Duplicate filter (`dupefilter/dupefilter.py`) | reservations, volatile shadow, legacy receipts, monitor fence | decision, commit, rollback, forget, close | membership filter |
| Queue strategies (`queue/strategies/*`) | heaps, wheels, rings, per-source deques | push, pop, snapshot, restore | queue backend |
| Snapshot repository (`queue/snapshot.py`) | manifest, chunks, leases | commit, read, maintain | storage backend |
| Connection manager (`backends/connectors/_manager.py`) | managers by key, reference counts, breakers | acquire, connect, release, retire, close | backends |
| Membership filters (`dupefilter/filters/*`) | set, bit array, cuckoo buckets, bounded memory | add, contains, remove | filter backend |
| Batched storage (`storage/strategies/batched.py`), pipeline (`pipeline/pipeline.py`) | buffer, flush in progress | store, flush, close | storage backend |
| Broker backends (`backends/kafka.py`, `rabbitmq.py`, `rocketmq.py`, `pulsar.py`, `sqs.py`) | connection generation, tokens in flight, offsets | push, pop, ack, nack, connect, disconnect | driver |
| Other backends, settings, registry, codec, monitors, exceptions, spider mixin | configuration, driver handles | | |

Scrapy's reactor thread calls the scheduler; broker calls run in a thread pool
and come back as reactor callbacks; drivers call back from threads of their own;
processes share only the broker and the filter. What is hard here:

- **Threads.** A disconnect can race with, or be called from inside, an SDK call.
  A breaker's outcome can arrive after the breaker has moved on.
- **Callbacks.** Two signals can settle one delivery while the first broker call
  is still on its thread. An errback's replacements can be queued before or after
  its output ends, and the output can fail between them.
- **Crashes and interrupts.** enqueue_request performs up to four effects (push,
  marker, source ack, reservation), and the process can stop between any two.
- **Ambiguity.** A push that raised may have landed; a public timeout does not
  stop its worker; a broker delivers again what was not acknowledged.
- **Limits.** The volatile shadow evicts, filters fill up, buffers are bounded.

What makes each component correct is what its properties below say; PROJECT.json
lists the hazards with their lines, including those no property covers yet.

## The modules

| Module | Models | Instance |
|---|---|---|
| `GenerationLease` | the generation gate | `MCGenerationLease` |
| `CircuitBreaker` | one breaker | `MCCircuitBreaker` |
| `ReplacementAck` | the settlement of one broker delivery | `MCScheduler` |
| `Delivery` | processes that share a broker and a filter | `MCDelivery` |
| `DupeFilter` | the life of one duplicate filter and its receipts | `MCDelivery` |
| `ManagerRegistry` | the registry of connection managers, with their holds | `MCManagerRegistry` |
| `ManagerConnection` | the connection of one manager | `MCManagerConnection` |
| `SchedulerLifecycle` | open, polls, settlements and close of the scheduler | `MCScheduler` |
| `SnapshotRepository`, `QueueCheckpoint`, `QueueLifecycle` | a queue's snapshots, its checkpoint over restarts, its operation gate and close | `MCShutdown` |
| `ItemPipeline` | the item pipeline | `MCShutdown` |
| `HeldItems`, `DelayStrategy`, `TimeWheelStrategy` | the strategies that hold delayed requests | `MCStrategies` |
| `BatchedStorage` | the batched storage strategy | `MCStrategies` |
| `DeliveryContract` | what an acknowledging queue promises (abstract) | `MCBackends` |
| `KafkaQueue`, `RabbitMQQueue`, `RocketMQQueue`, `PulsarQueue`, `SqsQueue` | the acknowledging backends, which implement the contract | `MCBackends` |
| `StoreServer`, `RedisBackend`, `MongoDBBackend`, `ElasticSearchBackend`, `DynamoDBBackend`, `MemcachedBackend` | the other backends over a common server | `MCBackends` |
| `GenerationLeaseProofs` | the theorems about the gate, and about the five stores that work under its leases | |
| `KafkaProofs` | the steps of the contract, and the lemmas that show that `KafkaQueue` takes them | |
| `SettlementProofs` | the theorems about `ReplacementAck`, and about the acknowledging backends | |
| `ShutdownProofs` | the theorems about `MCShutdown`'s four parts and `SchedulerLifecycle` | |
| `DeliveryProofs` | the theorems about `MCDelivery`'s two parts, `Delivery` and `DupeFilter` | |
| `CircuitBreakerProofs` | the theorems about `CircuitBreaker`, and about `MCStrategies`' three parts | |
| `ManagerRegistryProofs`, `ManagerConnectionProofs` | the theorems about the module each is named after | |

How they fit together: `Delivery` takes a settlement as one step and the broker as
at-least-once; `ReplacementAck` has the steps of a settlement, and `MCBackends` shows
that each broker backend keeps what `Delivery` assumes of it; `Delivery` takes the filter as
always open, and `DupeFilter` has its life. `SchedulerLifecycle`
reduces the queue to its gate and the managers to a set; `QueueLifecycle` and
`ManagerRegistry` have those. `QueueLifecycle` takes the checkpoint as one step;
`QueueCheckpoint` has its writes, and takes a commit as one write, which
`SnapshotRepository` justifies. `ItemPipeline` takes the strategy's close as one step;
`BatchedStorage` has it.

Definitions that start with the comment "Mutant:" are deliberately wrong variants
of the definition below them: each property is shown to fail with one of them.

### GenerationLease

The gate is a monitor, so each of its critical sections is an action: `Publish`,
`Lease`, `Release`, `BeginDrain` (which retires), `FinishDrain` (a woken waiter whose condition holds),
`InterruptWait`; `RunFinalizer` runs outside the lock, as in the code. `stack[t]` is the
nest of SDK calls thread `t` is inside of; `activeLeases` and `activeThreads` are the
record's own counters, kept apart from it: a drain decides by the counters, and the
properties speak of the nests. A drain started inside a leased call waits for the other threads only and
hands its finalizer to the last release (`deferred`).

Properties: no handle is closed under a lease, and none twice (`HandlesProtected`, that is
`NoCloseUnderLease` and `ClosedAtMostOnce`); a draining generation's leases only fall
(`DrainedNeverAdmits`); every drain returns and every registered finalizer runs
(`TeardownEnds`).

### CircuitBreaker

`call` is split where the code releases its lock: `AllowCall` (six ways through
`_allow_call`), the outcome (`Succeed`, `Fail`, or `Abandon` for an uncounted exception),
and the notification (`Drain` swaps the pending list under the lock, `Emit` calls the
observer). `Reset` may come from any thread at any time. Time appears as the age of
the last failure and of the probe's claim, which stops growing at the time-out:
the code asks nothing else of it.

Properties: an OPEN breaker can probe again, a CLOSED one is below its threshold, and
a window has one probe with a live owner (`BreakerSound`, that is `Recoverable` and
`ProbeSlot`); outcomes of calls that crossed a transition change nothing
(`LateOutcomesFenced`); transitions are emitted once, and eventually
(`ReportedExactlyOnce`); OPEN leads to a probe, and a hung probe does not keep
HALF_OPEN (`BreakerRecovers`).

### ReplacementAck

One delivery, from the end of its download to its settlement. The signals claim
the request's token (`Claimable`) and submit a worker (`Submit`); the errback's output
(`EmitReplacement`, `EmitConflict`, `Exhaust`, `BreakStream`) moves the token into a
group, whose `Seal`, `Accept` and `Abort` decide whether and how the source is settled.
A worker goes through `Start` (the bound token's reservation), the broker call
(`BrokerReturns`, `BrokerRaises`) and the reactor callback (`CompleteSignal`,
`CompleteGroup`). A time-out of the public view changes none of this state. When the view's
timer is refused, the view fails at once without being a time-out (`untold`), and a success of
the worker then neither drops the token nor releases the claim (`scheduler.py` 2302-2307): the
request stays claimed for good, and no signal can settle it again. A Deferred that refuses
the callback twice (2308-2318) leaves the same state and is not a step of its own.

Properties: a group acks its source only behind all its replacements, the broker hears
one outcome, and the claim belongs to one worker, which is outstanding or has succeeded
unheard (`SettlementSound`, that is `SourceAckJustified`, `OneOutcome` and `ClaimExclusive`); a
terminal group submits nothing, settlements end, with the claim released unless its success
went unheard, and without faults a handled failure is settled (`SettlementsEnd`).

### Delivery

Several processes, one broker with acknowledgement, one exact shared filter. An
enqueue goes through the places of `enqueue_request`: the filter's decision
(`DropDuplicate`, `PushDuplicate`, `Miss`, `DedupOutage`), the push (`PushDurable`,
`PushLocal`, `PushFails` with or without having landed, `RejectInvalid`), and the
reservation's end (`CommitMarker`, `CommitShadow`). `Interrupt` is a process-control
exception at any of them; `Crash` ends the process. `Pop`, `Respond`, `Fail`,
`AckSource` and `Redeliver` are the delivery's life around it. Here a settlement is one
step with its outcome; `ReplacementAck` has its details.

A process works on one popped request at a time: the properties are per URL and
the code shares nothing between two requests of a process except the filter and
the queue, which other processes share as well. The choice which shadow entry is
evicted is left open (the code evicts the oldest).

Properties (`CrawlKept`): what reached the broker is never lost (`NothingLost`), no marker
or shadow suppresses a URL nobody will crawl (`SuppressedIsKept`), reservations do not
outlive their enqueue (`IntentsSettled`).

### DupeFilter

One filter, the threads that call it, and its life. A call of `request_seen` is admitted into
the current epoch (`SeenBegins`) and asks the filter outside the lifecycle lock (`LooksUp`,
`Probes`, `Adds`, `Decides`). The scheduler's own protocol ends with `Commits`,
`CommitsVolatile` or `RollsBack`, Scrapy's boolean protocol with `Consumes`, `Settles` or the
steps of a forget (`ForgetBegins` to `ForgetEnds`). A filter that cannot take a marker back gets
a retry allowance; `slots` counts those that are reserved but not granted. The code's two tables of
receipts are one set, `receipts`: a receipt without a consumer (`by`) is in `_legacy_reservations`,
one with a consumer in `_legacy_handoffs`, and its number keeps the order of both. `AddInterrupted`,
`AnswerInterrupted` and `Compensate` are the interrupts between the marker and its receipt.
`open`, `clear` and `release` stop the admission, wait (`Quiescent`) or give up waiting, and
start a new epoch (`Resets`).

Properties (`FilterSound`): a request that went nowhere can be sent again, since its marker is gone
or has an allowance (`RetryKept`); every
reserved slot belongs to a call or a receipt, and the allowances fit their limit
(`SlotsAccounted`); the filter is opened, cleared or closed by one caller and under no admitted
call (`TransitionsAlone`). Two exceptions are part of the statements, because the code has them:

- An interrupted call takes a pending receipt of the same Request for its own, also when it is
  that of a concurrent call (`_compensate_interrupted_legacy_add_locked`); its slot then stays
  reserved until the next epoch (`leaked`).
- A clear whose wait fails puts the phase back to what it was (`dupefilter.py` 1776-1781) although
  a release has begun meanwhile, so calls are admitted while the filter is closed
  (`reopened`). The same happens at the end of a clear when a second release has reset
  `_close_requested` (1795-1798).

Two gaps `RetryKept` does not count: a filter whose `add` raised after it had written gives no
receipt, so a later forget of that request does nothing; and a forget that meets a transition drops
its receipt, so the marker stays if the clear then fails.

### ManagerRegistry

A *call* is one acquire (`acquire_lease()` is style "exact", `get_manager()` style
"legacy") with the release it is paired with, and its token is the call itself.
`registered` and `gate` are the class's two dictionaries, `active`, `legacy` and
`handoff` a manager's three token collections, `pending` the backlog of failed
releases. An action is one section of `_registry_lock`: an acquire retries the
backlog (`Start`, `RetryRelease`, `RetryRaises`, `RetryFinalized`,
`RetryFinalizeRaises`, `RetryDone`), looks
its key up (`Lookup`), waits for or performs a construction (`Wake`, `BuildFails`,
`Publish`), and may turn a legacy hold into a lease (`Adopt`, or `KeepLegacy`). A
release consumes a token (`Release`, `ReleaseAgain`), may raise before that
(`ReleaseRaises`), and the last one finalizes outside the lock (`FinalizeReturns`,
`FinalizeRaises`). `Clear` is `clear_registry()`; `Teardown` is the disconnect of a
manager that was popped, which runs later and outside the lock. `dropped` is a
history variable: the failed releases that met a full backlog.

Properties: what is registered is live and held, alone under its key and of the current
epoch, and a waiter has a builder (`RegistrySound`, that is `RegisteredIsHeld`, `OnePerKey`,
`ClearFencesBuilds` and `WaitersHaveABuilder`). A lease keeps its manager until its own
release and so does every hold, tokens and holders correspond one to one, a failed
release is not forgotten, and a late release never unregisters a successor
(`HoldsKept`, that is `LeaseKeepsManager`, `HoldersKeepManager`, `HoldsAccounted`,
`FailedReleaseIsKept` and `SuccessorStays`).

What the code says of the backlog is false for a `close()` that raised. Only a published
retirement forgets such a record (`_manager.py:2297`), so each later acquire calls
`close()` again, and the second of these consumes the token of a live peer
(`registry_claim_holds`, against "without consuming unrelated holds", line 928). If the
disconnect itself raised, the record is made after the retirement was published (line
2242) and no retry ever drops it, although the warning at lines 879-880 asks to call
`retry_pending_releases()` "to drain the backlog". The passing run lets only lease releases raise, so that it says
what holds apart from this.

### ManagerConnection

`_connect_lock` serialises whole connection transactions (`connectLock`); `_lock` guards
a few statements at a time, so each of its sections is an action, and so is each
call into a backend, which the code makes outside of it. A thread asks the backend
property (`Ask`, `Access`, `Wake`) or calls `connect()` (`ConnectDirect`), takes the lock
(`TakeLock`), probes the published backend (`Probe`, `DropStale`), creates and dials a
new one (`Try`, `DialFails`, `DialWorks`, `Discard`), shares the result (`Settle`), and reads
a (backend, breaker) snapshot (`Read`, `ReadBreaker`, `Check`, `Done`). `Retire` is the last
release of ManagerRegistry; `Finalize`, `Await`, `Teardown`, `Publish`,
`PublishInterrupted` and `RetryRelease` are the finalization, by its owner or by the next
one. `custody[t]` is the backend that only thread `t` knows of.

Properties: no backend is leaked or disconnected twice, none is published after the
teardown has begun, and a snapshot belongs to one generation (`ConnectionSound`, that is
`NoHandleLeaked`, `DisconnectedOnce`, `NoResurrection` and `CoherentPair`); waiters are woken
and a retirement completes (`ConnectionEnds`).

A remark: "Hostile monitor callbacks run only after all manager state is terminal"
(`_manager.py:2410`) does not hold of the breaker's reset at line 2349, which reports to
the monitor under the lock before that.

Left out of the two modules: the plugin acknowledgement adapters and breaker policy
updates, a monitor that calls back into its manager, managers that were never
registered, and an interrupt between the claim of a teardown and its disconnect.

### The acknowledging backends

`DeliveryContract` is the abstract specification: a message the broker stored leaves it
for good only when the holder of its newest delivery asked for that, or when a clear was
called while it was in the queue; what left is not handed out again, unless the backend
reported the outcome of its ack as an error or a nack moved the consumer back over it
(`Rewind`: a Kafka consumer has one position per partition, so `nack` of an offset makes it
read again what came after, the messages acked meanwhile included). Each backend is its own module, cut where
the code releases its locks:

- `KafkaQueue`: a partition per priority; connect and disconnect,
  the rebalance callbacks, a pop that polls and seeks, acks in any order of which only a
  contiguous prefix is committed, nack with a seek, and a commit that may raise with or
  without effect. `auto_offset_reset` has its default, "earliest". A commit that raises
  something other than a `KafkaError` is left out: the code then does not put the offset back
  in flight (`kafka.py` 2531), and the next ack of that token only forgets the attempt.
- `RabbitMQQueue`: delivery tags start anew on every channel, so a token carries its channel
  generation; channels are lost, an ack may be lost with its channel.
- `RocketMQQueue`, `PulsarQueue`: a receive pump, a thread that outlives its connection's
  retirement, a buffer, leases that end on the server (RocketMQ), and a consumer that must
  be closed before the next one subscribes (Pulsar). When that `close()` raises, the retirement
  is over all the same (`pulsar.py` 1665-1676): the broker may still have the consumer, a stray
  one, until its client is closed or the broker drops it (`StrayDropped`), and it keeps back
  what it has received until then.
- `SqsQueue`: leases of a client generation, receipts of a queue epoch, and a purge that
  goes on for a minute.

`MCBackends` shows by the refinement `Refines` (the contract under the mapping `Accepted`,
`Asked`, `Gone`, `Unsure`, `Cleared`) that each of the five implements it, over disconnects,
rebalances, stale tokens, acks whose outcome is unknown and pops that are abandoned;
`OneConsumer` is about Pulsar only: one consumer besides the stray ones, and no stray one
in use.

Three remarks on Kafka. `pop()` and `pop_with_ack()` may be mixed on one partition: the class
comment says that nacks fence prior attempts (`kafka.py:409`), but a `pop()` registers no attempt,
so after `nack()` of the legacy record and another `pop()` of an offset a live token of
that offset still settles it. The contract is therefore stated for the holders of a message
(`hist.holders`): the newest delivery, and the older ones that the code lets settle it; with
`pop_with_ack()` only, that is the newest delivery alone. And the ack of an offset that was read
again may move the committed offset back (`TakenBack`): messages are then delivered twice,
and none is lost. A pop while disconnected publishes a generation with a consumer and
no producer; a later `connect()` returns normally, but `is_connected()` stays false and
pushes fail until a disconnect. Left out is
the capture of the settings snapshot at connect.

### The other backends

`StoreServer` is the server with a queue, a set and a key-value store, the threads that use
it, and three properties of their histories: a message goes to one caller at most and
none disappears unaccounted for (`PopsAccounted`), a stored value is there until it expires,
is overwritten or deleted on request (`StoredIsKept`), and no client is closed under an
operation (`NoUseAfterClose`). The five backends differ in what they do about it: one script
per operation and a fenced connect (Redis), leases that disconnect waits for and a
conditional reap (MongoDB), a search and a conditional delete that is retried
(Elasticsearch), one operation at a time and a conditional scan-and-delete (DynamoDB),
a client per thread (Memcached). Another process writes the same key.

### The queue: snapshots, checkpoint, close

`SnapshotRepository` cuts read, commit and gc at every storage call, each of which may fail
with or without effect, and lets the process crash between any two. `SnapshotIntact`: the
snapshot a manifest names, and the one a read is in the middle of, are complete.
`MaintenanceReturns`: gc gets its turn although readers and commits keep coming.

`QueueCheckpoint` follows a queue over several lives: `Open…` are the ways through
`_restore_snapshot` (a fence when the current key or the storage could not be read, the
legacy key, the tombstone), and `Close` begins the writes of `_persist_snapshot`, with a
`Crash` possible between all of them. `owed` are the entries a checkpoint covered and nobody
popped since, `gone` those popped before one, `overwritten` those of a legacy checkpoint that
was replaced unread. `CheckpointRestored`: a restore without a fault
holds what is owed, the overwritten entries excepted. `NothingReplayed`: and nothing that is gone, unless the tombstone could
not be read (the code then accepts a replay: `test_queue_strategy_snapshot.py:663`).
A current value of an unusable type is left out.

A finding (`legacy_checkpoint_lost`): the fence protects the current key only. A legacy
checkpoint that could not be read is replaced and deleted by a close that has state to persist
(`queue.py` 2166-2188), although the specification of `_defer_legacy_retirement`
(`R133-connect-retry-release-error-SPEC.md` 94-97) says that the next `_persist_snapshot` skips
the delete "so a later restart can still recover the checkpoint". The code does so only for a
close without state, which is also all that the tests try. `UnreadLegacyRecovered` is the
statement without the exception, and is violated.

`QueueLifecycle` has the operation gate and `close()` by several threads: an owner per attempt,
waiters for its outcome, owners that fail or are interrupted while they publish, and
reclaiming. `StrategyClosedOnce`: the strategy is closed once, after all operations,
settlements and the checkpoint. `CloseWaitersReturn`: nobody waits for an owner that is gone.

### SchedulerLifecycle

Inside a running reactor `open()` and `close()` are chains of workers (`OpenStep`,
`CloseStep`), which may be refused, fail or be overtaken: a close during an open waits for it,
then for the settlements under way, closes the queue, the signals and the filter, and
releases the managers; a failed attempt leaves flags from which the next goes on, and an
abort cuts settlements off. A signal that cannot be connected fails the open with the queue
already published (`SignalsRefused`), one that cannot be disconnected ends the close attempt.
`NextRequest` has the backpressure gate, with whatever depth the poll reads, since other
processes push and pop too; `Settle` is the submission with its refused worker or timer.

Properties: managers go last (`ReleasedLast`); a delivery is settled once (`SettledOnce`), also
when a refused timer leaves its claim behind for good (`scheduler.py:2303`); a settlement
submitted before the queue began to close is let in (`EarlySettlementsEnter`); a paused
crawl goes on draining (`GateProbes`); an attempt ends (`CloseAttemptEnds`).

### ItemPipeline

Under the reactor the hooks reserve and chain (`OpenAsync`, `CloseAsync`, `ProcessItemAsync`,
`tail`); workers run the blocking bodies (`OpenBegins` to `OpenEnds`, `StoreBegins`, `CloseEnters`
to `ManagerReleased`); without a reactor each thread calls those itself. Probes, stores and
flushes fail, workers are refused, and a failed or overtaken open is rolled back. A rollback
whose flush failed gives up the close, and goes on to publish the end and to release the
manager in a second locked section (`FlushFails`, `RollbackGoesOn`): in between another close
may enter and flush again (`pipeline.py` 1053-1067 and 1082-1111).

Properties: the manager is released after the last probe and store, and after the last flush
unless such a rollback overtook it, which happens only before any item was admitted, so no
flush owed to an item is given up (`ManagerGoesLast`); at most `max_storage_errors` items in a row
are lost in silence under the reactor (`LossesAreRaised`; without one the counter is updated
without a lock); every call returns and every queued job has its turn (`CallsReturn`).

A finding (`pipeline_claim_retry`): a close whose flush failed stays latched, and under a
reactor every later `close_spider()` is refused as "already in progress", although the
docstring (`pipeline.py` 1044-1045) and the runbook (338-341) tell the caller to retry.

Left out: a second `open_spider()` on an open pipeline (under the reactor it never clears
`_opening`), a Deferred at the end of the chain that refuses the callback of a reserved close
(`pipeline.py` 963-978, which undoes the reservation), and a close from within a store, whose resumption (`_leave_store`, 1270-1282)
gives up the ownership before it clears `_closing`.

### Delay, time wheel, batched storage

`HeldItems` is the pop loop both strategies share: drain what is due into the backend, wait
until the next held item is due or the time-out ends, drain again; the backend may fail
between two pushes of a drain, and the process may restart from its snapshot with a new
monotonic clock. `DelayStrategy` holds a heap, `TimeWheelStrategy` slots with cached
minima and an overflow heap. `NothingDropped`: an item whose push returned is held, queued,
saved or was delivered; `OnTime`: none is released early, and a complete drain leaves nothing
due; `WakesForNext`: a pop does not oversleep the next held item. One bound queue, one
popping thread, one restart. Left out: the order of items that are ready together,
snapshots of version 1 (released at once), and the depth read outside the lock, which may
count an item twice. A push with a short delay during a long blocking pop is noticed when
the pop wakes.

`BatchedStorage` numbers the entries in the order they are accepted. Stores, flushes, the
age thread and close interleave; a write fails or its monitor interrupts, and the tail of
the batch goes back in front. `WritesInOrder`: what is unwritten is, in order, the last
entries accepted, never more than `max_pending`, and an older value never follows a newer
one; `CloseComplete`: a close that returned leaves nothing; `EntriesAgeOut`: with the age thread
alive every entry is written or a close takes over.

## The runs

| Run | Instance | Distinct states | Shows |
|---|---|---|---|
| gate | 3 threads, 2 generations, nesting 2 | 101 000 | the gate: safety, drains return, finalizers run |
| breaker | 3 threads, one may hang, threshold 2, 4 epochs | 92 000 | the breaker: safety, probes, hung probes, reports |
| scheduler | 2 replacements, 4 workers, 2 faults; 2 deliveries, depths up to 2 | 258 000 | the settlement: safety, settlements end; the scheduler's open and close |
| delivery | 2 processes, 1 URL, both routes; a filter with 2 threads, 2 requests of one fingerprint, 2 decisions, 2 epochs, up to 2 allowances | 976 000 | nothing is lost, no ghost markers; the filter's life |
| registry | 3 calls on 2 threads, 2 keys, both styles, a registry of 1, 2 constructions, 1 clear, up to 2 raises | 2 183 000 | the registry and its holds |
| registry_claim_holds | 3 legacy calls, 1 key | | the backlog finding |
| connection | 2 threads, 3 backends, 1 interrupt | 194 000 | one connection: safety, waiters, retirement |
| backends | 2 messages, 1 disconnect, 1 purge; 2 threads, 2 priorities, 1 key written twice | 1 386 000 | the ten backends |
| shutdown | 3 threads, 2 generations of up to 2 chunks; 2 entries; 3 close attempts; 3 workers, 3 items, 3 closes | 58 000 | snapshots, checkpoint, the queue's close, the pipeline |
| pipeline_claim_retry | as shutdown | | the pipeline finding |
| legacy_checkpoint_lost | as shutdown | | the checkpoint finding |
| strategies | 2 items, delays 0 to 5, a wheel of 2 slots, 6 units of time; 4 entries, 2 failed writes | 481 000 | delay, time wheel, batched storage |

In `scheduler`, `delivery`, `backends`, `shutdown` and `strategies` the variable `which` picks, in the initial state, the
part a behaviour is about; the parts do not interact, so each is explored as it would be
alone.

**Bounds.** Two generations are enough for a stale one beside a current one; three
threads for two that drain while a third leases; nesting two for a disconnect
inside a call inside a call. Four epochs let a call of the first window return
in the second OPEN. Two children make "the last one" differ from "one of
them"; four workers allow both signals and two group settlements, two faults a
failed settlement and a failed retry. Two copies of a URL let a message and its
duplicate exist at once, and one crash is placed at every step. Two decisions on two requests of
one fingerprint make a call meet the marker, the receipt or the allowance of another one; two
epochs let a receipt outlive its own. Two constructions
give a manager and its successor under one key, or two managers in a registry of
one; three calls give a builder, a waiter and a late releaser; a second raise is
explored before any `clear_registry()` (the constraint `FewRaises`). Three
backends give a published, a stale and a candidate one. Two messages in one partition
give acks out of order with a gap, one disconnect a stale token of each kind; with three
Kafka deliveries both messages are handed out and one of them, acked or nacked, again. Two chunks
make a half-written snapshot, two deletions a half-finished gc. A wheel of two slots with
ticks of two units has delays within a tick, at a turn and beyond it. Four entries with a
threshold of two and room for three reach the limit with a batch in flight. The proofs
cover every larger instance of every model.

**Symmetry** is used where no property is a liveness property: processes, URLs,
threads and requests in the delivery run, keys in the registry run, messages and threads in the backends run.

**Deadlock** is checked in the gate, breaker, delivery and connection runs; elsewhere the
calls, deliveries or lifecycles really end, or a bound of the instance stops them.
`MCCircuitBreaker` adds a stuttering step at the epoch bound, since the bound, not the
breaker, stops the behaviour there.

**Fairness.** Threads and reactor callbacks run (weak fairness). SDK and broker calls
return, because the drivers are configured with time-outs; in the breaker's
run one thread's operations need not return. Outermost SDK calls need
strong fairness, because nested calls disable their return again and again.
The breaker's liveness assumes that a crawl keeps calling, since a breaker only
moves when it is called. An errback's output ends and its replacements reach the queue
(Scrapy consumes both). `_connect_lock` is not withheld from a waiting thread forever
(strong fairness of `TakeLock`): Python's locks are not fair by contract, so what is
shown is that the manager adds no other reason to wait. A storage call returns or raises,
so a thread inside the snapshot repository goes on, and so do the owner of a queue's close,
the chains of the scheduler and the pipeline, and a settlement's worker; the pool starts
the worker at the head of the pipeline's chain. The age thread of a batched storage keeps
ticking, and failed writes are finitely many in its run. Nobody has to call, open, store or
close. No outcome (success, failure) is assumed.

## The proofs

Every theorem is proved for all values of the constants under the named
assumptions in the modules (bounds are naturals, the threshold is positive, a wheel has a
slot and a tick has a length, delays and limits are naturals, the shadow has room for one,
`Hanging` are threads, a behaviour of the registry has finitely many calls, names such as
`None` are no URL, call, key, entry or thread).
The backends need no assumption.

- **Gate.** `NoCloseUnderLease` is not inductive. `LeaseInv` adds that the lease counter
  of a record is the number of (thread, depth) pairs on the stacks that name it
  (`CountExact`), that whoever drains or closes has retired the record (`OnlyRetired`),
  and that a record being closed is leased by nobody (`ClosingFree`); then a release
  or a waiter that sees 0 knows that no stack names the record. `OneToken` counts
  the ways in which a finalizer can still run, for `ClosedAtMostOnceHolds`.
- **Breaker.** `BreakerInv` says that the history variable `crossed` is what the
  code's epoch comparison computes (`CrossedIsOld`, `UncrossedIsCurrent`), with the probe
  slot's ownership. `LateOutcomesAreFenced` and `ProbeSlotCorrect` follow.
  `TransitionsToldOnce` is the safety half of `ReportedExactlyOnce`: nothing is told twice. A
  notice is in the queue, in the hand of one thread, or told (`NoticesOnce`), and the epoch of a
  transition occurs in one of these places and once.
- **Settlement.** `SettleInv`: workers are numbered as submitted, the token's
  reservation is held by a calling worker, at most one broker call has landed and
  then the token is not pending, and the pending set contains every attached child
  that is not past its commit boundary while the group is live (`Tracked`). The claim has one
  owner, because a signal submits only without a claim, and a worker that ended keeps it only
  when it succeeded untold.
- **Delivery.** `DeliveryInv`: where a process is in enqueue_request determines what
  it holds (`Positions`); a URL that reached the broker is firm, that is done, in the
  broker, or with a live token (`AllFirm`); markers are only of URLs that reached
  the broker (`MarkersQueued`); shadow entries are of requests that are, or were,
  in the same process' hands (`ShadowHere`).
- **Duplicate filter.** `FilterInv` has `RetryKept` in it, and what the other parts need:
  where a caller is determines what it may hold (`CallsSound`); a caller inside an open, a clear or
  a release has the token of it (`FramesHeld`), and one that works on the filter has drained the
  admitted calls, unless a clear has undone the closing phase (`DrainedFirst`); an
  admitted call is of the current epoch (`EpochsCurrent`), for which it is needed
  that an epoch begins under no admitted call. A receipt that is being settled is settled
  by the forget that selected it, which has one receipt at most (`ReceiptsOwned`), so that
  a grant turns one slot into one allowance; `SlotsCounted` is the sum over calls, receipts and
  `leaked`. Numbers of receipts differ, hence "the oldest" is one receipt.
- **Registry.** `RegInv` adds to the four invariants that a construction attempt has one
  builder working for the attempt's key (`Builders`), that whatever is registered,
  doomed, retired, held or in the backlog is not under construction (`StoreBuilt`,
  `RecordsBuilt`), that a doomed manager is out of the registry (`DoomedIsOut`) and a gate
  stands for a construction that goes on (`GatesHaveABuilder`). Retries, wake-ups,
  adoptions and releases are all instances of one kind of step (`CallMoves`,
  `RecordsMove`, and `Leaves` for a consumed token), treated once by `CallStep`; the
  ends of a construction share `EndsBuild`.
  `HoldsKept` needs to know where every token is, since `close()` consumes the oldest legacy
  token and not its own (`HoldInv`, on top of `RegInv`). A token is with the manager its call
  acquired (`TokensHome`); the legacy and the handoff lists repeat nothing and name active
  tokens only (`LegacyTokens`, `HandoffTokens`); a lease has a token of its own that is on no
  legacy list (`LeasesOwn`), is active until the release and not after it (`LeasesLive`,
  `LeasesSpent`), and every token off the list is a lease's (`TokensOwned`); a current manager
  has as many legacy tokens as holders that will call `close()` (`LegacyCounted`). So
  leases and tokens off the list correspond one to one, and counting both kinds gives
  `HoldsAccounted`. For the backlog, each record and each record under retry is a lease whose
  release has begun (`RecordsFailed`), and a retry that finalizes has consumed its token
  (`JobsSpent`). `HoldsKeptHolds` assumes that only the release of a lease raises
  (`RaisingStyles` without "legacy", as in the run `registry`): with a `close()` that raises the
  property is false, which is what `registry_claim_holds` shows.
- **Connection.** `ConnInv` says where each backend is: whoever is inside a transaction
  holds the lock (`LockHeld`), a thread has custody at certain places only (`Carriers`),
  what is in custody is open, unshared and not published (`Owned`), a dialled
  candidate has been given to nobody (`Dialing`), every open backend is published or in
  custody (`Found`), the published one has the current breaker (`Generation`), and
  the teardown begins after the last release (`Ending`). The steps fall into a few
  moves of a backend (kept, taken, created, published, ended), each treated once.

- **The queue's close.** `LifecycleInv`: an attempt has one owner, a thread inside an
  operation is counted, and the strategy's cleanup is not begun, over, or belongs to an
  attempt that is past the call (`CleanupBegun`); so no reclaimed attempt repeats it.
- **The checkpoint.** `CheckpointInv`: what is owed is on disk, and a life that may write a
  snapshot has seen it - it holds it, has popped it, or knows that it left it in the legacy
  key (`Owed`) - and the overwritten entries are the ones this leaves out; what is gone is neither on disk nor held (`Gone`); a legacy snapshot is
  retired or its retirement deferred, never both (`Retirement`). `CheckpointRestored` alone
  says nothing about a life that is down, which is where the snapshot can be overwritten.
- **Snapshots.** `RepositoryInv`: generations are drawn in order, so the next one is
  fresh; a lease is held by the thread inside, and a maintenance that deletes has the
  repository to itself (`LeasesHeld`); the chunks of a commit are there up to where it
  has come (`Written`). Then the manifest, written last, names a complete snapshot.
- **Pipeline.** `PipelineInv`: an open under way is alone, one closer owns and has
  latched the close and nobody stores while it flushes (`OneCloser`), a rollback runs before any
  item (`RollbackEmpty`), a reserved
  close is the only one in the chain (`ChainSound`), and under the reactor one item is stored at a
  time, so that the counter sees every loss (`LossesCounted`).
- **Scheduler.** `SchedulerInv`: an open comes before everything else, nothing that uses
  the queue comes back once it is done with (`TerminalStays`), a settlement under way has its
  claim and one that landed keeps it or has taken the token along (`ClaimsHeld`), what is
  pending when the queue closes was submitted after the barrier (`BarrierPassed`), and a
  poll that was sent away is followed by a probe (`ProbeOwed`).
- **Batched storage.** `BatchedInv`: there is a batch only under the flush lock, what
  waits is the last entries accepted, the batch first (`Waiting`), and what was written
  covers what is done with and goes at most one entry beyond it, the one whose failed
  write was applied (`WrittenUpTo`).
- **Delay and time wheel.** `HeldInv`: one entry for each item, in memory or in the snapshot;
  an entry is ready when its item is due, and exactly then until a drain has found it
  (`Dated`); a drain moves only what was due. For the wheel, an entry is in the slot of its
  tick, which no complete drain has passed (`OnWheel`), a slot's cached minimum is not above it
  (`SlotMins`), and what a drain found and could not push the next drain finds again
  (`FoundAgain`): without that part the invariant is not inductive, since a failed drain leaves
  behind an entry whose slot the cursor is about to pass. `WakesForNext` is an action
  property over the same invariant.
- **Stores.** `StoreInv`: a message has one entry in the queue and a key one value, answers
  are about stored messages only, and a closed client is neither published nor in use by any
  thread. Each step of the five backends is shown to be a step of the common server
  (`ServerStep`) with a change of one thread's operation; the properties follow from the
  server's steps.
- **Pulsar's pumps.** `OneConsumer` counts the live consumers and keeps the stray ones apart;
  `OneSubscriber` adds the pumps
  whose subscribe call has not returned: all are the pump in use or the one being
  retired, a pump is built only when there is neither, and `PumpPhases` says when a pump's
  consumer is published.
- **The contract.** `RefinesHolds` is `MCSpec => Refines`: each
  initial state maps to one of `DeliveryContract`, each step to a step of it or a stutter.
  Every backend needs its own reason why a token that the broker still honours is that of the
  newest delivery:
  - RabbitMQ (`RabbitInv`): a token of the current channel names the delivery the server knows
    by its tag, until it is settled (`TagsNameTokens`); older channels have no deliveries.
  - SQS (`SqsInv`): a message is visible or in one lease (`LeasedOnce`), a token whose lease
    the server knows is the newest (`LeaseIsNewest`), and while a purge is under way
    nothing is pushed, so that it covers all that is stored.
  - RocketMQ (`RocketInv`): the same, and a lease that waits in the buffer or in a pop is
    younger than every token of its message, and the server still has the message (`Waits`).
    A pop in progress holds an older lease than the buffer (`InOrder`).
  - Pulsar (`PulsarInv`): what the subscription holds back is held back once (`HeldBack`),
    what a pump has buffered is held back for it (`BufferedOnce`), and a delivery of a
    consumer that is not closed is the newest of its message (`NewestHeld`).
  - Kafka (`KafkaInv`): the committed offset never passes a message whose delivery was not
    acked. An ack commits up to the first offset in flight, so the invariant says where every
    offset is that the consumer has read: in flight, acked, committed, or read next
    (`Accounted`, `Entries`); that what is acked or committed and will be read again may be
    handed out again (`Reread`, `Committed`); and that whatever is handed out below the base
    of the watermark has left before (`BasePassed`), since the walk starts at the base and
    would skip it. An offset has one live token (`Attempts`), whoever can settle a message is
    among its holders (`Holders`), and a commit under way passes only what may leave, also
    when its generation is retired under it (`Acking`).

The theorems about one conjunct (`NoCloseUnderLeaseHolds`, `NothingIsLost`, …) are combined
into the statement a run checks: `HandlesAreProtected`, `BreakerIsSound`,
`SettlementIsSound`, `CrawlIsKept`, `RegistryIsSound`, `ConnectionIsSound`; the others state
a run's property themselves.

Only model-checked: the liveness properties; fairness and ENABLED are outside the prover.

## Not modelled, and why

- **Membership filters.** `Delivery` uses an exact filter that may be full or out of reach.
  The filters' own content is hashing and bit arithmetic whose errors are probabilistic.
- **Of the duplicate filter** (`dupefilter.py`): monitors and the fence around their callbacks,
  a filter that calls back into `request_seen`, a filter without membership support,
  construction from settings, the asynchronous wrappers.
- **The other queue strategies.** Passthrough, priority, throttle and work stealing leave
  their items with the backend; round robin and the ring buffer keep them in one structure
  under one lock.
- **The spider mixin**: it repeats the scheduler's settlement protocol for seeds.
- **The pop buffer and depth probes** of the queue, and the scheduler without a reactor.
- **A control exception at arbitrary points.** The models place interrupts where the code
  has a handler for them; one between the claim of a teardown and its disconnect
  (`_manager.py:2347`), or one that ends the age thread of a batched storage, is left out.
- **Settings, registry, plugins, codec, exception wording, telemetry, provisioning of
  queues, tables and indices**: no state that changes while a crawl runs, or formatting
  no property is about.
