# A formal model of POLKU

POLKU is a message gateway library in Rust: producers push messages through a
middleware chain into a bounded buffer, and a background task fans them out to
emitters, which can be wrapped with retry, circuit breaking and failure
capture. A standalone gateway offers a gRPC ingestion service on top of the
same buffer. This directory holds TLA+ models of that code, TLC runs on small
instances, and TLAPS proofs for all instances.

Source paths below are relative to `src/gateway/src/`.

## 1. Inventory

| Component | State it keeps | Operations | Hard behaviour |
|---|---|---|---|
| Ring buffer, `buffer.rs` | deque behind a mutex, three counters | push (evicts the oldest when full), drain, len, is_full | shared by a pushing and a draining task; capacity 0 |
| Hub, `hub.rs` | mpsc channel, ring buffer, watch flag, two tasks | send, try_send, run, flush_loop | shutdown racing pushes, emitter error or panic during fan-out, cancelled run() |
| Circuit breaker, `emit/resilience/circuit_breaker.rs` | state, two run lengths, half-open count, last failure time behind a lock | should_allow_request, record_success, record_failure, emit | the lock is released while the wrapped emitter is awaited: outcomes arrive in other states |
| Retry, `emit/resilience/retry.rs` | two counters, a shared generator | emit with exponential backoff and jitter | re-sends whole batches after partial delivery; meets an open breaker |
| Failure capture, `emit/resilience/failure_buffer.rs` | bounded deque of failed events, counters | push, drain, peek, emit, shutdown | overflow; one sample per batch when `store_full_batch` is off |
| Resilience builder, `emit/resilience/config.rs` | none | fixes the nesting of the wrappers | a wrapper's name() replaces the emitter's, which routing compares |
| Rate limiter, `middleware/rate_limiter.rs` | two atomics | try_acquire, refill | lock-free exchanges, stale clock readings |
| Throttle, `middleware/throttle.rs` | map of buckets behind a read-write lock | get_or_create_bucket, evict_lru | creation race; per-bucket access clocks |
| Deduplicator, `middleware/dedup.rs` | map of last sightings, operation counter | check, cleanup | time read before the lock |
| Aggregator, `middleware/aggregator.rs` | messages held for a batch | process, flush | what is held at shutdown; merged routes |
| Chain, sampler, validator, router, enricher, `middleware/*.rs` | none (sampler: a generator) | process | a filtered message ends the chain |
| Plugin registry, `registry.rs` | ingestors, emitters | ingest, emit_to_all, emit_with_routing, shutdown | an emitter fails in the middle of a fan-out or of the shutdown; duplicate routes |
| gRPC service, `server.rs` | the shared buffer, a counter | send_event, stream_events, health | concurrent requests; acknowledgement against eviction |
| Gateway process, `main.rs`, `config.rs` | wiring | start, shutdown_signal | emitters shut down before requests end |
| Emitters, `emit/grpc.rs`, `emit/webhook.rs`, `emit/stdout.rs` | a client | emit, health | partial delivery, timeouts |
| Message, metrics, errors, generated code | data, counters | conversions, registration | none of their own |

How they interact:

```
 MessageSender clones --mpsc--> run() --middleware--> RingBuffer <--drain-- flush_loop() --> Emitter*
                                  |                                              ^
                                  +------------- watch flag: shutdown -----------+

 Emitter = FailureCapture( CircuitBreaker( Retry( gRPC | webhook | stdout ) ) )   (any subset)

 gRPC clients --> GatewayService --registry.ingest--> RingBuffer
```

What makes each of them correct:

- *Ring buffer*: first in, first out; an overflow costs the oldest message and
  is counted; the bound holds.
- *Hub*: every accepted message is filtered, evicted or offered to every emitter
  it is routed to, once and in order; nothing else happens to it; after the last
  sender is gone run() drains, joins the flush task and returns; no emitter is
  called after that.
- *Circuit breaker*: fails fast while open, admits a bounded number of probes,
  passes no threshold unnoticed, and neither Open nor HalfOpen is for ever.
- *Rate limiter*: never more than burst plus elapsed intervals.
- *Throttle*: one bucket per source; the least recently used one is evicted.
- *Deduplicator*: one message per id and TTL window.
- *Retry, failure capture*: bounded attempts; every failed batch is kept.
- *Aggregator, chain*: each message is with a task, held, filtered or delivered,
  on its own or in one batch; a batch stands for its parts.
- *Sampler*: concurrent draws are one stream of the generator.
- *gRPC service*: events keep order and content; an acknowledged event was
  stored; what left the buffer was delivered or counted; a stream's answers come
  in order, and its task ends after its client.
- *Registry*: every emitter gets its events whatever the others answer, and is
  shut down.

The hazards that follow from this list are in `PROJECT.json`, each at its line.

## 2. Modules

| Module | What it is |
|---|---|
| `RingBuffer` | state and operations of `buffer.rs`; no specification of its own, the components that share a buffer extend it |
| `Hub` | `hub.rs`: producers, run() and flush_loop() around a `RingBuffer` |
| `MCHub` | the instance for TLC |
| `Selection` | `iter().filter().collect()` and `flat_map` as folds over a sequence, for the Hub's and the registry's delivery loops |
| `LoopLemmas` | induction over sets of natural numbers, and what follows from it about loops written as folds |
| `RingBufferProofs`, `HubProofs` | lemmas about push and drain; theorems about the Hub |
| `BreakerGate` | abstract specification: what a circuit breaker promises the backend |
| `CircuitBreaker` | `circuit_breaker.rs`, shared by concurrent callers; refines `BreakerGate` |
| `MCCircuitBreaker` | the instance for TLC |
| `CircuitBreakerProofs` | invariants and the refinement |
| `TokenBucket` | `rate_limiter.rs` (and the buckets of `throttle.rs`), one step per atomic access |
| `MCTokenBucket` | the instance for TLC |
| `TokenBucketProofs` | the rate limit |
| `ResilientEmitter` | the wrapped emitter: `failure_buffer.rs`, `retry.rs` and `grpc.rs` composed with an instance of `CircuitBreaker`, as `config.rs` nests them |
| `MCResilientEmitter` | the instance for TLC |
| `ResilientEmitterProofs` | the guarantees of the stack, with the breaker's theorems taken over through INSTANCE |
| `TaskClock` | what the stateful middleware share: calling tasks and the monotonic clock |
| `Throttle`, `Deduplicator`, `Sampler`, `Aggregator` | the middleware with state, one module for each file: state and operations, no specification of their own |
| `Xorshift64` | the generator of `sampler.rs` and `retry.rs` on 64-bit words |
| `Messages` | `message.rs` and the middleware without state: filter, transform, validator, router, enricher |
| `MiddlewareChain` | `middleware/mod.rs`: tasks that carry messages through a chain of those stages |
| `MCMiddlewareChain` | the instances for TLC: chains and inputs |
| `MiddlewareProofs` | the guarantees of the throttle, the deduplicator, the sampler and the chain |
| `PluginRegistry` | `registry.rs` with the emitters behind it (`emit/mod.rs`, `emit/stdout.rs`, `emit/webhook.rs`) and the ingestors |
| `Gateway` | `server.rs` and `main.rs`: the service on a `RingBuffer`, the registry and the shutdown |
| `MCGateway` | the instance for TLC |
| `GatewayProofs` | the guarantees of the service and of the registry |

Definitions marked "Faulty variant" are not used by any specification. Each is a
plausible bug of the definition that follows it; putting it in that
definition's place makes TLC refute the property named for it in
`PROJECT.json`, which shows that the property depends on the code.

### RingBuffer and Hub

The deque, the three counters and the mutex become `messages`, `pushed`,
`dropped`, `drained` and atomic operations. `Push` keeps two peculiarities of
the code: a full buffer of capacity 0 counts a drop of nothing and then holds
one message, and `pushed` grows by the buffer's whole length.

In `Hub` a step of a task is what it does up to the next await or the next
access to state the other task can see:

| Action | Code |
|---|---|
| `CloneSender`, `DropSender` | clones of MessageSender, `hub.rs:148-152` |
| `Send`, `RefuseSend` | send and try_send, `hub.rs:154-169`; a send waiting for room is a `Send` not yet enabled |
| `Recv` | `hub.rs:219-227` |
| `MiddlewarePass`, `RecordOverflow`, `MiddlewareFilter` | `hub.rs:226-245`: the chain's verdict with the push; a drop that push reports is counted in a step of its own |
| `SignalShutdown`, `JoinFlush` | `hub.rs:247-259` |
| `CancelRun` | the caller drops run()'s future, as the tests do with a timeout; the spawned task lives on |
| `FlushCheck`, `FlushCheckEmpty` | `hub.rs:278-282`: `&&` reads the flag first and the buffer, in a second step, only if the flag is set |
| `FlushWake` | `hub.rs:284-308`: sleep or changed(), then the drain |
| `SkipEmitter`, `EmitOk`, `EmitErr`, `EmitPanic`, `EndBatch` | one turn of the fan-out, `hub.rs:311-347` |

Middleware is one nondeterministic verdict: filtered, or passed with any route
in `Routes`. A message is a number and a route; payloads, metadata and
conversions are left out, since nothing in the pipeline reads them. History
variables (`accepted`, `filtered`, `passed`, `departed`, `evicted`, `sent`)
record what happened to each message and guard nothing.

### CircuitBreaker and BreakerGate

A call is two critical sections with an await between them. Each alternative of
`should_allow_request` is an action (`AllowClosed`, `StartProbing`,
`AllowProbe`, `Reject`), and so are `Succeed` (record_success) and `Fail`
(record_failure), which may occur in any state. Time enters as one Boolean,
`cooled`: has reset_timeout passed since the last recorded failure. `Fail`
clears it, `Cool` sets it. The failure count stops at `CountCap`, above which
it is never compared again; metrics wrap at `CounterMod`.

`BreakerGate` has three variables (mode, running calls, budget) and says only
when calls may start and between which modes the breaker moves. The refinement
mapping turns the count of used slots into the remaining budget.

### TokenBucket

`tokens` and `last_refill` are shared; the rest of a thread's state is its
program counter and the locals it has loaded. `compare_exchange_weak` may fail
spuriously, so `ClaimFails`, `AddFails` and `TakeFails` have no guard on the
shared word. Instead of a number of intervals a thread carries the *set* of
intervals it claimed: this is what makes "once each" statable. Rate 0 is an
interval longer than the run. The threads' accesses are sequentially
consistent in the model; the code's acquire and release orderings on single
words give that for each word, and no property relates reads of two words
without an exchange on the one it depends on.

### ResilientEmitter

The composition takes the breaker's actions as they are (`Breaker == INSTANCE
CircuitBreaker`) and conjoins them with the steps around them:

| Action | Code |
|---|---|
| `EmitAdmitted`, `EmitRejected` | `circuit_breaker.rs:213-218`, with the first attempt's requests spawned (`grpc.rs:73-123`) |
| `RequestOk`, `RequestErr` | a spawned request ends, `grpc.rs:97-119`; one that fails may have arrived |
| `CallSucceeds`, `AttemptFails`, `Resend`, `GiveUp` | `retry.rs:172-216`; the last two conditions are the join loop of `grpc.rs:125-132` |
| `Capture` | `failure_buffer.rs:183-229` with push's loop (`Store`), `failure_buffer.rs:87-104` |
| `DrainFailures` | drain, and clear as a drain of everything |

Requests are identified by call, attempt and position. A request whose attempt is
over stays in `running`: dropping a tokio JoinHandle detaches the task. Its late
answer can still deliver the event, and changes no result.

The back-off is computed as the code does, in whole microseconds with a least
delay of one (`DelayForAttempt`, `retry.rs:86-114`), because a retry is counted
only when its delay is not zero. Floating point is replaced by integers: the
jitter factor is in quarters, and the random number is one of the two ends of
its range and the middle, between which the delay is monotonic.

### MiddlewareChain and its stages

A chain is a sequence of records, a stage's kind with its configuration, chosen
at the start and then fixed. Each task has one message in its hand; `Advance`
and `Filter` are what `MiddlewareChain::process` does with the answer of a
stage. A stage without shared state is one step (`PureStage`); the others take
the steps of their modules, between which other tasks run:

| Actions | Code |
|---|---|
| `FastPath`, `Miss`, `SlowHit`, `CreateBucket` | `throttle.rs:197-245`: what happens under the read lock or under the write lock is one step; another task may insert the bucket between them |
| `ReadNow`, `CountOp`, `ResetOps`, `Cleanup`, `Duplicate`, `FirstSight` | `dedup.rs:79-109`: the clock reading, fetch_add, store, and the two uses of the mutex |
| `LoadState`, `SwapState`, `SwapFails` | `sampler.rs:71-97`; a weak exchange may fail for no reason |
| `Hold`, `Complete`, `Flush` | `aggregator.rs:188-216`: push and take are under one lock, and combine() (`aggregator.rs:97-181`) works on messages nobody else reaches |
| `PureStage` | `Processed`: `mod.rs:106-203`, `validator.rs:76-146`, `router.rs:29-97`, `enricher.rs:63-76` |
| `FlushPending` | external: the owner of an aggregator calls flush(); nothing in the gateway does |

A throttle's bucket answers in one step; the atomics inside it are the rate
limiter's code again, and `TokenBucket` takes them apart. The rate limiter as a
stage is `TokenBucket` too. A 64-bit word is the set of its one bits, which makes
the shifts and exclusive-ors of xorshift64 exact. A payload is its form and a
sequence of pieces; metadata is a function on a set of keys, and `Extend` is
HashMap::extend; the closures a user supplies are representative ones.

A chain has at most one stage of each stateful kind, whose state is then the
module's (`ChainAssumption`): two throttles of one chain share nothing, and what
is said of one holds whatever messages the other lets through to it.

### PluginRegistry and Gateway

| Action | Code |
|---|---|
| `SendEvent`, `CountEvent` | send_event, `server.rs:178-198`, with process_event; the buffer and then the counter, two steps |
| `OpenStream`, `RecvBatch`, `CountBatch` | stream_events and the task it spawns, `server.rs:112-167` |
| `SendReply`, `SendFails`, `EndStream` | tx.send waits for room in the bounded channel, or finds nobody receiving: the loop ends on an Ack and goes on after an error, `server.rs:130-173` |
| `ReadAnswer`, `Disconnect` | external: the client |
| `PushEvents` | push of several messages under one lock, `buffer.rs:48-72`; the counters move once |
| `Forward` | external: a loop that drains the buffer into emit_with_routing |
| `Emit` | one awaited emitter call of emit_with_routing or emit_to_all, `registry.rs:93-186` |
| `Signal`, `CloseEmitter`, `StopAccepting`, `Exit` | `main.rs:76-117` and registry.shutdown, `registry.rs:205-216`: the server accepts requests until the emitters are shut down |

Clients send events of the set `Event`, of which only their being events of the
protocol is assumed (`GatewayAssumption`); `MCGateway` supplies concrete ones. A
request may hold any of them, and the same one may come again, in one request or
in several, as it does when a client retries: the service does not look at ids.
The properties therefore tell events apart by their places in the history
`stored`, and not by their ids: `held` and `placed` are the places a call is about
to count, `exhausted` those whose caller was told that its event is dropped.
`orphans` counts the good batches a stream's task takes after its client has left.

An ingestor is external code: it returns the events in the bytes, or one of the
errors of `PluginError`. `WebhookResult` maps the three outcomes of the HTTP
request; stdout ignores write errors and always succeeds.

## 3. Runs

| Run | Instance | Result |
|---|---|---|
| `hub` | capacity 2, channel 1, batch 2, two emitters, 4 messages, 2 senders | 8 properties hold; 312,357 states |
| `breaker` | 4 callers, all thresholds 2 | 6 properties hold; 5,292 states |
| `breaker_defaults` | 3 callers, half_open_max_requests 1, success_threshold 2 | `HalfOpenResolves` refuted |
| `breaker_probes` | the same, safety only | `ConcurrentProbesBounded` refuted |
| `token_bucket` | 3 threads, burst 2, interval 2, time up to 5 | 4 properties hold; 659,194 states |
| `stack` | 2 callers and calls, batches of 2, one retry, failure buffer of 3, thresholds 1 | 6 properties hold; 62,078 states |
| `stack_open` | the same with batches of 1 | `NoRetryWhenOpen` refuted |
| `chain` | 2 tasks, 4 messages, 8 chains, burst 1, interval 2, TTL 2, cleanup interval 1, batches of 2, time up to 3 | 8 properties hold; 1,336,945 states up to symmetry |
| `chain_lru` | 1 task, 3 sources of which 2 are tracked | `EvictsLeastRecent` refuted |
| `chain_broadcast` | 1 task, an aggregator alone | `BroadcastKept` refuted |
| `gateway` | capacity 2, one unary call and one stream at a time, 2 events stored 3 times in all, up to 2 per request, 2 batches, answer channel of 1, 3 emitters | 8 properties hold; 473,315 states |
| `gateway_dropped` | the same | `DroppedIsDropped` refuted |

What the properties say is in the comment above each definition. In short:

- `hub`: `FifoBuffer`, `CountersBalance` (the metrics account for every
  message), `ExactFanOut` (each emitter is called with exactly its messages,
  once, in order, whatever others do), `GracefulShutdown`, `QuietAfterReturn`,
  and the liveness properties `ShutdownCompletes` and `EveryMessageOffered`.
- `breaker`: `ProbeBudget`, `BelowThresholds`, the refinement `KeepsGate`, and
  the liveness properties `OpenIsTemporary` and `HalfOpenResolves`.
- `token_bucket`: `IntervalsOwnedOnce`, `RefillNotAhead`, `RateLimit`.
- `stack`: `AckedDelivered` (Ok means every event arrived), `FailuresKept` (what
  failed is held, evicted or drained, and counted), `EveryAdmissionRecorded` (one
  outcome per admitted call), `RetriesSpent`, and the liveness property
  `CallsReturn`.
- `chain`: `SourcesBounded` and `PerSourceLimit` (the throttle), `DuplicateWindow`
  and `CleanupBounded` (the deduplicator), `RandomStream` (the sampler),
  `BatchSpeaksForParts` (the aggregator: exactly the parts' routes, the last value
  of each metadata key, and every payload the strategy keeps, in one piece and in
  order) and `EveryMessageOnce` (all of them).
  `DuplicateWindow` counts the window from the clock reading the first admission
  was decided with. Counted from the moment of that admission it is false: the
  reading is taken before the locks, and the task may wait in between.
- `gateway`: `AckedStored` (order, content and whereabouts of every stored event;
  an Ack names events that were stored together), `ProcessedCount`,
  `StreamAnswersInOrder`, `OrphansBounded` (at most one good batch is taken from
  a client that has left), `RegistryFanOut`, and the liveness properties
  `EmittersShutDown` and `StreamTasksEnd` (a stream's task ends after its client).

**Why the bounds are enough.** Four messages through a buffer of two and batches
of two reach an overflow before, between and after drains, a shutdown with
zero, one and two batches left, and a batch split between emitters; the
channel of one slot fills. Two emitters, and messages that are for everyone or
for one of them and a name nobody has, cover broadcast and routed messages and
routes that match nothing. Four callers with thresholds of two let a whole half-open period pass
while calls of the Closed state and of an earlier period are still running.
Three threads are the fewest in which one waits in each of the three exchange
loops; five ticks with an interval of two leave two whole intervals and a
remainder. In `stack` two calls are either concurrent or one after the other, so
that the second may be rejected or be the probe; two events make a partial
delivery, two attempts let a request outlive its own, and two failed batches
overflow a failure buffer of three. In `chain` two tasks race for the one bucket
there is room for, and three units of time leave a whole TTL or refill interval
between two messages with a stale reading on either side; four messages fill two
batches, with a flush between them. Three tasks were not needed for any of the
faulty variants. In `gateway` three stored events, of two
different ones, so that one is always repeated, overflow a buffer of two in one push
and in two, by a unary call and by a stream; an answer channel of one blocks the
second answer; the plugin can fail, and the route that names it twice comes
together with broadcasts. What is proved (section 4) does not depend on these bounds.

**Fairness.** `Hub`: weak fairness of run() and of flush_loop(), each as a
whole: tokio polls a ready task, the flush interval elapses, and emit returns
because the network emitters bound each request by a timeout (30 s,
`emit/grpc.rs`, `emit/webhook.rs`). Nothing is assumed of producers, nor of
which outcome an emit has. `CircuitBreaker`: callers keep calling (traffic does
not stop), the wrapped emitter answers, time passes. `TokenBucket` has no
liveness property: a weak exchange may fail for ever. `ResilientEmitter`: a call
that can go on does, and requests end, by an answer or by their timeout. Deadlock
is not checked in `hub`, because the pipeline does stop (run() returns), nor in
`stack`, `chain` and `gateway`, where the number of calls or messages is bounded
(and the gateway exits). `Gateway`: an emitter's shutdown() ends; a stream's task that can go
on does; and the request stream of a client that has gone away breaks, since its
connection is reset. Nothing is assumed of other clients, who may never read an
answer, nor of emit(), the draining loop or the signal. `MiddlewareChain` has no liveness
property: a weak exchange may fail for ever.

**Disagreements with the documentation.**

1. With the default breaker configuration (one half-open request, two successes
   to close) a recovered backend is never used again: after the first
   successful probe the breaker stays half-open and rejects everything, since a
   success does not give the slot back.
2. "Maximum concurrent requests allowed in HalfOpen state" bounds the requests
   one half-open period admits. The late failure of a call admitted while Closed
   re-opens the circuit while the period's probe still waits, and the next period
   counts from 1 again: both probes run (`breaker_probes`).
3. "Should not retry when circuit is open" (a test of the stack) holds for calls
   made one after the other. Retry is inside the breaker, so a call admitted
   earlier spends its remaining attempts on an open circuit.
4. "When exceeded, the least recently used bucket is evicted": the throttle
   compares times that each bucket measures from its own creation. Two sources
   served once each, at different times, compare equal, and the one served later
   can be evicted (`chain_lru`); an old bucket that is used again even compares
   later than a young one used after it.
5. "If empty, message goes to all outputs": aggregated with a routed message, a
   broadcast one goes to the routed one's outputs only (`chain_broadcast`).
6. "Buffer full, event dropped", the error of send_event (`server.rs:188`), is
   returned for an event that was stored: the push evicted an older one
   (`gateway_dropped`). A caller that retries stores its event twice. Such an
   event is not counted in events_processed either (`ProcessedCount` leaves it
   out).

Seen while modelling, without a run of their own:

- `BufferMetrics::pushed`, "Total messages pushed" (`buffer.rs:20`), grows by the
  length of the whole buffer at every push (`buffer.rs:66`, `Push` in
  `RingBuffer`): a second message pushed while the first is held counts as two.
- A stream's Ack lists events that the same push may have evicted already.
- emit_with_routing delivers the broadcast events of a batch before its routed
  ones, so an emitter does not see the two in arrival order; `RegistryFanOut`
  states the order within each group.
- "Maximum delay between retries" (`retry.rs:64`) is applied before the jitter,
  which can exceed it by the jitter factor.
- `main.rs` starts no loop that drains the buffer, and shuts the emitters down
  while the server still accepts events.
- Nothing in the gateway calls an aggregator's flush(): what it holds at the end
  is lost.
- A wrapped emitter has its wrapper's name ("retry", "circuit_breaker"), which
  routes do not mention; and emitter_health keeps one entry for two emitters of
  the same name.

## 4. Proofs

All by TLAPS, for every value of the constants that meets the named assumptions:
finite sets of callers, streams and tasks, natural numbers for capacities and
bounds, and positive ones for what the code divides by or requires to be
positive. TLC evaluates each assumption in the run of its module.
A string that is written out is a member of STRING to TLC and not to TLAPS. Where
the code puts such strings into messages, `TagAssumption` (the validator's),
`AggregatorAssumption` and `ChainAssumption` (the aggregator's, and decimal
numbers) say that they are strings.
`GatewayAssumption` says that what clients send are events of the protocol,
nothing of their ids, and `NoneAssumption` that the mark for "no answer" is not an
answer. The bounds that cap the runs (`MaxEvents`,
`MaxTime`, `MaxMessages`, ...) are arbitrary natural numbers in the proofs.

| Module | Theorems, with the property each one states |
|---|---|
| `HubProofs` | `TypeCorrect` (`TypeOK`), `BufferIsFifo` (`FifoBuffer`), `CountersAlwaysBalance` (`CountersBalance`), `FanOutIsExact` (`ExactFanOut`), `ShutdownIsGraceful` (`GracefulShutdown`), `QuietAfterRun` (`QuietAfterReturn`, an action property) |
| `CircuitBreakerProofs` | `TypeCorrect`, `ProbesWithinBudget` (`ProbeBudget`), `ThresholdsRespected` (`BelowThresholds`), `ImplementsGate` (`KeepsGate`, the refinement) |
| `TokenBucketProofs` | `TypeCorrect`, `IntervalsAlwaysOwnedOnce` (`IntervalsOwnedOnce`), `RefillNeverAhead` (`RefillNotAhead`), `RateLimitHolds` (`RateLimit`) |
| `ResilientEmitterProofs` | `TypeCorrect`, `OkMeansDelivered` (`AckedDelivered`), `NoFailureLost` (`FailuresKept`), `AdmissionsRecorded` (`EveryAdmissionRecorded`), `RetriesAccounted` (`RetriesSpent`) |
| `MiddlewareProofs` | `TypeCorrect` (`TypeOK`), `BatchesSpeak` (`BatchSpeaksForParts`), `MessagesOnce` (`EveryMessageOnce`), `SourcesThrottled` (`PerSourceLimit`), `MapBounded` (`SourcesBounded`), `WindowKept` (`DuplicateWindow`), `CleanupsKeepUp` (`CleanupBounded`), `OneStream` (`RandomStream`) |
| `GatewayProofs` | `TypeCorrect`, `AckedIsStored` (`AckedStored`), `ProcessedIsCounted` (`ProcessedCount`), `AnswersInOrder` (`StreamAnswersInOrder`), `OneOrphanAtMost` (`OrphansBounded`), `RegistryDelivers` (`RegistryFanOut`) |

**Loops.** The code's loops over a batch (eviction in push, the selection of
routed events, the capture of a failed batch) are folds in the models. What a
fold computes needs induction, and the library's induction theorems quantify
over an operator, which no installed prover can instantiate. `LoopLemmas`
therefore states induction over a *set*: a set of natural numbers has a least
element (`LeastNat`, from the well-foundedness of `<`), so one that contains 0
and the successors of its members below n contains all of 0 .. n
(`IntervalInduction`). From this it derives that FoldLeft is the last of a
sequence of accumulators, each the loop body applied to the one before, and
what `Keep` and `Gather` make of an empty, a one-element and a concatenated
sequence, and that `Gather` contains what each element contributes, in one piece
and in order (`GatherPlaces`). Each proof about a loop then gives its own set to
that lemma.

**The inductive invariants**, and why the properties are not inductive alone:

- *Hub.* `TypeOK` is inductive, with the tie between `flush` and `batch` it
  contains. The FIFO theorem follows action by action: only a push or a drain
  moves the boundary between `departed` and `messages`, and the lemmas of
  `RingBufferProofs` say that each moves it without changing the concatenation.
  `ExactFanOut` subtracts the evicted messages from the departed ones by their
  identity. That is only right while no message is in the past of the buffer
  and in the buffer at once; `InOrder` (numbers increase from the buffer's past
  through the buffer and the middleware to the channel) makes them differ.
  `GracefulShutdown` needs to know how far the two tasks are relative to each
  other (`Stages`: the flag is only set when no sender and no channel content
  is left; the loop has exited only after the flag and an empty buffer) and
  that every accepted message is somewhere (`Accounted`).
- *Circuit breaker.* The budget needs the count of the current period's
  probes, hence the history variable `current`; type correctness alone is not
  inductive, since that no current probe survives its period is the budget's.
  `ImplementsGate` shows that each action is an action of `BreakerGate` under
  the mapping, or leaves its variables alone.
- *Token bucket.* The invariant is an account: what was granted plus what is in
  the bucket is at most the capacity plus the worth of the *credited* intervals
  (`Ledger`); intervals are credited once (`IntervalsOwnedOnce`); none is
  claimed before it is over (`RefillNotAhead`, which needs that no thread's
  clock reading is in the future); and a thread about to take has seen at least
  one token (`Locals`). The limit follows since there are at most
  `now \div RefillNanos` such intervals.
- *Emitter stack.* The breaker's invariant is used as proved, since every step
  of the stack is a step of the breaker or leaves it alone (`BreakerSteps`). On
  top: calls are told apart although callers are reused (`CallsApart`, without which a late
  answer could be taken for that of the next call); a request of the present
  attempt that is known to have succeeded has delivered its event
  (`OkDelivered`); what push's loop evicts, keeps and is given are the same
  events in order (`Kept`, carried through the loop by induction). `RetriesSpent` is
  a pair of inequalities that a call in progress can break for a while; the
  inductive form (`RetryAccount`) adds the retries that running calls have made
  and those they may still make.
- *Middleware.* A step of the chain moves at most one stage, so each stage has an
  invariant of its own. Throttle: every bucket is solvent, what it granted and
  what it holds is at most the burst and one token per whole elapsed interval,
  counted from its creation, and it never holds more than the burst
  (`CappedInv`). Deduplicator: the entry of an id is the *reading*
  of its last admission, or was cleaned up after a whole TTL; and no reading is
  in the future. Sampler: the present state is the last number drawn. Chain:
  `EveryMessageOnce` as a count, of hands, held parts, batches and outcomes in
  which a message occurs, which each step moves by one and back. Types:
  every message on its way is one (`Carried`), also after a stage has changed it
  (`ProcessedKeeps`) and when combine() has built it (`CombineKeeps`).
- *Batches.* `BatchSpeaksForParts` follows from what is recorded of a batch, that
  it is combine() of parts that are messages (`IsBatch`, part of `FlowInv`), and
  lemmas about combine()'s three loops: the merged routes are an enumeration of a
  finite set without repetition (`MergedRoutesOnce`), the value of a key after the
  metadata loop is that of the last part that has it (`MergeLast`, by induction
  over the loop), and the pieces of each part are in the payload behind those of
  the part before (`CombinedInOrder`, from `GatherPlaces`).
- *Gateway.* What was stored is what has left the buffer followed by what it
  holds, since push's loop drops from the front only, and what was handed to the
  emitters is a subsequence of the former (`Storage`). `ProcessedCount` is a sum
  of cardinalities: the inductive form (`Tally`) counts the places stored, less
  those uncounted or given up, and the sum follows because no two calls are
  about to count the same place (`Apart`), a batch having as many places as its
  answer has ids (`PlacesInv`). That the ids of an unread Ack were stored together
  is kept while the history grows (`Promised`). A stream that took a good batch
  after its client had left is on its way to the end of its loop (`OrphansInv`). `RegistryFanOut` speaks of
  the time between two rounds; during a round, what an emitter was called with
  together with what the calls still to be made have for it (`Due`) is what it
  must get, and this sum is fixed when the round begins (`PlanPending`) and
  kept by every call whatever it answers.

**Only model-checked**, and why:

- The liveness properties `ShutdownCompletes`, `EveryMessageOffered`,
  `OpenIsTemporary`, `HalfOpenResolves`, `CallsReturn`, `EmittersShutDown` and
  `StreamTasksEnd`: the installed provers do not reason about fairness and ENABLED.
- The properties of the runs that expect a violation are false.

Every other invariant and action property of the passing runs is a theorem.

## 5. Not modelled, and the plan

Not modelled, and why:

- health() everywhere, lengths and other getters: they read and change nothing.
- `config.rs` and the start of `main.rs`: parsing and wiring before anything
  runs concurrently. Prometheus registration and its HTTP server
  (`metrics.rs`, `metrics_server.rs`): the counters the Hub drives are in `Hub`.
- The JSON a webhook posts and what stdout prints: nothing reads them back.
- The generated clients, servers and codecs of `proto/polku.v1.rs`; tracing;
  error texts; benchmarks and CI.
- Floating point: the sampler's conversion of a rate to a threshold, and the
  exact value of the jitter.
- Functions a user supplies (predicates, transforms, enrichment, ingestors): their
  results are choices.
- Configurations outside the models' assumptions: batch_size 0 in the Hub, a
  rate above 10^9 per second (the interval becomes 0 and refill divides by it).
- Cancellation of a call of emit(): no code in the repository does it.

What could come next:

1. The action properties behind `ShutdownCompletes`: what run() and the flush
   task never undo, from which only the fairness argument would be left to TLC.
2. The throttle's bucket as an abstraction of `TokenBucket`, which takes the
   atomics inside it apart: a refinement that would join the two models.
3. Chains with several stages of one stateful kind, the state indexed by the
   stage.
