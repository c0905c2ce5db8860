# Verification of the IFC server and its pipeline

TLA+ models of the server in `src/upstream/apps/server` (an HTTP service that
parses IFC building models into geometry), of the parts of the pipeline in
`src/upstream/rust` that carry control, and of the session a browser worker keeps,
checked with TLC on small instances and, where a property matters for every size,
proved with TLAPS.

Paths below are relative to `src/upstream/` unless they start with `src/`.

## 1. The system

A client uploads an IFC file to one of six parse endpoints. The upload passes an
**admission gate** (bounded CPU slots, a byte-weighted memory budget, a bounded
queue and a resident-memory breaker) before it is buffered. The handler looks
into a **disk cache** keyed by content, filter and quality, and on a miss hands
the file to a blocking task that runs the **geometry pipeline**. Synchronous
endpoints wait for the result; streaming endpoints return a response whose
events a **streaming bridge** takes from the blocking task through an unbounded
channel. Tasks spawned behind the response fill the cache; fetch endpoints read
what the response left out.

    client --upload--> handler --acquire--> admission gate
                          |  \--look up---> disk cache <---fill--- spawned tasks
                          |                     ^                      ^
                          +--spawn_blocking--> geometry pipeline       |
                                                | events (mpsc)        |
    client <--SSE-- response stream <-- streaming bridge --complete----+
    client --fetch--> check / geometry / data model / symbols --> disk cache

Inside the pipeline a file is indexed by a **parallel scan**, its elements are
meshed chunk by chunk by a **pool of threads** that share a cache of repeated
sources, and its 2D symbols are extracted by a **walk over items**. The same
pipeline runs in the browser, where a worker keeps a **session** (`IfcAPI`) across
files and draws repeated sources as **instances**.

    bytes --shards--> parallel scan --index--> jobs --chunks--> element pool --> meshes
                                                 |                 |  ^
                                                 |                 v  |
                                                 |          shared source cache
                                                 +--products--> symbol walk --> symbols
    browser: load / settings --> IfcAPI caches --> batch --> flat meshes + instanced shard

### Inventory

| Component | State | Operations | Hard behaviours | What makes it correct |
|---|---|---|---|---|
| Admission gate, `apps/server/src/admission.rs` | two tokio semaphores, atomics `queued`, `in_flight`, `resident_bytes`, rejection counters | `acquire`, drop of the guard, `spawn_rss_sampler`, `shedding` | grants racing timeouts and dropped futures, a CAS loop, fixed lock order, clamped over-sized uploads | no permit lost or doubled, exact gauges, bounded queue, bounded bytes, every wait ends |
| Streaming bridge, `services/streaming.rs` | channel, cancel flag, batch counter, guard shared by task and stream | blocking producer with its callbacks, response stream, drop of either | client hangs up at any await, producer panics, producer outruns reader | event order, every mesh once, guard covers the work and what is undrained, prompt stop, end for a reader |
| Geometry pipeline, chunk loop, `rust/processing/src/processor/mod.rs` | jobs processed, meshes emitted | chunks, slices, callbacks, cancellation | chunks without meshes, batch sizes of 0 | all meshes in order; stops when asked |
| Parse endpoints, `routes/parse/*.rs` | per request: its guard, what it read, its tasks | six handlers, replay of a cached stream, fills, data-model task | two requests for one file, dropped handlers with running work, panics, failing writes, a killed process | guards accounted for, work within slots, cache fit for its readers, every computed response cached |
| Fetch endpoints, `routes/parse/fetch.rs`, `routes/cache.rs` | none | check, geometry, data model, symbols | fetch races fill | what an answered client was promised is there |
| Disk cache, `services/cache.rs`, `cache_keys.rs` | entries per key | get, set | partial fills, failed writes | no entry its reader cannot use |
| Router and process, `main.rs` | – | timeout, panic and body-limit layers | dropped handlers, restarts | modelled as events of the endpoints |
| Parallel entity scan, `rust/processing/src/parallel_scan.rs` | shards and a stitch | scan, stitch, rescan | shard boundaries inside strings, comments and records | equals the serial scan |
| STEP scanner and serial index, `rust/core/src/parser/scanner.rs`, `decoder.rs` | cursor | next entity | unterminated strings, damaged ids | reference of the parallel scan |
| Symbolic extraction, `rust/processing/src/symbolic/` | stack, path, revisit budget, output accumulator | walk of products, grids and items | shared items fanning out, cycles, caps that fire in the middle | bounded work, nothing dropped unreported, a cycle only where there is one |
| Element pool and shared source cache, `processor/mod.rs`, `rust/geometry/src/kernel/budget.rs`, `router/processing.rs` | counters of each thread, meshing stacks, the shared cache | take or steal an element, mesh an item, hit or fill the cache | work stealing re-enters a thread, budgets trip, nested and cyclic sources | what the cache serves is whole and exact |
| Browser session, `rust/wasm-bindings/src/api/` | a dozen caches, installed columns, settings, diagnostics | loads, installs, toggles, batches, clears | one object reused for other files and settings, panics between fills | a batch reads only its own file and settings |
| Instanced batch, `gpu_meshes/instancing.rs`, `batch_partition.rs`, `rust/geometry/src/instancing/collate.rs` | registry of sources, templates, placeholders | produce, resolve, recover, partition, collate | a template that trips, fails or is drawn flat after placeholders refer to it | everything drawn once, on the right pipeline |
| Readiness and metrics | – | read the gauges | – | – |
| Configuration and memory policy, `config.rs`, `mem_policy.rs` | – (pure, at startup) | resolve the environment | zero, unset and contradictory values | total, within limits |
| Authentication, error mapping | – | stateless | – | – |
| Parquet and data-model encoders | – | encode, frame | u32 length | – |
| Pre-pass, jobs, elements, styles, simplification | per file | per-entity transformation | – | – |
| Geometry kernel, exporters, clash detection | – | numerics, formatting | floating point | – |
| FFI, Python, WebAssembly bindings | thread pool, path for the panic hook | convert and call | – | – |
| Benchmark, deployment | – | – | – | – |

`PROJECT.json` has the same list with a status and a reason each, and the hazards
of the code at the line where they bite, with the properties that cover them.

## 2. The modules

| Module | Models | Role |
|---|---|---|
| `Semaphore` | tokio's batch semaphore as `admission.rs` uses it (external) | value with `TryAcquire`, `Acquire`, `Release`; permits have identities, waiters are served first come first served and may hold part of what they need |
| `AdmissionGate` | what `acquire` promises its callers | abstract specification |
| `Admission` | `admission.rs`, await by await and atomic by atomic | implements `AdmissionGate` |
| `EventStream` | what a client of a streaming endpoint is promised | abstract specification |
| `Streaming` | `services/streaming.rs` with the chunk loop of the pipeline | implements `EventStream` |
| `ParseServer` | the handlers of `routes/parse`, their tasks, the cache | composes `AdmissionGate` (over two jobs per request: the parse and the data-model extraction) with an abstraction of `Streaming` |
| `StepScanner` | the byte scanner `EntityScanner` | pure operators, a parameter of the two below |
| `SerialScan` | `build_entity_index` of `decoder.rs` | abstract specification of every index builder |
| `ParallelScan` | `parallel_scan.rs`: shards, stitch, rescans | implements `SerialScan` |
| `SymbolWalk` | the walk of `symbolic/` with its bounds and its accumulator | state machine over a stack of calls |
| `SymbolOutput` | what the symbols of a file are meant to be | reference definition, level by level, and the properties of the walk against it |
| `IfcSession` | the caches, slots and settings of one `IfcAPI` object | one action per exported call |
| `Instancing` | one partitioned batch of the browser path | template, placeholder, recovery, partition |
| `ElementPool` | the rayon pool of a chunk with the shared source cache | threads that mesh, steal, trip and cache |
| `ListFacts` | – | lemmas about sequences, `FlattenSeq` and the least and greatest of a set, used by the proofs |
| `Admission_proofs`, `Streaming_proofs`, `ParseServer_proofs`, `ParallelScan_proofs`, `SymbolWalk_proofs`, `ElementPool_proofs`, `Browser_proofs` (`IfcSession` and `Instancing`) | – | TLAPS proofs |
| `MCAdmission`, `MCStreaming`, `MCParseServer`, `MCScan`, `MCPipeline` | – | instances for TLC |

Definitions whose comment starts with *Mutation:* are defective variants of the
definition below them. No specification uses them; `PROJECT.json` pairs each with
the property that fails when it takes the place of the original.

### Admission

`cpu` and `mem` are the two semaphores, `queued`, `inFlight`, `rejected` and `rss`
the atomics, `pc` the place of each request's future. The steps of `acquire` are
`Arrive` (breaker), `TryCpu`/`CpuBusy` (fast path), `LoadQueued`, `ReserveSlot`,
`QueueFull` and `ReserveRetry` (the CAS loop), `PollCpu` and `CpuGranted`,
`LeaveQueue` (drop of the `QueuedCount` helper), `PollMem` and `MemGranted`, `Admit`.
`CpuExpire`, `MemExpire` and `Cancel` decide to end a wait; the waiter leaves the
semaphore's queue only in the next step (`CpuAbandon`, `MemAbandon`), so a permit
can still be granted to it in between, as it can between a timer firing and the drop
of the acquire future. `DropGuard`, `DropCpu`, `DropMem` are the drop of the
guard: the gauge, then the fields in order. Abstracted: the values of timers, and
the sampler's reading of `/proc` (any value of `RssSamples`).

### Streaming

`model` is a function from the number of jobs to the number of meshes they make, so
meshes are numbers in pipeline order and a batch is an interval. The blocking task
goes from `queued` through `loop` (`MeshChunk`, `OnBatch`, one `SendEvent` per event)
to `symbolic`, then drops its share of the guard and its sender; `Panic` unwinds it
from anywhere. The response stream yields, joins the task when the channel is
closed, or is dropped (`HangUp`), share first and receiver last. Abstracted: what a
mesh is; the deferred-style path (`fast_first_batch`), which the server never
turns on.

### ParseServer

One record of state per request: `kind` (endpoint), `key` (content, filter and
quality in one value), `pc`, `found` (what it read), `work` (blocking task), `polled`,
`rows` and `writer` (the cache writer of the Parquet stream), `todo` (entries each of
its threads still writes), `model` (data-model task). The cache has five entries per
key: `json`, `blob`, `meta`, `dm`, `sym`; each remembers who wrote it and how many
batches it has. A handler can be dropped at every await (`Cancel`), a stream in
every state (`HangUp`), the blocking work can panic, a cached blob can turn out short when it is
replayed (`ReplayUnreadable`: the upload is parsed after all), a write can fail and be
logged, serialization can fail, the process can be killed between any two steps
(`Crash`), after which only the cache is left. Three tables say what distinguishes
the endpoints: `Reads`, `InlineWrites` and `FillWrites`, in the order of the code.
Entries are written atomically: `cacache` writes to a temporary file and renames.
Left out: `GET /cache/{key}` (a single read), `has`/`remove`/`clear` (never called by
a handler), a JSON stream's events (in `Streaming`), key strings.

### StepScanner, SerialScan, ParallelScan

A file is a sequence of tokens: the bytes that mean something to the scanner (`#`,
`=`, `;`, `'`, `/`, `*`, digits), the mark `DATA;`, and any other byte. `NextEntity`
maps a file and a position to the next record or to none, string by string and
comment by comment; `DataStart` is `data_section_start`. `SerialScan` inserts the
records of a file one after the other. `ParallelScan` takes the scanner as an operator
parameter: `ScanRecord`, `ScanHandoff` and `ScanEof` scan the shards in any
interleaving; after `Collect` the stitch inserts what it keeps of a shard
(`InsertKept`, `KeptDone`), looks the handoff up in the next one (`NextChunk`) or walks
the range again (`WalkRecord`, `WalkEnd`). The index is the sequence of insertions, so
equality with the serial one covers repeated ids, of which the later wins.

### SymbolWalk, SymbolOutput

A file is a graph of nodes with the products (lists of top-level items, or the
payloads of a grid). `stack` holds the calls of `extract_symbolic_item_at`, each with
the elements it has still to visit; `path`, `seen`, `budget` are the fields of
`ItemWalk`, `emitted`, `bytes`, `reason`, `exhausted` those of the accumulator.
`Enter`, `TooDeep`, `Full`, `Revisit`/`Spent` are the guards at the top of that function
in their order; `Cycle`, `Emit`, `Skip`, `DescendSet`, `DescendMapped` the arms of
`extract_symbolic_item_inner`; `Return` removes the node from the path. A primitive is
its item with the mapped items it was reached through and costs its payload plus an
overhead. `SymbolOutput` unrolls every path of the graph, as deep as the walk may go and without its
budget and its caps: `Unrolled[n]` is what each item comes to when `n` levels are followed.

### IfcSession

The worker has one thread, so each exported call is one step. A cache is named by
the file it was filled from, a mesh by file, quality and the small-cut skip. The
actions are the pre-pass, `setEntityIndex` (with the early return for empty columns),
the installers, `setSourceBytes`, `clearPrePassCache`, the three toggles, a batch
(`Batch`, `BatchFromSource`, with every combination of what it consults) and a batch
that panics after some of the caches were filled, those of meshes too once it has come to its jobs. What the host promises (clear
before the next pre-pass, columns and bytes of the current file) is in the guards,
with the comments it comes from named at the head of the module.

### Instancing

`Template` and `Placeholder` mesh or defer a planned source (`Planned` excludes
voided elements and type products), `Materialize` is the per-element path, `Resolve` keeps or
recovers the groups of placeholders, `Tally`, `Partition` and `Collate` split what was
produced into flat meshes and the instanced shard. Lists are taken apart by the set of places that is
wanted (`OfRep`, `Only`), in which the code's filters and its groups by rep become one notion.

### ElementPool

Each worker has a stack of frames: an element, and on top of it the mapped sources
it is meshing, and, above a large faceted brep (at least 64 faces, where the code opens
a nested parallel loop), another element that the thread stole while it waited.
`elemCount` and `opCount` are the thread-local counters of `budget.rs`, reset by
`begin_element` and by each Boolean operation. The caps belong to the scene and have any value, as the environment
and `set_cap` may set them, 0 for unbounded (`OpSpent`, `ElementSpent`). An operation that finds either budget
spent bails at some check from there on, so `CutItem` counts any number from the cap to its cost. An item whose processor fails
is left out of a source (`SkipItem`) and ends an element (`FinishElement`). `RefuseMapped`, `HitMapped`, `EnterMapped` and
`LeaveMapped` are `process_mapped_item_cached_inner`/`_body` with the depth cap, the visited
set, `level_truncated` and the guard of the insert (`Keepable`). A mesh is the set of items
it was merged from and whether every cut in it was carried out.
Left out: joins inside the operands of a cut, the per-router cache that exists only
without the shared one, the degenerate tally (section 6).

## 3. What the runs check

| Run | Question | Bounds, and why they are enough |
|---|---|---|
| `admission_safety` | are permits, gauges, bytes and counters right, does the CAS loop keep the queue within its depth, and does the whole implement `AdmissionGate`? | 4 requests, 2 slots, 2 units of budget plus a remainder, queue of 1; uploads below one permit and above the whole budget. Two inside or parked on the budget, two racing for the one queue place; rounding up, clamping and the breaker occur. |
| `admission_live` | does every `acquire` return? | 3 requests, 2 slots, 2 units, small uploads and ones that take the whole budget: slot holders wait for budget held by other slot holders. |
| `stream_safety` | does the client see what `EventStream` promises, does the guard cover the work, is little done for nobody, does a hang-up free the guard, is a reader served? | every model of up to 4 jobs with up to 2 meshes each, first chunk 1 job, later ones 2: empty, first, middle and last chunks with and without meshes, batches cut inside a chunk. |
| `server_safety` | are guards, slots and the cache right whatever two endpoints are called? | 2 requests of any of 10 kinds, 1 key with 2 batches, 2 slots, disk, serialization and panic faults, one restart, one failed write. Two batches distinguish a partial blob from a whole one; one key is where requests interfere. |
| `server_live` | does everybody leave, is every computed response cached? | 2 requests, 1 slot (the data-model task competes with its own stream), a key with one batch and one with none, panics. |
| `scan` | does the sharded scan build the serial index, and does it end? | every file of up to three of eight fragments (a record, a damaged one, a quote, a semicolon, either comment mark, an unterminated record, `DATA;`) and longer ones with strings over several ranges, in 1 to 4 ranges. Three fragments are enough for a range to begin inside a string or a comment, to find a record in it that is none, and to hand over to a range that did not find that record. |
| `pipeline` | are the symbol walk, the browser session, the instanced batch and the element pool right? | four parts that share no state; each behaviour works in one. Symbols: files of 5 nodes, with sharing, cycles, grids, a ladder of fan-outs and a list that comes back to its items, under bounds that all fire. Session: 2 loads of 3 files, an empty one among them. Instancing: up to 4 jobs of 9 kinds over two sources with a threshold of 3. Pool: 2 workers, 3 elements, sources that nest, form a cycle, exceed the depth of 2 or are missing, items that fail, and three settings of the caps: that of an operation above that of the element (3 and 2), below it (2 and 4), and off. The workers are symmetric, and so are the two files with entities. |
| `stream_stops`, `server_symbols`, `server_model`, `pipeline_cuts`, `pipeline_blend` | do five statements of the source hold? (section 6) | small instances that decide. |

No run checks deadlock: a server whose bounded set of requests has been served
stops, and so do a scan, a walk and a pool that are done. What could be a real deadlock
(waiting on a semaphore, on a channel or on a task for ever) is what
`JobsEndingServes`, `TimerBoundsWait`, `ReaderIsServed`, `EveryoneLeaves` and `ScanEnds` exclude.

Bounds that are in the models: `MaxCrashes` (restarts) and `MaxLost` (entries whose
write failed) in `ParseServer`; `MaxLoads` in `IfcSession` and `MaxJobs` in `Instancing`;
requests arrive once each in `Admission` and `ParseServer`, so the rejection counters are
bounded by the number of requests. Symmetry is used over requests, slots, units, the workers of the pool and the files of a session in
safety runs (`GateImplemented`, a `[][A]_v` formula, included), never in a run with a
liveness property. A memory budget switched off or below one permit, a configured 0 slots and a longer queue are not in a run: the
safety theorems of section 5 hold for every configuration; that somebody is admitted with 0 slots configured is
not checked (hazard at `admission.rs:123`).

The properties, by what they relate:

* `SemaphoresSound` – every permit is in exactly one place, a waiter at the head of a
  queue really lacks permits, nobody overtakes.
* `InFlightBacked`, `QueueBounded` – a gauge against the requests it counts; it
  holds although the gauge and the semaphore are changed in separate steps.
* `AdmittedBytesBound` – the sum of the admitted reservations against the budget.
* `CpuBeforeMem` – the lock order, also while a failed wait is being undone.
* `RejectionsCounted`, `NothingLeaks` – counters against outcomes; everything
  against startup once all have gone.
* `GuardCovers` – the admission guard against the running task and the undrained
  batches. `LittleWorkForNobody` – work after a hang-up.
* `GuardsAccounted`, `WorkWithinSlots` – who is inside the gate against who works.
* `CachedWhole`, `FilledInOrder`, `FreshIsFetchable` – the cache against its readers.
* `FreshGetsCached` – what was computed to its end against the cache in the end. A response counts from the moment its
  handler has built it or its stream has yielded `complete` (`PollComplete`), and goes on to count when the client hangs up there.
* `SearchedSorted`, `HandoffIsReal`, `MatchesSerial` – what a shard believes against
  where the serial scan stands.
* `WorkBounded`, `CutIsReported`, `NothingLost`, `CycleIsReal` – the work of the walk
  against the size of the graph, its report against what was dropped.
* `SlotsOfTheLoad`, `MappedAsAsked`, `LoadsNotMixed` – what a batch reads against the
  file and the settings it was asked for.
* `DrawnOnce`, `GroupsPay` – the flat and the instanced output against the jobs.
* `ServedWhole`, `ServedExact` – what the shared cache serves against what the source is.

## 4. Fairness

* `Admission!FairSpec`: weak fairness of each request's own steps – tokio polls
  every runnable task. Tokio's semaphore is FIFO, so nothing stronger is needed.
  That jobs end (`JobsEnd`) and that timers fire (`TimersFire`) are premises of the
  two properties and not part of the specification; each is used without the other.
* `Streaming!RunsSpec`: the blocking task is an operating-system thread, and a drop
  runs to its end. That the client reads on (`ClientReads`) is a premise of
  `ReaderIsServed` only: the code promises nothing to a client that stalls.
  `HangUp` and `Panic` are never forced (`Panic` is a step of the task, but never the
  only one enabled).
* `ParseServer!FairSpec`: per request, weak fairness of its handler or stream, of its
  blocking work, and of its spawned tasks. The gate decides in the end, which is what
  `JobsEndingServes` and `TimerBoundsWait` establish one level down. `Cancel`,
  `HangUp` and `Crash` have no fairness.
* `ParallelScan!FairSpec`: some shard that can go on does (a pool of threads), and the
  stitch, a sequential loop, goes on.

## 5. What is proved

### Admission

For every number of requests, every configuration (`ConfigAssumption`: naturals, a
percentage, a positive permit size) and every permit set of the size
`Admission::new` computes (`PermitsAssumption`):

| Theorem of `Admission_proofs` | Statement |
|---|---|
| `AdmissionTyped` | `Spec => []TypeOK`; the gauges are naturals, so they never underflow |
| `AdmissionSemaphoresSound` | `Spec => []SemaphoresSound` |
| `AdmissionInFlightBacked` | `Spec => []InFlightBacked` |
| `AdmissionBytesBound` | `Spec => []AdmittedBytesBound` |
| `AdmissionQueueBounded` | `Spec => []QueueBounded` |
| `AdmissionCpuBeforeMem` | `Spec => []CpuBeforeMem` |
| `AdmissionNothingLeaks` | `Spec => []NothingLeaks` |
| `AdmissionRejectionsCounted` | `Spec => []RejectionsCounted` |
| `AdmissionImplementsGate` | `Spec => GateImplemented` |

None of the invariants is inductive alone: that a gauge is exact needs to know
who may hold what at each point of `acquire`. The strengthening is
`IInv == TypeOK /\ SemaphoresSound /\ Asked /\ Decided /\ Gauges`, where

* `Asked` says for each place in `acquire` what the request has asked of either
  semaphore and whether it may be parked there,
* `Decided` relates a place to the outcome decided so far,
* `Gauges` is the exactness of both gauges and the bound of the queue.

`InitIInv` and `NextIInv` establish `Spec => []IInv`; `NextIInv` has one lemma per
conjunct and in it one case per action. The other theorems follow from `IInv` state
by state (`NothingLeaks` from `Asked` and `SemaphoresSound`, `CpuBeforeMem` by an
injection of memory waiters into CPU slots), except `RejectionsCounted`, which has an
induction of its own, and `GateImplemented`, a step simulation in which `Admit`
maps to the gate's `Admit`, each decision against a request to `Refuse`, `DropGuard` to
`Leave`, and the rest stutters.

`AdmittedBytesBound` is a sum over the admitted requests. Whoever shares the budget was not clamped
to all of it (`SharedBudget`), so its bytes are covered by its permits (`ReservationCovered`, the rounding up);
its permits are its own (`SemaphoresSound`), and a sum of what disjoint sets of permits cover is
covered by their union (`SumWithin`, by induction over the number of requests).

A section of `Admission_proofs` has the lemmas about the external semaphore: `TryAcquire`,
`Acquire` and `Release` preserve `SemaphoreInv`, leave the permits of everybody
else as they are or add to them, and unpark only who has all it needs. `Semaphore` is
defined with sets and set comprehensions rather than recursion so that it can be
reasoned about.

### Streaming

`Streaming_proofs` (assuming that a model's mesh counts do not decrease and that the
batch sizes are naturals):

| Theorem | Argument |
|---|---|
| `StreamingTyped` | inductive as it stands; `ChunkWithin` and `SliceWithin` are the arithmetic of chunk and slice ends |
| `StreamingGuardCovers` | from `Shared`: who has a share of the guard is a function of where task and stream are |
| `StreamingLittleWork` | from `LastChunk`: the one chunk begun for nobody still has its callback to come, or has raised the flag |
| `StreamingKeepsContract` | `Spec => ContractKept`, the refinement of `EventStream`, from `Bridged` |

The client sees an event long after the task sent it, and what makes the event legal is known to
the task at that time only. `Bridged` therefore speaks of the whole log – what was seen, what is in
the channel and what the callback is about to send – and says that while the response is open every
event of it may come after those before it (`WellFormed`), and that its batches, its meshes and its
progress are what the counters of the task say. Sending moves an event within the log
(`MoveOne` of `ListFacts`), so only the steps that make events have something to show. A yield then maps to
`Send` because a prefix of a well-formed log is well formed, the error after a panic because a
task that unwound never sent `complete`, and everything else stutters. The invariant promises nothing after a
hang-up: the client sees no more, and what is still sent is dropped.

### Parse endpoints and cache

`ParseServer_proofs` (assuming a finite set of slots, a number of batches for every
key, and that the absent entry is no entry), for every number of requests, keys,
batches, faults and restarts:

| Theorem | Argument |
|---|---|
| `ParseServerGuards` | `GuardsAccounted` request by request (`Guarded`) together with `Places`: in which place of the handler the blocking task and the data-model task can be in which state, hence who is the last to drop the guard |
| `ParseServerWork` | whoever works is inside (`Guarded`), whoever is inside has a slot of its own (`SlotsOwned`, a property of `AdmissionGate` alone), so workers inject into slots |
| `ParseServerCachedWhole`, `ParseServerFilledInOrder`, `ParseServerFreshIsFetchable` | from `CInv`, below |
| `ParseServerTyped` | from `Places`, `Guarded`, `CInv`, and for the gate's own variables `SlotsOwned` and `SharesOwned` |

What the cache promises is a matter of what other requests still have to write.
`CInv` adds, for each request, `Owes` and `Progress`. `Owes` has three parts: `Owing`, which
lists a thread can have left to write and from where on; `Inlined`, that what the
handler wrote before it answered is there; `Filled`, that what the fill task has written
is there and what it has left of a stream is whole. `Progress` says that a writer that is
left holds as many rows as batches were polled. A write
that fails counts as made (`lost`), so the order survives faults; a restart leaves the
disk and clears every debt; `DiskSound` also says that who wrote an entry has
arrived, so that a new request cannot change what an entry stands for. There is one
lemma per action (`WriteKeeps` is the long one); two general ones, `RequestStep` and
`EndKeeps`, say what a step of one request leaves alone.

### Parallel scan

`ParallelScan_proofs`, for every file, every number of ranges and every scanner that
answers a record again when it is put at its start (`ScannerAssumption`, which TLC checks of
`StepScanner` on every file of the run):

| Theorem | Argument |
|---|---|
| `ScanTyped`, `ScanSorted`, `ScanHandsOver` | parts of the invariant |
| `ScanIsSerial` | `MatchesSerial`: each step of the stitch inserts what the serial builder inserts next, or stutters |

The invariant says that the records of a range are the scanner's answers one after the
other (`Chained`), that a finished range hands over the next record or there is none
(`HandedOver`), and where the serial builder stands in each phase of the stitch (`InStep`).
Where a range begins plays no part, which is why a shard that starts in a string does no
harm: its records are used only from the position the predecessor proved.

### Symbol walk

`SymbolWalk_proofs`, for every file (a finite graph) and all bounds: `SymbolTypes`,
`SymbolPathIsStack` (a node is on the path exactly while a call that entered it is under
way), `SymbolWorkBounded` (entries of one top-level item are at most the nodes plus the revisit
budget; from `Balanced`: entered + budget = seen + `MaxRevisits`) and `SymbolCutIsReported`. Two theorems
compare the walk with `SymbolOutput`:

* `SymbolNothingLost` (`NothingLost`). `Accounted` says that, while nothing is reported, what was emitted, what each call under
  way still comes to, innermost first (`Pending`), and what the remaining products come to make
  up the output of the file. Every action moves a part of this from the right to the left or unfolds it by one
  level. An item at depth `k` comes to `Unrolled` of `MaxItemDepth - k` levels, so the depth guard of the walk
  and the end of the unrolling meet exactly.
* `SymbolCycleIsReal` (`CycleIsReal`). `Linked` says that whatever a call still has to visit lies in every closed set
  that holds the references of a node on the path up to it. A node found on the path is then among what its own references
  lead to; a node that is merely shared is not on the path when it is met again, by `SymbolPathIsStack`.

### Browser session

`Browser_proofs`, for any set of files, qualities and loads: `SessionTypes`,
`SessionFollowsTheLoad` (`SlotsOfTheLoad`), `SessionMapsAsAsked` (`MappedAsAsked`) and
`SessionCountsOneLoad` (`LoadsNotMixed`). `CachesFollow` carries them: between loads nothing derived is left, and
within a load every cache that a batch can read is empty or of the loaded file, the mapped source of the
settings in force.

### Instanced batch

`Browser_proofs`, for a batch of any length of any jobs, every plan and every threshold: `InstancingDrawsOnce`
(`DrawnOnce`) and `InstancingPays` (`GroupsPay`). Assumed is that what a job says of itself is true or false, that the
threshold is a natural number, and that the mark of a mesh without a rep is no rep (`InstancingAssumption`).
Both properties speak of the end; the invariant carries them through the five
steps. `InstancingInv` is the conjunction of

* `Once` – no job is twice in a list or in two of the lists, of which there are meshes, placeholders and flat jobs;
* `Complete` – a job that is not broken is in one of them, or may be lost; a broken one is in none;
* `Sourced` – a source is marked exactly when the batch uses it, a placeholder is of a planned source that was
  used before, and a source of which some placeholder had the budget is in the registry, so that what is not
  recovered may be lost;
* `Grows` – the thresholds: what `Resolve` keeps reaches the threshold together with the one candidate that stands for
  it, so `Partition`, which counts candidates and instances, leaves the template in the shard, and `Collate`, which counts
  the same set again, regroups all of it. This is where two counts made from different lists must agree, and where an
  instance would be lost if the template alone went flat.

Each of `Resolve`, `Partition` and `Collate` has a lemma about what `Only` keeps of a list, and the shard draws a job once because
a job has one rep and a rep has one group.

### Element pool

`ElementPool_proofs`, for every scene, number of workers, depth bound and setting of the two caps, unbounded
ones included: `PoolServesWhole` (`ServedWhole`) and `PoolServesExact` (`ServedExact`). The invariant describes every frame of
every stack: one that says it is not short has merged its items so far, nested sources whole (`MergedSoFar`); a frame with a
cut that was given up (`GivenUp`) still has it on the account of the thread, or a large brep is in the source, or its cuts mask each
other (`AccountedFor`, `Under`). Given up on the budget of the element, the account of the element stays spent up to the next
`begin_element`. Given up on the budget of the operation alone, the account of the operation stays spent up to the next
cut: a cut that reaches the cap spends it again, a cut that does not can only be there where `Masks` holds, and where the cap of
the element is not above that of the operation the element is spent with the operation. That an item met within its own walk makes its holder short is what keeps
cycles out of the cache.

### Lists and recursion

`ListFacts` proves what the above need of `FlattenSeq` (the first part and the rest, concatenation), of
appending and of the least and greatest member of a finite set. `FlattenSeq` is a recursive function
of the community modules; its facts are proved by induction over a length, with the induction set written
out (`NatInductive` states induction as a fact about subsets of `Nat`), because an induction theorem that
takes a predicate as its parameter cannot be instantiated here. For the same reason no module that is
proved about has a recursive operator: `Unrolled` is a recursive function of the depth,
a fold becomes a sum with a lemma for one more member, and a selection from a list is the set of places selected.

### Only model-checked

* Liveness, that is `HangUpFreesGuard`, `ReaderIsServed`, `JobsEndingServes`, `TimerBoundsWait`, `EveryoneLeaves`,
  `FreshGetsCached` and `ScanEnds`: reasoning from fairness needs `ENABLED`, which the prover does not handle.
  Every invariant and every safety property that a passing run checks is a theorem.
* The semantics of `StepScanner`: what it finds in a file is a recursion over the file. `ParallelScan` is
  proved for every scanner with `ScannerAssumption`, and TLC evaluates that assumption for `StepScanner` on every file of the run.

## 6. Where source and comments differ

* `StopsBetweenChunks` (run `stream_stops`): the comment at
  `apps/server/src/services/streaming.rs:83` has the pipeline stop between chunks
  once the client is gone. The flag is raised in the batch callback only, and a
  chunk without meshes does not call it; `LittleWorkForNobody` is what does hold.
* `ReplayHasSymbols` (run `server_symbols`): the replay of a cached stream loads
  the symbols for parity, but they are written by a task unordered with the one that
  writes the geometry, and an absent entry replays as an empty one.
* `NextRebuildsModel` (run `server_model`): the data-model task that the gate turns away
  relies on the next request to extract the model; the next request hits the cached
  geometry and does not.
* `ItemAsAsked` (run `pipeline_cuts`): `rust/wasm-bindings/src/api/mod.rs:732` names the case of
  "a worker reused by a full-fidelity export after a `fast` load" and drops the mapped
  sources for it, but the cache of deduplicated items, whose key has no small-cut flag
  (`rust/geometry/src/router/processing.rs:775`), is kept: the export is served the Boolean item
  that was meshed without its small cuts.
* `TransparentStaysFlat` (run `pipeline_blend`): `gpu_meshes/batch.rs:800` keeps transparent
  geometry on the flat pipelines "for correct blending", but a group of occurrences is judged by
  its template alone (`gpu_meshes/instancing.rs:79`), so a transparent occurrence of a source with
  an opaque template is drawn by the instanced one.

`ServedExact` has two exceptions that follow from the code, and is proved with them. The guard of the
insert (`router/processing.rs:1062`) keeps a source that was cut on a spent budget out of the
model-wide cache, and `rust/processing/src/element_degenerate.rs:27` calls a thread-local count correct
because a worker runs an element entirely on one thread. It does, but not without interruption: at
the nested join of a large faceted brep (`processors/brep/faceted.rs:439`) the thread may steal another
element, as the comment at `processor/mod.rs:1405` says, and the `begin_element` of that one
resets the count. A source that holds a cut and, after it, a large brep can so enter the cache
uncut. The other exception needs no brep. The guard asks `tripped()`, which looks at the count of the last operation and at
that of the element, and `begin()` (`kernel/budget.rs:176`) starts the former anew. With the default caps an operation that
spends its own budget has spent that of its element too. But `IFC_LITE_CSG_BUDGET`, `IFC_LITE_CSG_ELEMENT_BUDGET` and `set_cap` can set the cap
of an operation below that of the element; a costly cut then trips with budget left to the element, a cheap cut after it begins
anew, and the source enters the cache with the first cut not carried out (`Masks`). A source without a large brep
cannot under the default order of the caps, and under the other order only if it has a cut of either kind. Apart from this, sources that come from the cache
cost nothing, so which element trips depends on who meshed a shared source first: the trip point
is not the pure function of the operands that `kernel/budget.rs:20` describes once elements share
sources. The tally of degenerate drops is thread-local in the same way and is not modelled.

Noted while reading, no property:

* `GET /cache/{key}` looks up the key it is given while the JSON response is stored under that
  key with a suffix (`cache_keys.rs`); the cache check answers from the geometry alone although
  the geometry fetch needs the metadata too (`fetch.rs:127`, `fetch.rs:140`).
* `pipeline_diagnostics.rs:24` and `:76` say that `clearPrePassCache` resets the diagnostics;
  `mod.rs:390` explains why it does not.
* The head of `gpu_meshes/instancing.rs` (`:18`) says that recovery leaves no geometry lost. The comment on
  `recover_flat` (`:106`) names the exception, a source that is missing from the registry because the budget of
  every placeholder tripped; `DrawnOnce` has the same one (`MayBeLost`).
* `setEntityIndex` returns early for empty columns (`mod.rs:423`), so a load of a file without entities
  leaves the diagnostics of the load before it; it draws nothing, so `LoadsNotMixed` holds.

## 7. State of the plan

1. `Semaphore`, `AdmissionGate`, `Admission`: modelled, every safety property proved, the refinement included.
2. `EventStream`, `Streaming`: modelled, every safety property proved, the refinement included.
3. `ParseServer`: modelled, every safety property proved.
4. `StepScanner`, `SerialScan`, `ParallelScan`: modelled, every safety property proved, the refinement included.
5. `SymbolWalk`, `SymbolOutput`, `IfcSession`, `Instancing`, `ElementPool`: modelled, every safety property proved.

Left out so far: the native global-template mode of instancing (`rust/processing/src/processor/instancing.rs`).

### Not modelled

* The generated IFC schema and attribute tables (`rust/core/src/generated/schema.rs`,
  `apps/server/src/services/data_model/generated/attr_indices.rs`) and what reads attributes from them:
  data.
* The geometry kernel, Boolean operations, triangulation, clash detection, simplification and the
  exporters, by far the largest part of the repository: floating point over large inputs, sequential,
  without control state a model checker could explore. Their effect on control (a cost, a trip, a
  failure, an empty mesh) is in the models.
* The Parquet and data-model encoders, authentication, error mapping, readiness and metrics:
  stateless or pure reads. Configuration: pure, at startup; `Admission` covers every value it can give.
* Bytes held outside the gate, sizes that exceed `u32`, clients that stall: hazards listed in
  `PROJECT.json` with the reason why no property covers them.
* The language bindings except the browser session, the benchmark, the deployment files.
