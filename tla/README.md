# Verification of opensearch-proxy

TLA+ models of the multi-tenant OpenSearch proxy in `src/`, checked with TLC on
small instances, with theorems checked by TLAPS: migration, isolation of writes and
reads, bulk answers and order, the sink's pools, the ingress bounds, directives,
capture and async writes, affinity and start-up.
`PROJECT.json` is the machine-readable index: components, runs, mutants, the map
from definitions to source lines, findings, hazards and theorems.

## 1. The system

Clients speak the OpenSearch HTTP API to a fleet of identical, stateless proxy
instances.  Each request is classified, resolved to a partition (tenant) and to
the partition's placement (cluster, index, shared or dedicated), rewritten so
that it can only touch that partition's documents, dispatched to an upstream
cluster, and its response rewritten back.  Partitions move between placements
while requests are running.

| Component | State | Operations | Interacts with |
|---|---|---|---|
| Placement table (`osproxy-tenancy`) | entry per partition (state, epoch), an atomic generation counter | `set`, `begin_migration`, `enter_cutover`, `complete_migration`, `abort_migration`, `get`, `admit_write` | polled by every request, driven by the controller |
| Migration controller (`osproxy-control/migration.rs`) | `cutover_at` per partition, a clock | the four transitions, with a drain barrier before the flip | the table, through an async store that may be remote |
| Write path (`osproxy-engine/endpoints.rs`) | none of its own | resolve, transform, gate, dispatch | the table (twice), the sink |
| Bulk demultiplexer (`bulk.rs`, `bulkprep.rs`) | per request: resolution cache, a buffer per target, response lines | buffered, streamed and async ingest | the table, the sink, the write queue |
| Read path (`endpoints.rs`, `read.rs`, `mget.rs`, `msearch.rs`) | per request: plan, slots | get, search, count, multi-get, multi-search | the table, the sink |
| Cursors (`cursor.rs`, `pit.rs`) | signed tokens held by clients, contexts on clusters | scroll, continue, clear, point-in-time open, search, delete | the sink, several clusters |
| Tenancy and rewriting (`osproxy-tenancy`, `osproxy-rewrite`, `plan.rs`) | none | partition and placement resolution, id templates, field injection, filters | engine |
| Body readers (`rewrite/bulk.rs`, `core/json.rs`, `search_scan.rs`) | scanner state per body | line framing, JSON reading, splicing, shaping of hits as they stream | engine |
| Upstream sink (`osproxy-sink`) | a pool per cluster, a breaker per pool | `pool_for`, `send`, body reads, `write`, addressing, headers | upstream clusters |
| HTTP ingress (`osproxy-transport`) | live-connection count, in-flight byte budget | accept, serve, shed, drain, classify | the request handler |
| Request handler (`osproxy-server/handler.rs`) | request counter, switches | TLS check, authenticate, authorise, choose a path, capture | all of the above |
| Directives (`osproxy-observe`, `osproxy-etcd`) | the directive set in force, the watch | publish, watch, decode, expire, judge a request | etcd, the handler |
| Observability (`osproxy-observe`) | explain store, break-glass tape, counters | record, explain | the handler |
| Affinity table (`control/affinity.rs`) | bounded map with lifetimes | pin, resolve, release | none yet |
| Spill buffer (`osproxy-kafka-wal`) | a log file, a checkpoint file, two offsets | `produce`, the drain loop, compaction | capture, broker |
| Capture and async writes (`osproxy-kafka*`, `asyncwrite.rs`, `dbq.rs`, `fanout.rs`) | permits, a queue topic | deliver with retries, enqueue with acknowledgement | broker, an applier |
| Configuration and start-up (`osproxy-config`, `main.rs`) | three layers of settings | load, resolve, wire, serve | everything, once |

### What is hard here

* **A write racing a migration.** The placement is read at one await, the gate is
  passed at a second, the bytes go out at a third.  The flip must not come between
  the gate and the last byte; only time (the drain barrier) separates them.
* **Multi-step methods.** `set` takes its epoch before the lock;
  `complete_migration` reads a clock, reads a state, tests, flips and clears in
  five steps; a controller may die between any two.
* **Files and kills.** The spill buffer moves two files that are not updated
  atomically, under kills, full disks and power loss.
* **Shared counters under cancellation.** Requests are dropped at any await; the
  byte budget, the connection count and the breaker must survive that.
* **State that outlives its placement.** Cursors, multi-get plans and queued writes
  are made under one placement and used under another.
* **Incremental readers.** Bulk lines and search hits are cut by frames anywhere;
  the streamed answer has to be the buffered one.
* **A watch over a connection that breaks**, with a re-read that is not atomic with
  the watch.
* **Identity across restarts.** Op ids and request ids are made by a process and
  read by others.
* **Out-of-order completion.** Sub-batches of one bulk request complete in any
  order, and outcomes of old requests reach the breaker late.
* **Bounds.** Buffers at their thresholds, the log at its cap, the budget at its
  ceiling.

What makes each part correct: the table never admits a decision for a placement
that is gone; the controller never flips early; the fleet never lets a write land
in a left placement; the bulk answers every item once and truthfully and keeps
order; the sink shields a failing cluster and returns to a recovered one; the
ingress bounds memory and stops in time; the spill buffer keeps what it took;
a response shows a partition nothing but its own documents and those of a cursor whose
token it bears, under ids that lead back to them; a cursor goes back to where it was opened; readers of bodies agree with the
whole body; directives in force are one published set; an accepted async write is in
the queue; an instance that starts has every part it was told to have.

## 2. Modules

| Module | Models | Kind |
|---|---|---|
| `PlacementTable` | `placement_table.rs`, `tenancy/migration.rs` | component |
| `ControlPlane` | `control/migration.rs` over `PlacementTable` (extends it) | composition |
| `MigrationFleet` | the requests of the whole fleet beside `ControlPlane` (extends it) | composition |
| `PartitionHome` | what migration promises: a home moves only when nobody writes to it | abstract specification |
| `Tenancy` | resolution, targets, id templates, filters and shaping as operators | pure functions |
| `Requests` | the handler's gate and every endpoint, over `Tenancy`, with the clusters' documents and contexts, while partitions move | composition |
| `BulkDemux` | `bulk.rs`, `bulkprep.rs`, `retry.rs` | component |
| `BulkText`, `JsonText`, `SearchScan` | the three readers of bodies, each beside the text it reads | components |
| `StringScan` | the vector search for the end of a string in `core/json.rs`, which `JsonText` extends | pure functions |
| `Ingress` | `server.rs`, `http_io.rs`, `admission.rs` | component |
| `Clock` | `core/time.rs`, shared by what expires | component |
| `Directives` | `etcd/watch.rs`, decoding, the decision on a request, the records it leaves | component |
| `CursorAffinity` | `control/affinity.rs` | component |
| `Startup` | `osproxy-config`, `main.rs`, the wiring of capture, fan-out and directives | component |
| `UpstreamSink` | `pool_for`, `send`, body reads, `breaker.rs` | component |
| `Egress` | `classify.rs`, `forward_headers.rs`, `core/trace.rs`, `wire.rs`, `read.rs`, what `send` puts on a request | pure functions and one request |
| `KafkaWal` | `segment.rs` and the drain loop of `kafka-wal/lib.rs` | component |
| `DurableQueue` | at-least-once, in-order queue | abstract specification |
| `Fanout` | capture delivery and async writes, with restarts and an applier | composition |
| `*Proofs` | theorems about the modules they extend: `MigrationProofs` about the table, the controller and the fleet, `BodiesProofs` about `SearchScan`, `BulkText` and `StringScan`, `DeliveryProofs` about `Fanout` and `KafkaWal`, `EdgeProofs` about `Ingress`, `CursorAffinity` and `Startup`, `UpstreamProofs` about `UpstreamSink`, `RequestsProofs` about `Requests` and `Egress`, the others about the module they are named after | proofs |
| `MC*` | instances for TLC; `MCEdge`, `MCBodies` and `MCDownstream` put side by side components that share no state, one of which a behaviour follows | model checking |

Operators named after a Rust function (`enter_cutover`, `pool_for`'s two steps
`pool_lookup` and `pool_create`, `maybe_compact`) model that function.
Definitions marked "Mutant, in no specification" are deliberately wrong variants; no
specification uses them.  Each is substituted for the definition that follows it
to confirm that a property really depends on it.

### How state and steps correspond to the code

* **A lock is a step, an await is a boundary.** Whatever runs under one lock is
  one step.  Code between two awaits that touches only the task's own data is
  merged into the neighbouring step.
* **PlacementTable.** `entries` is the map under the `RwLock`, `generation` the
  `AtomicU64`.  A transition allocates its epoch under the lock: one step.
  `set()` does not: `set_epoch`, then `set_insert`.  Refused transitions change
  nothing and are no step.  `PartitionState` is flattened; an unregistered
  partition is `Absent`.
* **ControlPlane.** `call[k]` is the program counter of one call.  The store
  transition of `enter_cutover` and the recording of `cutover_at` are two steps;
  `complete_migration` is `ControlComplete`, `CompleteReadState`,
  `CompleteTestBarrier`, `CompleteFlip` and `RemoveCutover`.  `ControllerRestart`
  loses `cutover_at` and the calls, never the table.  `published` is history.
* **MigrationFleet.** One client is one request or one bulk sub-batch on any
  instance: `Resolve`, `Gate` or `Reject`, then for every operation `Dispatch`
  and one of `OpAcked`, `OpFailed`, `OpTimedOut`, or `Shed` by the breaker.
  `left` counts the operations still to send: `write()` sends them one after the
  other, each with a timeout of its own.
* **KafkaWal.** Every method of `Wal` is a function from a `Wal` to a `Wal`,
  applied under the mutex in one step.  Offsets count 8-byte cells: a header is
  a cell that carries the content it describes (length and checksum), a record's
  body is a cell.  Kills inside `append`, `persist_ckpt` and `maybe_compact` are
  actions that leave the files as they are at that point and reopen them.
  `synced` is what the last fsync put on disk.
* **UpstreamSink.** A pool is named by the request that created it and its cluster,
  so two pools of one cluster would be visible.  Instants are kept as ages.  `up` is the
  environment, `tally` is history for `EvictedRests`.
* **Ingress.** The accept loop, connection tasks and request tasks interleave;
  `try_reserve` is load, then compare-exchange.  A dropped request future
  (`dropped`) releases its reservation whatever it was doing.  What all
  requests hold together is the cardinality of a set of (request, byte) pairs.
  `accept_fails` is the `?` on `accept()`: `run()` returns without a drain.
* **Tenancy, Requests.** Ids and partitions are sequences of characters, because
  physical ids are concatenations and their inverse has to be computed.  A document
  is an owner, an id, a routing value and the injected field.  `task[c]` is one
  request: admission, the read of the placement, the write gate and each upstream
  call are steps of their own and `Cutover` and `Flip` come between any two.  A deployment
  (`conf`) fixes the switches of the configuration.  Cluster contexts (`cursors`) and
  tokens handed out (`issued`) are state; a request may bring any token ever issued, to
  whomever, since a token names a cluster and an id and neither `cursor()` nor `pit.rs`
  checks a partition.  A cluster may answer a continuation with the same id or another
  one, which is wrapped again (`Continued`); contexts are also cleared and deleted.  A
  call whose answer is lost may have opened, renewed or closed its contexts all the same
  (`Unheard`), and a context nobody was told the id of is `lost`.  Of a group of
  points in time a cluster may refuse the deletion with a 4xx, which is merged; a 5xx
  ends the request (`ReadFails`).
* **BulkText.** A byte is a class; bodies and their framing are enumerated.  `scan`
  is the reader's resume position, kept because the finding below is about it.
* **JsonText, SearchScan.** The text is written along the grammar beside the reader;
  what the reader should find is noted as it is written, so that no parser is checked
  against a copy of itself.  A wrong escape may stand in any string: it is noted, no text
  with one is well formed, and which of them the reader lets pass is part of the property.
  A hit may hold what serde_json refuses (half a surrogate pair, nesting beyond its
  limit): `transform` then puts it out as it came.
* **Directives.** `log` is every value the etcd key has had, `store.seen` how far the
  watch has delivered; `reread`, `watch_from`, lost connections and restarts are
  steps.  Each atomic counter and each ring is a step of the request path.  Routes of
  the proxy itself and refusals of the gate take a request id and leave no record
  (`TurnAway`); a streamed request is recorded and counted but not judged, and the tee to
  the capture sink is the last step of a buffered one.
* **Startup.** A setting's name is the sequence of its words, so the prefix of a
  section is a concatenation.  `world` says which files can be read, which parts were
  built in, which peers answer and which ports are free; every step of `run()` is an
  action that goes on or refuses.  What the link to the upstream is, is decided by the
  scheme of its URL (`upstream_link`), with the TLS settings as what an `https://` URL
  is spoken to with.
* **Egress.** Texts are sequences of characters where an escape is at stake.  Headers
  are a sequence, since a client may send one twice and order of insertion decides;
  those relayed keep their positions, and the last of a name is what is sent.  A name or
  value may be no valid header (`Garbled`), in which case it is not set.
* **Fanout.** A send is kept and acknowledged, kept and not acknowledged, or lost.
  `inst.seq` is the per-process request counter that restarts at zero.  A capture's
  headers keep their positions, and redaction drops positions.
* **BulkDemux.** One request in one of its three modes, while `table_moves`
  changes placements under it.  `Keys` are the cache's keys.  `over_bytes` is the
  byte threshold, which any document may reach.

## 3. Runs

| Run | Shows | Bounds |
|---|---|---|
| `placement_table` | `GateSound`: a decision the gate admits names the current placement.  `StampsUnique`: epochs never come back, not even those of a `set` in progress | 2 partitions, 2 placements, 2 clients, 5 epochs: a full migration with a racing `set`, or two racing `set`s |
| `migration_fleet` | `BarrierHeld`: with calls on a partition serialised the flip waits for the barrier, over restarts, refusals and aborts; `NoOrphanedWrite`; and the fleet implements `PartitionHome` | 1 partition, 1 request of up to 2 operations after another, barrier 5 > 2 * (gap 1 + timeout 1), 7 ticks |
| `migration_fleet_batch` | *violated*: a barrier longer than the write timeout, but not than a batch, does not keep writes out of the old placement | barrier 3, timeout 2, batch 2 |
| `requests` | `Isolation`, `OwnWritesOnly`, `LogicalView`, `CursorsHold` (`CursorPinned`, `CursorsUsable`), `SlotsConsistent`, `PitDeleteTruthful`, `Answered` | 2 partitions, twelve deployments, among them templates under which ids collide, 1 request at a time beside moving placements, up to 2 documents or 2 contexts, 3 epochs.  Where a deployment is about cursors its clients send no multi requests, and the other way round (`multi`, `ids`, `queries`, `max_docs`, `max_cursors`) |
| `edge` | Start: `StartsAsAsked` (`Precedence`, `StartsWhole`).  Ingress: `CeilingsHold` (`BufferedUnderCeiling`, `BudgetExact`, `ConnectionsCapped`), `GracefulStop`, `DrainEnds`.  Directives: `OneDocument`, `CurrentUnlessMissed`, `CatchesUp` (`NeverBackwards`, `Propagates`), `RecordsTruthful` (`ExplainOwn`, `Tallies`), `CaptureFollows`.  Affinity: `AffinityKept` (`AffinitySound`, `ForgetsOnlyWhenFull`) | some 4,400 launches; 2 connections against a ceiling of 1, 2 requests, bodies up to 2, ceiling 3; 2 threads, up to 3 published values and 3 faults, rings of 1; 3 cursors in a table of 2 |
| `directives_lost_update` | *violated*: an update missed while disconnected is lost | the directive settings of `edge` |
| `bodies` | Bulk, in all three modes: `InBodyOrder` (`KeyOrder`, `StaleSticks`), `AnswersTruthfully` (`EveryItemAnswered`, `LinesTruthful`), and no deadlock: a request under way always has a next step.  Readers: `ReadsAsWhole` (`StreamedAsWhole`, `PanicsOnlyUnterminated`, `LineBounded`), `ReaderExact` (`ValidateExact`, `PathExact`, `BoundaryExact`), `SpliceSound`, `ShapedAsBuffered` | 2 items, 2 keys, 2 targets, 2 placement changes, 2 attempts; bodies of 5 bytes in frames of 2, lines of 2; texts of 9 tokens nested 2 deep; responses nested 4 deep |
| `bulk_unterminated` | *violated*: a body whose last line has no newline is not answered | bodies of 5 bytes |
| `downstream` | Spill buffer: `NoLoss`, `Delivers` (`EventuallyDelivered`, `DuplicatesNeedFaults`, `OnlyAccepted`), and it implements `DurableQueue`.  Sink: `PoolsSound` (`OnePool`, `ReuseSound`), `EvictedRests`, `HeadBounded`, `Recovers`.  Fan-out: `CaptureLeaksNothing` (`PermitsExact`, `CaptureRedacted`), `AcceptedOnce` (`AcceptedQueued`, `RetryCollapses`), `DeliveriesEnd`.  A request: `HeadersComposed` (`CredentialsWin`, `HeadersKeptBack`, `TraceContinued`), `GoesWhereMeant` (`ClassifiedInFull`, `DocumentAddressed`) | 4 records in a log that fills, 2 faults of seven kinds; 2 requests, 1 cluster, threshold 2, cooldown 2; 2 exchanges against 1 permit, 2 attempts, 2 writes, 1 restart; every header list, path shape and id of up to 3 characters that `MCEgress` builds |
| `kafka_wal_live_compact` | *violated*: compaction with undelivered records loses them, with no fault at all | 3 records |
| `upstream_sink_body` | *violated*: a dispatch is not bounded in time once the head has come | 1 request |
| `fanout_op_ids` | *violated*: an accepted write is not applied, because its op id is another write's | 2 writes, 1 restart |

Names in brackets are the conjuncts of the property before them.  The type
invariants (`TableTypeOK`, `WalTypeOK`, ...) are stated for the proofs and are not
among the properties of a run.

The runs `edge`, `bodies` and `downstream` check components that share no state: an
initial state starts one of them and leaves the others at rest, so the number of
states is the sum of theirs and not the product.  Nothing is lost by it, since no
property of theirs spans two of them; where components do interact they are composed
(`MigrationFleet`, `Requests`, `Fanout`).

Why the bounds are enough: every property relates at most two actors (two
requests, two items, a request and the controller), and every limit in the code
(threshold, cap, ceiling, barrier, ring) is set low enough to be reached and exceeded.
Two bulk items suffice because a flush of a single item is possible (the byte
threshold), so both items of a sub-batch, items of two sub-batches, and an item
on each side of a mid-stream flush all occur.  In `migration_fleet` the epoch
bound lets a partition be registered and migrated once, which contains every
phase; a second migration starts from a state of the same shape, and the theorem
covers any number.  In `requests` one request runs at a time: requests meet only in
the placements, documents and contexts, which change between any two steps of a
request anyway (placements) or hold what earlier requests left (documents, contexts).
Of the scanners' states each depends on the stack and the last bytes, so texts that
open, close and separate once at every depth reach all of them.  Constants that only
bound the state space are named `Max...`.

Deadlock is checked in `placement_table` and `migration_fleet`, whose systems never
stop, and in `bodies`, where an answered bulk says so with a step of its own (`Done`)
and any other that cannot go on is an error.  The other runs contain something that ends (a server that has drained, a
request that was answered, a body that was read) and say `CHECK_DEADLOCK FALSE`;
that nothing ends too early is what `Answered`, `DrainEnds`, `DeliveriesEnd`,
`Delivers` and `Recovers` are for.

### Fairness

* `KafkaWal`: weak fairness of the drain task (tokio schedules it, and its park
  ends on a timer), strong fairness of the broker storing a record (a broker tried
  again and again is not down for ever: the outage ends).  Nothing is assumed of
  `produce`.
* `UpstreamSink`: timers fire, tasks run, an upstream that is up answers or the
  timeout fires, requests keep coming.  Nothing is assumed of an upstream that is
  down, of bodies, or of clients, which may cancel every request.
* `Ingress`: timers fire, tasks run, handlers return.  Clients may stay silent
  for ever.
* `Requests`: an admitted request's task runs; upstream calls answer or fail, which
  `HeadBounded` justifies for heads only: an endless body is the finding of
  `upstream_sink_body`.
* `Directives`: the watch task runs.  Nothing is assumed of etcd's connection, which
  may be lost as often as the bound allows, nor of operators.
* `Fanout`: sends return, one way or another, sleeps end, tasks run.  Nothing is
  assumed of the broker's answers.

`PlacementTable`, `ControlPlane` and `MigrationFleet` state safety only: nothing
obliges an operator to finish a migration.  So do `BulkDemux` and the readers, which
need no fairness to be free of deadlock.

## 4. Theorems

All are proved for arbitrary constants that satisfy the named assumptions of the
modules: `TableAssumption`, `ControlAssumption`, `FleetAssumption`,
`IngressAssumption`, `AffinityAssumption`, `SinkAssumption`, `BulkAssumption`,
`TenancyAssumption`, `RequestsAssumption`, `RecursionAssumption`, `DirectivesAssumption`,
`FanoutAssumption`, `EgressAssumption`, `WalAssumption`, `BulkTextAssumption`,
`StartupAssumption`, `StepAssumption`.  TLC evaluates each of them on the constants of its runs.  Every
safety theorem follows the same line: an inductive invariant that the initial states
satisfy, that every action preserves (one lemma per action), and that implies the
property.

* **`MigrationProofs`**, the table: `TableTypes`, `TableStampsUnique`,
  `TableGateSound`.  The inductive invariant `TableInv` adds `EntriesPlaced` (a
  registered entry names real placements), `StampsBounded` (no stamp is beyond the
  counter), `PendingSetFresh` (a `set` in progress holds a stamp nobody has resolved)
  and `HeldEpochSound` (a held decision that carries the entry's epoch carries its
  placement).  `GateSound` alone is not inductive: a transition could stamp an epoch
  that some client already holds.
* **`MigrationProofs`**, the controller: `ControlTypes`, `ControlBarrierHeld`, from
  `Serialized`.  `ControlInv` says: calls on one partition are exclusive
  (`CallsSerial`); a recorded start is not before the publication it is for, except
  while `enter_cutover` is between publishing and recording (`BarrierStart`); a call
  that reached the flip with the partition in Cutover read a clock a full barrier
  after publication (`CompleteClock`); at most one registration is pending
  (`RegisterPending`).  Table facts are reused by showing that every controller step
  is a table step.
* **`MigrationProofs`**, the fleet: `FleetTypes`, `FleetNoOrphanedWrite` and
  `FleetImplementsHome`, from `Serialized` and `BarrierCovers`
  (`Barrier > BatchMax * (Gap + Timeout)`).  The argument: while a partition is in
  Cutover the gate is closed, so a live request passed it before publication;
  `DrainBound` bounds how long such a request can still live, in operations left
  times `Gap + Timeout`; at the flip a full barrier has passed (`CompleteClock`), so
  no live request is left (`FlipFindsNoWriter`).  The refinement follows: a step
  that changes a home is a `Move` with no writer, a gate is a `StartWrite`, an end
  of a request is an `EndWrite`, all else stutters.
* **`RequestsProofs`**: `RequestsIsolation`, `RequestsOwnWrites`, `RequestsCursors`,
  `RequestsSlots`, `RequestsPits`, `RequestsView`, for any partitions,
  ids, templates, deployments and number of concurrent requests.  `RequestsInv` says: every partition
  is at one of its own homes (`TableOK`); a document lies at a home of its owner, under an
  id built for it, and bears the owner's mark in a shared index (`DocsOK`); a queued write goes to a home of
  its partition, under an id built for it (`QueueOK`); contexts
  have ids of their own and hold what the partition that opened them may see, each is
  lost or has a token, and each token names one (`CursorsOK`); and of a request under way, by its
  program counter, what it has resolved, planned and collected (`TasksOK`).  Isolation
  then rests on two facts about placements and ids: in a shared index the filter and
  the mark tell owners apart, elsewhere the home does; and an operation by id meets the
  document of another partition only if the two have a built id in common (`Meets`,
  `Collide`).  Nothing is assumed of names and templates, because the router checks
  only that a template references the partition; the theorems name the exception
  instead, and `SeparatedIds` says when it is empty: under a template of the partition, a
  separator and the id, for names without the separator.  That an answer is settled, a
  context once closed staying closed under every later step, is `Evolves`.
  `RequestsView` adds that a document written under a rule bears an id the rule built for
  its owner (`Built`).  If the template has one `{body.*}` placeholder, what
  `construct_id` fills in is the frame's prefix, the logical id and the suffix
  (`FlattenSplit`, `BuiltInFrame`, by induction along the template), so stripping the
  frame and building again gives the same physical id (`FrameOpens`, `MapsBack`).
* **`BulkDemuxProofs`**: `BulkAnswers` and `BulkOrder`.  `BulkInv` says that an item
  that was read has its line or is held by its key's target, in the buffer or in the
  sub-batch (`Tracked`, `Held`), which sorts its entries in order (`FlightsShaped`);
  that while the body is read only one flush is awaited (`OneFlush`); that what was
  applied of a key precedes all that may still be applied of it (`Ordered`); that
  results tell which operations were applied (`ResultsTruthful`); and that an epoch
  once turned away is behind the table's and stays so (`StaleStays`, `EpochsBehind`).
* **`UpstreamProofs`**: `SinkPools` (requests of a cluster share one pool
  however they race for it, and what is reported of connections is true) and
  `SinkEvicts` (a cluster with as many failures in a row as the threshold gets
  nothing more before its cooldown).  `SinkInv` adds that a request under way holds
  its cluster's pool and will report what it saw (`UsesWell`), that a pool serves one
  cluster (`PoolsApart`) and that a breaker tells what the outcomes were, in whatever
  order they come (`BreakersTell`).
* **`RequestsProofs`**, the request on the wire: `EgressHeaders`, for every list of client headers
  and every policy.  `EgressInv` says which case the request in hand is of and that
  its headers are the three insertions for it; lemmas say what each insertion leaves
  of the headers (`Inserted`, `Credited`, `Traced`, `Relayed`), that a context that
  goes on is usable and the client's if the client's is (`Propagated`) and that it is
  read back as it was written (`RoundTrip`).  Credentials that are no valid header are
  not set; of those the theorem says whose header goes out in their place.  `BufferSuffices`: every list of
  segments, of whatever length, is classified from its first four as it is in full,
  because no arm of the match names more than three.  `EgressAddressed`, for every
  path, id and routing: an encoded text has no slash, no question mark and no percent
  sign at its end (`EncodedTidy`), so each of its pieces is decoded by itself and
  decoding undoes encoding (`DecodeEncode`, by induction along the text); the URI is
  then cut where its first question mark is, and its path and query are what they were
  made of (`ReadBehind`, `QueryRead`, `PathIsRead`).
* **`EdgeProofs`**, the ingress: `IngressCeilings` and `IngressGraceful`, for any
  number of connections and requests.  The second names the one way out without a drain,
  an error of `accept()`.  `IngressInv` adds that a request's
  reservation covers what it buffers and is held only between its compare-exchange and
  its end (`ReservationsCover`), that the counters are what requests and connections
  hold (`BudgetExact`, `ActiveExact`), and that neither is beyond its limit.  Sums over
  requests are cardinalities, so a step that changes one request changes the sum by
  what it changes of that request (`TaskStep`).
* **`EdgeProofs`**, affinity: `AffinityKeeps`.  Bindings are finitely many, of the
  past, one per cursor, and never more than the capacity (`AffinityInv`).
* **`EdgeProofs`**, start-up: `StartupAsAsked`, for every launch whatever.  `BootInv`
  says that a start past its loading has the configuration resolved from settings that
  were not refused, and, stage by stage, that every part wired so far is wired as the
  configuration asks (`Wired`): `StartupWhole`, the second half of it.  `LoadedInv` says
  that it holds, for every setting, what is in force in its launch.  A layer is read item
  by item; after each, a setting has what the last of the items read gives that set it
  (`LastOf`, kept by `SetLast`), and a file is in the section its last header names
  (`SectionStep`).  The layers are then ordered as the mentions in them are
  (`LayeredInForce`).  Both readings are recursive functions, shown to have a value and
  followed by induction over a set of naturals (`NaturalsIn`).
* **`DirectivesProofs`**: `DirectivesOneDocument`, `DirectivesCurrent`,
  `DirectivesRecords`, `DirectivesCapture`, `DirectivesForward`.  `StoreInv`: the set in force is what some
  published value decodes to at one time, and unless a change was missed, the last
  value read or seen.  `TasksInv`: requests have different ids and are judged by a set
  that was in force when loaded.  `ObsInv`: a trace and a tenant's count are of the
  request whose id they bear, and the counters differ from each other by the requests
  that are between two of them (`Uncounted`, `HalfCounted`) and by those turned away.
* **`DeliveryProofs`**, the fan-out: `FanoutLeaksNothing` from `CaptureInv` (as many permits are out
  as deliveries run, and a delivery is redacted from its start) and
  `FanoutAcceptedOnce` from `WritesInv` (a record with a client's own op id is of the
  one write and item it names, a retry asks the same, a line that says accepted has
  its record).  That the applier takes one of several equal records is an argument on
  the first of them, the minimum of a well-founded order.
* **`DeliveryProofs`**, the spill buffer.  `WalOnlyAccepted`, under every fault of the
  model: `TakenInv` says that a body in the log, or in what was last synced, is of a
  record that was taken, and so is the record in the drainer's hand; a frame is read
  only if its body is one, so a torn or doubly framed log yields nothing else.
  `WalNoLoss` and `WalImplementsQueue`, until a fault tears the log: `LogInv` says that
  the log is exactly the frames of the last `n` records taken, `m` of them behind the
  read cursor and the checkpoint (`Laid`), that the records before those are with the
  broker (`Stored`) and that the record in hand is the first one left, and stored once
  acknowledged (`InHand`).  `PendingIs` says what `pending` computes for such a log: it
  is a recursion, and the argument goes by the least number of frames for which it were
  otherwise.  The cursor of the queue is then `Len(accepted) - (n - m)`, and each step
  is one of the queue's (`LogStep`).  Both theorems hold while no step compacts a tail
  that is not delivered yet (`CompactsLive`): that is finding 1, which the default
  configuration (threshold 8 MiB, cap 256 MiB) is exposed to, and the theorems say that
  it is the only way to lose a record without a torn log.

* **`BodiesProofs`**, the streamed search: `ShapedTheorem`, for responses nested to any
  depth and keys of any length.  The model runs two machines side by side: a reader of
  the JSON grammar, with its stack of open objects and arrays, that knows what is due at
  each byte, and the scanner, which has no stack but a depth.  `ScanInv` couples them
  phase by phase: which states of the grammar a phase of the scanner stands for
  (`Coupled`), that its depth is the number of frames open since it began to skip or to
  read an element, that its string and escape flags are the grammar's, that it takes an
  element for one serde_json refuses exactly if the grammar's record says so, and that the two
  have put out the same.
* **`BodiesProofs`**, the bulk lines: `ReadsAsWholeTheorem`, for every body, framing and
  cap.  `lines_taken(body)[k]` is what the lines that end in the first `k` bytes say.
  `ReaderInv`: while the reader searches, its buffer is the body from behind some
  newline `c` to what has arrived, nothing before `scan` is a newline, and its batch is
  `lines_taken(body)[c]` (`Holds`, `StillReads`); at the end it is what the whole says,
  and a search position behind the buffer is possible only after the last line of an
  unterminated body was taken.  The recursion in `lines_taken` is shown to have a value
  and followed along the body by induction over a set of naturals (`AllNaturals`).
* **`BodiesProofs`**, the scan of a string: `BoundaryFirst`, for every string and every
  width of the vector, what `BoundaryExact` (a part of `ReaderExact`) says of the strings
  of the run.  A boundary lies in the step that the quotient of its position counts, or
  in the rest; steps do not overlap (`StepsApart`), so the least one of the first step
  with one is the least of all.

What the theorems assume of the world, beyond the constants: one controller drives
a partition (`Serialized`, the rule of `docs/06`); an operation takes effect at the
upstream before its timeout or not at all; the time from the gate, or from one
operation's answer, to the next dispatch is at most `Gap` (scheduling, and the
reading of a response body, which the code does not bound); the items of one partition in a
sub-batch are gated together.

Five things were corrected because a proof did not go through.  In the models: a pool
was named by the request alone, so that a request turning to a second cluster would
have found its own pool of the first; a point-in-time deletion over several
clusters starts from status 200 before any cluster has answered (`merged`); and what is
due at a byte of a search response was a choice between cases that overlap (`Due`).  In the
properties: `HeadersKeptBack` overlooked the `tracestate` that the proxy itself adds,
whether or not the operator denies the client's; and `TraceContinued` took the
`traceparent` that is relayed for the one `HeaderView::get` reads, while of two the
last is relayed and the first is read.  The run has both cases since.

Only model-checked:

* all liveness (`EventuallyDelivered`, `HeadBounded`, `Recovers`, `DrainEnds`,
  `DeliveriesEnd`, `Propagates`, `Answered`), because the prover does not reason about
  fairness;
* what depends on the value of a recursion or a fold for every input: the JSON reader
  (`JsonText`, recursive as the code is; its string scan is proved), and `DuplicatesNeedFaults` (a count by
  filtering a sequence);
* `WalTypeOK`, so far.  It holds with the constants of `downstream`; `TakenInv` has its
  bounds of the offsets by the log, not that of the log by its cap nor that of the read
  cursor by the write cursor, which after a torn write rests on the parity of both.

## 5. Findings

Each has a run that exhibits it and is quoted in `PROJECT.json`.

1. **Compaction loses the live tail** (`kafka_wal_live_compact`).
   `maybe_compact` moves undelivered records through `write_at`, which frames them
   again, then truncates to the unframed length.  The next read fails its check and
   drops everything behind the cursor.  It needs a drained prefix over
   `compact_threshold` and records behind it: sustained load, no fault.
2. **A dispatch is not bounded by its timeout** (`upstream_sink_body`).  `send`
   puts the response head under the timeout; the body is collected without one.
3. **The drain barrier of one timeout does not cover a batch**
   (`migration_fleet_batch`).  `docs/06` derives the barrier from the per-write
   timeout; a sub-batch holds up to 256 operations sent one after the other.
4. **A directive update is lost by a disconnection** (`directives_lost_update`).
   The re-read acts only on a value it finds, so a deletion is missed, and the watch
   that follows has no start revision, so a change between the two is missed.
5. **An accepted async write is dropped as a duplicate** (`fanout_op_ids`).  Without
   an `X-Op-Id` the op id is `req-N` of a counter that starts anew with the process;
   another process, or this one restarted, gives the same op id to another write.
6. **A bulk body without a final newline panics the streamed reader**
   (`bulk_unterminated`).  The last line is taken and `scan` stays behind it.

Seen while modelling, without a run of their own; each can be reproduced with the
constants given:

* `set()` takes its epoch before the lock (`placement_table.rs:78`), so racing
  changes can leave a partition with an older epoch than it had.  `GateSound`
  holds all the same, because stamps are unique.
* With overlapping callers (`Serialized = FALSE` in `MCMigrationFleet.cfg`)
  `BarrierHeld` fails: a `complete_migration` that read the state before Cutover
  skips the barrier test and flips after another caller published it.  `docs/06` excludes it by rule, not by code.
* A frame torn by a kill inside `append` stays in the log, and records appended
  after the restart lie behind it and are dropped with it
  (`Faults = {"kill_append"}`, `NoLoss` without its exception for a torn log).
* A kill between truncation and checkpoint reset leaves a checkpoint beyond the
  log, which later records are skipped by
  (`Faults = {"restart", "kill_compact"}`, `CompactThreshold = 9`, the same).
* After a cooldown every waiting request is a trial, where `breaker.rs:6` speaks of
  one.
* `bulkprep.rs:112` answers an exhausted backend outage with
  `404 placement_missing`, which a client cannot tell from a missing placement.

* A failed operation of a sub-batch fails the whole of it (`bulk.rs:506`): operations
  the upstream applied are reported as failed, and a client that retries them does so
  twice.
* A delete-by-query, and a bulk of which a client retries only the failed items, gives
  its items other ordinals the second time; under the same `X-Op-Id` the applier drops
  them (`RetryCollapses` excludes both, and `bulk.rs:361` promises it).
* A cursor token is its bearer's: it binds a cluster and an id, no partition
  (`core/cursor.rs` `binding`), and `cursor()` and `pit_search` check none.  Who presents
  the token of another partition's scroll is shown its pages; `Isolation` counts them as
  the bearer's (`Entitled`).  A point-in-time search is filtered for the partition that
  searches.
* Two partitions can have a physical id in common: `router.rs:162-169` checks that the
  template references the partition and nothing of its literals or of names, so
  `{partition}{body.id}`, or a name with the separator in it, collides, where `docs/09:35-36` and
  `docs/13:27-30` speak of ids that cannot.  A write then replaces, and a get shows, the
  other's document: `OwnWritesOnly` and `Isolation` name the case (`Collide`), the run has it,
  and `SeparatedIds` says when it cannot arise.
* A scroll or point in time whose opening was not answered in time may be open on its
  cluster, and nobody has a token for it (`lost`); it stays until its keep-alive ends.
* An error of `accept()` (no file descriptor left, say) ends `run()` at once
  (`server.rs:190`), with live connections and without the drain that the rest of the file
  gives them: `GracefulStop` names it.
* Credentials of a cluster that are no valid header name or value are not set and nothing
  says so (`opensearch.rs:683-688`; `core/credentials.rs` accepts any string), so a client's
  own header of that name goes through: `CredentialsWin` names the case.
* `upstream_tls_ca` beside an `http://` upstream, which is the default, is read and not used
  (`sink/tls.rs:129-138`): the instance starts and speaks in the clear.  `StartsWhole`
  asks for a secured link where the URL says `https`.
* A hit that serde_json does not parse leaves a streamed search as the upstream wrote it
  (`search_scan.rs:63-71`), with its physical id and injected field, where the buffered path
  refuses the whole response: `ShapedAsBuffered` says that it is that hit alone.
* `skip_string` looks at the length of an escape only, so a wrong one in a string that is
  skipped passes `validate`, where `json.rs:16` calls the scanner strict: `ValidateExact`
  says that nothing else that is wrong passes.
* Requests that are streamed are never judged by directives, so a directive that asks for
  their trace or capture finds nothing.  Routes of the proxy itself leave neither a record
  nor a count, as `stats.rs:41-43` says, and requests that the gate refuses do not either.
  `RecordsTruthful` counts both apart.
* Pages of a scroll are passed on as the cluster wrote them
  (`endpoints.rs` `cursor()`), with physical ids and the injected field, where
  `docs/04:98` shapes every response: `LogicalView` excludes them.
* A point in time opened in a shared index and searched after its partition got an
  index of its own is no longer filtered (`pit.rs`): `Isolation` names the exception
  (`Reshaped`).
* With header forwarding on, a client's `tracestate` is forwarded with the other
  headers and `inject_trace` does not remove it, where `docs/specs/observability-otel.md:70`
  drops an oversized or parentless one.
* With span export on, a `tracestate` on the deny list still reaches the upstream, as
  part of the proxy's own context (`trace_headers.rs`; `docs/04:243` counts it among
  the headers the proxy manages).
* By-id paths are not percent-decoded, and `encode` escapes `%` once more: a document
  indexed in bulk under the id `a b` cannot be got by `/i/_doc/a%20b`.
* A directive's lifetime is resolved against the clock each time it is decoded
  (`decode.rs:94`), so every reconnection renews it.
* Pinning a cursor that is pinned already evicts another one when the affinity table
  is full (`affinity.rs:94`); `ForgetsOnlyWhenFull` allows it.
* Under `[admin]` the name `passthrough_cluster` means `admin_passthrough_cluster`
  (`raw.rs:88`), where the guide says that a fully qualified key works in any section.
* Settings of a part that is not enabled are dropped in silence (client certificates
  for Kafka, an admin token beside etcd, `passthrough_indices`), but a CA alone is
  refused; `StartsWhole` speaks of the settings that enable a part.
* Certificates are read after the port was bound (`main.rs:129-135`); nothing is
  accepted in between.
* The gRPC listener has neither byte budget, connection ceiling nor drain: its calls
  in flight are cut when the HTTP listener has drained.

## 6. Not modelled

* **TLS handshakes, digests, certificate formats, HMACs**: external libraries.  A
  signature is valid or not.
* **The gRPC call itself**: it builds the request of the HTTP ingress and goes to the
  same handler; only its listener is modelled.
* **OTLP export, record formats, logging, benches, the in-memory sink, `xtask`**: I/O,
  rendering, or not part of the running program.
* **Bytes**: documents, checksums and digits inside a token appear only as the
  distinctions that steer control.
* The upstream clusters, the broker, the applier, etcd and remote stores are
  environments, modelled from what the code expects of them.
* A write that the upstream applies after its timeout: no code of the proxy could
  tell, so the models assume it does not happen.

## 7. Plan

Modelled: every component of the table above.  What is left is proof:

1. `KafkaWal`: `WalTypeOK`, that the log stays within its cap and the read cursor behind
   the write cursor whatever the faults are.
2. `KafkaWal`: `DuplicatesNeedFaults`, with the count of a record among those delivered as
   a cardinality.
