# Busbar in TLA+

Busbar is a gateway in front of several LLM providers. A client sends a request to a *pool*; the
pool has *members*, each of them a *lane* (one model at one provider with one credential). Busbar
authenticates the caller, picks a member, translates the request into the provider's dialect, calls
the provider, goes on to another member or pool if the call fails, and translates the answer back. A
governance layer counts what each key and group spends, and an admin plane changes the configuration
of the running process. This directory specifies the parts of it that keep state or that several
actors touch at once. Paths below are relative to `src/crates/busbar/src/`.

## 1. Inventory

### Parts, their state and their operations

| Part | State | Operations |
|---|---|---|
| Breaker cell (`store/in_memory/breaker.rs`) | per (pool, lane): `breaker_state`, `cooldown_until`, `streak`, `probe_in_flight`, `probe_epoch`, outcome window | `breaker_verdict`, `cell_acquire_breaker`, `cell_record_failure`, `cell_record_success`, transitions and releases of the probe |
| Lanes and their cells (`store/in_memory/mod.rs`, `availability.rs`) | a default cell and one per pool, created on first use; `current_weight`; semaphore, `budget` | `select_weighted_for`, `try_admit`, `spend_budget`, `refund_budget`, the sweeps of a hard-down, a recovery and a failed probe, `export_health`, restore |
| Failover walk (`proxy/engine/`, `proxy/select.rs`) | `RequestCtx`: excluded lanes, visited pools, reasons, two deadlines | the loop of `forward_with_pool_parsed_inner`, `handle_exhaustion_for_pool` and its four modes |
| Response bodies (`proxy/response_body.rs`) | permit, budget charge, usage sink, `first_byte`, `ended` | `poll_next`, the two `Drop`s, `read_capped` |
| Dialects (`proto/`, `ir/`) | per stream: decode state of the reader, open blocks, deferred terminal delta, framing state of the writer | `read_response_events`, `write_response_event`, `feed`, `finish` |
| Governance (`governance/`) | key cache, in-flight gauges, bucket counters in sharded maps with an acknowledged baseline, denylist with a staleness stamp | `try_admit`, `record_usage`, `refund_request`, `flush_budgets`, `issue_self`, `refresh_self`, `revoke`, `refresh_if_stale` |
| Authentication (`auth/`, `auth_cache.rs`) | offload permits of two planes, cached verdicts with TTL and flush generation | the two chains, `get` / `put` / `flush_module` / `flush_all` |
| Config plane (`admin/v1/json/txn.rs`, `handlers.rs`, `config/overlay.rs`, `admin/versions.rs`, `state.rs`, `limits/`) | the live `App`, the overlay file, the version log, installed limits | `config_transaction`, `commit_and_swap`, some twenty handlers, boot |
| Audit log (`admin/audit.rs`) | a bounded ring of hash-chained entries, `seq`, `durable_high`, the seal, the sink; the durable copy in the governance store | `record_by`, `flush_durable`, `durable_write_through`, `rebase_nondurable_suffix`, `restore_from_store` |
| Health prober (`health.rs`) | a timer per lane | `probe_lane` |
| Egress tokens, hooks, ingress, admin views, plugins, telemetry, TLS | see section 6 | |

How they interact. A request passes the auth chain, governance, then the walk; the walk calls
`pick_among`, which asks the store and comes back with a permit and, if the cell was Open with its
cooldown over, the single-flight probe. The upstream's answer is recorded on the cell; on a 2xx the
budget unit is spent and permit, charge and usage sink move into the response body, which drives the
translator and whose end settles them. The prober runs beside the requests and may close or park the
same cells. A config apply builds a new store from an export of the old one and swaps it in. Counts
go to a store that several nodes share, as do keys and revocations. Every admin mutation is recorded in
the audit log, which the flusher of the counters also writes through.

### What is hard

* *Concurrency without locks*: admission reads a cell's state, cooldown and epoch as three atomics
  while a transition is storing them one after the other; selection filters before it locks; the
  budget is a load and a compare-and-swap; the flusher reads, writes and acknowledges in three steps.
* *Cancellation*: a client disconnect drops the request's future at whatever `await` it stands, so
  everything it holds (probe, permit, budget unit, queue place, auth permit) must be given back.
* *Late answers*: an outcome is applied to a cell that has tripped, recovered or been parked since;
  an auth verdict is stored after the flush that should have revoked it; a denylist read that began
  before a revocation is merged after it.
* *Partial failure and crashes*: every store call, disk write and rebuild may fail or be the last thing
  the process does.
* *Ordering in a stream*: each provider interleaves reasoning, text, tool calls, usage and its end in
  its own way, and may stop anywhere.
* *Long legal sequences*: pools that fall back on pools that share lanes; keys minted, rotated,
  revoked and refreshed; hooks rolled back to a version that was recorded late.

`PROJECT.json` lists the hazards at the line where each bites, with the properties that cover it.

## 2. Modules

| Module | Models | Uses |
|---|---|---|
| `CellOps` | the breaker's functions on one cell, as operators | |
| `BreakerCell`, `BreakerHistory` | one cell under concurrent requests, the prober and the clock; history variables for admission and for trips | `CellOps` |
| `LaneCells` | all cells of a lane: creation, sweeps, config apply | |
| `SwrrSelect` | smooth weighted round-robin over a changing set of lanes | |
| `LaneLedger` | permits, budget and billing of one lane | |
| `FailoverWalk` | one request's walk over lanes and pools | |
| `UsageLedger`, `UsageFlush` | a ledger of spend, and the write-behind that implements it | `UsageFlush` instantiates `UsageLedger` |
| `GroupLimits` | admission under the limits of a tree of groups, and what is ledgered and refunded later | |
| `SelfKeys` | the life of self-service and admin keys, their cache and the denylist | |
| `RevocationSync` | the sync of the shared denylist | |
| `AuthChain` | the auth chains of both planes and the credential cache | |
| `ConfigLayers`, `ConfigPlane` | two layers of configuration, and the transactions that implement them | `ConfigPlane` instantiates `ConfigLayers` |
| `AuditLog` | the audit ring, its hash chain and its durable copy | |
| `StreamReaders`, `StreamUpstream`, `StreamTranslate` | the readers of the dialects, what an upstream may send, and the translator and body of one stream | each extends the one before |
| `Rows` | rows kept in a sequence, of which some are dropped (`retain`) | used by `AuthChain` and `ConfigPlane` |
| `BreakerCellProofs`, `LaneCellsProofs`, `SpendingProofs`, `RequestProofs`, `StreamReaderProofs`, `KeysProofs`, `ControlPlaneProofs`, `GovernanceProofs` | theorems | the first two are about the module each is named after, `BreakerCellProofs` also about `CellOps`; `SpendingProofs` is about `LaneLedger`, `UsageFlush` and `SwrrSelect`, `RequestProofs` about `FailoverWalk` and `StreamTranslate`, `StreamReaderProofs` holds the lemmas on `StreamReaders` that it uses, `KeysProofs` is about `SelfKeys` and `RevocationSync`, `ControlPlaneProofs` about `AuthChain` and `ConfigPlane`, `GovernanceProofs` about `GroupLimits` and `AuditLog` |
| `MCBreakerHistory`, `MCStore`, `MCWalk`, `MCAuth`, `MCConfig`, `MCAudit`, `MCKeys`, `MCLimits` | symmetry and the small instances; `MCStore` runs `LaneCells` and `SwrrSelect`, one or the other, `MCKeys` likewise `SelfKeys` and `RevocationSync` | |

The parts are specified apart because each leaves the others' answers open: the walk accepts any
answer of the store, the ledger any verdict of the breaker, the cell any arrival of requests, a stream
any upstream. What holds of a module therefore holds whatever the others do. Every component has a
`TypeOK` (`KTypeOK` in `SelfKeys`, `LedgerTypeOK` in `LaneLedger`, `AuthTypeOK` in `AuthChain`, `AuditTypeOK` in
`AuditLog`, `StreamTypeOK` in `StreamTranslate`); it is a theorem wherever a proof module is about the component.

### BreakerCell

`cell` is the record the latest transition decided under `transition_lock`. A transition is a step
`Commit` followed by one `Publish` for each field that changed: until a field is published, a
lock-free load (`SeenState`, `SeenCooldown`, `SeenEpoch`) returns its old value, and `holder` keeps
the lock. The first field stored is the one the code stores first; the order of the others is left
open. A request goes through `Begin`, `VerdictCooldown`, `VerdictState` (`classify`'s peek),
`AcquireState`, `AcquireClosed` / `AcquireOpen`, `AcquireLocked` (`cell_acquire_breaker`),
`ReadToken` (`Admit.probe_epoch`), then `Send` and one outcome. The three dispatch paths differ and
are kept apart by `route`: `main` (`forward_with_pool`; unowned release on a bail, no drop guard,
classifies errors, honours Retry-After), `guarded` (`forward_once`; `ProbeGuard`) and `leastbad` (no
admission). `Cancel` is the dropped future. The prober's `recover_lane` is three steps: two loads and
a close. A push into the outcome window and the transition that evaluates it are separate steps, as
they take separate locks. Time is in whole seconds, as in the code; jitter is a choice among all values.

### LaneCells and SwrrSelect

`LaneCells` keeps of a cell what its relations to the other cells of the lane need: state, owner of the
probe, whether its cooldown runs. Creating a pool's cell is two steps (`CreateRead` under the write lock of
`pool_cells`, `CreateStore`), because `cell` copies the default cell by separate loads; a hard-down, a
recovery and a failed probe write the default cell and then sweep the others. A lane has one prober, which runs
one probe at a time (of a lane that seems to need it in mode `Dead`, of any lane in mode `Active`) and recovers,
hard-downs or counts a failure by what it learns. A request gives
its probe back in three ways, as in the code: by an owner-checked release (`Release`), by one of the main path's
bails, which do not ask who owns it (`Bail`), or not at all, when its future is dropped where the main path
has no guard (`Cancel`); the cell then stays HalfOpen with the owner `Dropped`. An apply exports the
default cells, then the pools', restores into `next` and swaps, while requests go on with the old
store. `SwrrSelect` is `select_weighted_for`: candidates are looked at one by one without the lock
(`Look`), and one step under the shard lock adds weights and takes the maximum (`Turn`). A cell that
closes has its accumulator zeroed by a later step of its own (`ResetSwrr`).

### LaneLedger

`free`, `holds` and `waiting` are the tokio semaphore (marked external in the map): a released permit
goes to the first waiter. `TryAdmit`, `TryAcquire` and `AcquireBreaker` are the three stages of
`try_admit`; `Queue`, `QueueAdmit` and `QueueTimeout` are `handle_queue`. `SpendLoad` and `SpendCas`
are the loop of `spend_budget`. The ends of a body are `BufferedBroken`, `BufferedTruncated`,
`BufferedDelivered`, `BufferedGone`, `StreamBroken`, `StreamEnded` and `StreamGone`. In the buffered
path the permit is dropped just before the refund or the bill; the model does both in one step, as no
property relates the two.

### FailoverWalk

The variables are the fields of `RequestCtx`, the candidates of the pool walked now, and `log`, the
dispatches so far (read by no action but to find the lane just tried). `Picks` and `PicksNone` are
`pick_among`: it does not yield, so it is one step, with any outcome the store could give; it notes
the lanes found at capacity, among them the affinity lane that the sticky fast path was refused a
moment before the weighted choice admitted it. `clock` tells the two deadlines apart: the one in
whole seconds that each pick asks, and `deadline_wall`, which bounds the queue. `Arrive` applies
blocklist and restrict in the order of the primary pool, `Spill` in that of a fallback pool (the
reverse). Weights, policies and the prober only decide which of the allowed picks happens. One
compliance restrict is modelled; the code applies a list of them in turn.

### UsageFlush and UsageLedger

One number stands for a bucket's counters, which the same lines charge, snapshot, send and acknowledge.
A flush is `Tick` / `LastTick` / `FinalFlush` (snapshot under the shard lock), `Land` (the store adds the
difference) and `Ack` or `Fail`; in between, requests charge, accrue and refund, the window rolls, the
other writer flushes, the node stops or crashes and boots again from the store's sum. `slips` notes the
events after which exactness cannot be had: a window that rolls over unsent counts, a node going down
with some, an answer lost after the store took the write, an error at the stop, the overlap of the
two last flushes, and the loss of a cell or a row. `Drop` is the cell of a live node that goes with its key
(`delete_key`), with its group (`reclaim_group_cells`) or in the sweep of a later admission, which for a rolling window
does not ask whether the cell is dirty; `DeleteRows` is the store's part of a deleted key. Both are steps of
any moment: a snapshot of the dropped cell may still be on its way, and its answer may meet a cell
that was created anew in the same window and give it the old one's baseline (`stray`, history, marks such a snapshot), and an open request
counts or refunds on whatever cell it finds. `UsageLedger` is the promise: each node has amounts owed, in transit and unsure, and
amounts move between these and the durable ledger. None is made up, except that an answer about what a node has
forgotten may be booked wrongly (`lapsed`) and the last two writers of a stop may send the same amount; each way to lose one is an
action of its own (`Roll`, `Forget`, `Erase`, `GoDown`).

### GroupLimits

`cells` are the budget cells of the keys and of the groups' buckets, reduced to window, admitted and
billable requests, tokens and last touch; `guard` says who holds the write lock of each shard, `gauge` and `grants`
are the in-flight gauges and who counts in them. `try_admit` is `Arrive` (the chain; a missing or frozen group
refuses), one `TakeGauge` or `GaugeFull` for each capped group, one `Lock` for each shard in ascending
order with the sweep it may do in passing, and `Admit` or `Refuse` under all the locks. `Refuse` drops
everything and, if the first blocked bucket has a budget that downgrades, starts again in the other
pool. Later `record_usage` or `refund_request` goes over the same buckets, one step and one lock each.
The operator binds keys, freezes, creates and deletes groups; `reclaim_group_cells` drops a deleted group's cells
shard by shard after the config mutation is over. A request keeps the cost model, the key and the second
it arrived with, as the code does: it may charge a group that is gone, or a cell of a later window.

A token costs one unit, a fee is a constant, and so are a group's limits. A request for a model that
no pool names behaves like one for a pool that no bucket is scoped to. Time is counted in windows of
the rolling buckets; as admission waits for locks only, it straddles at most one boundary (`Tick`), while a response may
end any number of windows later. Whether a cell is dirty is left open, so the sweep drops any subset of
what is old enough. `charges` and `flight` are history.

### SelfKeys, RevocationSync and AuthChain

`SelfKeys` has one user, who logs in and refreshes, and one administrator, who rotates, patches, revokes
and deletes the same rows. Each store call is a step that may fail; a token is an id and a generation.
`RevocationSync` splits `refresh_if_stale` at each atomic (stamp, window claim, in-flight claim) and
`refresh_blocking` at the store's answer, the merge and the stamp. `AuthChain` separates the request's
future (permit wait, await with a timeout, disconnect) from the blocking task it spawned, which goes on
without it: cache lookups, module answers, panics, and the `put`s, which the data plane makes after the whole chain
has decided and the admin plane after each answer. The dry run of `put_auth`, which asks a candidate chain inline in an
admin request, is not modelled.

### ConfigPlane and ConfigLayers

The configuration is a function from names to definitions in four sections (groups, hooks, root
settings, plugin pins). A handler plans under the lock from the snapshot, then persists, swaps, perhaps
binds a key (`Persist`, `Swap`, `Bind`), and records the version after the lock is gone and only if its
client is still there. Any write may fail, a client may go away, the operator may save the file and
the process may crash at any step. `hist` and `dropped` are history: the hooks of every App of this process,
and the groups that a rebuild took away, or a boot over a file that is not the one the last App was
built on; of what a key was bound to there, the code promises nothing. `ConfigLayers` is the promise for groups: a base and the API's
layer on top of it, and one write of the API changes one entry at one instant.

### AuditLog

An entry is its number, the number of the mutation it records (`what`), the digest of its predecessor
and its own; digests are tuples, so two are equal only if everything before them is. `Push` is what
`record_by` does under the ring's lock, `Valve` its decision to write through itself. A write-through
holds `lock` (`durable_lock`) through `Enter`, `Reconcile` if a boot left it sealed (read the tail, rebase the
entries of this process onto it), `Check` (the tail must not be ahead) and one `AppendOk` per entry; each
store call is a step, and may fail before or after it took effect. `Boot` reads and verifies the tail, or
finds the store silent (`BootBlind`). The environment is `Crash`, one act of another writer, and an
edit of a row while the process is down. `clear`, `calm` and `other` are history; `calm` says that since the boot no
store call has failed and that no more recorders were past the valve at once (`PastValve`) than the ring's reserve and one.
The code does not bound them, and the model has any number of recorders.

### StreamReaders, StreamUpstream and StreamTranslate

A frame is reduced to what a reader branches on. Each reader (`ReadOpenAi`, `ReadResponses`,
`ReadAnthropic`, `ReadBedrock`, `ReadCohere`, `ReadGemini`) maps a frame and the decode state to events of the intermediate
representation. `StreamUpstream` is the environment: any stream of the dialect, cut short anywhere, with
late usage, repeated terminal frames and tool calls that are never closed. `StreamTranslate` folds the
events through `translate_event`, the writer of the client's dialect and its framing (bedrock's two
closing frames, openai's usage chunk) into what a decoder at the client sees, and settles the stream as
`FirstByteBody` does. When both dialects are the same the bytes are relayed and only usage and errors are read.

## 3. Runs

| Run | Instance | Shows |
|---|---|---|
| `breaker_safety` | 2 requests on any mix of the 3 routes, 1 probe, clock to 2, error-rate mode over a window of 2 | `HardDownSticks`, `AdmissionSound`, `TripLasts` under every interleaving of loads, stores and transitions |
| `breaker_live` | 2 requests on all routes, 1 probe, clock to 1, trip after 1 failure | `NoWedge`: a HalfOpen cell leaves that state unless its owner was dropped without a guard |
| `store` | `LaneCells`: 2 requests, 1 lane with 1 pool; or `SwrrSelect`: one selection over weights 1, 1, 1 and 0 | `ProbesAccounted`, `HardDownReachesAll`, `ApplyKeepsTrips`; `FairShare` |
| `ledger` | 3 requests, 2 permits, 2 budget units | `PermitsConserved`, `BudgetConserved`, `NoLostWakeup` |
| `walk` | 3 pools sharing 4 lanes, `max_hops` 1, all 216 `on_exhausted` maps, 3 kinds of restrict | `RepeatOnlyLast`, `Compliant`, `AlwaysAnswered` |
| `usage_flush` | 2 nodes, 2 windows, 2 counts, 1 store error, 1 stop or crash, 1 dropped cell or deleted row | `FleetTotal`, `GracefulStopLosesNothing`, `ImplementsLedger`, `EventuallyFlushed` |
| `limits` | 2 keys and 2 groups whose chains meet 2 shards in opposite orders; caps on requests, tokens, budget and concurrency; a downgrade | `CapsHold`, `OvershootBounded`, `NoCircularWait` |
| `keys` | `SelfKeys`: 4 epochs, 3 mints, 2 admin operations, 2 failures, 1 restart; or `RevocationSync`: 2 callers, 2 reads, 1 subject, clock to 6 with a period of 2 | `RevokedStaysDead`, `SupersededStaysDead`, `CacheAgrees`; `SyncedMeansSeen`, `PeerRevokeVisible` |
| `auth_chain` | 1 data and 2 admin requests, 1 permit each, 3 modules, a cache of 2 rows, 1 flush | `FlushRevokes`, `DeniedAdmitsNothing`, `AdminAnswered` |
| `config_plane` | 2 clients, 3 transactions, 1 edit of the file, 1 failure, 1 crash, a log of 2 rows | `DurableEntries`, `NoDangling`, `HistoryTruthful`, `ImplementsLayers` |
| `audit` | 3 recorders and the flusher, a ring of 4, 5 mutations, 2 failures, 1 crash, 1 act of another writer | `ChainVerifies`, `NothingPruned`, `AppendOnly` |
| `stream_translate` | 6 upstream by 6 client dialects, 10 frames, 3 tool indices, caps of 2 and 3 | `BlocksBalanced`, `TerminalLast`, `UsageAgrees`, `FailureSettled` |

Bounds. Two requests and a prober are enough for every race of the breaker that involves a victim, a
competitor and an outside writer. A clock of two seconds lets the shortest cooldown expire and the
longer ones not. The caps differ (1, 2, 3, and a Retry-After of 4) so that mixing them up shows. Three
requests on two permits let two spend at once while the third waits in line. With three pools a chain
can leave a pool, go on and come back; the shared, blocklisted and untagged lanes are chosen so that
each rule is the only one to forbid some dispatch. Between three lanes a selection finds any two or all ready; as
a lane is found ready or not by each look, and a turn is one step, a second selection under way adds no turn that
one cannot take, and `FairShareCorrect` is for any weights and any number of them. The walk's configurations include rings of pools
that `config_validate` refuses: the walk does not rely on that check. Two nodes, a window that rolls once and
one error let every pair of flush steps overlap. One drop falls between any two of them; a
dropped cell and deleted rows do not both occur in one run, while the theorems are for any bounds. `limits` explores three situations (`Explored` in `MCLimits`): three
requests over one window boundary (two of the new window and a late one of the old), two over two
boundaries, so that the sweep finds something old, and two while the operator makes up to two edits. Its
hourly cap is one request, so that a single charge on the wrong cell shows. Three mints are a login, a refresh and a login after
it; two admin operations race it on both sides. A clock of three periods lets a read begun in the first
end in the last. Five mutations fill a ring of four and prune it, and a quarter of it is one entry of
reserve: two recorders past the valve use it up, and a third exceeds it, which is the case that
`NothingPruned` excepts; two failures are a silent boot and an append lost
after it. Three transactions are a change, one that undoes it and one that races either. Ten
frames hold a stream with reasoning, text, three calls, a finish and what may follow it, and one call more
than the smaller cap.

Fairness. Every task is polled until it ends and every upstream call is bounded by the HTTP client's
timeout, so weak fairness of a request's own steps is what tokio and the client give. `breaker_live`
does not assume a prober, `ledger` does not assume that the queue's timer fires, `walk` does not assume
that the deadline passes. `usage_flush` assumes that a flusher's tick and a store call happen, not that
they succeed (errors are bounded in number). `auth_chain` assumes only the timers of the admin request
itself: a module may hang for ever.

## 4. Proofs

All theorems hold for every value of the constants that satisfies the named assumptions.

* `BreakerCellProofs`: `CooldownBounds`, a cooldown lasts at least one second and at most the larger of
  `max_cooldown` and `max_honored_retry_after`. The step that needs care is that 2^k is positive; it is
  proved by counting: 2^k is the number of subsets of `1..k`.
  `TypeCorrect`, `ParkCorrect`, `HardDownCorrect` follow from the
  inductive invariant `Inv` (types, the lock's variables, a probe in flight exactly while HalfOpen, no actor's clock ahead of `now`).
  `HardDownCorrect` is `HardDownSticks`: while an Open cell's cooldown runs, only another hard-down moves it, and only
  a health probe that saw the cell parked as long as it is now closes it. The
  argument has two halves: every function of `CellOps` applied to a legal cell gives a legal cell, leaves a parked
  one parked (`Sticks`) and a tripped one with at least a second ahead of it (`Parked`) (`Legal...` lemmas), and every step of the system is a legal commit, one more store of the commit in
  progress, or leaves the lock's variables alone (`StepShape`). `AdmissionCorrect` adds `PairOK` (what
  two adjacent versions of the cell can be) and `FitOK` (a request that has loaded Closed from a cell
  that was never ready for it still has to meet that cell's cooldown), and `TripCorrect` (`TripLasts`) adds `TrippedOK`, that a
  cell which is not Closed has a cooldown that ends after the second of its last trip.
* `LaneCellsProofs`: `CellsTypeCorrect`, `ProbesCorrect` (`ProbesAccounted`), `HardDownCorrect` and `ApplyCorrect`, for any
  requests, lanes and pools. A hard-down that is still on its way to a cell is what makes its reach no
  invariant by itself: `Reaches` says that a cell it owes either does not exist yet and has a default to copy
  that is not Closed, or is about to be swept, also when it is just being created (`Creating`).
  `ProbeOwned` says that a HalfOpen cell's probe was won as that very cell, by a request that still has to answer or one that
  was dropped, and that no apply carries a probe over (`NextHasNoProbe`);
  `Carrying` says that what was tripped when the apply began is Open in the new store from the moment it was exported.
* `SpendingProofs`, on `LaneLedger`: `LedgerTypeCorrect`, `PermitsCorrect`, `BudgetCorrect`, `BillingCorrect` for any finite set of
  requests. The invariant adds who stands in the semaphore's line (parked, without a permit, once) and
  where a request may carry a charge.
  On `UsageFlush`: `TypeCorrect`, and `Refinement`: the flush protocol implements `UsageLedger`, for any
  nodes, windows and bounds. The invariant is that a cell's baseline and its writes under way never
  exceed its count in a way that would make an amount up (`CellSane`), and that what a writer has in
  flight belongs to a node that is up (`FlightSane`); each step then maps to one move of the ledger or
  to none. `StopCorrect` (`GracefulStopLosesNothing`) adds `Orderly`, while no two last flushes have overlapped
  and no write has failed during a stop: one writer at a time, and what a clean cell has beyond its baseline is with it
  (`NoStray`: unless a cell was dropped, what is in flight is about the cell that is there).
  `FleetCorrect` (`FleetTotal`, any finite set of nodes) is about a sum, which moves with the amounts of one node
  (`TotalMoves`) as long as the store never floors a difference at zero. That it never does is
  the hard part, as refunds make differences negative (and as long as nothing has slipped no cell or row was lost with anything in it): `Stored` splits each window of the ledger into what it has
  of each node since its boot, and `Backed` ties that share to the baseline less what the boot read, and
  says that no refund in flight takes back more than the node has stored (the charges that are open are counted).
  The fold that the property sums with exists by a least counterexample (`SumsToExist`).
* `RequestProofs`, on `FailoverWalk`: `WalkTypeCorrect`, `WalkCompliant`, `WalkTriesOnce`, `WalkInOrder`, `WalkLate` (only
  `least_bad` dispatches after the deadline), `WalkContext` (a context-length error only narrows).
  `Compliant`, `RepeatOnlyLast` and `PoolsInOrder` speak of the log alone and are not inductive;
  `WalkInv` adds what the `RequestCtx` remembers: candidates respect their pool (`CandsOK`), the
  reasons a queue may read belong to the current pool (`ReasonsOK`), tried lanes are excluded
  (`TriedOK`), only the affinity lane can be both tried and noted as full (`FullOK`), pools of the log
  are visited or current (`PoolsSeen`) and the current one is the latest (`PoolIsLatest`).
* `SpendingProofs`, on `SwrrSelect`: `SwrrTyped` and `FairShareCorrect` (`FairShare`), for any pool and weights. No bound on
  single accumulators is inductive: a lane that stands at it can be raised past it by a winner that stands there too.
  `Balanced` bounds twice the sum of every set of k of the n candidates, either way, by `Reach(k)`, the weight of the
  `Heaviest` pair times k times (2n - 1 - k); for k = 1 that is twice the `Swing` of `FairShare`. A reset is harmless because the reach
  grows with the set (`ResetKeeps`). A selection raises the sum of a set only if its winner is not in the set
  (`MovedSums`); those it raises are not above the winner, so if the set ends up high, then either the set with the
  winner or the set without the raised lanes was already too high: `Squeeze` is the inequality, `Ahead` and `Behind` its
  two sides. `WaitsPaid` says that a lane which is passed over gains its weight each time. That
  the order in which a sum takes its elements does not matter (`SumTakes`) is proved by a least
  counterexample, as the fold of the community modules leaves it to CHOOSE.
* `KeysProofs`, on `RevocationSync`: `TypeCorrect`, `StampIsTruth` (the set holds everything that was in the store at
  the second its stamp names) and `RevokeSticks`. The invariant adds that a reader's result holds all that was
  stored before it began, and that a stamp is never ahead of a merged reader's start. `RevokeBecomesVisible`
  (property `PeerRevokeVisible`) needs more: in a calm second every attempt of that second ends in it (`InSecond`), so
  an attempt made since the calm began has moved the stamp, has failed or is under way (`Answered`), and a
  request is let through a recent stamp or a recent attempt only (`Served`); together the stamp is never
  older than a window once one window of calm has passed (`StampRecent`).
  On `SelfKeys`: `KeysTypeCorrect`, `RevocationFinal`, `ReplacementFinal` and `CacheCorrect`. The rows, the
  cache and the loads change in few ways (`StepShapes`), and who is between a load and its swap holds
  `refresh_lock` (`Locking`), so no load that is older than a tombstone reaches the cache after it: `Superseding`
  says of a replaced id that its row is dead and that neither the cache nor any load under way has it on.
  `Denying` does the same for revoked ids and the two denylists; `Agreement` compares with the store not the
  cache but `View`, the cache as the holder of the lock is about to leave it.

* `GovernanceProofs`, on `AuditLog`: `AuditTypes`, `AuditAppendOnly`, `AuditChain` and `AuditKept`. That a step never rewrites a record
  is not inductive: it rests on knowing that what an append finds in the ring under a number the log already
  has is the very record the log has. `IInv` adds that the log's newest number exists and its records are named by
  theirs (`HasNewest`, `Records`), who may be where with the lock (`Discipline`), that the ring is
  numbered below the next number and a sealed one holds nothing read from the store (`RingOK`), that while nobody
  else writes the log is at most one unacknowledged record past the watermark and has what the ring has
  under the same number (`Agree`), and that a write-through which has seen the tail appends behind it
  (`LooksClear`). No part of it says that digests do not collide.
  `AuditChain` (`ChainVerifies`) adds `ChainInv`: store and ring are runs of consecutive numbers (`Numbered`), each
  is a chain with its mutations in order (`LogChain`, `RingChain`), and where the ring takes over its link is
  the digest of the watermark's record; a sealed ring comes after everything stored, whatever its numbers say
  (`Joined`). A boot finds nothing wrong with such a log (`BootReadShape`): that the tail it reads is the last
  entries of the log in order is an induction over the distance from its end, made by a least counterexample
  (`TailIsLatest`), as is the existence of the links of a rebased ring (`LinksExist`).
  `AuditKept` (`NothingPruned`) adds `PruneInv`. The valve is what bounds the ring: each number beyond the headroom was
  given to a recorder that has not come back, so their count bounds how far the numbers have run ahead (`Valved`), and the
  one that pushes is not among them; while `calm` bounds that count the ring's reserve holds the rest (`Covered`). While no
  call has failed, a seal means that the boot found a log which does not verify and that nothing was stored since
  (`Untouched`), so the first write-through leaves the numbers as they are.

* `ControlPlaneProofs`, on `AuthChain`: `AuthTypes`, `AuthFlushRevokes` and `AuthDeniedAdmitsNothing`, for any chains, modules,
  requests and cache size. `AuthInv` says of every chain that goes on, with or without its request, that what it is about to
  store was given after the last flush of the module it stands at, unless a flush has begun since (`TaskFits`): then
  the generation it compares under the cache's lock has moved, and nothing is stored. Eviction and the
  retain of a flush only drop rows.
  On `ConfigPlane`: `ConfigTypes`, `ConfigDurable` (`DurableEntries`), `ConfigNoDangling` (`NoDangling`), `ConfigHistory`
  (`HistoryTruthful`), and `ConfigImplementsLayers`: the transactions implement `ConfigLayers`, for any definitions, clients
  and bounds. None of these is inductive, as between its write and its swap a transaction is on disk and not in force.
  `PlaneInv` therefore speaks of `View`, the App in force or the one that is already durable, and says what the lock's
  holder may be about to write at each step (`Planned`), what it has written and not yet swapped (`Due`), and that it
  planned from the App in force, as nobody swaps without the lock (`Locked`). `Durable` relates overlay and view: the API
  deletes only what the file does not have, so the overlay carries no tombstone; `Counted` bounds the versions by the operations that paid
  for them; `Bound` says that a key's group is in the App in force and in the one to come; `Historic` that each
  retained row, and each row still to be recorded, was in force (`WasInForce`). For the refinement, a persist
  is a write of one entry (`OneWrite`, `LayerKept`), a rebase on the edited file or a reset of the
  layer; a swap that persisted nothing and a restart are a rebase (`BuiltOn`); all else stutters.

* `GovernanceProofs`, on `GroupLimits`: `NoDeadlock`, no set of admissions waits in a circle for shard locks, for any tree,
  requests, shards and placement of buckets. `LockInv` says that only an admission that has taken its gauges
  holds a lock, and that every shard it holds is below every one it still wants (`Ascending`). In a circle, the member that holds the highest shard waits for a
  higher one that another member holds, which is absurd; the highest shard exists by well-foundedness.
  `TypeCorrect` and `ConcurrentCapsHold` (the concurrent half of `CapsHold`, whatever the operator edits) rest on
  `GaugeInv`: which gauges a request has taken at each point of its life, and that a gauge is the number of its
  grants. `RequestCapsHold` is the other half. Its invariant `CapInv` relates a cell's count to the charges
  its window has taken (`CountedBy`): no window has more than its cap, and the cell counts at least what was charged to
  its window unless that window is so long over that a sweep may have dropped it. Two things bound it, and the
  theorem states both. `Patient`: the sweep keeps a cell for two windows at least. It keeps it 31 days
  (`governance/state.rs` 1702-1745), and no window but a month of 31 days comes near that; there, a request stamped in
  the old month may find its cell gone. And the all-time buckets it speaks of are those of groups that are
  never deleted (`Spares`), as `reclaim_group_cells` forgets their counts. `CapsKept` is `CapsHold` for behaviours that
  delete no group. `OvershootKept` (`OvershootBounded`) needs neither: `LateInv` says that whoever still has tokens to
  bring to a bucket is in its `flight`, and that the bucket is over its cap by no more than those of the
  flight that have settled.

* `RequestProofs`, on `StreamTranslate`: `StreamBlocksBalanced`, `StreamTerminalLast`, `StreamUsageAgrees`,
  `StreamFailureSettled` and `StreamTyped`, for every pair of dialects, any number of frames, any tool indices, any cap
  on open blocks and wherever an error, an abort, a broken transport or the end of the body falls. The properties
  are about what the client saw and how a body was settled, and say nothing of a stream under way; what carries them is the invariant
  `StreamInv`, in two halves that meet at a *story*: the open blocks, the indices used, how far the end of the
  message has come and which usage was told.
  `StreamReaderProofs` is the first half. `Allowed` says how a story may go on and `After` where it goes; each dialect has
  an invariant between its decode state, what its upstream has sent and the story (`OaInv`, `GeInv`, `CoInv`, `BeInv`,
  `AnInv`, `RsInv`). For instance no index of a cohere story reaches the count of its tracked blocks, and the keys of a responses
  reader are its open blocks as long as an index and a text key cannot meet (`KeysAssumption`). One
  lemma per dialect (`OpenAiReads`, ..., `ResponsesReads`) says that whatever the upstream may send next goes on with
  the story.
  The second half follows any story, whichever reader tells it: `Sync` says that the translator's books and the
  client have the story's blocks open (`Blocks`, with the writer's cap as the one exception), and how much of the
  end has been written, deferred or is still owed in each of the client's dialects (`Ends`: four of
  them defer the terminal frame, bedrock follows its stop with a metadata frame, openai may tell the usage twice). `OneEventFollows` is the step, for each kind of event and client; `EventsFollow` takes
  it through a frame. `finish` then closes the blocks and writes what is owed (`Completed`), and what it leaves is what is
  billed. Readers, writers and the client are folds over sequences, whose general theorem takes an operator as parameter:
  `StreamReaderProofs` tells the five operators that are folded apart by a name (`Do`) and proves existence
  and unfolding once for all of them (`FoldZero`, `FoldNext`, and `EmitFold` and its kin, which tie them to the model's `FoldLeft`).

`ParkCorrect`, `WalkInOrder`, `BillingCorrect` and `RevokeSticks` are proved and need no run of their own.

Only model-checked: the liveness properties (`NoWedge`, `NoLostWakeup`, `AlwaysAnswered`,
`EventuallyFlushed`, `AdminAnswered`), as fairness and ENABLED are outside what the prover handles. Every invariant and
every action property of the runs is a theorem.

Assumptions: `CooldownsValid` and the trip-mode bounds are what `config_validate` enforces;
`LimitsValid` restricts the ledger to a limited lane with a semaphore (an unlimited lane has neither
counter); `FlushBounds` takes finitely many nodes; `AuditAssumption` finitely many recorders and a ring of at least one entry; `BoundsValid` a clock that stays below `u64::MAX`; `ChainAssumption` of `AuthChain` says that a plane's
chain is never empty (an empty one is open, and no module or cache is asked) and that a request is of one plane;
`NoDefinition` that an absent entry is no definition; `ConfigAssumption` and
`ChainAssumption` of `GroupLimits` are what `config_validate` and `validate_groups` refuse otherwise
(`config_validate/mod.rs` 1639: no limit is 0; `config/groups.rs` 397-451: parents exist and form no circle, so that a
chain meets a group and a bucket once); `KeysAssumption` of `StreamReaders` that the cap on open items is positive and
below the offset that keeps the keys of text items apart (128 and 1000 in `proto/openai_responses/mod.rs` 30-48); the
others are typing.

## 5. Where code and documents differ

The properties are stated so that they hold of the code; the exceptions they make, and the steps that
no property forbids, were met on the way:

* *A dropped probe on the main path.* `docs/circuit-breaker.md` 3 says a lane recovers "automatically with
  a single-flight probe". `forward_with_pool` awaits the upstream without a `ProbeGuard`
  (`proxy/engine/mod.rs` 1716), so a client that disconnects there leaves the cell HalfOpen until
  something else records an outcome on it; without a prober nothing does. This is `Orphaned` in
  `NoWedge`, where TLC gives the sequence without that disjunct, and the owner `Dropped` in `ProbesAccounted`.
* *Retry-After as a floor.* `docs/configuration.md` 1046 says it is "always honored as a **floor**". A
  later failure of a cell that a request still held open stores its own, shorter cooldown
  (`breaker.rs` 728).
* *Owner-checked releases.* `breaker.rs` 68-69 and `engine/mod.rs` 1380-1383 ask for them; three bails of the main
  path release without the owner (`engine/mod.rs` 1519, 1549, 1624).
* *Late outcomes.* Any late success closes a HalfOpen cell, not only the probe's (`breaker.rs` 795). A second hard-down
  within the second the prober observed has an equal cooldown and is closed by `recover_lane` (489); this is why `HardDownSticks` lets a recovery close a
  cell that is parked no longer than it was seen to be.
* *The budget's ceiling.* `availability.rs` 704-711 calls the cap "a hard ceiling"; concurrent requests
  pass the gate on the last unit (`engine/mod.rs` 2171).
* *Refunds.* An event stream that breaks after its first byte keeps its unit (`response_body.rs` 281;
  `docs/configuration.md` 1094). `FirstByteBody::drop` bills the usage of a disconnected stream and
  refunds its unit in the same drop (615).
* *Deadline and context.* `least_bad` does not ask for the deadline (`walk.rs` 1098; `docs/configuration.md` 1088).
  What a context-length error taught is not carried into a fallback pool (`engine/mod.rs` 2110;
  `docs/failover.md` 62). Attempts in fallback pools do not count towards `max_hops` (`walk.rs` 1021). The queue may wait for
  the affinity lane that just failed (`walk.rs` 197).
* *Sum of the weights.* `store/in_memory/mod.rs` 405-418 says the accumulators sum to zero; the reset of one
  that is not zero breaks that, and with such resets, or over changing sets of lanes, an accumulator may
  pass the pool's total weight. `FairShare` bounds what this does to selection.
* *Config apply.* An outcome recorded on the old store after its cell was exported is lost with it;
  `ApplyKeepsTrips` speaks of cells that stayed tripped.
* *Self-service keys.* `governance/state.rs` 381-382 says a subject has at most one binding; a refresh that fails at
  493 leaves two. The group of a self key may be deleted between `ensure_leaf` and the binding (`auth/self_keys.rs` 121).
* *Limits.* `governance/state.rs` 1210-1211 says of the reclaim that it is "only reachable for a group that is GONE, so there
  is no cap left for the drop to reset". It runs after the config lock is released (`handlers.rs` 1466), so a group
  created again under the same name in between loses what it was charged so far; `CapsHold` counts
  charges from the reclaim on. `ingress/mod.rs` 571-572 says a straddling request "refunds where it charged (#29)"; one
  that was charged on the cell of a later window (`state.rs` 1841) asks for its own window and is not
  refunded (1884): its fee stays.
* *Dropped counters.* `governance/state.rs` 1712-1735 sweeps the cells of rolling windows by age alone, dirty or not, and
  `delete_key` (1170) and `reclaim_group_cells` (1225-1233) drop theirs with counts unsent; an acknowledgement compares the window only
  (1987-1998) and may land on the cell's successor. `FleetTotal` excepts them ("dropped", "deleted").
* *Config plane.* A persist that fails after a rebuild leaves the limits of the refused configuration
  installed (`main.rs` 3740). An overlay written while the file had an entry keeps shadowing it when
  the file changes (`overlay.rs` 353).
* *Credential cache.* `auth/mod.rs` 415-416 says "A cache HIT is never re-put"; the data plane's commit
  puts hits again, with the time of their first validation (437-462).
* *Audit log.* `admin/audit.rs` 552 says that a tail ahead of what this node persisted "can only be another
  writer"; it is also this node's own append whose answer was lost, and the next write-through then
  detaches the sink until a restart. The seal is said to lift when the tail "verifies" (169, 492); the retry
  reads one row and does not verify it. The comment at 93-97 bounds the threads past the valve by the worker threads
  because they are parked; `block_in_place` (385) hands the worker on, so the bound is the number of admin
  mutations at once; with more of them past the valve than the reserve and one, the ring prunes entries that are not
  durable, and `NothingPruned` excepts that (`calm`). 445 says the ring holds the predecessor of a rebased head that
  kept its number; after a blind boot with more than 1000 mutations it was pruned, and the write-through stops at
  the hole until a restart. 141 says a crash loses "~0 entries": since the flusher writes
  behind, it loses up to a tick, and so may a graceful stop, whose last flush is not awaited by `main.rs` (1072).
  The store's contract (`crates/api/src/store.rs` 855-866) refuses a different record under a number that is
  taken, `audit.rs` 547 expects an upsert.
* *Streams.* `proto/stream.rs` 91-97 counts an in-band error object of an openai upstream among the terminal
  errors; its reader does not notice it (nor the responses `error` event), and the stream is billed as a good one.
  A stream that was found to have failed and is then dropped by its client counts nothing against the lane
  (`response_body.rs` 607-660); `FailureSettled` says so and leaves the count of a missed error open. A responses client gets no `done` for calls beyond the 128 its writer tracks,
  though a cohere or gemini upstream may have 4096 (`missed` in `TerminalLast`). A responses upstream
  that ends without a stop reason has its usage on a chunk without `finish_reason`, which an openai
  client that did not ask for usage still gets (`openai_chat/mod.rs` 986-989). The responses reader
  reopens an index when a refusal follows text in the same item, or an item has a second content part;
  `ResponsesSends` keeps a refusal alone in its item and one part in each.

## 6. Plan and what is not modelled

Next: hooks and gates in front of the walk; the egress token refresher; a composition of `BreakerCell` and `LaneLedger` for `try_admit` as a whole.

Not modelled: translation of requests and of buffered responses (conversions over unbounded JSON,
held by golden files), request signing and TLS, parsing and migration of configuration documents, the
plugin ABI with its signatures, telemetry, and the read-only admin API. They keep no state that the
modelled parts depend on, or are pure functions of a document; `PROJECT.json` lists each with the reason.
