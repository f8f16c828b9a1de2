# Trading-system connectivity: a TLA+ development

This directory holds TLA+ models of the market-data connector and order gateway
of this repository, the TLC configurations that model-check them, and TLAPS
proofs of their main safety properties. Paths below are relative to the
repository root, the one that holds `bin/` and `crates/`.

    cd tla
    tlc -config SpotShard.cfg MCSpotShard.tla        # any run of PROJECT.json
    tlapm SpotShardProofs.tla                        # the proofs

## 1. The system

| Component | State it keeps | Operations |
|---|---|---|
| Order book (`crates/order-book`) | two price-to-quantity maps, `last_update_id`, stale flag | `apply_snapshot`, `apply_delta`, `mark_stale`, `mark_recovered`, `checksum` |
| Sequence validators (`binance-*-adapter/src/sequence.rs`) | `AwaitingSnapshot`, `Bridging(id)`, `Active(id)`, `Stale(id)` | `on_snapshot`, `validate`, `reset` |
| Recovery buffer, circuit breaker | buffered deltas; failure count, `open_until` | `push`, `drain_after`, `clear`; `check`, `record_success`, `record_failure` |
| BBO and snapshot checks | since when prices mismatch | `check`, `clear`; `check_snapshot` |
| Spot and futures shard tasks (`bin/connector/examples/*_e2e.rs`) | one `SymbolState` per symbol, the frame channel, `encode_buf`, the sequence counter | frame, 1-second tick, validation tick, REST recovery, publication |
| Connection manager | reconnect count, ping state, rotation deadline, write channel | `run`, `connect_and_run`, backoff |
| Sharded publisher, backpressure, heartbeat (`crates/aeron-publisher`) | publications per shard, failure window, last beat | `offer`, `reconnect_sync`, `try_offer_at`, `is_due` |
| Connector process (`bin/connector/src/main.rs`) | none of its own | normalizes and publishes every frame; keeps no book |
| Redundancy arbiter (`crates/redundancy`) | pending checksums of both instances per symbol | `ingest`, `reset_symbol` |
| Order state machine, engine (`order-gateway/src/machine.rs`) | per order: state, filled quantity, seen trade ids, deadlines | `process_input`, `tick` |
| Order gateway, journal, client order ids | order records, the journal file, the id counter | `enqueue`, `on_ack`, `on_fill`, `on_cancel`, `on_reject`, `on_expire`, `replay_journal` |
| Reconciler, user stream | schedule flags; listen key | `on_startup`, `on_reconnect`, `tick`, `on_completed`, reconciliation functions |
| Reference data | instrument definitions, a sequence counter | `upsert`, `apply_batch`, publication, open-interest polling |
| Sharding and configuration | none | assignment of symbols to shards and instances |
| Replay, ClickHouse bridge, shadow compare, observer | cursor and virtual clock; batches | tools around the connector |
| Codecs, normalizers, metrics | none but counters | conversion of single messages |

**How they interact.** The WebSocket task of a connection manager pushes raw
frames into a bounded channel with `try_send`. A shard task takes frames and
timer ticks from one `select!`, one at a time, and awaits REST requests inside
the handler, so that nothing else of that shard runs meanwhile while the
channel goes on filling. It owns the books and offers binary messages to the
publisher, which offers them to Aeron. The order gateway is driven by the user
data stream and by REST reconciliation, and writes each change to a journal
which it replays when it starts.

**What is hard.** Deltas lost (full channel, reconnect), repeated, and buffered
across a REST request whose answer may be older than the book; two independent
checks that mark a book stale behind the validator's back; one failure counter
fed from overflows and recoveries; one encoding buffer shared by a frame and the
control messages it causes; fills that overtake acknowledgements; a crash
between an in-memory change and its journal record; a reconnect during a
reconciliation; checksums of two instances in different orders.

**What makes each component correct.**

* Book and recovery: the levels of the book are those the venue had at
  `last_update_id`; a book that is not stale lacks nothing its validator was
  given; a stale book is eventually recovered; what subscribers are told
  agrees with the book.
* Orders: filled quantities never exceed the order and never count a trade
  twice; a terminal state is final; no fill is lost in any order of events;
  replay rebuilds the orders of before the crash; client order ids never repeat.
* Reconciliation: every reconnect is followed by a reconciliation that started
  after it; an order known to both sides is never reported as vanished.
* Arbiter: a divergence is reported exactly for ids whose checksums differ.
* Publisher: back pressure is reported while it lasts; nothing is offered to a
  closed publication for ever.
* Connection manager: a silent peer is dropped, a live one is not, and shutdown
  is always noticed.

`PROJECT.json` lists the components with what is modelled of each, and the
hazards with the properties that cover them.

## 2. Plan

Done, in this order:

1. The spot shard: `OrderBook`, `SpotSequence`, `RecoveryLimits`, `SpotShard`,
   with `SyncedBook` as its abstract specification, and `SpotShardPublish`, what
   it offers. Proved in `SpotShardProofs`.
2. The order path: `OrderMachine`, `OrderJournal`, `OrderGateway` with exchange,
   journal, crash and replay, and `OrderHistory` as its abstract specification.
   `OrderGatewayProofs`.
3. The futures shard: `FuturesSequence`, `FuturesShard` over the modules of step
   1, refining `SyncedBook` too. `FuturesShardProofs`.
4. The processes: `Connection` with `ConnectionLife` as its abstract
   specification, and `Connector`, the tasks of the connector with their
   publishers and the media driver. `ConnectorProofs`.
5. The comparison of two views: `Arbiter` (two instances) and `Reconciliation`
   (gateway and exchange). `ArbiterProofs`, `ReconciliationProofs`.
6. The parts that meet no other while they run, composed in `MCParts`: `Refdata`,
   `Replayer`, `Backpressure`, `ShadowCompare`, `Bridge`, `Decimals`, `Wire`.

What would come next: the fills and balances of `Reconciler` and the listen key
of the user data stream; several symbols that compete for one shard task.

## 3. Modules

### OrderBook

A book is a function from price levels to quantities, 0 standing for a level
that is absent. The venue is outside the repository: `VenueBook[n]` is its book
after update `n`, any function whatever, and a delta is the range of update ids
`[first, final]` it covers. The levels a delta carries are those whose quantity
changed in that range, with their quantity at `final`: this is what the diff
stream of the exchange sends, and `ApplyDelta` does with it what `apply_levels`
does, without any check. Checksums, symbols and the stale *reason* are left out.

### SpotSequence

`SequenceValidator`: the four states as records `[st, id]`, `validate()` as one
predicate per verdict (`Applies`, `Discards`, `Gaps`, `Buffers`) and the states
it leaves (`Advanced`, `Broken`).

### RecoveryLimits

`RecoveryBuffer::push` with the caller's `push_to_recovery` (on overflow the
delta is not stored and the buffer is cleared), and `CircuitBreaker`. Time is
the cooldown that is left; `CooldownPasses` counts it down. The age and byte
limits are an input of the push that may hit whenever the buffer is not empty.

### SpotShard

One symbol of `run_shard`. Symbols share nothing but the task's time.

| Variable | Code |
|---|---|
| `venue`, `streamed` | the exchange: last update id generated, last one sent on the depth stream |
| `frames` | the `mpsc` channel filled with `try_send` (spot_e2e.rs:204-213) |
| `rest`, `pc` | the REST request in flight and the `await` the task stands at |
| `val`, `levels`, `last`, `stale`, `recBuf`, `circuit`, `bbo`, `feed` | the fields of `SymbolState` |
| `handled`, `based` | history: highest id the validator was given; whether a REST snapshot was ever applied |

`SkipFrame` takes a depth frame off the channel that does not parse, does not
normalise or does not fit `encode_buf` (the `continue`s of spot_e2e.rs:448-478):
the validator never sees it. `TakeFrame` with `ApplyFrame`, `DiscardFrame`,
`BufferFrame` and `GapFrame` are the four verdicts of one that is handled, with the
startup seed (`Seeded`). `GapFrame`
does everything up to the `await`; `Tick` is the 1-second retry. A recovery is
then `ApplySnapshot`, one `ReplaySkip`, `ReplayApply` or `ReplayGap` per buffered
delta, and `Recovered`, or `FetchFailed`. `CheckTick` ... are the periodic
snapshot comparison, `Bbo...` the four outcomes of a BBO frame. The venue, the
stream, the REST server and the clock move at any time, also during an `await`:
`StreamDelta` drops the delta when the channel is full, `LoseDelta` stands for
what is sent while a connection is down, `DuplicateDelta` for repeated delivery,
`RestServe(lag)` for a REST server that is `lag` updates behind.

Abstractions: the BBO stream is another stream, so its prices may match the book
or not in any state, and only the band of the mismatch's duration is kept; the
snapshot comparison looks at the prices present on a side with tolerance 0
(sides of one level; the code tolerates a fraction of the top levels); a tick
handles one symbol. `handled` and `based` are never read by an action.

### SyncedBook

What a mirrored book promises: while it is marked good its position follows the
venue forward and never passes it; it is marked bad before it jumps. `SpotShard`
implements it with `pos <- last` and `synced <- ~stale /\ feed # "Connecting"`.

### SpotShardPublish

`SpotShard` with what each step offers to the publication. The frame is encoded
into `encode_buf` before it is handled and offered from `encode_buf` afterwards
(spot_e2e.rs:475, 814); each control message of the handling is encoded into the
same buffer. `AfterFrame(ctl, frame)` is what therefore leaves: the control
messages, then the frame only if there were none, else the last control message
once more (as many bytes of the buffer as the frame had). `heard` and `marked`
are a subscriber's view. Offers are taken to succeed, sequence numbers are left
out.

### OrderMachine

`OrderSm` as operators on a record: `Process(sm, in)` gives the machine that an
input leaves and the actions it returns. `Kept` is what the engine does
afterwards: a terminal order is forgotten. The three places that flush the
buffer on an acknowledgement (machine.rs:257, 367, 420) are one operator,
`Acknowledge`. **A quantity is the list of the trades it sums up**: `counted`
stands for `filled_qty`, and `Lots(counted)` is its number, so a trade that is
lost or counted twice cannot hide behind an equal sum.

### OrderJournal

The gateway's order record, its journal entries, what each `on_*` method does to
the record and writes, and `replay_journal` as a fold over `ReplayEntry`. An
entry is one element of the log; what the bytes look like matters only when the
file ends in the middle of one (`torn`). `Cancelling` is never set by the code.

### OrderGateway

The composition: engine, gateway, journal file, exchange, and the caller that
drives them. The caller is not in the repository (nothing under `bin/` uses the
crate); `Idle`, `Send`, `Acts`, `Schedule` and `Apply` follow the integration
pattern that heads machine.rs, which stops at the first error (`?`).

| Variable | Code |
|---|---|
| `orders`, `next` | `OrderGateway::orders`, `ClientOrderIdGenerator::counter` |
| `sms` | `StateMachineEngine::orders`, `Untracked` for no entry |
| `todo`, `checks` | the caller: actions not yet handed over, REST checks asked and answered |
| `journal`, `written`, `torn` | every entry appended; how many are in the file, the rest being in the `BufWriter`; part of one more in the file |
| `up`, `replayed` | `Journal::open` and the progress of `replay_journal`, one entry a step |
| `venue` | the exchange's record of each order: acknowledged, trades, state |
| `dropped`, `restored` | history: orders that lost an action to an error, orders found in the journal by the last restart; never read by an action |

* *Reports.* `Reports(c)` is everything the exchange has ever reported of an
  order, and `Receive` takes any of it: late, repeated, out of order, or never.
* *Status checks.* `Tick` moves overdue orders to `UnknownStatus`; `Answer` is
  `reconcile_order_status` on the exchange's state of that moment, and `Resolve`
  reads it any time later. `TradesQueried` says whether the caller passes
  `raw_trades`.
* *Actions.* `Apply` hands one action to the gateway: memory first, then the
  journal. It has no step for an action that the gateway refuses
  (`InvalidTransition`) or ignores; `ActionsAreLegal` says that there is none.
* *Failed writes.* `PersistFails`: `write_all` only fills the buffer, `flush`
  may write any part of it and fail; what is left is written first by the next
  append. The buffer's 8 KiB are never exceeded by the entries of the model.
* *Crash.* Memory and unwritten entries are lost. `Open` refuses a torn file
  (`decode_all`), `Replay` and `Restarted` rebuild. The engine tracks nothing
  after a restart: no code tracks recovered orders again. A shutdown that drops
  the `BufWriter`, and so flushes it, is left out.

### OrderHistory

What the journal promises, without engine, exchange or buffers: an order is
requested once, acknowledged at most once and before its fills, a trade counts
once, nothing follows the entry that closes an order, and a crash forgets only
what was not written. `OrderGateway` implements it with `log <- journal` and
`synced <- written`.

### FuturesSequence, FuturesShard

The futures adapter has its own validator: while it is `Active` a delta must name
the end of the event before it (`pu`), because event ids have holes; while
`Bridging` it goes by `U` and `u`. `FuturesShard` is one symbol of `run_shard` of
futures_e2e.rs with `apply_futures_snapshot`; `SkipFrame` is a frame that does not
parse or normalise. Compared with `SpotShard`, the delta that shows a gap is not
buffered, no ticker tries a failed recovery again, and nothing fetches a first
snapshot: `SeedsBook` says whether somebody calls `run_futures_recovery`, the
library's entry point for it (`Seed`). Environment and faults are those of
`SpotShard`; an event starts at any id before which nothing has changed, so the `U`
of one is not the `u` of the last plus one (`StreamDelta`). The history variable
`current` says whether the last snapshot held everything that had been dispatched to
the book. `FuturesShard` implements `SyncedBook` too.

### Connection, ConnectionLife

`ConnectionManager::run` and `connect_and_run`; the copies of the two adapters are
the same code. `task` is where `run` stands: at the check of the shutdown, in the
dial, in the select, in the `send().await` of a ping or pong into the bounded
channel (`sending`), draining, or in the backoff. The biased select is four guards
in its order: shutdown, rotation, ping tick, read. The send task has a message in
hand (`writing`) between taking it from the channel and writing it. The peer may
ping, answer, send data, close, turn deaf (the socket stays open and is not read)
or be gone. Time is left out: any timer may fire at any moment. `MaxPings` bounds
the pings of the peer in a session, `WireCap` what the socket holds.

`ConnectionLife` is what `run` promises its caller: sessions come and go until the
shutdown, which ends it for good. `Connection` implements it, liveness included.

### Connector

main.rs: a task per connection, the open interest poller and the startup publication
of the definitions, each with a publisher of its own. A connection and the poller
number their messages themselves. A definition carries its position in exchangeInfo
and is published in the order of the configured universe, so those numbers have
holes and may descend; nothing reads them, and the model knows a definition by its
place in the universe. `Build` is `build_aeron_with_retry` with its retry and its
interruption, `Frame` what the frame callback numbers, `Publish` `publish_one` with
its encode error and the outcomes of an offer, `Reconnected` the end of
`reconnect_sync`. That function blocks a worker of the runtime: `WorkerFree` and
`CanRun` say who can run meanwhile, and signals and timers reach main only while a
worker is free. The driver may die and may come back; a publication left by a dead
driver refuses offers until the client closes it (`ClientCloses`).

### Arbiter

`ChecksumArbiter::ingest` and `reset_symbol` for one symbol, with the checksum
publishers of the two instances: ids with holes, refused offers, checksums under
way in any interleaving, and an instance that goes back to earlier ids (`Rewind`).
`told` and `age` are history: the last report of each instance and id that was not
dropped as stale, and how many entries were pushed since an id's own.

### Reconciliation

The scheduler of reconciler.rs, the comparison of open orders and the query of one
order, with the order machines of `OrderMachine` (one trade per order), the
exchange, a user data stream that is lost and comes back, and REST answers that are
as old as the moment they were served at: `Served` and `Completes` are two steps,
so are `QueryServed` and `QueryAnswered`. The loop around the scheduler is not in
the repository and follows the usage in the module's documentation. `fresh`,
`synced` and `overtaken` are history: whether an answer younger than the last
reconnect has come and has been compared, and whether that reconnect came while
the reconciliation of an earlier one was under way.

### Refdata, Replayer, Backpressure, ShadowCompare, Bridge, Decimals, Wire

Seven parts that meet no other while they run, and `MCParts`, which composes them: a
behaviour is one of the part it chose at the start.

* `Refdata`: `RefDataService::run`, `InstrumentRegistry::upsert` and `apply_batch`,
  `RefDataPublisher::broadcast` to shards whose offers may be refused. `missing` is
  history: the symbols each consumer has been refused something of since it last took
  a definition with its status.
* `Replayer`: `next_frame_at` under every timing, with the duplicate it holds back,
  the frames it drops or corrupts, the virtual clock and `reset`. The
  pseudo-random numbers are a choice.
* `Backpressure`: `BackpressureGuard::try_offer_at` and `reset`.
* `ShadowCompare`: the comparator's two drains, the comparison and the verdict.
* `Bridge`: the set-up, the poll thread, the unbounded channel, the kinds of
  messages without a table, which are passed over (`PassesOver`), one inserter per
  table, and the watcher that alone receives signals.
* `Decimals`: the four copies of `parse_scaled`, those of the two adapters being the
  same code, and `to_d8`, digit by digit.
* `Wire`: the fields of every normalized message in the order in which they are
  written and read, the buffer a publisher encodes into, Aeron's cut into fragments
  of the MTU's length, and the bridge's poll, which decodes each fragment by itself.
  A number, flag or text fills one cell of a buffer.

### MC modules

`MCSpotShard`, `MCSpotShardPublish`, `MCFuturesShard` and `MCOrderGateway` give
the constants that are functions (the venue's books, the trades' sizes); `MCParts`
is described above. The other modules are checked directly.

## 4. Runs

| Run | What it shows |
|---|---|
| `spot_shard` | `TypeOK`; `BookIsVenueBook`: updates are never mixed, whatever was lost, repeated, overflowed or served late; `LiveMeansFresh`; `CircuitCountsFailures`; `SubscriberInStep`: control messages keep a subscriber in step in spite of the overwritten buffer; the refinement `FollowsVenue` |
| `spot_shard_fresh` | `NoMissedDelta` when REST never lags: a book that is not stale has every delta its validator was given, whatever was lost or skipped before; under fairness `StaleIsRecovered`, through open circuits and full buffers |
| `order_gateway` | `ActionsAreLegal`; `Agree`: engine and gateway have the same state and fills between actions; `Settled`: the engine forgets only closed orders; `FillsAreTrades`; `Recoverable`: the journal rebuilds the orders in memory, failed writes included; `FreshIds`; the refinement `KeepsHistory`; under fairness `DoubtEnds` |
| `futures_shard` | `BookIsVenueBook`; `MissesOnlyByLag`: the same of a trusted futures book, but for a snapshot that lagged; `FollowsVenue` |
| `connection` | `PongsInOrder`: every ping is answered once, in order; `PingAccounted`: the flag that drops a session tells the truth; `DeadSessionEnds`; `LifeKept`, the refinement of `ConnectionLife` with its liveness |
| `connector` | `InOrder`: the messages of a task arrive in the order in which it came to them; `LossesCounted`: the failure counter is the whole truth about loss behind the normalizer and the encoder, which count nothing; `CtrlCExits` |
| `arbiter` | `VerdictIsTrue`; `WindowIsEnough` |
| `reconciliation` | `LossIsReported`, `OrphanIsReported`, `ReconnectIsOwed` |
| `parts` | `ConsumersAgree`, `RegistryCatchesUp` (reference data), `FramesAreAccountedFor` (replay), `RestartIsEarned` (back pressure), `DifferenceIsCounted` (shadow compare), `OnlySignalsStop`, `SignalEnds` (bridge), `RowIsText` (decimals), `WholeOrRefused` (wire) |
| `spot_offered` (violation) | an applied delta that is never offered, against readme:431 |
| `order_torn` (violation) | half an entry at the end of the file makes the journal unreadable, against journal.rs:534 and gateway.rs:32 |
| `funding_sign` (violation) | a negative rate is normalised to a positive one, against message.rs:391 |

**Bounds.** *Shards*: `MaxId` 5 update ids (4 in the violations): enough for a
delta of several ids, a gap, a buffered delta, a lagging snapshot, a replay and a
second gap. `QueueCap` 2 or 3 frames, so that the channel fills. `MaxEvents` 2, so
that the buffer overflows and replays of two deltas happen. `MaxAttempts` 2: one
failure below the limit, one that opens. `Cooldown` 1 or 2 steps, so that a request
can outlast part of it. `RestLag` 0 to 2. One bid and one ask level, changed,
removed and restored in turn: a one-sided book disables the checks, and each level
has a history a wrong replay would show. *Orders*: one order (`MaxCounter` 0;
orders share only the journal and the id counter, and `FreshIds` is proved for any
number), three trades of sizes 1, 1 and 2 and an order for 3, so that it is filled
by two trades or left partly filled, two failing writes (an entry kept by the
writer and one written with it, or torn twice) and two crashes (one during a
replay). *Connection*: a write channel of one message and a wire of two, so that
both fill, and three pings, one in each of wire, channel and hand. *Connector*: one
connection and the poller on two workers and two definitions, so that one or all of them can be
blocked, one death of the driver. *Arbiter*: a window of two entries, four ids (two
more than the window keeps), one step back. *Reconciliation*: one order (orders
meet in the sets of a list only, and the proofs are for any number) and two losses
of the stream, so that a reconnect can overtake another's reconciliation. *Parts*:
`Parts.cfg` and `MCParts` say what each bound is for.

Deadlock is checked in `connection`. In the other runs the model stops when its
environment has used up its bound and everything is handled.

**Fairness.** Weak for what the runtime polls: the tasks' handlers, their tickers,
the clock, a free worker. Beyond that:

* `spot_shard_fresh`: strong for `RestServe(0)`. A request repeated for ever is now
  and then answered with a current snapshot; a server that always failed could not
  be recovered from. Nothing is asked of the venue, the stream, the BBO frames or
  the validation ticker.
* `order_gateway`: weak for the caller's loop and for `Tick` (machine.rs:588 asks
  for a periodic call), strong for `Answer`: a check that fails is asked again
  (machine.rs:491) and is not taken to fail for ever. Reports need no fairness: the
  check is there for when they do not come.
* `connection`: the ticker ticks, a peer that is up reads what it is sent and
  answers, a dial ends, and the kernel gives up a socket whose peer has stopped
  reading and whose send buffer stays full (`SocketBreaks`). Without the last one
  `out_tx.send` and `send_task.await` would hang: there is no timeout around them.
* `connector`: the driver needs no fairness. `CtrlCExits` holds whether or not it
  ever comes back, but in the state it names.
* `parts`: a reference data fetch that is repeated succeeds in the end (strong);
  the steps of the bridge's threads and of its watcher (weak).

**More configurations.** These are not runs: each shows something the code does
that its documents do not rule out plainly, or that follows from another run. They
are called with `tlc -config <file> <module>` and end in a violation.

| Configuration | Module | What the trace shows |
|---|---|---|
| `SpotShardLagging.cfg` | `MCSpotShard` | one update of REST lag breaks `NoMissedDelta`: a recovery trusts any snapshot, and a book that a check marked stale goes on applying deltas, which are then not in the recovery buffer |
| `SpotShardStaleDelta.cfg` | `MCSpotShardPublish` | `NoStaleDelta`: deltas of a stale book are offered; readme:464 wants it withheld or flagged |
| `FuturesShardUnseeded.cfg` | `MCFuturesShard` | `BookIsSeeded`: the futures task fetches a snapshot from the handler of a gap only, and a validator that awaits one shows no gap; README.md:91 has it seeded at startup |
| `OrderForgotten.cfg` | `MCOrderGateway` | `NoFillForgotten`: a cancel before the acknowledgement closes the order with the fills buffered for it (machine.rs:8, readme:712) |
| `ConnectorHang.cfg` | `Connector` | `DrainIsBounded`: with every worker in `reconnect_sync` neither the signal nor the five seconds of main.rs:524 are delivered |
| `ConnectorDefinitions.cfg` | `Connector` | `DefinitionsFirst`: market data without a definition, when the startup publication was refused |
| `ArbiterStale.cfg` | `Arbiter` | `StaleIsEvicted`: a report is called stale although its id was never evicted |
| `WireCut.cfg` | `Wire` | `FragmentsAreMessages`: a book message longer than the MTU (1408 bytes, some 80 levels) reaches the bridge as two fragments and neither is a message, so it is lost with a debug line (main.rs:602, and the observer's main.rs:259, poll without an assembler); README.md:248 says that every fragment is a header and its payload |
| `ReconciliationLost.cfg` | `Reconciliation` | `ReconnectIsReconciled`: the second of two reconnects is cleared by the completion of the first |

## 5. Proofs

Eight modules hold theorems. All of them are about the specifications the runs
check, for every value of the constants that the named assumptions allow.

| Module | Theorems | Of the runs' properties |
|---|---|---|
| `SpotShardProofs` | `TypeCorrect`, `BookIsExact`, `LiveIsFresh`, `CircuitCounts`, `BookFollowsVenue`, `NothingMissed`, `PublishIsShard`, `PublishKeeps`, `SubscriberIsInStep` | `TypeOK`, `BookIsVenueBook`, `LiveMeansFresh`, `CircuitCountsFailures`, `FollowsVenue`, `NoMissedDelta`, `SubscriberInStep`; the first five also of the publishing task |
| `OrderGatewayProofs` | `TypeCorrect`, `IdsAreFresh`, `FillsAreReal`, `NothingIsRefused`, `RecordsAgree`, `ForgottenIsClosed`, `JournalRebuilds`, `JournalIsHistory` | `FreshIds`, `FillsAreTrades`, `ActionsAreLegal`, `Agree`, `Settled`, `Recoverable`, `KeepsHistory` |
| `FuturesShardProofs` | `BookIsExact`, `MissesAreLags`, `BookFollowsVenue` | `BookIsVenueBook`, `MissesOnlyByLag`, `FollowsVenue` |
| `ArbiterProofs` | `VerdictsAreTrue`, `WindowSuffices` | `VerdictIsTrue`, `WindowIsEnough` |
| `ConnectionProofs` | `AnsweredInOrder`, `FlagTellsTheTruth`, `LifeIsKept` | `PongsInOrder`, `PingAccounted` |
| `ConnectorProofs` | `StreamsAreInOrder`, `NullGetsNothing`, `LossesAreCounted` | `InOrder`, `LossesCounted` |
| `ReconciliationProofs` | `ReconnectsAreOwed`, `OrphansAreReported`, `LossesAreReported` | `ReconnectIsOwed`, `OrphanIsReported`, `LossIsReported` |
| `PartsProofs` | `ConsumersHear`, `FramesAreCounted`, `RestartsAreEarned`, `DifferencesAreCounted`, `BridgeAccounts`, `RowsAreExact`, `MessagesAreWholeOrRefused`, and `PartsKeepTheirs` for all seven in the composed specification | `ConsumersAgree`, `FramesAreAccountedFor`, `RestartIsEarned`, `DifferenceIsCounted`, `OnlySignalsStop`, `RowIsText`, `WholeOrRefused` |

**SpotShardProofs** assumes `VenueAssumption`, `LimitsAssumption`,
`ShardAssumption`: any history of the venue's book, naturals for the limits, the
queue, buffer and circuit limits positive. None of the invariants is inductive
alone. `Inv` adds: every delta in the channel and the buffer is a range of ids
already streamed; `last`, `handled` and the REST answer are behind the venue; in
`Connecting` nothing has happened yet; a validator that can apply a delta stands at
`last` (`PositionInv`), so that what it applies joins the book; and each wait of
the task has its meaning (`TaskInv`): a recovery works on a stale book, a replay on
one that rests on the snapshot. `ApplyDeltaIsExact` is the lemma about data: a delta
that overlaps or extends a good book makes it the venue's book at `final`.

Its last part proves `NoMissedDelta` when `RestLag = 0`. `DiscardFrame`
is the dangerous step: an active validator discards on `first` alone. `AlignedInv`
says that wherever a delta ends, no delta still to come reaches across it, so what
is discarded has been applied whole; `CurrentAnswer` says that the answer a
recovery uses contains everything handled, because no frame is taken meanwhile. A
frame that is skipped or lost needs no case of its own there: it only makes a hole
before the next one.

The module ends with `SpotShardPublish`: it shows that a step of the publishing task is a step of
`SpotShard`, which carries its theorems over, and that the subscriber's view agrees
with the task's after every handler. The strengthening (`RecoveringInv`) is that
the feed state is Recovering while the recovery of a gap is awaited.

**FuturesShardProofs** follows `SpotShardProofs` for the `pu` rule. The event ids
have holes, so `IsEvent` says that nothing changed between `pu` and `U`. `Chained`
says that no event reaches across the end of another, and `Placed` that none
reaches across the position of an active validator, so an event it discards has
been applied whole. `CurrentInv` carries that through a recovery whose snapshot
did not lag.

**OrderGatewayProofs** (`QuantityAssumption`: finitely many trades of positive
sizes; `CounterAssumption`, `FailureAssumption`). For `TypeCorrect` the work is in
`ProcessTyped`, that every input in every state leaves a machine and a list of
actions of their types, and in `AppendsEntry`, what both outcomes of an append do
to the file. For `IdsAreFresh` the counter is volatile and a crash takes it back to
what the file says, so the invariant `IdInv` speaks of the file: an order that is
tracked or known to the exchange has its request among the first `written` entries.

The other six rest on one invariant, `Inv`, whose parts each property needs of the
others:
- the exchange's book (`VenueInv`) and the answers under way (`ChecksInv`): an order
  has no more trades than it asked for, exactly that many once filled, and an answer
  that it is filled lists them;
- the journal (`LegalJournal`, `TrueFills`): every prefix rebuilds orders that its
  entries describe, each entry was legal when it was written, fills are trades. It is
  stated for every prefix because a crash may cut the file anywhere;
- the orders in memory (`OrdersInv`) are what the journal, or what has been replayed
  of it, rebuilds; an order whose request could not be written is in the journal only;
- the machines (`SmInv`): what is counted and buffered are the trades seen, each once;
- how they stand to each other (`EngineInv`). `Rest` says what is true of an order for
  which no action is under way. Between an input and the last of its actions the
  engine is ahead of the gateway, and `Plan` says by what: an acknowledgement if the
  order is pending, then a list of fills that makes the gateway's list the machine's.
  Each action handed over keeps the plan with one action less; the last one, or a
  failed write, which drops the rest, brings the order to rest.

`FillsAreTrades`, `Agree`, `Settled`, `Recoverable` and `ActionsAreLegal` follow from
`Inv`; `KeepsHistory` is the refinement of `OrderHistory` (`StepRecords`: each append
is a `Record`, a crash is a `Crash`, all else stutters). `Settled` is proved for
`TradesQueried = TRUE`: with FALSE it fails (section 6).

Two lemmas about data take the place of an induction over lists. `LotsAreWeight`: the
fold that sums the sizes of different trades, in an order nobody knows, is the number
of units in a set, so that parts and wholes can be compared by cardinality.
`ReplayedAppend`: replaying one entry more is one step of `replay_journal` more. The
library's induction theorems cannot be used here, so the first is proved by a least
counterexample among the sets of positions, the second from the least number that is
missing from a set (`NatSetInduction`).

**ArbiterProofs** (`ArbiterAssumption`: window and backlog positive). The invariant:
the queue holds an id once (`Distinct`), its slots are the last reports
(`SlotsTrue`), the age of an id is its place from the end (`AgesArePlaces`), and
until the first rewind the queue is in ascending order (`Ordered`), which makes the
comparison with its front a test of eviction. The attempt to prove `VerdictIsTrue`
for reports of any kind failed on a case that the bounds of the run had left out:
see `arbiter.rs:192` below.

**ConnectionProofs** (`ConnectionAssumption`: both capacities positive). `Base` says
who holds a message: the read loop while it awaits room, the send task while it
writes, nobody else, and a channel without a send task is empty. `AnswerInv` numbers
the two ways of an answer: the pings that come carry the numbers after those read,
the pongs that go those after the ones written, and both ends meet at `heard`.
`FlagInv` is wider than `PingAccounted`: between the tick and the end of the awaited
send the ping is already there and the flag not yet set, so it holds at every step
of the read loop and counts the ping in hand for the flag. What a step does to the
counts follows from `SoFarConcat`, that the counts of two queues add up, proved from
the least position where they would not.

**ConnectorProofs** (`ConnectorAssumption`). What a publisher has delivered, what
it still has to offer and how many messages it has made (`Made`) are one ascending
sequence (`OrderInv`), through encode errors, refusals, closed publications and
reconnects. `LossesCounted` compares sums
over the tasks: `SumIsWeight` makes a sum of counters the size of a set with one
element for each unit, so that a step that adds to one counter adds to the sum
(`SumMoves`). `CountInv` adds what the sums leave open:
a task that is back at its socket has nothing left to offer.

**ReconciliationProofs** (`ReconciliationAssumption`). `OwedInv` is about the
scheduler: until an answer younger than the last reconnect has been compared, a
request is pending, or one under way was asked early enough, or the reconnect came
too late for it. `OrphanIsReported` rests on the order machine: an order that the
exchange has and has not closed is let go by its machine only on a `NotFound`
(`QuietStep`), so no orphan arises after the start but those, and any list of open
orders, however old, holds all of them (`ListInv`).

**PartsProofs** (`PartsAssumption`: finitely many symbols and shards, prices in
ticks, natural thresholds, digits from 0 to 9, natural bounds on the decimals'
scales and on the levels of a side, an MTU of at least one cell). Each part is proved
by itself, for its own specification; `EachPartIsItself` shows that a behaviour of
`MCParts` is one of every part, so the results hold in the composition
(`PartsKeepTheirs`).
- Reference data: `BehindInv` says that of a symbol a consumer lacks nothing of it is
  behind the registry by the events still to come and by nothing else. An event without a
  status is the delicate case: it is safe because the registry had the same trading
  flag before, which the consumer therefore has. `Fetched` folds `Upsert` over the
  exchange's list; `BatchIsSteps` unfolds it into one `Upsert` after the other, and
  `BatchInv` is kept by each.
- Replay: a duplicate that waits is one of the frame handed out last, so fewer were
  repeated than delivered (`FrameInv`).
- Back pressure: a window begins after the last relief, and its warning is in the log
  exactly if the flag says so (`WindowInv`).
- Shadow compare: a difference between the last quotes of both sides has been
  counted, and what was counted has left its mark in the largest difference, which
  the verdict looks at (`CountedInv`).
- Bridge: what was received of the kinds with a table is in the channel, with an
  inserter, in ClickHouse or in the log, and the loop ends by itself only when the
  poll thread ended before it had decoded anything (`EndsInv`).
- Decimals: `TenTo` is what the code's `pow` computes; `TenIs` unfolds it, and from
  there on the proof is about `Written`, the number a text writes at each scale. A
  place more makes it ten times as large and adds the next digit, a zero behind the
  last (`WrittenGrows`), and cutting a digit again undoes that (`CutAndGrown`). The
  copies of `parse_scaled`, though they cut, pad and add in different orders, all give
  `Written` at their scale (`CopiesAreExact`), `to_d8` cuts or grows it to the column's
  (`ColumnIsExact`), and `DecimalInv` carries it from one step to the next. As in the
  run, texts with a minus sign are excluded: for those `RateKeepsSign` fails.
- Wire: decoding undoes encoding. `FlattenIs` says where in a buffer each field lies
  and `DecodedIsSteps` what the decoder has after each. For one field, `ReadsBack`: of
  cells that begin as the field's do, it reads its value, or refuses when one is missing,
  the count of a side's levels telling how many there must be. `FieldStep` carries that
  from field to field, so the decoder fails at the first field that is cut and reads
  none wrongly. `BodyListed` goes through the seventeen layouts, and
  `MessageReadBack` adds the header. What was polled last is a fragment of some message
  (`WireInv`), and the first fragment is the whole message or its beginning
  (`FragmentsDecode`).

The last two are inductions over the length of a list, which is within reach of the
library's theorem on sets of naturals: the recursive functions behind `FoldLeft` and
`FlattenSeq` are shown to exist up to each length (`NumberExists`, `DecodedExists`,
`JoinedExist`), which gives their equations.

**Only model-checked.** Liveness alone (`StaleIsRecovered`, `DoubtEnds`,
`DeadSessionEnds`, `CtrlCExits`, `RegistryCatchesUp`, `SignalEnds`, and the half of
`LifeKept` that promises an end): the prover has neither `ENABLED` nor induction
over time.

The type invariants of `OrderGateway`, `FuturesShard`, `Connection`, `Connector`,
`Arbiter`, `Reconciliation` and `Refdata` are not among the runs' properties. They are part of
the inductive invariants of the proofs where there are any, and can be checked by
adding `INVARIANT TypeOK` to the configuration.

## 6. Not modelled

* *Sharding and configuration*: routing is a hash modulo the number of shards and
  an ownership test, without state.
* *Wire codecs*: widths, byte order and text of the normalized messages, the
  checksum message of the status stream, and the decoders of the exchange's SBE and
  JSON frames: each takes one frame, and round-trip and golden tests cover them.
* *Normalizers*, but for decimals and sequence numbers: field-by-field conversion.
* *Metrics*: counters that nothing in the system reads back (one remark below).
* *Observer*, `aeron-driver` and the e2e programs other than the two shard tasks:
  they print or launch.
* Within the shards: several symbols that compete for the task's time (a slow REST
  request of one delays the others, seen here only as a channel that fills), the
  heartbeat, statistics, failed offers. Within the order path: prices, exchange
  ids, timestamps, `untrack` and the queries, fills and balances of
  `Reconciler`, the listen key. Within the connection: the length of the backoff,
  request headers, pongs the WebSocket library sends by itself. Within the
  connector: the REST calls before the tasks start, and the HTTP endpoint.

About a seventh of the repository's lines of Rust stand behind a definition. The
rest is what this section lists: structures and conversions, test code (two fifths
of all lines), tools.

**Seen in the code and stated by no property**

*Shards.*
* A symbol goes Live on its first delta, on an empty book that no snapshot seeds
  (spot_e2e.rs:495), although README.md:60 has a snapshot fetched on startup.
  `BookIsVenueBook` therefore speaks of books that rest on a snapshot.
* The Degraded feed state ends only with a recovery of the book; prices that agree
  again do not end it (spot_e2e.rs:761).
* No code resets a validator on reconnect: a gap shows it, or nothing was missed.
* A depth frame that is malformed, or in the spot task longer than the 8 KiB
  `encode_buf`, is logged and skipped (spot_e2e.rs:448-478, futures_e2e.rs:247-266)
  before the validator sees it. The book stays trusted without it until the next
  delta shows the hole, although readme:403 wants a rebuild when the parser detects a
  malformed event. `NoMissedDelta` and `MissesOnlyByLag` therefore speak of the
  deltas a validator was given.
* The futures breaker never opens: a failed recovery is never tried again, and the
  book stays stale.
* Since the spot task takes no frame while it awaits a snapshot, every buffered
  delta is older than a current snapshot: a replay does something only when REST
  lags.

*Orders.*
* A status check that overtakes the order is answered `NotFound`, the order is
  rejected locally (machine.rs:483) and then accepted by the exchange: an orphan.
* After `enqueue` returned an error its request may still reach the file with
  the next append; a restart then holds a Pending order nobody asked for.
* After a restart the gateway knows its open orders and the engine none, so
  their reports are refused as `OrderNotTracked`.
* A live order ignores the result of a status check (`process_live`), so what a
  reconciliation finds out about one the engine takes for open reaches only the
  caller. The periodic reconciliation asks for the account alone.
* A `Canceled` answer closes the order without the fills it had executed, and one
  found filled by a check without `raw_trades` stays open in the gateway
  (reconciler.rs:461; set `TradesQueried` to FALSE and `Settled` fails).
* One open order that does not parse fails the whole of `reconcile_open_orders`.

*Arbiter.* After an instance went back to earlier ids the queue is no longer
ascending, and the comparison with its front (arbiter.rs:192) no longer tells what
was evicted: a report is dropped as stale although its id has an entry, and a later
verdict for that id compares a checksum that has been replaced. `told` therefore
leaves such reports out.

*Connector and publisher.*
* A connection may drop a live peer: the tick comes before the read of a pong that
  has arrived. `reconnect_count` is never reset and counts rotations too, so the
  backoff is at its cap for good after six of them.
* At startup the tasks wait for Aeron for ever, although main.rs:65-70 promises the
  null publisher after `connect_retries`. An interrupted start leaves the null
  publisher, and the task stops before it handles a frame (`NullGetsNothing`).
* (`connection_id`, sequence number) is not unique: the poller and connection 0 count
  for themselves, and a startup definition carries its position in exchangeInfo
  (refdata normalizer.rs:242), so those numbers do not ascend on the stream when the
  configured universe is in another order (main.rs:272). A normalizer failure uses up a
  number that nothing counts, and so does a message that does not fit the encode
  buffer (main.rs:103). `MaxPositionExceeded` never reconnects.
* No binary refreshes the reference data periodically (README.md:84), and no binary
  uses `BackpressureGuard`. `Heartbeater::is_due` is not true before the first beat
  when the clock is below one interval, whatever its comment says.

*Reference data.* An offer that a shard refuses counts as offered and is never
repeated; a delisted symbol stays as it was; one symbol that does not parse fails
the whole refresh.

*Tools.*
* A frame the replayer drops takes its time with it: its distance to the frame
  before is never added to the deterministic clock (replayer.rs:55-56).
* The comparator's `min_samples` is documented per symbol (lib.rs:48-49) and used
  for the total; it is `Stable` even if the shadow never publishes one of the
  symbols; an active price of 0 hides any difference.
* The bridge drops the kinds of messages that have no table (trading and feed status,
  snapshots, heartbeats) in `write` (main.rs:372) and counts them as `other`, with no
  log line of their own. It takes no signal while it waits for ClickHouse. `shutdown_flag` is set
  behind the loop it is to end, so the final flush never has rows, and the
  watcher's `_exit(0)` loses queued and buffered ones. A failed set-up ends the
  process with 0 and without a log line.
* The order gateway's `parse_scaled` refuses a fraction at a scale without digits,
  its other copies cut it.
* A scrape reads a histogram's buckets before its count, and `record` adds to them
  in that order too: a sample between the two reads makes the `+Inf` bucket smaller
  than the one below it (render.rs:53-60).
